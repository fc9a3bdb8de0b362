-------------------------- MODULE ModelWorkProofs --------------------------
(***************************************************************************)
(* What holds of the calls of a model and of what is made of them, for any *)
(* number of connections, beads, requests and lines.                       *)
(***************************************************************************)
EXTENDS MCModelWork, FiniteSetTheorems, FunctionTheorems, SequenceTheorems, WellFoundedInduction,
        TLAPS

USE SettingsAreTold

-----------------------------------------------------------------------------
(* Connections: settings and the store.                                    *)

AskRecord ==
  [pc : {"idle", "asked", "checked", "locked", "listed", "held", "cleared", "resolved", "over"},
   op : Ops \cup {"none"}, conn : Connection \cup {None}, file : Files, key : Keys,
   dirs : SUBSET Project, result : {"none", "provider", "fallback", "error"}]

SettingsTyped ==
  /\ assigned \in [Files -> [Keys -> Connection \cup {None}]]
  /\ ask \in [Asker -> AskRecord]

\* A deletion names a connection, and from the moment it has found it in the
\* store no other deletion gets in.
OneDeletion ==
  \A r \in Asker : ask[r].op = "delete" =>
    /\ ask[r].conn \in Connection
    /\ ask[r].pc \in {"held", "cleared"} => storeLock = r

\* Between the clearing of references and the removal, what refers to the
\* connection is late.
ClearedAreLate ==
  \A r \in Asker : Doing(r, "delete", "cleared") =>
    \A f \in Files, k \in Keys : assigned[f][k] = ask[r].conn => <<f, k>> \in late

SettingsInv == SettingsTyped /\ OneDeletion /\ ClearedAreLate /\ AssignmentsResolve

LEMMA NoAskTyped == NoAsk \in AskRecord
  BY DEF NoAsk, AskRecord, Ops, Files, Keys

\* A request that is through, for whatever reason, holds nothing.
LEMMA OverTyped ==
  ASSUME SettingsTyped, NEW r \in Asker,
         NEW result \in {"none", "provider", "fallback", "error"}, Over(r, result)
  PROVE  /\ ask' \in [Asker -> AskRecord]
         /\ ask'[r].op = "none" /\ \A q \in Asker \ {r} : ask'[q] = ask[q]
<1>1. [NoAsk EXCEPT !.pc = "over", !.result = result] \in AskRecord
  BY NoAskTyped DEF AskRecord
<1>2. [NoAsk EXCEPT !.pc = "over", !.result = result].op = "none"
  BY DEF NoAsk
<1> QED
  BY <1>1, <1>2 DEF Over, SettingsTyped

LEMMA MovesTyped ==
  ASSUME SettingsTyped, NEW r \in Asker,
         NEW to \in {"checked", "locked", "listed", "held", "cleared", "resolved"}, Moves(r, to)
  PROVE  /\ ask' \in [Asker -> AskRecord]
         /\ ask'[r] = [ask[r] EXCEPT !.pc = to]
         /\ ask'[r].pc = to /\ ask'[r].op = ask[r].op /\ ask'[r].conn = ask[r].conn
         /\ \A q \in Asker \ {r} : ask'[q] = ask[q]
<1>1. ask[r] \in AskRecord
  BY DEF SettingsTyped
<1>2. [ask[r] EXCEPT !.pc = to] \in AskRecord
  BY <1>1 DEF AskRecord
<1>3. ask' = [ask EXCEPT ![r] = [ask[r] EXCEPT !.pc = to]]
  BY DEF Moves, SettingsTyped
<1> QED
  BY <1>1, <1>2, <1>3 DEF SettingsTyped, AskRecord

\* A step that leaves the store and the settings alone keeps the invariant
\* when it brings no deletion past the lock.
LEMMA QuietStep ==
  ASSUME SettingsInv, NEW r \in Asker, UNCHANGED <<assigned, late>>, known \subseteq known',
         ask' \in [Asker -> AskRecord], \A q \in Asker \ {r} : ask'[q] = ask[q],
         ask'[r].op = "delete" =>
           /\ ask'[r].conn \in Connection
           /\ ask'[r].pc # "cleared"
           /\ ask'[r].pc = "held" => storeLock' = r,
         storeLock' = storeLock \/ storeLock = None
           \/ (ask[r].op = "delete" /\ ask[r].pc \in {"held", "cleared"})
  PROVE  SettingsInv'
<1>1. SettingsTyped'
  BY DEF SettingsInv, SettingsTyped
<1>2. OneDeletion'
  BY DEF SettingsInv, OneDeletion
<1>3. ClearedAreLate'
  BY DEF SettingsInv, ClearedAreLate, Doing
<1>4. AssignmentsResolve'
  BY DEF SettingsInv, AssignmentsResolve
<1> QED
  BY <1>1, <1>2, <1>3, <1>4 DEF SettingsInv
LEMMA ArriveQuiet ==
  ASSUME SettingsInv, NEW r \in Asker, Requests(r)
  PROVE  SettingsInv'
<1>1. UNCHANGED <<known, assigned, storeLock, late>>
  BY Zenon DEF Requests, Arrive, CreateConnection, UpdateConnection, TestConnection, DeleteConnection,
     SetGlobalStageDefault, SetProjectStageOverride, SetGlobalOperationDefault,
     SetProjectOperationOverride, DeleteGlobalOperationDefault,
     DeleteProjectOperationOverride, ResetProjectOverrides, CallModel
<1>2. \E new \in AskRecord :
        /\ ask' = [ask EXCEPT ![r] = new]
        /\ new.op = "delete" => new.conn \in Connection /\ new.pc = "asked"
  <2>1. ASSUME NEW op \in Ops, NEW c \in Connection \cup {None}, NEW f \in Files, NEW k \in Keys,
               Arrive(r, op, c, f, k), op = "delete" => c \in Connection
        PROVE  \E new \in AskRecord :
                 /\ ask' = [ask EXCEPT ![r] = new]
                 /\ new.op = "delete" => new.conn \in Connection /\ new.pc = "asked"
    <3> DEFINE new == [NoAsk EXCEPT !.pc = "asked", !.op = op, !.conn = c, !.file = f, !.key = k]
    <3>1. new \in AskRecord
      BY NoAskTyped DEF AskRecord
    <3>2. new.op = op /\ new.conn = c /\ new.pc = "asked"
      BY DEF NoAsk
    <3> QED
      BY <2>1, <3>1, <3>2 DEF Arrive
  <2>2. Global \in Files /\ Project \subseteq Files /\ {"stage", "operation"} = Keys
    BY DEF Files, Keys
  <2>3. CASE TestConnection(r)
    <3>1. PICK c \in Connection :
            ask' = [ask EXCEPT ![r] = [NoAsk EXCEPT !.pc = "resolved", !.op = "resolve", !.conn = c]]
      BY <2>3 DEF TestConnection
    <3>2. [NoAsk EXCEPT !.pc = "resolved", !.op = "resolve", !.conn = c] \in AskRecord
      BY NoAskTyped DEF AskRecord, Ops
    <3>3. [NoAsk EXCEPT !.pc = "resolved", !.op = "resolve", !.conn = c].op = "resolve"
      BY DEF NoAsk
    <3> QED
      BY <3>1, <3>2, <3>3
  <2>4. CASE DeleteConnection(r)
    <3>1. PICK c \in Connection : Arrive(r, "delete", c, Global, "stage")
      BY <2>4 DEF DeleteConnection
    <3> QED
      BY <2>1, <2>2, <3>1 DEF Ops
  <2>5. CASE CreateConnection(r) \/ DeleteGlobalOperationDefault(r)
    <3>1. \E op \in Ops \ {"delete"}, k \in Keys : Arrive(r, op, None, Global, k)
      BY <2>5 DEF CreateConnection, DeleteGlobalOperationDefault, Ops, Keys
    <3> QED
      BY <2>1, <2>2, <3>1
  <2>6. CASE UpdateConnection(r) \/ SetGlobalStageDefault(r) \/ SetGlobalOperationDefault(r)
    <3>1. \E op \in Ops \ {"delete"}, c \in Connection \cup {None}, k \in Keys :
            Arrive(r, op, c, Global, k)
      BY <2>6 DEF UpdateConnection, SetGlobalStageDefault, SetGlobalOperationDefault,
         Assignment, Ops, Keys
    <3> QED
      BY <2>1, <2>2, <3>1
  <2>7. CASE SetProjectStageOverride(r) \/ SetProjectOperationOverride(r)
             \/ DeleteProjectOperationOverride(r) \/ ResetProjectOverrides(r) \/ CallModel(r)
    <3>1. \E op \in Ops \ {"delete"}, c \in Connection \cup {None}, p \in Project, k \in Keys :
            Arrive(r, op, c, p, k)
      BY <2>7 DEF SetProjectStageOverride, SetProjectOperationOverride,
         DeleteProjectOperationOverride, ResetProjectOverrides, CallModel, Assignment, Ops, Keys
    <3> QED
      BY <2>1, <2>2, <3>1
  <2> QED
    BY <2>3, <2>4, <2>5, <2>6, <2>7 DEF Requests
<1>3. PICK new \in AskRecord :
        /\ ask' = [ask EXCEPT ![r] = new]
        /\ new.op = "delete" => new.conn \in Connection /\ new.pc = "asked"
  BY <1>2
<1>4. /\ ask' \in [Asker -> AskRecord] /\ ask'[r] = new
      /\ \A q \in Asker \ {r} : ask'[q] = ask[q]
  BY <1>3 DEF SettingsInv, SettingsTyped
<1> QED
  BY <1>1, <1>3, <1>4, QuietStep

\* The steps of a request that write no setting and remove no connection.
LEMMA ServeQuiet ==
  ASSUME SettingsInv, NEW r \in Asker,
         \/ Create(r) \/ GetConnection(r) \/ Update(r) \/ CollectProjectHostDirs(r)
         \/ LockStore(r) \/ CheckConnection(r) \/ LockFile(r)
         \/ ResolveForStageOperation(r) \/ ForConnection(r)
  PROVE  SettingsInv'
<1>t. SettingsTyped /\ ask \in [Asker -> AskRecord]
  BY DEF SettingsInv, SettingsTyped
<1>1. CASE \E result \in {"none", "provider", "fallback", "error"} : Over(r, result)
  <2>1. /\ ask' \in [Asker -> AskRecord]
        /\ ask'[r].op = "none" /\ \A q \in Asker \ {r} : ask'[q] = ask[q]
    BY <1>t, <1>1, OverTyped
  <2>2. UNCHANGED <<assigned, late>> /\ known \subseteq known'
        /\ (storeLock' = storeLock \/ storeLock = None)
    BY DEF Create, GetConnection, Update, CollectProjectHostDirs, LockStore, CheckConnection,
       LockFile, ResolveForStageOperation, ForConnection
  <2> QED
    BY <2>1, <2>2, QuietStep
<1>2. CASE \E to \in {"checked", "locked"} : Moves(r, to) /\ ask[r].op # "delete"
  <2>1. /\ ask' \in [Asker -> AskRecord]
        /\ ask'[r].op # "delete" /\ \A q \in Asker \ {r} : ask'[q] = ask[q]
    BY <1>t, <1>2, MovesTyped
  <2>2. UNCHANGED <<assigned, late>> /\ known \subseteq known'
        /\ (storeLock' = storeLock \/ storeLock = None)
    BY DEF Create, GetConnection, Update, CollectProjectHostDirs, LockStore, CheckConnection,
       LockFile, ResolveForStageOperation, ForConnection
  <2> QED
    BY <2>1, <2>2, QuietStep
<1>3. CASE LockStore(r) /\ Moves(r, "held")
  <2>1. /\ ask' \in [Asker -> AskRecord] /\ ask'[r].pc = "held" /\ ask'[r].conn = ask[r].conn
        /\ \A q \in Asker \ {r} : ask'[q] = ask[q]
    BY <1>t, <1>3, MovesTyped
  <2>2. UNCHANGED <<assigned, late, known>> /\ storeLock = None /\ ask[r].op = "delete"
    BY <1>3 DEF LockStore, Doing
  <2>3. storeLock' = r
    <3>1. ask'[r].op = "delete"
      BY <1>t, <1>3, <2>2, MovesTyped
    <3> QED
      BY <1>3, <3>1, OverTyped, <1>t DEF LockStore
  <2>4. ask[r].conn \in Connection
    BY <2>2 DEF SettingsInv, OneDeletion
  <2> QED
    BY <2>1, <2>2, <2>3, <2>4, QuietStep
<1>4. CASE CollectProjectHostDirs(r)
  <2>1. PICK dirs \in {Project, {}} : ask' = [ask EXCEPT ![r].pc = "listed", ![r].dirs = dirs]
    BY <1>4 DEF CollectProjectHostDirs
  <2>2. [ask[r] EXCEPT !.pc = "listed", !.dirs = dirs] \in AskRecord
    BY ZenonT(40), <1>t DEF AskRecord
  <2>3. ask' = [ask EXCEPT ![r] = [ask[r] EXCEPT !.pc = "listed", !.dirs = dirs]]
    BY <1>t, <2>1
  <2>4. /\ ask' \in [Asker -> AskRecord] /\ ask'[r].pc = "listed" /\ ask'[r].conn = ask[r].conn
        /\ \A q \in Asker \ {r} : ask'[q] = ask[q]
    BY <1>t, <2>2, <2>3 DEF AskRecord
  <2>5. UNCHANGED <<assigned, late, known, storeLock>> /\ ask[r].op = "delete"
    BY <1>4 DEF CollectProjectHostDirs, Doing
  <2>6. ask[r].conn \in Connection
    BY <2>5 DEF SettingsInv, OneDeletion
  <2> QED
    BY <2>4, <2>5, <2>6, QuietStep
<1>5. CASE ResolveForStageOperation(r)
  <2>1. PICK c : ask' = [ask EXCEPT ![r].conn = c, ![r].pc = "resolved"]
                 /\ c = IF ask[r].key = "operation" THEN ResolveOperation(ask[r].file)
                                                    ELSE ResolveStage(ask[r].file)
    BY <1>5 DEF ResolveForStageOperation
  <2>2. c \in Connection \cup {None}
    <3>1. ask[r].file \in Files /\ Global \in Files /\ {"stage", "operation"} = Keys
      BY <1>t DEF AskRecord, Files, Keys
    <3>2. \A f \in Files, k \in Keys : assigned[f][k] \in Connection \cup {None}
      BY <1>t DEF SettingsTyped
    <3> QED
      BY <2>1, <3>1, <3>2 DEF ResolveOperation, ResolveStage, FirstOf
  <2>3. [ask[r] EXCEPT !.conn = c, !.pc = "resolved"] \in AskRecord
    BY ZenonT(40), <1>t, <2>2 DEF AskRecord
  <2>4. ask' = [ask EXCEPT ![r] = [ask[r] EXCEPT !.conn = c, !.pc = "resolved"]]
    BY <1>t, <2>1
  <2>5. /\ ask' \in [Asker -> AskRecord] /\ ask'[r].op = ask[r].op
        /\ \A q \in Asker \ {r} : ask'[q] = ask[q]
    BY <1>t, <2>3, <2>4 DEF AskRecord
  <2>6. UNCHANGED <<assigned, late, known, storeLock>> /\ ask[r].op = "resolve"
    BY <1>5 DEF ResolveForStageOperation, Doing
  <2> QED
    BY <2>5, <2>6, QuietStep
<1>6. \/ \E result \in {"none", "provider", "fallback", "error"} : Over(r, result)
      \/ \E to \in {"checked", "locked"} : Moves(r, to) /\ ask[r].op # "delete"
      \/ LockStore(r) /\ Moves(r, "held")
      \/ CollectProjectHostDirs(r) \/ ResolveForStageOperation(r)
  BY DEF Create, GetConnection, Update, LockStore, CheckConnection,
     LockFile, ForConnection, Doing
<1> QED
  BY <1>1, <1>2, <1>3, <1>4, <1>5, <1>6
\* Entries change one at a time: one that says what it said stays late, and
\* one that is late and is not emptied stays late.
LEMMA EntriesResolve ==
  ASSUME SettingsInv, known' = known, NEW more,
         late' = Kept(late \cup more),
         \A f \in Files, k \in Keys :
           assigned'[f][k] \in {None, assigned[f][k]} \cup known \/ <<f, k>> \in late'
  PROVE  AssignmentsResolve'
<1> SUFFICES ASSUME NEW f \in Files, NEW k \in Keys, assigned'[f][k] \notin known \cup {None}
             PROVE  <<f, k>> \in late'
  BY DEF AssignmentsResolve
<1>1. CASE assigned'[f][k] = assigned[f][k]
  <2>1. <<f, k>> \in late
    BY <1>1 DEF SettingsInv, AssignmentsResolve
  <2>2. <<f, k>>[1] = f /\ <<f, k>>[2] = k
    OBVIOUS
  <2> QED
    BY <2>1, <2>2 DEF Kept
<1> QED
  BY <1>1

LEMMA ClearedTyped ==
  ASSUME SettingsTyped, NEW where, NEW which, NEW c
  PROVE  /\ Cleared(where, which, c) \in [Files -> [Keys -> Connection \cup {None}]]
         /\ \A f \in Files, k \in Keys :
              Cleared(where, which, c)[f][k] =
                IF f \in where /\ k \in which /\ assigned[f][k] = c THEN None ELSE assigned[f][k]
  BY DEF SettingsTyped, Cleared

LEMMA ClearKeeps ==
  ASSUME SettingsInv, NEW r \in Asker, ClearConnectionReferences(r)
  PROVE  SettingsInv'
<1> DEFINE c == ask[r].conn
           cleared == {Global} \cup ask[r].dirs
<1>1. /\ SettingsTyped /\ OneDeletion /\ ClearedAreLate
      /\ ask[r].op = "delete" /\ ask[r].pc = "held" /\ known' = known
  BY DEF SettingsInv, ClearConnectionReferences, Doing
<1>2. c \in Connection /\ storeLock = r /\ c # None
  BY <1>1 DEF OneDeletion
<1>3. \A q \in Asker \ {r} : ~(ask[q].op = "delete" /\ ask[q].pc \in {"held", "cleared"})
  BY <1>1, <1>2 DEF OneDeletion
<1>4. CASE /\ assigned' = Cleared(cleared, Keys, c)
           /\ late' = Kept(late \cup Unlisted(r))
           /\ Moves(r, "cleared") /\ UNCHANGED storeLock
  <2>1. /\ ask' \in [Asker -> AskRecord]
        /\ ask'[r].pc = "cleared" /\ ask'[r].op = ask[r].op /\ ask'[r].conn = ask[r].conn
        /\ \A q \in Asker \ {r} : ask'[q] = ask[q]
    BY <1>1, <1>4, MovesTyped
  <2>2. /\ assigned' \in [Files -> [Keys -> Connection \cup {None}]]
        /\ \A f \in Files, k \in Keys :
             assigned'[f][k] = IF f \in cleared /\ k \in Keys /\ assigned[f][k] = c
                                 THEN None ELSE assigned[f][k]
    BY <1>1, <1>4, ClearedTyped
  <2>3. AssignmentsResolve'
    BY <1>1, <1>4, <2>2, EntriesResolve
  <2>4. OneDeletion'
    BY <1>1, <1>2, <1>4, <2>1 DEF OneDeletion
  <2>5. ASSUME NEW f \in Files, NEW k \in Keys, assigned'[f][k] = c PROVE <<f, k>> \in late'
    <3>1. f \notin cleared /\ assigned[f][k] = c
      BY <1>2, <2>2, <2>5
    <3>2. <<f, k>> \in (Project \ ask[r].dirs) \X Keys
      BY <3>1 DEF Files
    <3>3. <<f, k>>[1] = f /\ <<f, k>>[2] = k
      OBVIOUS
    <3>4. <<f, k>> \in Unlisted(r)
      BY <3>1, <3>2, <3>3 DEF Unlisted
    <3> QED
      BY <1>2, <1>4, <2>5, <3>3, <3>4 DEF Kept
  <2>6. ClearedAreLate'
    BY <1>3, <2>1, <2>5 DEF ClearedAreLate, Doing
  <2>7. SettingsTyped'
    BY <2>1, <2>2 DEF SettingsTyped
  <2> QED
    BY <2>3, <2>4, <2>6, <2>7 DEF SettingsInv
<1>5. CASE /\ \E before : assigned' = Cleared(before, Keys, c)
           /\ late' = Kept(late) /\ Over(r, "error") /\ storeLock' = None
  <2>1. /\ ask' \in [Asker -> AskRecord]
        /\ ask'[r].op = "none" /\ \A q \in Asker \ {r} : ask'[q] = ask[q]
    BY <1>1, <1>5, OverTyped
  <2>2. PICK before : assigned' = Cleared(before, Keys, c)
    BY <1>5
  <2>3. /\ assigned' \in [Files -> [Keys -> Connection \cup {None}]]
        /\ \A f \in Files, k \in Keys :
             assigned'[f][k] = IF f \in before /\ k \in Keys /\ assigned[f][k] = c
                                 THEN None ELSE assigned[f][k]
    BY <1>1, <2>2, ClearedTyped
  <2>4. late' = Kept(late \cup {})
    BY <1>5
  <2>5. AssignmentsResolve'
    BY <1>1, <2>3, <2>4, EntriesResolve
  <2>6. OneDeletion'
    BY <1>1, <1>3, <2>1 DEF OneDeletion
  <2>7. ClearedAreLate'
    BY <1>3, <2>1 DEF ClearedAreLate, Doing
  <2>8. SettingsTyped'
    BY <2>1, <2>3 DEF SettingsTyped
  <2> QED
    BY <2>5, <2>6, <2>7, <2>8 DEF SettingsInv
<1> QED
  BY <1>4, <1>5 DEF ClearConnectionReferences

LEMMA RemoveKeeps ==
  ASSUME SettingsInv, NEW r \in Asker, RemoveConnection(r)
  PROVE  SettingsInv'
<1>1. /\ SettingsTyped /\ OneDeletion /\ ClearedAreLate /\ AssignmentsResolve
      /\ Doing(r, "delete", "cleared") /\ UNCHANGED <<assigned, late>>
      /\ known \ {ask[r].conn} \subseteq known'
  BY DEF SettingsInv, RemoveConnection
<1>2. \A q \in Asker \ {r} : ~(ask[q].op = "delete" /\ ask[q].pc \in {"held", "cleared"})
  BY <1>1 DEF OneDeletion, Doing
<1>3. /\ ask' \in [Asker -> AskRecord]
      /\ ask'[r].op = "none" /\ \A q \in Asker \ {r} : ask'[q] = ask[q]
  BY <1>1, OverTyped DEF RemoveConnection
<1>4. SettingsTyped'
  BY <1>1, <1>3 DEF SettingsTyped
<1>5. OneDeletion'
  BY <1>1, <1>2, <1>3 DEF OneDeletion
<1>6. ClearedAreLate'
  BY <1>2, <1>3 DEF ClearedAreLate, Doing
<1>7. AssignmentsResolve'
  BY <1>1 DEF AssignmentsResolve, ClearedAreLate
<1> QED
  BY <1>4, <1>5, <1>6, <1>7 DEF SettingsInv

LEMMA WriteKeeps ==
  ASSUME SettingsInv, NEW r \in Asker, NEW entries \in [Keys -> Connection \cup {None}],
         ask[r].op # "delete", Writes(r, entries),
         \A k \in Keys : entries[k] \in {None, assigned[ask[r].file][k]} \/ k = ask[r].key
  PROVE  SettingsInv'
<1> DEFINE file == ask[r].file
           key == ask[r].key
           more == {e \in {file} \X {key} : BeingRemoved(entries[e[2]])}
<1>1. /\ SettingsTyped /\ OneDeletion /\ ClearedAreLate /\ AssignmentsResolve
      /\ known' = known /\ storeLock' = storeLock
  BY DEF SettingsInv, Writes
<1>2. file \in Files /\ key \in Keys
  BY <1>1 DEF SettingsTyped, AskRecord
<1>3. /\ ask' \in [Asker -> AskRecord]
      /\ ask'[r].op = "none" /\ \A q \in Asker \ {r} : ask'[q] = ask[q]
  BY <1>1, OverTyped DEF Writes
<1>4. CASE UNCHANGED <<assigned, late>>
  BY <1>1, <1>3, <1>4, QuietStep
<1>5. CASE assigned' = [assigned EXCEPT ![file] = entries] /\ late' = Kept(late \cup more)
  <2>1. /\ assigned' \in [Files -> [Keys -> Connection \cup {None}]]
        /\ assigned'[file] = entries
        /\ \A f \in Files \ {file} : assigned'[f] = assigned[f]
    BY <1>1, <1>2, <1>5 DEF SettingsTyped
  <2>2. ASSUME entries[key] # None, BeingRemoved(entries[key]) PROVE <<file, key>> \in late'
    <3>1. <<file, key>>[1] = file /\ <<file, key>>[2] = key /\ <<file, key>> \in {file} \X {key}
      OBVIOUS
    <3>2. <<file, key>> \in more
      BY <2>2, <3>1
    <3> HIDE DEF more, file, key
    <3> QED
      BY <1>5, <2>1, <2>2, <3>1, <3>2 DEF Kept
  <2>3. \A f \in Files, k \in Keys :
          assigned'[f][k] \in {None, assigned[f][k]} \cup known \/ <<f, k>> \in late'
    <3>1. \A k \in Keys : entries[k] \in {None, assigned[file][k]} \cup known \/ <<file, k>> \in late'
      BY <2>2 DEF BeingRemoved
    <3> QED
      BY <2>1, <3>1
  <2>4. AssignmentsResolve'
    BY <1>1, <1>5, <2>3, EntriesResolve
  <2>5. OneDeletion'
    BY <1>1, <1>3 DEF OneDeletion
  <2>6. ASSUME NEW q \in Asker, Doing(q, "delete", "cleared")',
               NEW f \in Files, NEW k \in Keys, assigned'[f][k] = ask'[q].conn
        PROVE  <<f, k>> \in late'
    <3>1. q # r /\ ask'[q] = ask[q] /\ Doing(q, "delete", "cleared")
      BY <1>3, <2>6 DEF Doing
    <3>2. ask[q].conn \in Connection /\ ask[q].conn # None
      BY <1>1, <3>1 DEF OneDeletion, Doing
    <3>3. CASE f = file /\ k = key
      BY <2>1, <2>2, <2>6, <3>1, <3>2, <3>3 DEF BeingRemoved
    <3>4. CASE ~(f = file /\ k = key)
      <4>1. assigned[f][k] = ask[q].conn
        BY <2>1, <2>6, <3>1, <3>2, <3>4
      <4>2. <<f, k>> \in late
        BY <1>1, <3>1, <4>1 DEF ClearedAreLate
      <4>3. <<f, k>>[1] = f /\ <<f, k>>[2] = k
        OBVIOUS
      <4> QED
        BY <1>5, <2>6, <3>1, <3>2, <4>2, <4>3 DEF Kept
    <3> QED
      BY <3>3, <3>4
  <2>7. ClearedAreLate'
    BY <2>6 DEF ClearedAreLate
  <2>8. SettingsTyped'
    BY <1>3, <2>1 DEF SettingsTyped
  <2> QED
    BY <2>4, <2>5, <2>7, <2>8 DEF SettingsInv
<1> QED
  BY <1>4, <1>5 DEF Writes

\* After a crash no request is under way: nothing holds a lock.
LEMMA SettingsCrashKeeps ==
  ASSUME SettingsInv, Crash
  PROVE  SettingsInv'
<1>1. /\ SettingsTyped /\ OneDeletion /\ AssignmentsResolve
      /\ UNCHANGED <<known, assigned, late>>
  BY DEF SettingsInv, Crash
<1>2. [NoAsk EXCEPT !.pc = "over"] \in AskRecord /\ [NoAsk EXCEPT !.pc = "over"].op = "none"
  BY NoAskTyped DEF AskRecord, NoAsk
<1>3. \A q \in Asker :
        \/ q \notin Serving /\ ask'[q] = ask[q]
        \/ ask'[q] = [NoAsk EXCEPT !.pc = "over"]
  BY DEF Crash
<1>4. ask' \in [Asker -> AskRecord]
  <2>1. DOMAIN ask' = Asker /\ ask' = [q \in Asker |-> ask'[q]]
    BY DEF Crash
  <2>2. \A q \in Asker : ask'[q] \in AskRecord
    BY <1>1, <1>2, <1>3 DEF SettingsTyped
  <2> QED
    BY <2>1, <2>2
<1>5. \A q \in Asker : ask'[q].op = "delete" =>
        ask'[q] = ask[q] /\ ask[q].pc \in {"idle", "over"}
  BY <1>2, <1>3 DEF Serving
<1>6. OneDeletion' /\ ClearedAreLate'
  BY <1>1, <1>5 DEF OneDeletion, ClearedAreLate, Doing
<1>7. SettingsTyped' /\ AssignmentsResolve'
  BY <1>1, <1>4 DEF SettingsTyped, AssignmentsResolve
<1> QED
  BY <1>6, <1>7 DEF SettingsInv

LEMMA SettingsStepKeeps ==
  ASSUME SettingsInv, SettingsNext
  PROVE  SettingsInv'
<1>1. ASSUME NEW r \in Asker, WriteAssignment(r) PROVE SettingsInv'
  <2>1. ask[r].op # "delete" /\ ask[r] \in AskRecord
    BY <1>1 DEF WriteAssignment, Doing, SettingsInv, SettingsTyped
  <2>2. ask[r].file \in Files /\ ask[r].conn \in Connection \cup {None}
    BY <2>1 DEF AskRecord
  <2>3. assigned[ask[r].file] \in [Keys -> Connection \cup {None}]
    BY <2>2 DEF SettingsInv, SettingsTyped
  <2> QED
    BY <1>1, <2>1, <2>2, <2>3, WriteKeeps DEF WriteAssignment
<1>2. ASSUME NEW r \in Asker, RemoveOverrides(r) PROVE SettingsInv'
  BY <1>2, WriteKeeps DEF RemoveOverrides, Doing
<1> QED
  BY <1>1, <1>2, ArriveQuiet, ServeQuiet, ClearKeeps, RemoveKeeps, SettingsCrashKeeps
  DEF SettingsNext, Serve

LEMMA SettingsStart ==
  ASSUME SettingsInit \/ SettingsAtRest
  PROVE  SettingsInv
<1>1. [NoAsk EXCEPT !.pc = "over"] \in AskRecord /\ [NoAsk EXCEPT !.pc = "over"].op = "none"
      /\ NoAsk.op = "none"
  BY NoAskTyped DEF AskRecord, NoAsk
<1>2. SettingsTyped
  BY <1>1, NoAskTyped DEF SettingsTyped, SettingsInit, SettingsAtRest
<1>3. \A r \in Asker : ask[r].op = "none"
  BY <1>1 DEF SettingsInit, SettingsAtRest
<1>4. AssignmentsResolve
  BY DEF AssignmentsResolve, SettingsInit, SettingsAtRest
<1> QED
  BY <1>2, <1>3, <1>4 DEF SettingsInv, OneDeletion, ClearedAreLate, Doing
-----------------------------------------------------------------------------
(* The repository of a project.                                            *)

RepoTyped ==
  /\ {tree, index} \subseteq SUBSET Path
  /\ log \in Seq(SUBSET Path) /\ log # <<>>
  /\ turn \in [Actor -> Turns]
  /\ post \in [Bead -> SUBSET Path]

\* Where the file of a bead is while its worker goes from one command to the
\* next, when no command failed for it and nobody threw the file away.
WorkIsThere ==
  \A w \in Bead \ spoiled :
    /\ turn[w] \in {"written", "add", "commit", "hash"} => w \in tree
    /\ turn[w] \in {"commit", "hash"} => w \in index
    /\ turn[w] = "hash" => w \in Last(log)

RepoInv == RepoTyped /\ WorkIsThere /\ BeadDiffHasItsWork

LEMMA GoesTyped ==
  ASSUME RepoTyped, NEW a \in Actor, NEW where \in Turns, Goes(a, where)
  PROVE  /\ turn' \in [Actor -> Turns] /\ turn'[a] = where
         /\ \A b \in Actor \ {a} : turn'[b] = turn[b]
  BY DEF RepoTyped, Goes

LEMMA HeadIsPath ==
  ASSUME RepoTyped
  PROVE  Last(log) \in SUBSET Path /\ \A n \in DOMAIN log : log[n] \in SUBSET Path
  BY DEF RepoTyped, Last

\* A step of another actor, which throws nothing away that is not recorded
\* as thrown away, leaves a worker's file where it has to be.
LEMMA OthersStep ==
  ASSUME RepoInv, NEW w \in Bead, w \notin spoiled', spoiled \subseteq spoiled',
         turn'[w] = turn[w], post' = post,
         w \in tree => w \in tree',
         (w \in tree /\ w \in index) => w \in index',
         (w \in index /\ w \in Last(log)) => w \in Last(log')
  PROVE  /\ turn'[w] \in {"written", "add", "commit", "hash"} => w \in tree'
         /\ turn'[w] \in {"commit", "hash"} => w \in index'
         /\ turn'[w] = "hash" => w \in Last(log')
         /\ turn'[w] = "over" => w \in post'[w]
  BY DEF RepoInv, WorkIsThere, BeadDiffHasItsWork

\* The same for everyone, when the actor of the step is no worker or has
\* come where its file is.
LEMMA RepoStep ==
  ASSUME RepoInv, RepoTyped', NEW a \in Actor, post' = post, spoiled \subseteq spoiled',
         \A b \in Actor \ {a} : turn'[b] = turn[b],
         \A w \in Bead \ spoiled' :
           /\ w \in tree => w \in tree'
           /\ (w \in tree /\ w \in index) => w \in index'
           /\ (w \in index /\ w \in Last(log)) => w \in Last(log'),
         a \in Bead \ spoiled' =>
           /\ turn'[a] \in {"written", "add", "commit", "hash"} => a \in tree'
           /\ turn'[a] \in {"commit", "hash"} => a \in index'
           /\ turn'[a] = "hash" => a \in Last(log')
           /\ turn'[a] # "over"
  PROVE  RepoInv'
<1>1. \A w \in Bead : w \in Actor
  BY DEF Actor
<1>2. \A w \in Bead \ spoiled' : w # a =>
         /\ turn'[w] \in {"written", "add", "commit", "hash"} => w \in tree'
         /\ turn'[w] \in {"commit", "hash"} => w \in index'
         /\ turn'[w] = "hash" => w \in Last(log')
         /\ turn'[w] = "over" => w \in post'[w]
  BY <1>1, OthersStep
<1>3. WorkIsThere'
  BY <1>2 DEF WorkIsThere
<1>4. BeadDiffHasItsWork'
  BY <1>2 DEF BeadDiffHasItsWork
<1> QED
  BY <1>3, <1>4 DEF RepoInv

LEMMA MethodKeeps ==
  ASSUME RepoInv, NEW a \in Actor, Method(a)
  PROVE  RepoInv'
<1>t. /\ RepoTyped /\ tree \in SUBSET Path /\ index \in SUBSET Path
      /\ Last(log) \in SUBSET Path /\ \A n \in DOMAIN log : log[n] \in SUBSET Path
  BY HeadIsPath DEF RepoInv, RepoTyped
<1>n. User \notin Bead /\ User \in Actor /\ Approval \notin Bead /\ Approval \in Actor
  BY RepositoryNames DEF Actor
<1>a. AfterMethod(a) \in {"hash", "push", "idle"} /\ (a \in Bead => AfterMethod(a) = "hash")
      /\ AfterMethod(Approval) \in {"hash", "push", "idle"}
  BY RepositoryNames DEF AfterMethod, Actor
<1>1. CASE AddAll(a)
  <2>1. turn' \in [Actor -> Turns] /\ turn'[a] = "commit" /\ \A b \in Actor \ {a} : turn'[b] = turn[b]
    BY <1>t, <1>1, GoesTyped DEF AddAll, Turns
  <2>2. index' = tree /\ UNCHANGED <<tree, log, post, spoiled>> /\ turn[a] = "add"
    BY <1>1 DEF AddAll, Recorded
  <2>3. RepoTyped'
    BY <1>t, <2>1, <2>2 DEF RepoTyped
  <2>4. a \in Bead \ spoiled => a \in tree
    BY <2>2 DEF RepoInv, WorkIsThere
  <2> QED
    BY <2>1, <2>2, <2>3, <2>4, RepoStep
<1>2. CASE CommitIndex(a)
  <2>1. turn' \in [Actor -> Turns] /\ turn'[a] = AfterMethod(a)
        /\ \A b \in Actor \ {a} : turn'[b] = turn[b]
    BY <1>t, <1>a, <1>2, GoesTyped DEF CommitIndex, Turns
  <2>2. UNCHANGED <<tree, index, post, spoiled>> /\ turn[a] = "commit"
    BY <1>2 DEF CommitIndex, Recorded
  <2>3. log' \in Seq(SUBSET Path) /\ log' # <<>> /\ Last(log') = index
    <3>1. CASE index = Last(log)
      BY <1>t, <1>2, <3>1 DEF CommitIndex, RepoTyped
    <3>2. CASE index # Last(log)
      <4>1. log' = Append(log, index) /\ log \in Seq(SUBSET Path)
        BY <1>t, <1>2, <3>2 DEF CommitIndex, RepoTyped
      <4> HIDE DEF Path
      <4>2. log' \in Seq(SUBSET Path) /\ Len(log') = Len(log) + 1 /\ log'[Len(log) + 1] = index
        BY <1>t, <4>1
      <4> QED
        BY <4>2, <4>1 DEF Last
    <3> QED
      BY <3>1, <3>2
  <2>4. RepoTyped'
    BY <1>t, <2>1, <2>2, <2>3 DEF RepoTyped
  <2>5. a \in Bead \ spoiled => a \in tree /\ a \in index
    BY <2>2 DEF RepoInv, WorkIsThere
  <2>6. a \in Bead => turn'[a] = "hash"
    BY <1>a, <2>1
  <2> QED
    BY <2>1, <2>2, <2>3, <2>4, <2>5, <2>6, RepoStep
<1>3. CASE Fails(a)
  <2>1. turn' \in [Actor -> Turns] /\ \A b \in Actor \ {a} : turn'[b] = turn[b]
    BY <1>t, <1>a, <1>3, GoesTyped DEF Fails, Turns
  <2>2. UNCHANGED <<tree, index, log, post>> /\ spoiled \subseteq spoiled'
        /\ (a \in Bead => a \in spoiled')
    BY <1>n, <1>3 DEF Fails, Recorded
  <2>3. RepoTyped'
    BY <1>t, <2>1, <2>2 DEF RepoTyped
  <2> QED
    BY <2>1, <2>2, <2>3, RepoStep
<1>4. CASE AddPath
  <2>1. turn' \in [Actor -> Turns] /\ \A b \in Actor \ {Approval} : turn'[b] = turn[b]
    <3>1. \E where \in Turns : Goes(Approval, where)
      BY <1>a, <1>4 DEF AddPath, Turns
    <3> QED
      BY <1>t, <1>n, <3>1, GoesTyped
  <2>2. UNCHANGED <<tree, log, post, spoiled>> /\ index \subseteq index' /\ index' \in SUBSET Path
    BY <1>t, <1>4 DEF AddPath, Recorded
  <2>3. RepoTyped'
    BY <1>t, <2>1, <2>2 DEF RepoTyped
  <2> QED
    BY <1>n, <2>1, <2>2, <2>3, RepoStep
<1>5. CASE a = User /\ (Unstage \/ RestoreAndClean)
  <2>1. turn' \in [Actor -> Turns] /\ \A b \in Actor \ {User} : turn'[b] = turn[b]
    <3>1. \E where \in Turns : Goes(User, where)
      BY <1>5 DEF Unstage, RestoreAndClean, Turns
    <3> QED
      BY <1>t, <1>n, <3>1, GoesTyped
  <2>2. /\ UNCHANGED <<log, post>> /\ spoiled' = Thrown
        /\ tree' \in SUBSET Path /\ index' \in SUBSET Path
    BY <1>t, <1>5 DEF Unstage, RestoreAndClean, Recorded
  <2>3. RepoTyped'
    BY <1>t, <2>1, <2>2 DEF RepoTyped
  <2>4. spoiled \subseteq spoiled'
        /\ \A w \in Bead \ spoiled' : (w \in tree => w \in tree') /\ (w \in index => w \in index')
    BY <2>2 DEF Thrown
  <2> QED
    BY <1>n, <2>1, <2>2, <2>3, <2>4, RepoStep
<1>6. CASE a = User /\ \E n \in DOMAIN log : ResetHard(n)
  <2>0. PICK n \in DOMAIN log : ResetHard(n)
    BY <1>6
  <2>1. turn' \in [Actor -> Turns] /\ \A b \in Actor \ {User} : turn'[b] = turn[b]
    BY <1>t, <1>n, <2>0, GoesTyped DEF ResetHard, Turns
  <2>2. /\ post' = post /\ spoiled' = Thrown /\ index' = log[n] /\ log' = SubSeq(log, 1, n)
        /\ tree' \in SUBSET Path /\ index' \in SUBSET Path
    BY <1>t, <2>0 DEF ResetHard, Recorded
  <2>3. log' \in Seq(SUBSET Path) /\ log' # <<>> /\ Last(log') = index'
    <3>1. log \in Seq(SUBSET Path) /\ n \in 1 .. Len(log)
      BY <1>t DEF RepoTyped
    <3> HIDE DEF Path
    <3>2. log' \in Seq(SUBSET Path) /\ Len(log') = n /\ log'[n] = log[n]
      BY <2>2, <3>1, SubSeqProperties
    <3> QED
      BY <2>2, <3>1, <3>2 DEF Last
  <2>4. RepoTyped'
    BY <1>t, <2>1, <2>2, <2>3 DEF RepoTyped
  <2>5. spoiled \subseteq spoiled'
        /\ \A w \in Bead \ spoiled' : (w \in tree => w \in tree') /\ (w \in index => w \in index')
    BY <2>2 DEF Thrown
  <2> QED
    BY <1>n, <2>1, <2>2, <2>3, <2>4, <2>5, RepoStep
<1> QED
  BY <1>1, <1>2, <1>3, <1>4, <1>5, <1>6 DEF Method

LEMMA RepoStepKeeps ==
  ASSUME RepoInv, RepoNext
  PROVE  RepoInv'
<1>t. /\ RepoTyped /\ tree \in SUBSET Path /\ index \in SUBSET Path
      /\ Last(log) \in SUBSET Path
  BY HeadIsPath DEF RepoInv, RepoTyped
<1>n. User \notin Bead /\ User \in Actor /\ Approval \notin Bead /\ Approval \in Actor
      /\ \A w \in Bead : w \in Actor /\ w \in Path
  BY RepositoryNames DEF Actor, Path
<1>1. ASSUME NEW a \in Actor, Method(a) PROVE RepoInv'
  BY <1>1, MethodKeeps
<1>2. ASSUME NEW w \in Bead, AgentWrites(w) \/ CommitWork(w) PROVE RepoInv'
  <2>1. /\ turn' \in [Actor -> Turns] /\ turn'[w] \in {"written", "add"}
        /\ \A b \in Actor \ {w} : turn'[b] = turn[b]
    BY <1>t, <1>n, <1>2, GoesTyped DEF AgentWrites, CommitWork, Turns
  <2>2. UNCHANGED <<index, log, post, spoiled>> /\ tree \subseteq tree' /\ tree' \in SUBSET Path
    BY <1>t, <1>n, <1>2 DEF AgentWrites, CommitWork, Recorded
  <2>3. w \notin spoiled => w \in tree'
    BY <1>2 DEF AgentWrites, CommitWork, RepoInv, WorkIsThere
  <2>4. RepoTyped'
    BY <1>t, <2>1, <2>2 DEF RepoTyped
  <2> QED
    BY <1>n, <2>1, <2>2, <2>3, <2>4, RepoStep
<1>3. ASSUME NEW w \in Bead, RecordCommit(w) PROVE RepoInv'
  <2>1. /\ turn' \in [Actor -> Turns] /\ turn'[w] = "over"
        /\ \A b \in Actor \ {w} : turn'[b] = turn[b]
    BY <1>t, <1>n, <1>3, GoesTyped DEF RecordCommit, Turns
  <2>2. UNCHANGED <<tree, index, log, spoiled>> /\ post' = [post EXCEPT ![w] = Last(log)]
    BY <1>3 DEF RecordCommit
  <2>3. RepoTyped'
    BY <1>t, <2>1, <2>2 DEF RepoTyped
  <2>4. w \notin spoiled => w \in post'[w]
    BY <1>t, <1>3, <2>2 DEF RecordCommit, RepoInv, WorkIsThere, RepoTyped
  <2>5. \A v \in Bead \ {w} : turn'[v] = turn[v] /\ post'[v] = post[v]
    BY <1>t, <1>n, <2>1, <2>2 DEF RepoTyped
  <2>6. WorkIsThere'
    BY <2>1, <2>2, <2>5 DEF WorkIsThere, RepoInv
  <2>7. BeadDiffHasItsWork'
    BY <2>2, <2>4, <2>5 DEF BeadDiffHasItsWork, RepoInv
  <2> QED
    BY <2>3, <2>6, <2>7 DEF RepoInv
<1>4. CASE Approve \/ Requested
  <2>1. PICK a \in {Approval, User} : \E where \in Turns : Goes(a, where)
    BY <1>4 DEF Approve, Requested, WriteDocuments, CommitDocuments, Push, AskCommit, AskReset,
       AskDiscard, Ask, Turns
  <2>2. turn' \in [Actor -> Turns] /\ \A b \in Actor \ {a} : turn'[b] = turn[b]
    BY <1>t, <1>n, <2>1, GoesTyped
  <2>3. UNCHANGED <<index, log, post, spoiled>> /\ tree \subseteq tree' /\ tree' \in SUBSET Path
    BY <1>t, <1>4 DEF Approve, Requested, WriteDocuments, CommitDocuments, Push, AskCommit, AskReset,
       AskDiscard, Ask, Recorded, Path
  <2>4. RepoTyped'
    BY <1>t, <2>2, <2>3 DEF RepoTyped
  <2> QED
    BY <1>n, <2>2, <2>3, <2>4, RepoStep
<1> QED
  BY <1>1, <1>2, <1>3, <1>4 DEF RepoNext, Work

LEMMA RepoStart ==
  ASSUME RepoInit \/ RepoAtRest
  PROVE  RepoInv
<1>1. RepoTyped
  <2>1. {} \in SUBSET Path /\ Bead \in SUBSET Path
    BY DEF Path
  <2>2. <<{}>> \in Seq(SUBSET Path) /\ <<{}>> # <<>>
    BY <2>1
  <2> QED
    BY <2>1, <2>2 DEF RepoInit, RepoAtRest, RepoTyped, Turns
<1>2. WorkIsThere /\ BeadDiffHasItsWork
  BY DEF RepoInit, RepoAtRest, WorkIsThere, BeadDiffHasItsWork, Actor
<1> QED
  BY <1>1, <1>2 DEF RepoInv
-----------------------------------------------------------------------------
(* What a run learns from its beads.                                       *)

Absent(list, a) == \A i \in DOMAIN list : list[i] # a
Once(list, a) == \E i \in DOMAIN list : list[i] = a /\ \A j \in DOMAIN list : list[j] = a => j = i

Spender == Analyst \cup {"beads"}

ObserverTyped ==
  /\ ObserverTypeOK
  /\ queue \in Seq(Spender) /\ sessions \in Seq(Spender)

\* A closed bead waits in the buffer or is in the batch of one analysis.
OneBatch ==
  /\ \A b \in recorded :
       \/ b \in buffer /\ \A a \in Analyst : b \notin analysis[a].batch
       \/ b \notin buffer /\ \E a \in Analyst : /\ b \in analysis[a].batch
                                                /\ \A c \in Analyst : b \in analysis[c].batch => c = a
  /\ \A b \in Observed \ recorded : \A a \in Analyst : b \notin analysis[a].batch

\* Who is not yet called has nothing, and at the end of the run nothing is
\* left in the buffer but what its own analysis is about to take.
CallsInOrder ==
  /\ \A a \in Analyst : analysis[a].at \in {"none", "called"} => analysis[a].batch = {}
  /\ \A b \in Observed \ recorded : analysis[b].at = "none"
  /\ running = "working" => analysis[Run].at = "none"
  /\ running = "flushing" => buffer = {} \/ analysis[Run].at = "called"
  /\ running \in {"flushed", "over"} => buffer = {}

\* The tokens of an analysis are still in its hands, in the channel or in the
\* log.
SpentOnce(a) ==
  \/ analysis[a].at = "spent" /\ Absent(queue, a) /\ Absent(sessions, a)
  \/ analysis[a].at # "spent" /\ Once(queue, a) /\ Absent(sessions, a)
  \/ analysis[a].at # "spent" /\ Absent(queue, a) /\ Once(sessions, a)

Costs ==
  \A a \in Analyst :
    /\ a \in spent => SpentOnce(a) /\ analysis[a].at \notin {"none", "called", "asked"}
    /\ a \notin spent => analysis[a].at # "spent" /\ Absent(queue, a) /\ Absent(sessions, a)

ObserverInv == ObserverTyped /\ OneBatch /\ CallsInOrder /\ Costs

LEMMA CountAppend ==
  ASSUME NEW S, NEW list \in Seq(S), NEW x \in S, NEW a
  PROVE  /\ x = a /\ Absent(list, a) => Once(Append(list, x), a)
         /\ x # a /\ Absent(list, a) => Absent(Append(list, x), a)
         /\ x # a /\ Once(list, a) => Once(Append(list, x), a)
<1> DEFINE more == Append(list, x)
<1>1. /\ DOMAIN list = 1 .. Len(list) /\ Len(list) \in Nat
      /\ DOMAIN more = 1 .. Len(list) + 1
      /\ more[Len(list) + 1] = x /\ \A i \in 1 .. Len(list) : more[i] = list[i]
  OBVIOUS
<1> HIDE DEF more
<1>2. \A i \in DOMAIN more : i = Len(list) + 1 \/ i \in DOMAIN list
  BY <1>1
<1>3. DOMAIN list \subseteq DOMAIN more /\ Len(list) + 1 \in DOMAIN more
      /\ Len(list) + 1 \notin DOMAIN list
  BY <1>1
<1>4. x = a /\ Absent(list, a) => Once(more, a)
  BY <1>1, <1>2, <1>3 DEF Absent, Once
<1>5. x # a /\ Absent(list, a) => Absent(more, a)
  BY <1>1, <1>2, <1>3 DEF Absent
<1>6. x # a /\ Once(list, a) => Once(more, a)
  <2> SUFFICES ASSUME x # a, NEW i \in DOMAIN list, list[i] = a,
                      \A j \in DOMAIN list : list[j] = a => j = i
               PROVE  Once(more, a)
    BY DEF Once
  <2>1. i \in DOMAIN more /\ more[i] = a
    BY <1>1, <1>3
  <2>2. \A j \in DOMAIN more : more[j] = a => j = i
    BY <1>1, <1>2
  <2> QED
    BY <2>1, <2>2 DEF Once
<1> QED
  BY <1>4, <1>5, <1>6 DEF more

LEMMA CountTail ==
  ASSUME NEW S, NEW list \in Seq(S), list # <<>>, NEW a
  PROVE  /\ Absent(list, a) => Head(list) # a /\ Absent(Tail(list), a)
         /\ Head(list) = a /\ Once(list, a) => Absent(Tail(list), a)
         /\ Head(list) # a /\ Once(list, a) => Once(Tail(list), a)
<1> DEFINE rest == Tail(list)
<1>1. /\ DOMAIN list = 1 .. Len(list) /\ Len(list) \in Nat /\ Len(list) # 0
      /\ DOMAIN rest = 1 .. Len(list) - 1 /\ Head(list) = list[1]
      /\ \A i \in 1 .. Len(list) - 1 : rest[i] = list[i + 1]
  OBVIOUS
<1> HIDE DEF rest
<1>2. \A i \in DOMAIN rest : i + 1 \in DOMAIN list /\ i + 1 # 1 /\ rest[i] = list[i + 1]
  BY <1>1
<1>3. Absent(list, a) => Head(list) # a /\ Absent(rest, a)
  BY <1>1, <1>2 DEF Absent
<1>4. Head(list) = a /\ Once(list, a) => Absent(rest, a)
  <2>1. 1 \in DOMAIN list
    BY <1>1
  <2> QED
    BY <1>1, <1>2, <2>1 DEF Absent, Once
<1>5. Head(list) # a /\ Once(list, a) => Once(rest, a)
  <2> SUFFICES ASSUME Head(list) # a, NEW i \in DOMAIN list, list[i] = a,
                      \A j \in DOMAIN list : list[j] = a => j = i
               PROVE  Once(rest, a)
    BY DEF Once
  <2>1. i - 1 \in DOMAIN rest /\ rest[i - 1] = a
    BY <1>1
  <2>2. \A j \in DOMAIN rest : rest[j] = a => j = i - 1
    <3> SUFFICES ASSUME NEW j \in DOMAIN rest, rest[j] = a PROVE j = i - 1
      OBVIOUS
    <3>1. j + 1 = i
      BY <1>2
    <3> QED
      BY <1>1, <3>1
  <2> QED
    BY <2>1, <2>2 DEF Once
<1> QED
  BY <1>3, <1>4, <1>5 DEF rest

LEMMA OnceCounts ==
  ASSUME NEW list, NEW a, Once(list, a)
  PROVE  Cardinality({i \in DOMAIN list : list[i] = a}) = 1
<1>1. PICK i \in DOMAIN list : list[i] = a /\ \A j \in DOMAIN list : list[j] = a => j = i
  BY DEF Once
<1>2. {j \in DOMAIN list : list[j] = a} = {i}
  BY <1>1
<1> QED
  BY <1>2, FS_Singleton

\* What is proved of the observer follows from the invariant.
LEMMA ObserverMeans ==
  ASSUME ObserverInv
  PROVE  EveryBeadIsAnalysed
<1> SUFFICES ASSUME Quiet
             PROVE  /\ \A b \in recorded : Cardinality({a \in Analyst : b \in analysis[a].batch}) = 1
                    /\ \A a \in spent : Cardinality({i \in DOMAIN sessions : sessions[i] = a}) = 1
  BY DEF EveryBeadIsAnalysed
<1>1. ASSUME NEW b \in recorded
      PROVE  Cardinality({a \in Analyst : b \in analysis[a].batch}) = 1
  <2>1. buffer = {}
    BY DEF ObserverInv, CallsInOrder, Quiet
  <2>2. PICK a \in Analyst : /\ b \in analysis[a].batch
                             /\ \A c \in Analyst : b \in analysis[c].batch => c = a
    BY <2>1 DEF ObserverInv, OneBatch
  <2>3. {c \in Analyst : b \in analysis[c].batch} = {a}
    BY <2>2
  <2> QED
    BY <2>3, FS_Singleton
<1>2. ASSUME NEW a \in spent
      PROVE  Cardinality({i \in DOMAIN sessions : sessions[i] = a}) = 1
  <2>1. a \in Analyst
    BY DEF ObserverInv, ObserverTyped, ObserverTypeOK
  <2>2. queue = <<>> /\ analysis[a].at \in {"none", "over"}
    BY <2>1 DEF Quiet
  <2>3. ~Once(queue, a)
    BY <2>2 DEF Once
  <2>4. Once(sessions, a)
    BY <2>1, <2>2, <2>3 DEF ObserverInv, Costs, SpentOnce
  <2> QED
    BY <2>4, OnceCounts
<1> QED
  BY <1>1, <1>2
AnalysisRecord ==
  [at : {"none", "called", "asked", "spent", "found", "read", "writing", "over"},
   batch : SUBSET Observed, seen : SUBSET Analyst]

LEMMA ObserverTypes ==
  ASSUME ObserverTyped
  PROVE  /\ analysis \in [Analyst -> AnalysisRecord]
         /\ recorded \in SUBSET Observed /\ buffer \in SUBSET recorded
         /\ skills \in SUBSET Analyst /\ spent \in SUBSET Analyst
         /\ queue \in Seq(Spender) /\ sessions \in Seq(Spender)
         /\ Len(queue) \in Nat /\ Len(queue) <= Room /\ Room \in Nat
         /\ running \in {"working", "flushing", "flushed", "over"}
         /\ shape \in {"whole", "empty", "mixed"} /\ down \in BOOLEAN
  BY ObserverBounds DEF ObserverTyped, ObserverTypeOK, AnalysisRecord

LEMMA ReachesTyped ==
  ASSUME ObserverTyped, NEW a \in Analyst,
         NEW where \in {"none", "called", "asked", "spent", "found", "read", "writing", "over"},
         Reaches(a, where)
  PROVE  /\ analysis' \in [Analyst -> AnalysisRecord]
         /\ analysis'[a].at = where /\ analysis'[a].batch = analysis[a].batch
         /\ \A c \in Analyst \ {a} : analysis'[c] = analysis[c]
<1>1. analysis \in [Analyst -> AnalysisRecord]
  BY ObserverTypes
<1>2. analysis' = [analysis EXCEPT ![a] = [analysis[a] EXCEPT !.at = where]]
  BY <1>1 DEF Reaches
<1>3. [analysis[a] EXCEPT !.at = where] \in AnalysisRecord
  BY <1>1 DEF AnalysisRecord
<1>4. /\ [analysis[a] EXCEPT !.at = where].at = where
      /\ [analysis[a] EXCEPT !.at = where].batch = analysis[a].batch
  BY <1>1 DEF AnalysisRecord
<1> QED
  BY <1>1, <1>2, <1>3, <1>4

\* A step of an analysis that has its batch moves no bead.
LEMMA BatchesStay ==
  ASSUME ObserverInv, NEW a \in Analyst, UNCHANGED <<recorded, buffer, running>>,
         analysis[a].at \notin {"none", "called"}, analysis'[a].at \notin {"none", "called"},
         analysis'[a].batch = analysis[a].batch,
         \A c \in Analyst \ {a} : analysis'[c] = analysis[c]
  PROVE  OneBatch' /\ CallsInOrder'
<1>1. \A c \in Analyst : analysis'[c].batch = analysis[c].batch
  OBVIOUS
<1>2. OneBatch'
  BY <1>1 DEF ObserverInv, OneBatch
<1>3. CallsInOrder'
  <2>1. \A b \in Observed : b \in Analyst
    BY DEF Analyst
  <2>2. Run \in Analyst
    BY DEF Analyst
  <2> QED
    BY <1>1, <2>1, <2>2 DEF ObserverInv, CallsInOrder
<1> QED
  BY <1>2, <1>3

\* Nobody's tokens move when the lists stay and nobody comes to or from the
\* point where it has them.
LEMMA CostsStay ==
  ASSUME Costs, UNCHANGED <<queue, sessions, spent>>,
         \A a \in Analyst :
           /\ analysis'[a].at = "spent" <=> analysis[a].at = "spent"
           /\ analysis[a].at \notin {"none", "called", "asked"}
                => analysis'[a].at \notin {"none", "called", "asked"}
  PROVE  Costs'
<1> SUFFICES ASSUME NEW a \in Analyst
             PROVE  /\ a \in spent' => SpentOnce(a)' /\ analysis'[a].at \notin {"none", "called", "asked"}
                    /\ a \notin spent' => analysis'[a].at # "spent" /\ Absent(queue', a) /\ Absent(sessions', a)
  BY DEF Costs
<1>1. /\ Absent(queue', a) <=> Absent(queue, a)
      /\ Absent(sessions', a) <=> Absent(sessions, a)
      /\ Once(queue', a) <=> Once(queue, a)
      /\ Once(sessions', a) <=> Once(sessions, a)
  OBVIOUS
<1> QED
  BY <1>1 DEF Costs, SpentOnce

LEMMA AnalyseKeeps ==
  ASSUME ObserverInv, NEW a \in Analyst, Analyse(a)
  PROVE  ObserverInv'
<1>t. /\ ObserverTyped /\ OneBatch /\ CallsInOrder /\ Costs
      /\ analysis \in [Analyst -> AnalysisRecord]
  BY ObserverTypes DEF ObserverInv
<1>1. CASE TakeBatch(a) /\ buffer = {}
  <2>1. Reaches(a, "over") /\ UNCHANGED <<recorded, buffer, running, skills, shape, queue, sessions, spent, down>>
        /\ analysis[a].at = "called"
    BY <1>1 DEF TakeBatch, Reaches
  <2>2. /\ analysis' \in [Analyst -> AnalysisRecord]
        /\ analysis'[a].at = "over" /\ analysis'[a].batch = analysis[a].batch
        /\ \A c \in Analyst \ {a} : analysis'[c] = analysis[c]
    BY <1>t, <2>1, ReachesTyped
  <2>3. ObserverTyped'
    BY <1>t, <2>1, <2>2 DEF ObserverTyped, ObserverTypeOK, AnalysisRecord
  <2>4. OneBatch'
    <3>1. \A c \in Analyst : analysis'[c].batch = analysis[c].batch
      BY <2>2
    <3> QED
      BY <1>t, <2>1, <3>1 DEF OneBatch
  <2>5. CallsInOrder'
    <3>1. \A b \in Observed : b \in Analyst
      BY DEF Analyst
    <3>2. Run \in Analyst
      BY DEF Analyst
    <3> QED
      BY <1>t, <1>1, <2>1, <2>2, <3>1, <3>2 DEF CallsInOrder
  <2>6. Costs'
    BY <1>t, <2>1, <2>2, CostsStay
  <2> QED
    BY <2>3, <2>4, <2>5, <2>6 DEF ObserverInv
<1>2. CASE TakeBatch(a) /\ buffer # {}
  <2>1. /\ analysis' = [analysis EXCEPT ![a] = [analysis[a] EXCEPT !.at = "asked", !.batch = buffer]]
        /\ buffer' = {} /\ analysis[a].at = "called"
        /\ UNCHANGED <<recorded, running, skills, shape, queue, sessions, spent, down>>
    BY <1>t, <1>2 DEF TakeBatch
  <2>2. /\ analysis' \in [Analyst -> AnalysisRecord]
        /\ analysis'[a].at = "asked" /\ analysis'[a].batch = buffer
        /\ \A c \in Analyst \ {a} : analysis'[c] = analysis[c]
    <3>1. buffer \in SUBSET Observed
      BY <1>t, ObserverTypes
    <3>2. [analysis[a] EXCEPT !.at = "asked", !.batch = buffer] \in AnalysisRecord
      <4>1. analysis[a] \in AnalysisRecord
        BY <1>t
      <4> QED
        BY <3>1, <4>1 DEF AnalysisRecord
    <3>3. /\ [analysis[a] EXCEPT !.at = "asked", !.batch = buffer].at = "asked"
          /\ [analysis[a] EXCEPT !.at = "asked", !.batch = buffer].batch = buffer
      BY <1>t DEF AnalysisRecord
    <3> QED
      BY <1>t, <2>1, <3>2, <3>3
  <2>3. ObserverTyped'
    BY <1>t, <2>1, <2>2 DEF ObserverTyped, ObserverTypeOK, AnalysisRecord
  <2>4. analysis[a].batch = {}
    BY <1>t, <2>1 DEF CallsInOrder
  <2>5. ASSUME NEW b \in recorded
        PROVE  \E e \in Analyst : /\ b \in analysis'[e].batch
                                  /\ \A c \in Analyst : b \in analysis'[c].batch => c = e
    <3>1. CASE b \in buffer
      <4>1. \A c \in Analyst : b \notin analysis[c].batch
        BY <1>t, <3>1 DEF OneBatch
      <4> QED
        BY <2>2, <3>1, <4>1
    <3>2. CASE b \notin buffer
      <4>1. PICK e \in Analyst : /\ b \in analysis[e].batch
                                 /\ \A c \in Analyst : b \in analysis[c].batch => c = e
        BY <1>t, <3>2 DEF OneBatch
      <4>2. e # a
        BY <2>4, <4>1
      <4> QED
        BY <2>2, <3>2, <4>1, <4>2
    <3> QED
      BY <3>1, <3>2
  <2>6. \A b \in Observed \ recorded : \A c \in Analyst : b \notin analysis'[c].batch
    <3>1. buffer \subseteq recorded
      BY <1>t, ObserverTypes
    <3> QED
      BY <1>t, <2>2, <3>1 DEF OneBatch
  <2>7. OneBatch'
    BY <2>1, <2>5, <2>6 DEF OneBatch
  <2>8. CallsInOrder'
    <3>1. \A b \in Observed : b \in Analyst
      BY DEF Analyst
    <3>2. Run \in Analyst
      BY DEF Analyst
    <3> QED
      BY <1>t, <2>1, <2>2, <3>1, <3>2 DEF CallsInOrder
  <2>9. Costs'
    BY <1>t, <2>1, <2>2, CostsStay
  <2> QED
    BY <2>3, <2>7, <2>8, <2>9 DEF ObserverInv
<1>3. CASE Answered(a)
  <2>1. PICK where \in {"over", "spent", "found"} :
          /\ Reaches(a, where)
          /\ spent' = IF where = "spent" THEN spent \cup {a} ELSE spent
    BY <1>3 DEF Answered
  <2>2. /\ analysis' \in [Analyst -> AnalysisRecord]
        /\ analysis'[a].at = where /\ analysis'[a].batch = analysis[a].batch
        /\ \A c \in Analyst \ {a} : analysis'[c] = analysis[c]
    BY <1>t, <2>1, ReachesTyped
  <2>3. /\ analysis[a].at = "asked"
        /\ UNCHANGED <<recorded, buffer, running, skills, shape, queue, sessions, down>>
    BY <1>3 DEF Answered, analysisRest
  <2>4. ObserverTyped'
    BY <1>t, <2>1, <2>2, <2>3 DEF ObserverTyped, ObserverTypeOK, AnalysisRecord
  <2>5. OneBatch' /\ CallsInOrder'
    BY <2>2, <2>3, BatchesStay
  <2>6. Costs'
    <3>1. a \notin spent
      BY <1>t, <2>3 DEF Costs
    <3>2. \A c \in Analyst :
            /\ Absent(queue', c) <=> Absent(queue, c)
            /\ Absent(sessions', c) <=> Absent(sessions, c)
            /\ Once(queue', c) <=> Once(queue, c)
            /\ Once(sessions', c) <=> Once(sessions, c)
      BY <2>3
    <3> QED
      BY <1>t, <2>1, <2>2, <3>1, <3>2 DEF Costs, SpentOnce
  <2> QED
    BY <2>4, <2>5, <2>6 DEF ObserverInv
<1>4. CASE RecordTokens(a)
  <2>1. /\ analysis' \in [Analyst -> AnalysisRecord]
        /\ analysis'[a].at = "found" /\ analysis'[a].batch = analysis[a].batch
        /\ \A c \in Analyst \ {a} : analysis'[c] = analysis[c]
    BY <1>t, <1>4, ReachesTyped DEF RecordTokens
  <2>2. /\ analysis[a].at = "spent" /\ queue' = Append(queue, a) /\ Len(queue) < Room
        /\ UNCHANGED <<recorded, buffer, running, skills, shape, sessions, spent, down>>
    BY <1>4 DEF RecordTokens, RecordSession, analysisRest
  <2>3. queue' \in Seq(Spender) /\ Len(queue') <= Room
    <3>1. a \in Spender /\ queue \in Seq(Spender) /\ Len(queue) \in Nat /\ Room \in Nat
      BY <1>t, ObserverTypes DEF Spender
    <3> QED
      BY <2>2, <3>1
  <2>4. ObserverTyped'
    BY <1>t, <2>1, <2>2, <2>3 DEF ObserverTyped, ObserverTypeOK, AnalysisRecord
  <2>5. OneBatch' /\ CallsInOrder'
    BY <2>1, <2>2, BatchesStay
  <2>6. Costs'
    <3> SUFFICES ASSUME NEW c \in Analyst
                 PROVE  /\ c \in spent' => SpentOnce(c)' /\ analysis'[c].at \notin {"none", "called", "asked"}
                        /\ c \notin spent' => analysis'[c].at # "spent" /\ Absent(queue', c) /\ Absent(sessions', c)
      BY DEF Costs
    <3>1. /\ a = c /\ Absent(queue, c) => Once(queue', c)
          /\ a # c /\ Absent(queue, c) => Absent(queue', c)
          /\ a # c /\ Once(queue, c) => Once(queue', c)
      <4>1. a \in Spender /\ queue \in Seq(Spender)
        BY <1>t, ObserverTypes DEF Spender
      <4> QED
        BY <2>2, <4>1, CountAppend
    <3>2. a \in spent
      BY <1>t, <2>2 DEF Costs
    <3>3. /\ Absent(sessions', c) <=> Absent(sessions, c)
          /\ Once(sessions', c) <=> Once(sessions, c)
      BY <2>2
    <3> QED
      BY <1>t, <2>1, <2>2, <3>1, <3>2, <3>3 DEF Costs, SpentOnce
  <2> QED
    BY <2>4, <2>5, <2>6 DEF ObserverInv
<1>5. CASE NoSuggestions(a) \/ TruncateSkills(a) \/ WriteObservedSkills(a)
  <2>1. PICK where \in {"over", "writing"} : Reaches(a, where)
    BY <1>5 DEF NoSuggestions, TruncateSkills, WriteObservedSkills
  <2>2. /\ analysis' \in [Analyst -> AnalysisRecord]
        /\ analysis'[a].at = where /\ analysis'[a].batch = analysis[a].batch
        /\ \A c \in Analyst \ {a} : analysis'[c] = analysis[c]
    BY <1>t, <2>1, ReachesTyped
  <2>3. /\ analysis[a].at \in {"found", "read", "writing"}
        /\ UNCHANGED <<recorded, buffer, running, queue, sessions, spent, down>>
        /\ shape' \in {"whole", "empty", "mixed"}
    BY <1>t, <1>5, ObserverTypes
    DEF NoSuggestions, TruncateSkills, WriteObservedSkills, analysisRest
  <2>4. skills' \in SUBSET Analyst
    BY <1>t, <1>5, ObserverTypes
    DEF NoSuggestions, TruncateSkills, WriteObservedSkills, AnalysisRecord
  <2>5. ObserverTyped'
    BY <1>t, <2>2, <2>3, <2>4 DEF ObserverTyped, ObserverTypeOK, AnalysisRecord
  <2>6. OneBatch' /\ CallsInOrder'
    BY <2>2, <2>3, BatchesStay
  <2>7. Costs'
    BY <1>t, <2>2, <2>3, CostsStay
  <2> QED
    BY <2>5, <2>6, <2>7 DEF ObserverInv
<1>6. CASE ReadObservedSkills(a)
  <2>1. /\ analysis[a].at = "found"
        /\ UNCHANGED <<recorded, buffer, running, skills, shape, queue, sessions, spent>>
    BY <1>6 DEF ReadObservedSkills, analysisRest
  <2>2. /\ analysis' \in [Analyst -> AnalysisRecord] /\ down' \in BOOLEAN
        /\ analysis'[a].at \in {"found", "read"} /\ analysis'[a].batch = analysis[a].batch
        /\ \A c \in Analyst \ {a} : analysis'[c] = analysis[c]
    <3>1. CASE shape # "whole"
      BY <1>t, <1>6, <2>1, <3>1 DEF ReadObservedSkills
    <3>2. CASE shape = "whole"
      <4>1. /\ analysis' = [analysis EXCEPT ![a] = [analysis[a] EXCEPT !.at = "read", !.seen = skills]]
            /\ down' = down
        BY <1>t, <1>6, <3>2 DEF ReadObservedSkills
      <4>2. skills \in SUBSET Analyst /\ down \in BOOLEAN
        BY <1>t, ObserverTypes
      <4>3. [analysis[a] EXCEPT !.at = "read", !.seen = skills] \in AnalysisRecord
        <5>1. analysis[a] \in AnalysisRecord
          BY <1>t
        <5> QED
          BY <4>2, <5>1 DEF AnalysisRecord
      <4>4. /\ [analysis[a] EXCEPT !.at = "read", !.seen = skills].at = "read"
            /\ [analysis[a] EXCEPT !.at = "read", !.seen = skills].batch = analysis[a].batch
        BY <1>t DEF AnalysisRecord
      <4> QED
        BY <1>t, <4>1, <4>2, <4>3, <4>4
    <3> QED
      BY <3>1, <3>2
  <2>3. ObserverTyped'
    BY <1>t, <2>1, <2>2 DEF ObserverTyped, ObserverTypeOK, AnalysisRecord
  <2>4. OneBatch' /\ CallsInOrder'
    BY <2>1, <2>2, BatchesStay
  <2>5. Costs'
    BY <1>t, <2>1, <2>2, CostsStay
  <2> QED
    BY <2>3, <2>4, <2>5 DEF ObserverInv
<1> QED
  BY <1>1, <1>2, <1>3, <1>4, <1>5, <1>6 DEF Analyse
LEMMA ObserverStepKeeps ==
  ASSUME ObserverInv, ObserverNext
  PROVE  ObserverInv'
<1>t. /\ ObserverTyped /\ OneBatch /\ CallsInOrder /\ Costs
      /\ analysis \in [Analyst -> AnalysisRecord]
  BY ObserverTypes DEF ObserverInv
<1>a. /\ \A b \in Observed : b \in Analyst /\ b # Run
      /\ Run \in Analyst /\ "beads" \in Spender /\ "beads" \notin Analyst
  BY ObserverBounds DEF Analyst, Spender
<1>1. ASSUME NEW a \in Analyst, Analyse(a) PROVE ObserverInv'
  BY <1>1, AnalyseKeeps
<1>2. CASE Flush
  <2>1. /\ running = "working" /\ analysis[Run].at = "none"
        /\ UNCHANGED <<recorded, buffer, skills, shape, queue, sessions, spent, down>>
    BY <1>t, <1>2 DEF Flush, CallsInOrder
  <2>2. \/ buffer = {} /\ running' = "flushed" /\ analysis' = analysis
        \/ buffer # {} /\ running' = "flushing" /\ Reaches(Run, "called")
    BY <1>2 DEF Flush, Reaches
  <2>3. /\ analysis' \in [Analyst -> AnalysisRecord]
        /\ analysis'[Run].at \in {"none", "called"} /\ analysis'[Run].batch = analysis[Run].batch
        /\ running' = "flushing" => analysis'[Run].at = "called"
        /\ \A c \in Analyst \ {Run} : analysis'[c] = analysis[c]
    BY <1>t, <1>a, <2>1, <2>2, ReachesTyped
  <2>4. ObserverTyped'
    BY <1>t, <2>1, <2>2, <2>3 DEF ObserverTyped, ObserverTypeOK, AnalysisRecord
  <2>5. OneBatch'
    <3>1. \A c \in Analyst : analysis'[c].batch = analysis[c].batch
      BY <2>3
    <3> QED
      BY <1>t, <2>1, <3>1 DEF OneBatch
  <2>6. CallsInOrder'
    BY <1>t, <1>a, <2>1, <2>2, <2>3 DEF CallsInOrder
  <2>7. Costs'
    BY <1>t, <2>1, <2>3, CostsStay
  <2> QED
    BY <2>4, <2>5, <2>6, <2>7 DEF ObserverInv
<1>3. CASE EndRun
  <2>1. /\ UNCHANGED <<recorded, buffer, analysis, skills, shape, sessions, spent>>
        /\ running' = "over" /\ buffer = {} /\ down' = down
        /\ queue' = queue \/ (queue' = Append(queue, "beads") /\ Len(queue) < Room)
    <3>1. buffer = {}
      BY <1>t, <1>3 DEF EndRun, CallsInOrder
    <3> QED
      BY <1>3, <3>1 DEF EndRun, RecordSession
  <2>2. /\ queue \in Seq(Spender) /\ Len(queue) \in Nat /\ Room \in Nat /\ Len(queue) <= Room
    BY <1>t, ObserverTypes
  <2>3. queue' \in Seq(Spender) /\ Len(queue') <= Room
    BY <1>a, <2>1, <2>2
  <2>4. ObserverTyped'
    BY <1>t, <2>1, <2>3 DEF ObserverTyped, ObserverTypeOK
  <2>5. OneBatch' /\ CallsInOrder'
    BY <1>t, <2>1 DEF OneBatch, CallsInOrder
  <2>6. Costs'
    <3> SUFFICES ASSUME NEW c \in Analyst
                 PROVE  /\ c \in spent' => SpentOnce(c)' /\ analysis'[c].at \notin {"none", "called", "asked"}
                        /\ c \notin spent' => analysis'[c].at # "spent" /\ Absent(queue', c) /\ Absent(sessions', c)
      BY DEF Costs
    <3>1. /\ Absent(queue, c) => Absent(queue', c)
          /\ Once(queue, c) => Once(queue', c)
      <4>1. "beads" # c /\ "beads" \in Spender
        BY <1>a
      <4>2. CASE queue' = Append(queue, "beads")
        BY <2>2, <4>1, <4>2, CountAppend
      <4>3. CASE queue' = queue
        BY <4>3
      <4> QED
        BY <2>1, <4>2, <4>3
    <3>2. /\ Absent(sessions', c) <=> Absent(sessions, c)
          /\ Once(sessions', c) <=> Once(sessions, c)
      BY <2>1
    <3> QED
      BY <1>t, <2>1, <3>1, <3>2 DEF Costs, SpentOnce
  <2> QED
    BY <2>4, <2>5, <2>6 DEF ObserverInv
<1>4. CASE AppendToDisk
  <2>1. /\ UNCHANGED <<recorded, buffer, running, analysis, skills, shape, spent, down>>
        /\ queue # <<>> /\ sessions' = Append(sessions, Head(queue)) /\ queue' = Tail(queue)
    BY <1>4 DEF AppendToDisk
  <2>2. /\ queue \in Seq(Spender) /\ sessions \in Seq(Spender)
        /\ Len(queue) \in Nat /\ Room \in Nat /\ Len(queue) <= Room
    BY <1>t, ObserverTypes
  <2>3. Head(queue) \in Spender
    BY <2>1, <2>2, HeadTailProperties
  <2>4. queue' \in Seq(Spender) /\ Len(queue') = Len(queue) - 1 /\ sessions' \in Seq(Spender)
    BY <2>1, <2>2, <2>3, HeadTailProperties
  <2>5. ObserverTyped'
    BY <1>t, <2>1, <2>2, <2>4 DEF ObserverTyped, ObserverTypeOK
  <2>6. OneBatch' /\ CallsInOrder'
    BY <1>t, <2>1 DEF OneBatch, CallsInOrder
  <2>7. Costs'
    <3> SUFFICES ASSUME NEW c \in Analyst
                 PROVE  /\ c \in spent' => SpentOnce(c)' /\ analysis'[c].at \notin {"none", "called", "asked"}
                        /\ c \notin spent' => analysis'[c].at # "spent" /\ Absent(queue', c) /\ Absent(sessions', c)
      BY DEF Costs
    <3>1. /\ Absent(queue, c) => Head(queue) # c /\ Absent(queue', c)
          /\ Head(queue) = c /\ Once(queue, c) => Absent(queue', c)
          /\ Head(queue) # c /\ Once(queue, c) => Once(queue', c)
      BY <2>1, <2>2, CountTail
    <3>2. /\ Head(queue) = c /\ Absent(sessions, c) => Once(sessions', c)
          /\ Head(queue) # c /\ Absent(sessions, c) => Absent(sessions', c)
          /\ Head(queue) # c /\ Once(sessions, c) => Once(sessions', c)
      BY <2>1, <2>2, <2>3, CountAppend
    <3> QED
      BY <1>t, <2>1, <3>1, <3>2 DEF Costs, SpentOnce
  <2> QED
    BY <2>5, <2>6, <2>7 DEF ObserverInv
<1>5. ASSUME NEW b \in Observed, RecordBead(b) PROVE ObserverInv'
  <2>1. /\ running = "working" /\ b \notin recorded /\ recorded' = recorded \cup {b}
        /\ buffer' = buffer \cup {b}
        /\ UNCHANGED <<running, skills, shape, queue, sessions, spent, down>>
        /\ analysis' = analysis \/ Reaches(b, "called")
    BY <1>5 DEF RecordBead, Reaches
  <2>2. /\ analysis' \in [Analyst -> AnalysisRecord]
        /\ analysis'[b].at \in {"none", "called"} /\ analysis'[b].batch = analysis[b].batch
        /\ \A c \in Analyst \ {b} : analysis'[c] = analysis[c]
    <3>1. analysis[b].at = "none"
      BY <1>t, <2>1 DEF CallsInOrder
    <3> QED
      BY <1>t, <1>a, <2>1, <3>1, ReachesTyped
  <2>3. ObserverTyped'
    <3>1. recorded' \subseteq Observed /\ buffer' \subseteq recorded'
      BY <1>t, <2>1, ObserverTypes
    <3> QED
      BY <1>t, <2>1, <2>2, <3>1 DEF ObserverTyped, ObserverTypeOK, AnalysisRecord
  <2>4. \A c \in Analyst : analysis'[c].batch = analysis[c].batch
    BY <2>2
  <2>5. OneBatch'
    BY <1>t, <2>1, <2>4 DEF OneBatch
  <2>6. CallsInOrder'
    <3>1. analysis[b].batch = {}
      BY <1>t, <1>a, <2>1 DEF CallsInOrder
    <3> QED
      BY <1>t, <1>a, <2>1, <2>2, <3>1 DEF CallsInOrder
  <2>7. Costs'
    <3>1. analysis[b].at = "none"
      BY <1>t, <2>1 DEF CallsInOrder
    <3> QED
      BY <1>t, <2>1, <2>2, <3>1, CostsStay
  <2> QED
    BY <2>3, <2>5, <2>6, <2>7 DEF ObserverInv
<1> QED
  BY <1>1, <1>2, <1>3, <1>4, <1>5 DEF ObserverNext, Observing

LEMMA ObserverStart ==
  ASSUME ObserverInit \/ ObserverAtRest
  PROVE  ObserverInv
<1>1. ObserverTyped
  <2>1. <<>> \in Seq(Spender) /\ Len(<<>>) = 0 /\ 0 <= Room
    BY ObserverBounds
  <2>2. queue = <<>> /\ sessions = <<>> /\ recorded = {} /\ buffer = {} /\ skills = {} /\ spent = {}
    BY DEF ObserverInit, ObserverAtRest
  <2>3. running \in {"working", "flushing", "flushed", "over"} /\ shape \in {"whole", "empty", "mixed"}
        /\ down \in BOOLEAN
    BY DEF ObserverInit, ObserverAtRest
  <2>4. analysis \in [Analyst -> AnalysisRecord]
    BY DEF ObserverInit, ObserverAtRest, NoAnalysis, AnalysisRecord
  <2> QED
    BY <2>1, <2>2, <2>3, <2>4 DEF ObserverTyped, ObserverTypeOK, AnalysisRecord
<1>2. \A a \in Analyst : analysis[a].at = "none" /\ analysis[a].batch = {}
  BY DEF ObserverInit, ObserverAtRest, NoAnalysis
<1>3. OneBatch
  BY <1>2 DEF ObserverInit, ObserverAtRest, OneBatch
<1>4. CallsInOrder
  BY <1>2 DEF ObserverInit, ObserverAtRest, CallsInOrder, Analyst
<1>5. Costs
  <2>1. \A a : Absent(<<>>, a)
    BY DEF Absent
  <2> QED
    BY <1>2, <2>1 DEF ObserverInit, ObserverAtRest, Costs
<1> QED
  BY <1>1, <1>3, <1>4, <1>5 DEF ObserverInv
-----------------------------------------------------------------------------
(* A call of a model.                                                      *)

EventRecord == [type : Types, text : Seq(Fragments)]
Reported(events) == \E i \in DOMAIN events : events[i].type = "error"

Minding == wire \in Bodies /\ reader \in {"strict", "patient"}

\* When the transport broke, the error is still on its way, or the reader has
\* seen it; and nothing is on its way from a goroutine that is through.
ErrorArrives ==
  Minding =>
    /\ pc \in {"request", "backoff", "read", "close", "closed"}
    /\ out \in Seq(EventRecord) /\ chan \in Seq(EventRecord)
    /\ pc \in {"request", "backoff", "closed"} => out = <<>>
    /\ cut => pc \in {"close", "closed"}
    /\ outcome = "ok" => pc = "closed" /\ ~cut
    /\ cut => \/ outcome = "failed" \/ Reported(out) \/ Reported(chan)
              \/ (reader = "patient" /\ fault)

LEMMA ReportedQueue ==
  ASSUME NEW list \in Seq(EventRecord), NEW e \in EventRecord
  PROVE  /\ Append(list, e) \in Seq(EventRecord)
         /\ Reported(list) \/ e.type = "error" => Reported(Append(list, e))
<1> HIDE DEF EventRecord
<1>1. /\ DOMAIN list = 1 .. Len(list) /\ Len(list) \in Nat
      /\ Append(list, e) \in Seq(EventRecord) /\ DOMAIN Append(list, e) = 1 .. Len(list) + 1
      /\ Append(list, e)[Len(list) + 1] = e
      /\ \A i \in 1 .. Len(list) : Append(list, e)[i] = list[i]
  OBVIOUS
<1>2. DOMAIN list \subseteq DOMAIN Append(list, e) /\ Len(list) + 1 \in DOMAIN Append(list, e)
  BY <1>1
<1> QED
  BY <1>1, <1>2 DEF Reported

LEMMA ReportedTail ==
  ASSUME NEW list \in Seq(EventRecord), list # <<>>
  PROVE  /\ Head(list) \in EventRecord /\ Tail(list) \in Seq(EventRecord)
         /\ Reported(list) => Head(list).type = "error" \/ Reported(Tail(list))
<1> HIDE DEF EventRecord
<1>1. Head(list) \in EventRecord /\ Tail(list) \in Seq(EventRecord)
  BY HeadTailProperties
<1>2. ASSUME NEW i \in DOMAIN list, list[i].type = "error", Head(list).type # "error"
      PROVE  Reported(Tail(list))
  <2>1. /\ DOMAIN list = 1 .. Len(list) /\ Len(list) \in Nat /\ Head(list) = list[1]
        /\ DOMAIN Tail(list) = 1 .. Len(list) - 1
        /\ \A j \in 1 .. Len(list) - 1 : Tail(list)[j] = list[j + 1]
    OBVIOUS
  <2>2. i # 1
    BY <1>2, <2>1
  <2>3. i - 1 \in DOMAIN Tail(list) /\ Tail(list)[i - 1] = list[i]
    BY <2>1, <2>2
  <2> QED
    BY <1>2, <2>3 DEF Reported
<1> QED
  BY <1>1, <1>2 DEF Reported

\* What a line of a streamed body puts out; a broken one comes with an error.
LEMMA LineEvents ==
  ASSUME Minding, Read
  PROVE  \E events \in Seq(EventRecord), next \in {"read", "close"} :
           /\ Scanning /\ Emits(events, next)
           /\ \/ cut' = cut
              \/ cut' = TRUE /\ next = "close" /\ Reported(events)
<1>1. AnthropicStream \/ OpenAIStream \/ GeminiStream \/ OllamaStream
  BY DEF Read, CliStream, ReviewBead, ReviewEnds, ReviewLine, Reviewing, Minding, Bodies
<1>2. /\ \A type \in Types : Plain(type) \in EventRecord /\ Plain(type).type = type
      /\ \A f \in Fragments : Chunk(<<f>>) \in EventRecord
      /\ {"error", "tokens", "done"} \subseteq Types
  BY DEF Plain, Chunk, Event, EventRecord, Types
<1> DEFINE Goal == \E events \in Seq(EventRecord), next \in {"read", "close"} :
                     /\ Scanning /\ Emits(events, next)
                     /\ \/ cut' = cut
                        \/ cut' = TRUE /\ next = "close" /\ Reported(events)
<1> SUFFICES Goal
  OBVIOUS
<1>3. ASSUME NEW events \in Seq(EventRecord), NEW next \in {"read", "close"},
             Scanning, Emits(events, next), cut' = cut
      PROVE  Goal
  BY <1>3
<1>4. ASSUME NEW f \in Fragments, TextLine(f) PROVE Goal
  <2>1. <<Chunk(<<f>>)>> \in Seq(EventRecord)
    BY <1>2
  <2> QED
    BY <1>3, <1>4, <2>1 DEF TextLine, NextLine
<1>5. CASE PassedLine
  <2>1. <<>> \in Seq(EventRecord)
    OBVIOUS
  <2> QED
    BY <1>3, <1>5, <2>1 DEF PassedLine, NextLine
<1>6. CASE Reports("error")
  <2>1. <<Plain("error")>> \in Seq(EventRecord)
    BY <1>2
  <2> QED
    BY <1>3, <1>6, <2>1 DEF Reports, NextLine
<1>7. CASE \/ Closes(<<Plain("error"), Plain("done")>>) \/ Closes(<<Plain("done")>>)
           \/ Closes(<<Plain("tokens"), Plain("done")>>)
  <2>1. /\ <<Plain("error"), Plain("done")>> \in Seq(EventRecord)
        /\ <<Plain("tokens"), Plain("done")>> \in Seq(EventRecord)
        /\ <<Plain("done")>> \in Seq(EventRecord)
    BY <1>2
  <2> QED
    BY <1>3, <1>7, <2>1 DEF Closes, NextLine
<1>8. CASE EndOfBody
  <2>1. <<Plain("done")>> \in Seq(EventRecord)
    BY <1>2
  <2> QED
    BY <1>3, <1>8, <2>1 DEF EndOfBody
<1>9. CASE Broken
  <2>1. /\ <<Plain("error"), Plain("done")>> \in Seq(EventRecord)
        /\ 1 \in DOMAIN <<Plain("error"), Plain("done")>>
        /\ <<Plain("error"), Plain("done")>>[1] = Plain("error")
    BY <1>2
  <2>2. Reported(<<Plain("error"), Plain("done")>>)
    BY <1>2, <2>1 DEF Reported
  <2> QED
    BY <1>9, <2>1, <2>2 DEF Broken
<1>10. ASSUME NEW text \in {<<>>} \cup {<<f>> : f \in Fragments}, TruncateAtStopToken(text)
       PROVE  Goal
  <2>1. <<Plain("done")>> \in Seq(EventRecord)
    BY <1>2
  <2>2. CASE text = <<>>
    BY <1>3, <1>10, <2>1, <2>2 DEF TruncateAtStopToken, NextLine
  <2>3. CASE text # <<>>
    <3>1. Chunk(text) \in EventRecord
      BY <1>2, <2>3
    <3>2. <<Chunk(text), Plain("done")>> \in Seq(EventRecord)
      BY <1>2, <3>1
    <3> QED
      BY <1>3, <1>10, <2>3, <3>2 DEF TruncateAtStopToken, NextLine
  <2> QED
    BY <2>2, <2>3
<1>11. CASE \/ TruncateAtStopToken(<<>>) \/ \E f \in Fragments : TruncateAtStopToken(<<f>>)
  BY <1>10, <1>11
<1> HIDE DEF Goal
<1>12. \/ SomeText \/ PassedLine \/ Reports("error") \/ EndOfBody \/ Broken
       \/ Closes(<<Plain("error"), Plain("done")>>) \/ Closes(<<Plain("done")>>)
       \/ Closes(<<Plain("tokens"), Plain("done")>>)
       \/ TruncateAtStopToken(<<>>) \/ \E f \in Fragments : TruncateAtStopToken(<<f>>)
  BY <1>1 DEF AnthropicStream, OpenAIStream, GeminiStream, OllamaStream, HandleSSEData, GeminiText
<1>13. SomeText => Goal
  BY <1>4 DEF SomeText
<1> QED
  BY Zenon, <1>5, <1>6, <1>7, <1>8, <1>9, <1>11, <1>12, <1>13

LEMMA CallStepKeeps ==
  ASSUME ErrorArrives, Next
  PROVE  ErrorArrives'
<1> SUFFICES ASSUME Minding'
             PROVE  /\ pc' \in {"request", "backoff", "read", "close", "closed"}
                    /\ out' \in Seq(EventRecord) /\ chan' \in Seq(EventRecord)
                    /\ pc' \in {"request", "backoff", "closed"} => out' = <<>>
                    /\ cut' => pc' \in {"close", "closed"}
                    /\ outcome' = "ok" => pc' = "closed" /\ ~cut'
                    /\ cut' => \/ outcome' = "failed" \/ Reported(out') \/ Reported(chan')
                               \/ (reader' = "patient" /\ fault')
  BY DEF ErrorArrives
<1>0. reader' = reader /\ Minding
  BY DEF Next, Cancel, Provider, Reader, Request, AnthropicChat, OpenAIChat, GeminiChat, OllamaChat,
     RequestFails, RequestAccepted, RateLimited, BackoffEnds, AtRequest, Send, Close, Take, Drained,
     Minding, Loop, AnthropicRound, OpenAIRound, NativeRound, PseudoRound, RoundFails, Looping,
     ToolStarts, Tool, ToolReturns, NextRound, CanAsk, Answers, SomeAnswer, SomeCalls, RoundCalls, Asks,
     Read, AnthropicStream, OpenAIStream, GeminiStream, OllamaStream, CliStream, ReviewBead,
     HandleSSEData, SomeText, TextLine, PassedLine, Reports, Closes, NextLine, Scanning, EndOfBody,
     Broken, GeminiText, TruncateAtStopToken, ProcessStreamEvents, ResultLine, ProcessEnds,
     ReviewEnds, ReviewLine, Reviewing
<1>t. /\ pc \in {"request", "backoff", "read", "close", "closed"}
      /\ out \in Seq(EventRecord) /\ chan \in Seq(EventRecord)
      /\ pc \in {"request", "backoff", "closed"} => out = <<>>
      /\ cut => pc \in {"close", "closed"}
      /\ outcome = "ok" => pc = "closed" /\ ~cut
      /\ cut => \/ outcome = "failed" \/ Reported(out) \/ Reported(chan)
                \/ (reader = "patient" /\ fault)
  BY <1>0 DEF ErrorArrives
<1>1. CASE Cancel
  BY <1>0, <1>1, <1>t DEF Cancel, wireVars, readVars
<1>2. CASE Request
  <2>1. /\ pc \in {"request", "backoff"} /\ UNCHANGED <<out, chan, cut>>
        /\ \/ pc' = "closed" /\ outcome' = "failed"
           \/ pc' = "read" /\ outcome' = "reading"
           \/ pc' \in {"backoff", "request"} /\ outcome' = outcome
    BY <1>2 DEF Request, AnthropicChat, OpenAIChat, GeminiChat, OllamaChat, RequestFails,
       RequestAccepted, RateLimited, BackoffEnds, AtRequest, wireVars, readVars
  <2> QED
    BY <1>t, <2>1
<1>3. CASE Read
  <2>1. PICK events \in Seq(EventRecord), next \in {"read", "close"} :
          /\ Scanning /\ Emits(events, next)
          /\ \/ cut' = cut
             \/ cut' = TRUE /\ next = "close" /\ Reported(events)
    BY <1>0, <1>3, LineEvents
  <2>2. /\ pc = "read" /\ pc' = next /\ out' = events /\ chan' = chan
        /\ outcome' = outcome /\ fault' = fault
    BY <2>1 DEF Scanning, Emits, readVars
  <2> QED
    BY <1>t, <2>1, <2>2
<1>4. CASE Loop
  BY <1>0, <1>4, <1>t DEF Loop, AnthropicRound, OpenAIRound, NativeRound, PseudoRound, Minding, Bodies,
     ToolStarts, Tool, ToolReturns, NextRound
<1>5. CASE Send
  <2>1. /\ out # <<>> /\ chan' = Append(chan, Head(out)) /\ out' = Tail(out)
        /\ UNCHANGED <<pc, cut, outcome, fault>>
    BY <1>5 DEF Send, wireVars, readVars
  <2>2. /\ Head(out) \in EventRecord /\ out' \in Seq(EventRecord)
        /\ Reported(out) => Head(out).type = "error" \/ Reported(out')
    BY <1>t, <2>1, ReportedTail
  <2>3. /\ chan' \in Seq(EventRecord)
        /\ Reported(chan) \/ Head(out).type = "error" => Reported(chan')
    BY <1>t, <2>1, <2>2, ReportedQueue
  <2> QED
    BY <1>0, <1>t, <2>1, <2>2, <2>3
<1>6. CASE Close
  BY <1>0, <1>6, <1>t DEF Close, wireVars, readVars
<1>7. CASE Take
  <2>1. /\ chan # <<>> /\ chan' = Tail(chan) /\ outcome = "reading"
        /\ UNCHANGED <<pc, out, cut>>
    BY <1>7 DEF Take, wireVars
  <2>2. /\ chan' \in Seq(EventRecord)
        /\ Reported(chan) => Head(chan).type = "error" \/ Reported(chan')
    BY <1>t, <2>1, ReportedTail
  <2>3. ReadsStrictly(Head(chan)) \/ ReadsPatiently(Head(chan))
    BY <1>0, <1>7 DEF Take, Minding, ReadsChunks, DrainsStream, ReadsExecution
  <2>4. \/ reader = "strict" /\ outcome' = (IF Head(chan).type = "error" THEN "failed" ELSE "reading")
        \/ reader = "patient" /\ outcome' = outcome /\ fault' = (fault \/ Head(chan).type = "error")
    BY <2>3 DEF ReadsStrictly, ReadsPatiently, NotesFault
  <2> QED
    BY <1>0, <1>t, <2>1, <2>2, <2>4
<1>8. CASE Drained
  <2>1. /\ chan = <<>> /\ pc = "closed" /\ UNCHANGED <<pc, out, chan, cut, fault>>
        /\ outcome' = IF fault /\ (reader = "patient" \/ got = <<>>) THEN "failed" ELSE "ok"
    BY <1>8 DEF Drained, wireVars
  <2>2. ~Reported(<<>>)
    BY DEF Reported
  <2>3. outcome = "reading"
    BY <1>8 DEF Drained
  <2> QED
    BY <1>0, <1>t, <2>1, <2>2, <2>3
<1> QED
  BY <1>1, <1>2, <1>3, <1>4, <1>5, <1>6, <1>7, <1>8 DEF Next, Provider, Reader

LEMMA CallStart ==
  ASSUME Init \/ CallAtRest
  PROVE  ErrorArrives
<1>1. CASE Init
  <2>1. Minding => pc = "request" /\ outcome = "idle"
    BY <1>1 DEF Init, Minding, Bodies, Loops
  <2>2. <<>> \in Seq(EventRecord)
    OBVIOUS
  <2> QED
    BY <1>1, <2>1, <2>2 DEF Init, ErrorArrives
<1>2. CASE CallAtRest
  BY <1>2 DEF CallAtRest, ErrorArrives, Minding, Bodies
<1> QED
  BY <1>1, <1>2
-----------------------------------------------------------------------------
(* The messages of a tool loop.                                            *)

Id == Nat \X Nat
Message == [kind : {"calls", "results"}, ids : Seq(Id)]

\* The results of the first n calls of a round.
Partly(ids, n) ==
  IF wire = "anthropic_tools"
  THEN IF n = 0 THEN <<>> ELSE <<Results(SubSeq(ids, 1, n))>>
  ELSE [i \in 1 .. n |-> Results(<<ids[i]>>)]

\* Within a round: what was there before it, its calls, and the results of
\* those that are no longer to do.
InRound ==
  \E base \in Seq(Message), ids \in Seq(Id), n \in Nat :
    /\ Settled(base) /\ n <= Len(ids) /\ Len(ids) # 0
    /\ msgs = base \o (<<Calls(ids)>> \o Partly(ids, n))
    /\ todo = SubSeq(ids, n + 1, Len(ids))

InTools == pc \in {"tools", "tool"}

MessagesInv ==
  /\ msgs \in Seq(Message) /\ todo \in Seq(Id) /\ rounds \in Nat
  /\ ~InTools \/ wire = "pseudo_tools" => Settled(msgs)
  /\ InTools /\ wire # "pseudo_tools" => InRound
  /\ pc = "tool" => todo # <<>>

LEMMA AppendsOne ==
  ASSUME NEW S, NEW base \in Seq(S), NEW e \in S
  PROVE  Append(base, e) = base \o (<<e>> \o <<>>)
<1>1. <<e>> \o <<>> = <<e>>
  OBVIOUS
<1> QED
  BY <1>1

\* Two lists that differ in their last element.
LEMMA ReplaceLast ==
  ASSUME NEW S, NEW list \in Seq(S), NEW new \in Seq(S), Len(list) # 0, Len(new) = Len(list),
         \A i \in 1 .. Len(list) : i # Len(list) => new[i] = list[i]
  PROVE  ReplaceAt(list, Len(list), new[Len(list)]) = new
<1> DEFINE n == Len(list)
<1>1. n \in Nat /\ DOMAIN list = 1 .. n /\ DOMAIN new = 1 .. n
  OBVIOUS
<1>2. \A i \in 1 .. n : new[i] = IF i = n THEN new[n] ELSE list[i]
  OBVIOUS
<1>3. new = [i \in 1 .. n |-> new[i]]
  BY <1>1
<1>4. ReplaceAt(list, n, new[n]) = [i \in 1 .. n |-> IF i = n THEN new[n] ELSE list[i]]
  BY Zenon, <1>1 DEF ReplaceAt
<1> HIDE DEF n
<1>5. ReplaceAt(list, n, new[n]) = new
  BY <1>2, <1>3, <1>4
<1> QED
  BY <1>5 DEF n

\* A list that ends with a pair.
LEMMA LastOfPair ==
  ASSUME NEW S, NEW base \in Seq(S), NEW p \in Seq(S), Len(p) = 2
  PROVE  /\ base \o p \in Seq(S) /\ Len(base \o p) = Len(base) + 2
         /\ \A i \in 1 .. Len(base) + 2 : (base \o p)[i] =
              IF i <= Len(base) THEN base[i] ELSE IF i = Len(base) + 1 THEN p[1] ELSE p[2]
<1> DEFINE B == Len(base)
           list == base \o p
<1>1. B \in Nat
  OBVIOUS
<1>2. /\ list \in Seq(S) /\ Len(list) = B + Len(p)
      /\ \A i \in 1 .. B + Len(p) : list[i] = IF i <= B THEN base[i] ELSE p[i - B]
  BY <1>1, ConcatProperties
<1> HIDE DEF list, B
<1>3. \A i \in 1 .. B + 2 : list[i] = IF i <= B THEN base[i] ELSE IF i = B + 1 THEN p[1] ELSE p[2]
  <2>1. \A i \in 1 .. B + 2 :
          i <= B \/ (i = B + 1 /\ i - B = 1 /\ ~(i <= B)) \/ (i = B + 2 /\ i - B = 2 /\ ~(i <= B) /\ i # B + 1)
    BY <1>1
  <2> QED
    BY <1>1, <1>2, <2>1
<1>4. Len(list) = B + 2
  BY <1>1, <1>2
<1> QED
  BY <1>2, <1>3, <1>4 DEF list, B

\* The part of a sequence up to a place, and the part behind it.
LEMMA SplitHead ==
  ASSUME NEW S, NEW s \in Seq(S), NEW n \in Nat, n < Len(s)
  PROVE  /\ SubSeq(s, n + 1, Len(s)) # <<>>
         /\ Head(SubSeq(s, n + 1, Len(s))) = s[n + 1]
         /\ Tail(SubSeq(s, n + 1, Len(s))) = SubSeq(s, n + 2, Len(s))
         /\ SubSeq(s, 1, n) \in Seq(S)
         /\ Append(SubSeq(s, 1, n), s[n + 1]) = SubSeq(s, 1, n + 1)
<1>0. Len(s) \in Nat /\ DOMAIN s = 1 .. Len(s) /\ \A i \in 1 .. Len(s) : s[i] \in S
  OBVIOUS
<1> DEFINE rest == SubSeq(s, n + 1, Len(s))
           prefix == SubSeq(s, 1, n)
           longer == SubSeq(s, 1, n + 1)
<1>1. Len(rest) = Len(s) - n /\ Len(rest) # 0 /\ rest[1] = s[n + 1]
  <2>1. \A i \in n + 1 .. Len(s) : s[i] \in S
    BY <1>0
  <2>2. /\ Len(rest) = IF n + 1 <= Len(s) THEN Len(s) - (n + 1) + 1 ELSE 0
        /\ \A i \in 1 .. Len(s) - (n + 1) + 1 : rest[i] = s[n + 1 + i - 1]
    BY <1>0, <2>1, SubSeqProperties
  <2> DEFINE L == Len(s)
  <2> HIDE DEF rest
  <2>3. L \in Nat /\ n < L
    BY <1>0
  <2>4. /\ Len(rest) = IF n + 1 <= L THEN L - (n + 1) + 1 ELSE 0
        /\ \A i \in 1 .. L - (n + 1) + 1 : rest[i] = s[n + 1 + i - 1]
    BY <2>2
  <2> HIDE DEF L
  <2>5. n + 1 <= L /\ 1 \in 1 .. L - (n + 1) + 1 /\ n + 1 + 1 - 1 = n + 1
    BY <2>3
  <2>6. L - (n + 1) + 1 = L - n /\ L - n # 0
    BY <2>3
  <2>7. Len(rest) = L - n
    BY <2>4, <2>5, <2>6
  <2>8. rest[1] = s[n + 1 + 1 - 1]
    BY <2>4, <2>5
  <2> QED
    BY Zenon, <2>5, <2>6, <2>7, <2>8 DEF L
<1>2. rest # <<>> /\ Head(rest) = s[n + 1]
  <2> HIDE DEF rest
  <2> QED
    BY <1>1
<1>3. Tail(rest) = SubSeq(s, n + 2, Len(s))
  BY <1>0
<1>4. prefix \in Seq(S) /\ Len(prefix) = n /\ \A i \in 1 .. n : prefix[i] = s[i]
  BY <1>0
<1>5. longer \in Seq(S) /\ Len(longer) = n + 1 /\ \A i \in 1 .. n + 1 : longer[i] = s[i]
  BY <1>0
<1>6. Append(prefix, s[n + 1]) = longer
  <2> HIDE DEF prefix, longer
  <2>1. /\ Append(prefix, s[n + 1]) \in Seq(S) /\ Len(Append(prefix, s[n + 1])) = n + 1
        /\ \A i \in 1 .. n + 1 : Append(prefix, s[n + 1])[i] = s[i]
    BY <1>0, <1>4
  <2> QED
    BY <1>5, <2>1
<1> QED
  BY <1>2, <1>3, <1>4, <1>6

LEMMA WholePrefix ==
  ASSUME NEW S, NEW s \in Seq(S)
  PROVE  SubSeq(s, 1, Len(s)) = s
  OBVIOUS

LEMMA NothingBehind ==
  ASSUME NEW S, NEW s \in Seq(S), NEW n \in Nat, n <= Len(s), SubSeq(s, n + 1, Len(s)) = <<>>
  PROVE  n = Len(s)
<1>1. CASE n < Len(s)
  BY <1>1, SplitHead
<1> QED
  BY <1>1

LEMMA MessageTyped ==
  ASSUME NEW ids \in Seq(Id)
  PROVE  Calls(ids) \in Message /\ Results(ids) \in Message
         /\ Calls(ids).kind = "calls" /\ Calls(ids).ids = ids
         /\ Results(ids).kind = "results" /\ Results(ids).ids = ids
  BY DEF Calls, Results, Message

LEMMA ResultsTyped ==
  ASSUME NEW ids \in Seq(Id), Len(ids) # 0, NEW n \in Nat, n <= Len(ids)
  PROVE  /\ Partly(ids, n) \in Seq(Message)
         /\ ResultsOf(ids) \in Seq(Message) /\ Len(ResultsOf(ids)) # 0
         /\ Partly(ids, Len(ids)) = ResultsOf(ids)
         /\ \A i \in DOMAIN ResultsOf(ids) : ResultsOf(ids)[i].kind = "results"
<1>1. Len(ids) \in Nat /\ DOMAIN ids = 1 .. Len(ids) /\ \A i \in 1 .. Len(ids) : ids[i] \in Id
  OBVIOUS
<1> HIDE DEF Id
<1>2. \A i \in 1 .. Len(ids) : /\ <<ids[i]>> \in Seq(Id)
                               /\ Results(<<ids[i]>>) \in Message
                               /\ Results(<<ids[i]>>).kind = "results"
  <2> SUFFICES ASSUME NEW i \in 1 .. Len(ids)
               PROVE  /\ <<ids[i]>> \in Seq(Id) /\ Results(<<ids[i]>>) \in Message
                      /\ Results(<<ids[i]>>).kind = "results"
    OBVIOUS
  <2>1. <<ids[i]>> \in Seq(Id)
    BY <1>1
  <2> QED
    BY <2>1, MessageTyped
<1>3. CASE wire = "anthropic_tools"
  <2>1. ResultsOf(ids) = <<Results(ids)>>
    BY <1>3 DEF ResultsOf
  <2>2. Results(ids) \in Message /\ Results(ids).kind = "results"
    BY MessageTyped
  <2>3. SubSeq(ids, 1, Len(ids)) = ids
    BY <1>1, SubSeqProperties
  <2>4. Partly(ids, Len(ids)) = <<Results(ids)>>
    BY <1>1, <1>3, <2>3 DEF Partly
  <2>5. Partly(ids, n) \in Seq(Message)
    <3>1. CASE n = 0
      BY <1>3, <3>1 DEF Partly
    <3>2. CASE n # 0
      <4>1. SubSeq(ids, 1, n) \in Seq(Id)
        BY <1>1, <3>2, SubSeqProperties
      <4>2. Results(SubSeq(ids, 1, n)) \in Message
        BY <4>1, MessageTyped
      <4>3. Partly(ids, n) = <<Results(SubSeq(ids, 1, n))>>
        BY <1>3, <3>2 DEF Partly
      <4> QED
        BY <4>2, <4>3
    <3> QED
      BY <3>1, <3>2
  <2> HIDE DEF Message
  <2> QED
    BY <2>1, <2>2, <2>4, <2>5
<1>4. CASE wire # "anthropic_tools"
  <2>1. /\ ResultsOf(ids) = [i \in 1 .. Len(ids) |-> Results(<<ids[i]>>)]
        /\ Partly(ids, n) = [i \in 1 .. n |-> Results(<<ids[i]>>)]
        /\ Partly(ids, Len(ids)) = [i \in 1 .. Len(ids) |-> Results(<<ids[i]>>)]
    BY <1>1, <1>4 DEF ResultsOf, Partly
  <2> HIDE DEF Message
  <2>2. Partly(ids, n) \in Seq(Message)
    BY <1>1, <1>2, <2>1
  <2>3. ResultsOf(ids) \in Seq(Message) /\ Len(ResultsOf(ids)) = Len(ids)
        /\ DOMAIN ResultsOf(ids) = 1 .. Len(ids)
    BY <1>1, <1>2, <2>1
  <2> QED
    BY <1>1, <1>2, <2>1, <2>2, <2>3
<1> QED
  BY <1>3, <1>4

\* A round whose calls are all answered leaves the messages settled.
LEMMA RoundSettles ==
  ASSUME NEW base \in Seq(Message), Settled(base), NEW ids \in Seq(Id), Len(ids) # 0
  PROVE  Settled(base \o (<<Calls(ids)>> \o ResultsOf(ids)))
<1> DEFINE rs == ResultsOf(ids)
           block == <<Calls(ids)>> \o rs
           list == base \o block
           B == Len(base)
           R == Len(rs)
<1>1. /\ rs \in Seq(Message) /\ R \in Nat /\ R # 0 /\ DOMAIN rs = 1 .. R
      /\ \A i \in 1 .. R : rs[i].kind = "results"
  <2>1. Len(ids) \in Nat
    OBVIOUS
  <2> QED
    BY <2>1, ResultsTyped
<1>2. Calls(ids) \in Message /\ Calls(ids).kind = "calls" /\ Calls(ids).ids = ids
  BY MessageTyped
<1> HIDE DEF rs, Message, Id
<1>3. /\ block \in Seq(Message) /\ Len(block) = R + 1 /\ block[1] = Calls(ids)
      /\ \A i \in 1 .. R : block[i + 1] = rs[i]
  BY <1>1, <1>2
<1> HIDE DEF block
<1>4. /\ list \in Seq(Message) /\ Len(list) = B + (R + 1) /\ B \in Nat /\ DOMAIN base = 1 .. B
      /\ \A i \in 1 .. B : list[i] = base[i]
      /\ \A i \in 1 .. R + 1 : list[B + i] = block[i]
  <2>1. base \in Seq(Message) /\ B \in Nat /\ DOMAIN base = 1 .. B
    OBVIOUS
  <2>2. list \in Seq(Message) /\ Len(list) = B + Len(block)
    BY <1>3, ConcatProperties DEF list, B
  <2>3. \A i \in 1 .. B : list[i] = base[i]
    BY <1>3, <2>1
  <2>4. \A i \in 1 .. Len(block) : list[B + i] = block[i]
    BY <1>3, <2>1
  <2> QED
    BY <1>3, <2>1, <2>2, <2>3, <2>4
<1> HIDE DEF list, B, R
<1>5. /\ DOMAIN list = 1 .. B + R + 1 /\ list[B + 1] = Calls(ids)
      /\ \A i \in 1 .. R : list[B + 1 + i] = rs[i]
  <2>1. DOMAIN list = 1 .. Len(list)
    BY <1>4
  <2>2. 1 \in 1 .. R + 1 /\ \A i \in 1 .. R : i + 1 \in 1 .. R + 1 /\ B + 1 + i = B + (i + 1)
    BY <1>1, <1>4
  <2> QED
    BY <1>1, <1>3, <1>4, <2>1, <2>2
<1>6. list[1].kind = "calls"
  <2>1. CASE base = <<>>
    BY <1>2, <1>4, <1>5, <2>1 DEF B
  <2>2. CASE base # <<>>
    <3>1. B # 0 /\ base[1].kind = "calls"
      BY <1>4, <2>2 DEF Settled, B
    <3> QED
      BY <1>4, <3>1
  <2> QED
    BY <2>1, <2>2
<1>7. ASSUME NEW m \in 1 .. B, list[m].kind = "calls"
      PROVE  LET results == ResultsOf(list[m].ids)
                 next == m + Len(results) + 1
             IN /\ next <= Len(list) + 1
                /\ \A i \in DOMAIN results : list[m + i] = results[i]
                /\ next <= Len(list) => list[next].kind = "calls"
  <2> DEFINE results == ResultsOf(base[m].ids)
             next == m + Len(results) + 1
  <2>1. list[m] = base[m] /\ base[m].kind = "calls"
    BY <1>4, <1>7
  <2>2. /\ next <= B + 1
        /\ \A i \in DOMAIN results : base[m + i] = results[i]
        /\ next <= B => base[next].kind = "calls"
    BY <1>4, <2>1 DEF Settled, B
  <2>3. base[m] \in Message
    BY <1>4
  <2>4. results \in Seq(Message) /\ Len(results) \in Nat /\ DOMAIN results = 1 .. Len(results)
    <3>1. base[m].ids \in Seq(Id)
      BY <2>3 DEF Message
    <3>2. CASE wire = "anthropic_tools"
      <4>1. results = <<Results(base[m].ids)>>
        BY <3>2 DEF ResultsOf
      <4>2. Results(base[m].ids) \in Message
        BY <3>1, MessageTyped
      <4> HIDE DEF results
      <4> QED
        BY <4>1, <4>2
    <3>3. CASE wire # "anthropic_tools"
      <4>1. results = [i \in DOMAIN base[m].ids |-> Results(<<base[m].ids[i]>>)]
        BY <3>3 DEF ResultsOf
      <4>2. /\ DOMAIN base[m].ids = 1 .. Len(base[m].ids) /\ Len(base[m].ids) \in Nat
            /\ \A i \in DOMAIN base[m].ids : <<base[m].ids[i]>> \in Seq(Id)
        BY <3>1
      <4>3. \A i \in DOMAIN base[m].ids : Results(<<base[m].ids[i]>>) \in Message
        BY <4>2, MessageTyped
      <4> HIDE DEF results
      <4> QED
        BY <4>1, <4>2, <4>3
    <3> QED
      BY <3>2, <3>3
  <2> HIDE DEF results
  <2>5. \A i \in DOMAIN results : m + i \in 1 .. B
    BY <1>4, <2>2, <2>4
  <2>6. next \in Nat /\ next >= 1
    BY <1>4, <2>4
  <2>7. next <= Len(list) => list[next].kind = "calls"
    <3>1. CASE next <= B
      BY <1>4, <2>2, <2>6, <3>1
    <3>2. CASE next = B + 1
      BY <1>2, <1>5, <3>2
    <3> QED
      BY <1>4, <2>2, <2>6, <3>1, <3>2
  <2>8. \A i \in DOMAIN results : list[m + i] = results[i]
    BY <1>4, <2>2, <2>5
  <2>9. next <= Len(list) + 1
    BY <1>1, <1>4, <2>2, <2>6
  <2> QED
    BY <2>1, <2>7, <2>8, <2>9 DEF results
<1>8. ASSUME NEW m \in DOMAIN list, list[m].kind = "calls", m \notin 1 .. B
      PROVE  m = B + 1
  <2>1. m \in Nat /\ m >= B + 1 /\ m <= B + R + 1
    BY <1>1, <1>4, <1>5, <1>8
  <2>2. CASE m # B + 1
    <3>1. (m - B - 1) \in 1 .. R /\ B + 1 + (m - B - 1) = m
      BY <1>1, <1>4, <2>1, <2>2
    <3>2. list[m] = rs[m - B - 1] /\ rs[m - B - 1].kind = "results"
      BY <1>1, <1>5, <3>1
    <3> QED
      BY <1>8, <3>2
  <2> QED
    BY <2>2
<1>9. LET results == ResultsOf(list[B + 1].ids)
          next == B + 1 + Len(results) + 1
      IN /\ next <= Len(list) + 1
         /\ \A i \in DOMAIN results : list[B + 1 + i] = results[i]
         /\ next <= Len(list) => list[next].kind = "calls"
  <2>1. ResultsOf(list[B + 1].ids) = rs /\ Len(rs) = R
    BY <1>2, <1>5 DEF rs, R
  <2>2. B + 1 + R + 1 = Len(list) + 1
    BY <1>1, <1>4
  <2>3. ~(B + 1 + R + 1 <= Len(list))
    BY <1>1, <1>4
  <2> QED
    BY <1>1, <1>5, <2>1, <2>2, <2>3
<1> QED
  BY Zenon, <1>6, <1>7, <1>8, <1>9 DEF Settled, list, block, rs

\* A step of the call is one of the tool loop, or leaves the loop's variables
\* alone and is neither into it nor out of it.
LEMMA LoopFrame ==
  ASSUME Next
  PROVE  /\ wire' = wire
         /\ \/ Loop
            \/ UNCHANGED loopVars /\ (InTools' <=> InTools) /\ (pc' = "tool" => pc = "tool")
<1>1. CASE Cancel
  BY <1>1 DEF Cancel, InTools
<1>2. CASE Request
  BY <1>2 DEF Request, AnthropicChat, OpenAIChat, GeminiChat, OllamaChat, RequestFails,
     RequestAccepted, RateLimited, BackoffEnds, AtRequest, InTools
<1>3. CASE Read
  <2>1. CASE reader = "reviewer"
    BY <1>3, <2>1 DEF Read, AnthropicStream, OpenAIStream, GeminiStream, OllamaStream, CliStream,
       ReviewBead, HandleSSEData, SomeText, TextLine, PassedLine, Reports, Closes, NextLine, Scanning,
       EndOfBody, Broken, GeminiText, TruncateAtStopToken, ProcessStreamEvents, ResultLine,
       ProcessEnds, ReviewEnds, ReviewLine, Reviewing, InTools
  <2>2. CASE reader # "reviewer"
    <3>1. Scanning
      BY <1>3, <2>2 DEF Read, AnthropicStream, OpenAIStream, GeminiStream, OllamaStream, CliStream,
         ReviewBead, HandleSSEData, SomeText, TextLine, PassedLine, Reports, Closes, NextLine,
         EndOfBody, Broken, GeminiText, TruncateAtStopToken, ProcessStreamEvents, ResultLine,
         ProcessEnds, ReviewEnds, ReviewLine, Reviewing
    <3>2. pc' \in {"read", "close"}
      BY <1>3, <2>2 DEF Read, AnthropicStream, OpenAIStream, GeminiStream, OllamaStream, CliStream,
         ReviewBead, HandleSSEData, SomeText, TextLine, PassedLine, Reports, Closes, Emits,
         EndOfBody, Broken, GeminiText, TruncateAtStopToken, ProcessStreamEvents, ResultLine,
         ProcessEnds, ReviewEnds, ReviewLine, Reviewing
    <3> QED
      BY <3>1, <3>2 DEF Scanning, InTools
  <2> QED
    BY <2>1, <2>2
<1>4. CASE Loop
  BY <1>4 DEF Loop, AnthropicRound, OpenAIRound, NativeRound, PseudoRound, RoundFails, Looping,
     CanAsk, Answers, SomeAnswer, SomeCalls, RoundCalls, Asks, ToolStarts, Tool, ToolReturns, NextRound
<1>5. CASE Send \/ Close \/ Take \/ Drained
  BY <1>5 DEF Send, Close, Take, Drained, InTools
<1> QED
  BY <1>1, <1>2, <1>3, <1>4, <1>5 DEF Next, Provider, Reader

\* What the steps of the tool loop do to its variables.
LEMMA LoopSteps ==
  ASSUME Loop
  PROVE  \/ pc = "round" /\ pc' = "close" /\ UNCHANGED loopVars
         \/ /\ pc = "round" /\ pc' = "tools" /\ wire # "pseudo_tools" /\ rounds' = rounds + 1
            /\ \E n \in 1 .. MaxCalls : todo' = CallIds(n) /\ msgs' = Append(msgs, Calls(CallIds(n)))
         \/ /\ pc = "round" /\ pc' = "tools" /\ wire = "pseudo_tools" /\ rounds' = rounds + 1
            /\ todo' = CallIds(1) /\ msgs' = msgs
         \/ pc = "tools" /\ pc' = "tool" /\ todo # <<>> /\ UNCHANGED loopVars
         \/ Tool
         \/ pc = "tools" /\ pc' = "round" /\ todo = <<>> /\ UNCHANGED loopVars
<1>1. CASE ToolStarts \/ Tool \/ NextRound
  BY <1>1 DEF ToolStarts, NextRound, Emits
<1>2. CASE RoundFails \/ Answers(<<>>) \/ SomeAnswer
  BY <1>2 DEF RoundFails, Answers, SomeAnswer, CanAsk, LoopEnds, Emits
<1>3. ASSUME wire # "pseudo_tools", SomeCalls
      PROVE  /\ pc = "round" /\ pc' = "tools" /\ wire # "pseudo_tools" /\ rounds' = rounds + 1
             /\ \E n \in 1 .. MaxCalls : todo' = CallIds(n) /\ msgs' = Append(msgs, Calls(CallIds(n)))
  BY <1>3 DEF SomeCalls, RoundCalls, Asks, CanAsk
<1>4. CASE AnthropicRound \/ OpenAIRound \/ NativeRound
  BY <1>2, <1>3, <1>4 DEF AnthropicRound, OpenAIRound, NativeRound
<1>5. CASE PseudoRound
  BY <1>2, <1>5 DEF PseudoRound, CanAsk
<1> QED
  BY <1>1, <1>4, <1>5 DEF Loop

LEMMA PrimedMessages ==
  ASSUME wire' = wire
  PROVE  /\ Settled(msgs)' <=> Settled(msgs')
         /\ (\E base \in Seq(Message), ids \in Seq(Id), n \in Nat :
               /\ Settled(base) /\ n <= Len(ids) /\ Len(ids) # 0
               /\ msgs' = base \o (<<Calls(ids)>> \o Partly(ids, n))
               /\ todo' = SubSeq(ids, n + 1, Len(ids)))
            => InRound'
<1>1. Settled(msgs)' <=> Settled(msgs')
  BY DEF Settled, ResultsOf
<1>2. ASSUME NEW base \in Seq(Message), NEW ids \in Seq(Id), NEW n \in Nat,
             Settled(base) /\ n <= Len(ids) /\ Len(ids) # 0,
             msgs' = base \o (<<Calls(ids)>> \o Partly(ids, n)),
             todo' = SubSeq(ids, n + 1, Len(ids))
      PROVE  InRound'
  <2>1. Settled(base)'
    BY <1>2 DEF Settled, ResultsOf
  <2>2. Partly(ids, n)' = Partly(ids, n)
    BY DEF Partly
  <2> HIDE DEF Message, Id
  <2> QED
    BY <1>2, <2>1, <2>2 DEF InRound
<1> HIDE DEF Message, Id
<1> QED
  BY <1>1, <1>2

LEMMA CallIdsTyped ==
  ASSUME rounds \in Nat, NEW n \in Nat
  PROVE  CallIds(n) \in Seq(Id) /\ Len(CallIds(n)) = n
<1>1. \A i \in 1 .. n : <<rounds, i>> \in Id
  BY DEF Id
<1> QED
  BY <1>1 DEF CallIds

\* One more call of the round is executed.
LEMMA ToolKeeps ==
  ASSUME MessagesInv, Tool, wire # "pseudo_tools"
  PROVE  InRound' /\ msgs' \in Seq(Message) /\ todo' \in Seq(Id)
<1> HIDE DEF Id, Message
<1>1. /\ pc = "tool" /\ todo # <<>> /\ todo \in Seq(Id) /\ msgs \in Seq(Message) /\ InRound
      /\ todo' = Tail(todo) /\ wire' = wire
  BY DEF MessagesInv, Tool, ToolReturns, Looping, InTools
<1>2. PICK base \in Seq(Message), ids \in Seq(Id), n \in Nat :
        /\ Settled(base) /\ n <= Len(ids) /\ Len(ids) # 0
        /\ msgs = base \o (<<Calls(ids)>> \o Partly(ids, n))
        /\ todo = SubSeq(ids, n + 1, Len(ids))
  BY <1>1 DEF InRound
<1> DEFINE c == <<Calls(ids)>>
           old == Partly(ids, n)
           new == Partly(ids, n + 1)
           id == Head(todo)
<1>3. /\ n < Len(ids) /\ n + 1 \in Nat /\ n + 1 <= Len(ids)
      /\ id = ids[n + 1] /\ id \in Id
      /\ todo' = SubSeq(ids, (n + 1) + 1, Len(ids)) /\ todo' \in Seq(Id)
      /\ SubSeq(ids, 1, n) \in Seq(Id)
      /\ Append(SubSeq(ids, 1, n), id) = SubSeq(ids, 1, n + 1)
  <2>1. Len(ids) \in Nat /\ \A i \in 1 .. Len(ids) : ids[i] \in Id
    OBVIOUS
  <2>2. CASE n = Len(ids)
    <3>1. SubSeq(ids, n + 1, Len(ids)) = <<>>
      BY <2>1, <2>2
    <3> QED
      BY <1>1, <1>2, <3>1
  <2>3. CASE n < Len(ids)
    <3>1. /\ todo # <<>> /\ Head(todo) = ids[n + 1]
          /\ Tail(todo) = SubSeq(ids, n + 2, Len(ids))
          /\ SubSeq(ids, 1, n) \in Seq(Id)
          /\ Append(SubSeq(ids, 1, n), ids[n + 1]) = SubSeq(ids, 1, n + 1)
      BY <1>2, <2>3, SplitHead
    <3>2. n + 1 \in Nat /\ n + 1 \in 1 .. Len(ids) /\ (n + 1) + 1 = n + 2
      BY <2>1, <2>3
    <3>3. Tail(todo) \in Seq(Id)
      BY <1>1
    <3> QED
      BY <1>1, <2>1, <2>3, <3>1, <3>2, <3>3, SMTT(30)
  <2> QED
    BY <1>2, <2>1, <2>2, <2>3
<1>4. old \in Seq(Message) /\ new \in Seq(Message) /\ Calls(ids) \in Message
  BY <1>2, <1>3, MessageTyped, ResultsTyped
<1> HIDE DEF id
<1>5. c = <<Calls(ids)>> /\ c \in Seq(Message)
  BY <1>4
<1>6. base \o (c \o new) \in Seq(Message)
  BY <1>4, <1>5, ConcatProperties
<1>7. msgs' = base \o (c \o new)
  <2>0. <<id>> \in Seq(Id)
    BY <1>3
  <2>r. Results(<<id>>) \in Message
    BY <2>0, MessageTyped
  <2>a. Append(base \o (c \o old), Results(<<id>>)) = base \o (c \o Append(old, Results(<<id>>)))
    <3> DEFINE k == Calls(ids)
               e == Results(<<id>>)
    <3>1. k \in Message /\ e \in Message /\ old \in Seq(Message) /\ base \in Seq(Message)
      BY <1>2, <1>4, <2>r
    <3> HIDE DEF old, k, e
    <3>2. <<k>> \in Seq(Message) /\ <<e>> \in Seq(Message)
      BY <3>1
    <3> DEFINE block == <<k>> \o old
    <3>3. block \in Seq(Message) /\ base \o block \in Seq(Message)
      BY <3>1, <3>2
    <3>4. block \o <<e>> = <<k>> \o (old \o <<e>>)
      BY <3>1, <3>2, ConcatAssociative
    <3>5. Append(old, e) = old \o <<e>>
      BY <3>1, AppendIsConcat
    <3> HIDE DEF block
    <3>6. Append(base \o block, e) = (base \o block) \o <<e>>
      BY <3>1, <3>3, AppendIsConcat
    <3>7. (base \o block) \o <<e>> = base \o (block \o <<e>>)
      BY <3>1, <3>2, <3>3, ConcatAssociative
    <3>8. Append(base \o block, e) = base \o (<<k>> \o Append(old, e))
      BY <3>4, <3>5, <3>6, <3>7
    <3> QED
      BY <3>8 DEF block, k, e
  <2>1. CASE wire = "anthropic_tools" /\ n = 0
    <3>1. old = <<>> /\ msgs = Append(base, Calls(ids))
      <4>1. old = <<>>
        BY <2>1 DEF Partly
      <4>2. msgs = base \o (c \o <<>>)
        BY <1>2, <4>1
      <4> QED
        BY <1>4, <4>1, <4>2, AppendsOne
    <3>2. SubSeq(ids, 1, n + 1) = <<id>>
      <4> DEFINE before == SubSeq(ids, 1, n)
                 after == SubSeq(ids, 1, n + 1)
      <4>1. before = <<>>
        BY <2>1
      <4>2. Append(before, id) = after
        BY <1>3
      <4> HIDE DEF before, after
      <4>3. after = <<id>>
        BY <4>1, <4>2
      <4> QED
        BY <4>3 DEF after
    <3>3. new = <<Results(<<id>>)>>
      <4>1. n + 1 # 0
        BY <1>3
      <4>2. new = <<Results(SubSeq(ids, 1, n + 1))>>
        BY <2>1, <4>1 DEF Partly
      <4> HIDE DEF new
      <4> QED
        BY <3>2, <4>2
    <3>4. Last(msgs) = Calls(ids) /\ Last(msgs).kind # "results"
      <4>1. Len(msgs) = Len(base) + 1 /\ msgs[Len(base) + 1] = Calls(ids)
        BY <1>4, <3>1
      <4> QED
        BY <4>1, MessageTyped DEF Last
    <3>5. msgs' = Append(msgs, Results(<<id>>))
      BY <2>1, <3>4 DEF id, Tool, AnthropicTool, RunOpenAIToolCalls, RunNativeToolCalls, RunPseudoToolCall
    <3>6. msgs = base \o (c \o old)
      BY <1>2
    <3>7. msgs' = base \o (c \o Append(old, Results(<<id>>)))
      BY <2>a, <3>5, <3>6
    <3>8. Append(old, Results(<<id>>)) = new
      BY <3>1, <3>3
    <3> QED
      BY <3>7, <3>8
  <2>2. CASE wire = "anthropic_tools" /\ n # 0
    <3> DEFINE done == SubSeq(ids, 1, n)
    <3>1. done \in Seq(Id) /\ Append(done, id) = SubSeq(ids, 1, n + 1)
      BY <1>3
    <3>2. old = <<Results(done)>>
      BY <2>2 DEF Partly
    <3>3. new = <<Results(Append(done, id))>>
      <4>1. n + 1 # 0
        BY <1>3
      <4>2. new = <<Results(SubSeq(ids, 1, n + 1))>>
        BY <2>2, <4>1 DEF Partly
      <4> HIDE DEF new, done
      <4> QED
        BY <3>1, <4>2
    <3>4. Results(done) \in Message /\ Results(done).kind = "results" /\ Results(done).ids = done
      BY <3>1, MessageTyped
    <3>5. Append(done, id) \in Seq(Id)
      BY <1>3, <3>1
    <3>6. Results(Append(done, id)) \in Message
      BY <3>5, MessageTyped
    <3> HIDE DEF done
    <3>7. msgs = base \o (<<Calls(ids)>> \o <<Results(done)>>)
      BY <1>2, <3>2
    <3>8. /\ msgs[Len(msgs)] = Results(done)
          /\ ReplaceAt(msgs, Len(msgs), Results(Append(done, id)))
             = base \o (<<Calls(ids)>> \o <<Results(Append(done, id))>>)
      <4> DEFINE x == Results(done)
                 y == Results(Append(done, id))
                 k == Calls(ids)
      <4>1. x \in Message /\ y \in Message /\ k \in Message
        BY <1>4, <3>4, <3>6
      <4>2. msgs = base \o (<<k>> \o <<x>>)
        BY <3>7
      <4> HIDE DEF x, y, k
      <4> DEFINE replaced == base \o (<<k>> \o <<y>>)
      <4>r. replaced = base \o (<<k>> \o <<y>>)
        OBVIOUS
      <4> HIDE DEF replaced
      <4>3. msgs[Len(msgs)] = x /\ ReplaceAt(msgs, Len(msgs), y) = replaced
        <5> DEFINE B == Len(base)
                   p == <<k>> \o <<x>>
                   q == <<k>> \o <<y>>
        <5>p. /\ p \in Seq(Message) /\ Len(p) = 2 /\ p[1] = k /\ p[2] = x
              /\ q \in Seq(Message) /\ Len(q) = 2 /\ q[1] = k /\ q[2] = y
          BY <4>1
        <5>q. msgs = base \o p /\ replaced = base \o q /\ base \in Seq(Message)
          BY <1>2, <4>2, <4>r
        <5> HIDE DEF p, q
        <5>1. /\ msgs \in Seq(Message) /\ Len(msgs) = B + 2
              /\ \A i \in 1 .. B + 2 : msgs[i] = IF i <= B THEN base[i] ELSE IF i = B + 1 THEN p[1] ELSE p[2]
          BY <5>p, <5>q, LastOfPair
        <5>2. /\ replaced \in Seq(Message) /\ Len(replaced) = B + 2
              /\ \A i \in 1 .. B + 2 : replaced[i] = IF i <= B THEN base[i] ELSE IF i = B + 1 THEN q[1] ELSE q[2]
          BY <5>p, <5>q, LastOfPair
        <5>3. B \in Nat
          BY <1>2
        <5> HIDE DEF B
        <5>4. B + 2 \in 1 .. B + 2 /\ ~(B + 2 <= B) /\ B + 2 # B + 1 /\ B + 2 # 0
          BY <5>3
        <5>5. msgs[B + 2] = x /\ replaced[B + 2] = y
          BY <5>1, <5>2, <5>4, <5>p
        <5>6. \A i \in 1 .. B + 2 : i # B + 2 => i <= B \/ i = B + 1
          BY <5>3
        <5>7. \A i \in 1 .. B + 2 : i # B + 2 => replaced[i] = msgs[i]
          BY <5>1, <5>2, <5>6, <5>p
        <5>8. ReplaceAt(msgs, Len(msgs), replaced[Len(msgs)]) = replaced
          BY <5>1, <5>2, <5>4, <5>7, ReplaceLast
        <5> QED
          BY <5>1, <5>5, <5>8
      <4> QED
        BY <4>3 DEF x, y, k, replaced
    <3>9. msgs' = ReplaceAt(msgs, Len(msgs), Results(Append(done, id)))
      BY <2>2, <3>4, <3>8 DEF id, Tool, AnthropicTool, RunOpenAIToolCalls, RunNativeToolCalls,
         RunPseudoToolCall, Last
    <3> HIDE DEF new
    <3> QED
      BY <3>3, <3>8, <3>9
  <2>3. CASE wire # "anthropic_tools"
    <3>1. msgs' = Append(msgs, Results(<<id>>))
      BY <2>3 DEF id, Tool, AnthropicTool, RunOpenAIToolCalls, RunNativeToolCalls, RunPseudoToolCall
    <3>2. /\ old = [i \in 1 .. n |-> Results(<<ids[i]>>)]
          /\ new = [i \in 1 .. n + 1 |-> Results(<<ids[i]>>)]
      BY <2>3 DEF Partly
    <3>3. new[n + 1] = Results(<<id>>)
      BY <1>3, <3>2
    <3>4. new = Append(old, Results(<<id>>))
      <4>1. Len(old) = n /\ DOMAIN old = 1 .. n
        BY <1>3, <3>2
      <4>2. \A i \in 1 .. n : new[i] = old[i]
        BY <1>3, <3>2
      <4>3. DOMAIN new = 1 .. n + 1 /\ new = [i \in 1 .. n + 1 |-> new[i]]
        BY <3>2
      <4> HIDE DEF old, new
      <4>4. Append(old, Results(<<id>>)) = [i \in 1 .. n + 1 |-> IF i = n + 1 THEN Results(<<id>>) ELSE old[i]]
        BY <1>3, <1>4, <4>1
      <4>5. \A i \in 1 .. n + 1 : new[i] = IF i = n + 1 THEN Results(<<id>>) ELSE old[i]
        BY <1>3, <3>3, <4>2
      <4> QED
        BY <4>3, <4>4, <4>5
    <3>5. msgs = base \o (c \o old)
      BY <1>2
    <3>6. msgs' = base \o (c \o Append(old, Results(<<id>>)))
      BY <2>a, <3>1, <3>5
    <3> HIDE DEF old, new
    <3> QED
      BY <3>4, <3>6
  <2> QED
    BY <2>1, <2>2, <2>3
<1>8. InRound'
  BY <1>1, <1>2, <1>3, <1>7, PrimedMessages
<1> QED
  BY <1>3, <1>6, <1>7, <1>8

LEMMA MessagesStepKeeps ==
  ASSUME MessagesInv, Next
  PROVE  MessagesInv'
<1> HIDE DEF Id, Message
<1>1. wire' = wire
  BY LoopFrame
<1>t. /\ msgs \in Seq(Message) /\ todo \in Seq(Id) /\ rounds \in Nat
      /\ ~InTools \/ wire = "pseudo_tools" => Settled(msgs)
      /\ InTools /\ wire # "pseudo_tools" => InRound
      /\ pc = "tool" => todo # <<>>
  BY DEF MessagesInv
<1>s. ASSUME UNCHANGED <<msgs, todo>>
      PROVE  (Settled(msgs) => Settled(msgs)') /\ (InRound => InRound')
  BY <1>1, <1>s, PrimedMessages DEF InRound
<1>2. CASE UNCHANGED loopVars /\ (InTools' <=> InTools) /\ (pc' = "tool" => pc = "tool")
  BY <1>1, <1>2, <1>s, <1>t DEF MessagesInv, loopVars
<1>3. CASE Loop
  <2>1. CASE pc = "round" /\ pc' = "close" /\ UNCHANGED loopVars
    BY <1>1, <1>s, <1>t, <2>1 DEF MessagesInv, loopVars, InTools
  <2>2. CASE /\ pc = "round" /\ pc' = "tools" /\ wire # "pseudo_tools" /\ rounds' = rounds + 1
             /\ \E n \in 1 .. MaxCalls : todo' = CallIds(n) /\ msgs' = Append(msgs, Calls(CallIds(n)))
    <3>1. PICK n \in 1 .. MaxCalls : todo' = CallIds(n) /\ msgs' = Append(msgs, Calls(CallIds(n)))
      BY <2>2
    <3> DEFINE ids == CallIds(n)
    <3>2. n \in Nat /\ n # 0 /\ ids \in Seq(Id) /\ Len(ids) = n
      BY <1>t, CallIdsTyped, CallBounds
    <3>3. Calls(ids) \in Message /\ Settled(msgs)
      BY <1>t, <2>2, <3>2, MessageTyped DEF InTools
    <3> HIDE DEF ids
    <3>4. Partly(ids, 0) = <<>>
      BY DEF Partly
    <3>m. msgs' = Append(msgs, Calls(ids)) /\ todo' = ids
      BY <3>1 DEF ids
    <3>5. msgs' = msgs \o (<<Calls(ids)>> \o Partly(ids, 0)) /\ msgs' \in Seq(Message)
      BY <1>t, <3>3, <3>4, <3>m, AppendsOne
    <3>6. todo' = SubSeq(ids, 0 + 1, Len(ids)) /\ todo' \in Seq(Id)
      BY <3>2, <3>m, WholePrefix
    <3>7. InRound'
      <4>1. 0 <= Len(ids) /\ Len(ids) # 0
        BY <3>2
      <4> QED
        BY <1>1, <1>t, <3>2, <3>3, <3>5, <3>6, <4>1, PrimedMessages
    <3> QED
      BY <1>1, <1>t, <2>2, <3>5, <3>6, <3>7 DEF MessagesInv, InTools
  <2>3. CASE /\ pc = "round" /\ pc' = "tools" /\ wire = "pseudo_tools" /\ rounds' = rounds + 1
             /\ todo' = CallIds(1) /\ msgs' = msgs
    <3>1. CallIds(1) \in Seq(Id)
      BY <1>t, CallIdsTyped
    <3>2. Settled(msgs)'
      BY <1>1, <1>t, <2>3, PrimedMessages
    <3> QED
      BY <1>1, <1>t, <2>3, <3>1, <3>2 DEF MessagesInv
  <2>4. CASE pc = "tools" /\ pc' = "tool" /\ todo # <<>> /\ UNCHANGED loopVars
    BY <1>1, <1>s, <1>t, <2>4 DEF MessagesInv, loopVars, InTools
  <2>5. CASE Tool /\ wire # "pseudo_tools"
    <3>1. pc = "tool" /\ pc' = "tools" /\ rounds' = rounds
      BY <2>5 DEF Tool, ToolReturns, Emits
    <3> QED
      BY <1>1, <1>t, <2>5, <3>1, ToolKeeps DEF MessagesInv, InTools
  <2>6. CASE Tool /\ wire = "pseudo_tools"
    <3>1. /\ pc = "tool" /\ pc' = "tools" /\ rounds' = rounds /\ todo' = Tail(todo) /\ todo # <<>>
          /\ Settled(msgs)
          /\ msgs' = msgs \o <<Calls(<<Head(todo)>>), Results(<<Head(todo)>>)>>
      BY <1>t, <2>6 DEF Tool, ToolReturns, Emits, AnthropicTool, RunOpenAIToolCalls,
         RunNativeToolCalls, RunPseudoToolCall
    <3> DEFINE ids == <<Head(todo)>>
    <3>2. ids \in Seq(Id) /\ Len(ids) = 1 /\ todo' \in Seq(Id) /\ DOMAIN ids = {1} /\ ids[1] = Head(todo)
      BY <1>t, <3>1
    <3>3. Calls(ids) \in Message /\ Results(ids) \in Message
      BY <3>2, MessageTyped
    <3>4. ResultsOf(ids) = [i \in {1} |-> Results(<<ids[i]>>)]
      BY <2>6, <3>2 DEF ResultsOf
    <3>5. ResultsOf(ids) = <<Results(ids)>>
      BY <3>2, <3>4
    <3>m. msgs' = msgs \o <<Calls(ids), Results(ids)>>
      BY <3>1
    <3> HIDE DEF ids
    <3>6. msgs' = msgs \o (<<Calls(ids)>> \o ResultsOf(ids)) /\ msgs' \in Seq(Message)
      <4>1. <<Calls(ids), Results(ids)>> = <<Calls(ids)>> \o <<Results(ids)>>
        OBVIOUS
      <4>2. <<Calls(ids), Results(ids)>> \in Seq(Message)
        BY <3>3
      <4> QED
        BY <1>t, <3>5, <3>m, <4>1, <4>2
    <3>7. Settled(msgs') /\ msgs' \in Seq(Message)
      <4>1. Len(ids) # 0 /\ ids \in Seq(Id) /\ msgs \in Seq(Message) /\ Settled(msgs)
        BY <1>t, <3>1, <3>2
      <4>2. Settled(msgs \o (<<Calls(ids)>> \o ResultsOf(ids)))
        BY <4>1, RoundSettles
      <4> QED
        BY <3>6, <4>2
    <3>8. Settled(msgs)'
      BY <1>1, <3>7, PrimedMessages
    <3> QED
      BY <1>1, <1>t, <2>6, <3>1, <3>2, <3>7, <3>8 DEF MessagesInv
  <2>7. CASE pc = "tools" /\ pc' = "round" /\ todo = <<>> /\ UNCHANGED loopVars
    <3>1. CASE wire = "pseudo_tools"
      BY <1>1, <1>s, <1>t, <2>7, <3>1 DEF MessagesInv, loopVars, InTools
    <3>2. CASE wire # "pseudo_tools"
      <4>1. PICK base \in Seq(Message), ids \in Seq(Id), n \in Nat :
              /\ Settled(base) /\ n <= Len(ids) /\ Len(ids) # 0
              /\ msgs = base \o (<<Calls(ids)>> \o Partly(ids, n))
              /\ todo = SubSeq(ids, n + 1, Len(ids))
        BY <1>t, <2>7, <3>2 DEF InRound, InTools
      <4>2. n = Len(ids)
        BY <2>7, <4>1, NothingBehind
      <4>3. Partly(ids, n) = ResultsOf(ids)
        BY <4>1, <4>2, ResultsTyped
      <4>4. Settled(msgs)
        BY <4>1, <4>3, RoundSettles
      <4> QED
        BY <1>1, <1>s, <1>t, <2>7, <4>4 DEF MessagesInv, loopVars, InTools
    <3> QED
      BY <3>1, <3>2
  <2> QED
    BY <1>3, <2>1, <2>2, <2>3, <2>4, <2>5, <2>6, <2>7, LoopSteps
<1> QED
  BY <1>2, <1>3, LoopFrame

LEMMA MessagesStart ==
  ASSUME Init \/ CallAtRest
  PROVE  MessagesInv
<1>1. msgs = <<>> /\ todo = <<>> /\ rounds = 0 /\ ~InTools
  BY DEF Init, CallAtRest, InTools
<1>2. Settled(<<>>)
  BY DEF Settled
<1> QED
  BY <1>1, <1>2 DEF MessagesInv, InTools

LEMMA MessagesUnchanged ==
  ASSUME MessagesInv, UNCHANGED vars
  PROVE  MessagesInv'
<1>1. UNCHANGED <<wire, pc, msgs, todo, rounds>>
  BY DEF vars, loopVars
<1>2. InRound => InRound'
  BY <1>1, PrimedMessages DEF InRound
<1>3. Settled(msgs) => Settled(msgs)'
  BY <1>1, PrimedMessages
<1> QED
  BY <1>1, <1>2, <1>3 DEF MessagesInv, InTools

-----------------------------------------------------------------------------
(* The texts of a call.                                                    *)

Chunks(list) == Cardinality({i \in DOMAIN list : list[i].type = "chunk"})
HasDone(list) == \E i \in DOMAIN list : list[i].type = "done"
DoneLast(list) == \A i \in DOMAIN list : list[i].type = "done" => i = Len(list)

TextEvent ==
  {e \in EventRecord : Len(e.text) <= MaxText /\ (e.type = "chunk" => Len(e.text) = 1)}

LEMMA ChunksAppend ==
  ASSUME NEW list \in Seq(TextEvent), NEW e \in TextEvent
  PROVE  /\ Chunks(list) \in Nat
         /\ Chunks(Append(list, e)) = Chunks(list) + (IF e.type = "chunk" THEN 1 ELSE 0)
<1> HIDE DEF TextEvent
<1> DEFINE more == Append(list, e)
           held == {i \in DOMAIN list : list[i].type = "chunk"}
           after == {i \in DOMAIN more : more[i].type = "chunk"}
<1>1. /\ DOMAIN list = 1 .. Len(list) /\ Len(list) \in Nat
      /\ DOMAIN more = 1 .. Len(list) + 1
      /\ more[Len(list) + 1] = e /\ \A i \in 1 .. Len(list) : more[i] = list[i]
  OBVIOUS
<1> HIDE DEF more
<1>2. IsFiniteSet(held) /\ Cardinality(held) \in Nat
  <2>1. held \in SUBSET (1 .. Len(list)) /\ IsFiniteSet(1 .. Len(list))
    BY <1>1, FS_Interval
  <2> QED
    BY <2>1, FS_Subset, FS_CardinalityType
<1>3. Len(list) + 1 \notin held
  BY <1>1
<1>4. CASE e.type = "chunk"
  <2>1. after = held \cup {Len(list) + 1}
    BY <1>1, <1>4
  <2>2. Cardinality(after) = Cardinality(held) + 1
    BY <1>2, <1>3, <2>1, FS_AddElement
  <2> QED
    BY <1>2, <1>4, <2>2 DEF Chunks, more
<1>5. CASE e.type # "chunk"
  <2>1. after = held
    BY <1>1, <1>5
  <2>2. Chunks(Append(list, e)) = Cardinality(held) /\ Chunks(list) = Cardinality(held)
    BY <2>1 DEF Chunks, more
  <2> HIDE DEF held
  <2> QED
    BY <1>2, <1>5, <2>2
<1> QED
  BY <1>4, <1>5

LEMMA ChunksTail ==
  ASSUME NEW list \in Seq(TextEvent), list # <<>>
  PROVE  /\ Chunks(Tail(list)) \in Nat
         /\ Chunks(list) = Chunks(Tail(list)) + (IF Head(list).type = "chunk" THEN 1 ELSE 0)
<1> HIDE DEF TextEvent
<1> DEFINE rest == Tail(list)
           held == {i \in DOMAIN list : list[i].type = "chunk"}
           after == {i \in DOMAIN rest : rest[i].type = "chunk"}
           moved == [i \in after |-> i + 1]
<1>1. /\ DOMAIN list = 1 .. Len(list) /\ Len(list) \in Nat /\ Len(list) # 0
      /\ DOMAIN rest = 1 .. Len(list) - 1 /\ Head(list) = list[1]
      /\ \A i \in 1 .. Len(list) - 1 : rest[i] = list[i + 1]
  OBVIOUS
<1> HIDE DEF rest
<1>2. IsFiniteSet(after) /\ Cardinality(after) \in Nat
  <2>1. after \in SUBSET (1 .. Len(list)) /\ IsFiniteSet(1 .. Len(list))
    BY <1>1, FS_Interval
  <2> QED
    BY <2>1, FS_Subset, FS_CardinalityType
<1>3. \A i \in after : i \in Nat /\ i + 1 \in held \ {1}
  BY <1>1
<1>4. \A j \in held \ {1} : j - 1 \in after /\ (j - 1) + 1 = j
  BY <1>1
<1> HIDE DEF after, held
<1>5. moved \in Bijection(after, held \ {1})
  <2>1. moved \in [after -> held \ {1}]
    BY <1>3
  <2>2. \A i, j \in after : moved[i] = moved[j] => i = j
    BY <1>3
  <2>3. \A j \in held \ {1} : \E i \in after : moved[i] = j
    BY <1>4
  <2> HIDE DEF moved
  <2> QED
    BY <2>1, <2>2, <2>3, Fun_IsBij
<1>6. IsFiniteSet(held \ {1}) /\ Cardinality(held \ {1}) = Cardinality(after)
  <2> HIDE DEF moved
  <2> QED
    BY <1>2, <1>5, FS_Bijection DEF ExistsBijection
<1>7. CASE Head(list).type = "chunk"
  <2>1. 1 \in held
    BY <1>1, <1>7 DEF held
  <2>2. held = (held \ {1}) \cup {1} /\ 1 \notin held \ {1}
    BY <2>1
  <2>3. Cardinality(held) = Cardinality(held \ {1}) + 1
    BY <1>6, <2>2, FS_AddElement
  <2> QED
    BY <1>2, <1>6, <1>7, <2>3 DEF Chunks, rest, held, after
<1>8. CASE Head(list).type # "chunk"
  <2>1. held \ {1} = held
    BY <1>1, <1>8 DEF held
  <2>2. Chunks(list) = Cardinality(held) /\ Chunks(Tail(list)) = Cardinality(after)
    BY DEF Chunks, rest, held, after
  <2>3. Cardinality(held) = Cardinality(after)
    BY <1>6, <2>1
  <2> QED
    BY <1>2, <1>8, <2>2, <2>3
<1> QED
  BY <1>7, <1>8

LEMMA DoneAppend ==
  ASSUME NEW list \in Seq(TextEvent), NEW e \in TextEvent
  PROVE  /\ ~HasDone(list) => DoneLast(Append(list, e))
         /\ HasDone(Append(list, e)) <=> HasDone(list) \/ e.type = "done"
<1> HIDE DEF TextEvent
<1> DEFINE more == Append(list, e)
<1>1. /\ DOMAIN list = 1 .. Len(list) /\ Len(list) \in Nat
      /\ DOMAIN more = 1 .. Len(list) + 1 /\ Len(more) = Len(list) + 1
      /\ more[Len(list) + 1] = e /\ \A i \in 1 .. Len(list) : more[i] = list[i]
  OBVIOUS
<1> HIDE DEF more
<1>2. \A i \in DOMAIN more : i = Len(list) + 1 \/ i \in DOMAIN list
  BY <1>1
<1>3. DOMAIN list \subseteq DOMAIN more /\ Len(list) + 1 \in DOMAIN more
  BY <1>1
<1>4. ~HasDone(list) => DoneLast(more)
  BY <1>1, <1>2 DEF HasDone, DoneLast
<1>5. HasDone(more) <=> HasDone(list) \/ e.type = "done"
  BY <1>1, <1>2, <1>3 DEF HasDone
<1> QED
  BY <1>4, <1>5 DEF more

LEMMA DoneTail ==
  ASSUME NEW list \in Seq(TextEvent), list # <<>>
  PROVE  /\ DoneLast(list) => DoneLast(Tail(list))
         /\ DoneLast(list) /\ Head(list).type = "done" => Tail(list) = <<>>
         /\ HasDone(Tail(list)) => HasDone(list)
         /\ HasDone(list) => Head(list).type = "done" \/ HasDone(Tail(list))
<1> HIDE DEF TextEvent
<1> DEFINE rest == Tail(list)
<1>1. /\ DOMAIN list = 1 .. Len(list) /\ Len(list) \in Nat /\ Len(list) # 0
      /\ DOMAIN rest = 1 .. Len(list) - 1 /\ Head(list) = list[1]
      /\ Len(rest) = Len(list) - 1 /\ rest \in Seq(TextEvent)
      /\ \A i \in 1 .. Len(list) - 1 : rest[i] = list[i + 1]
  OBVIOUS
<1> HIDE DEF rest
<1>2. \A i \in DOMAIN rest : i + 1 \in DOMAIN list /\ rest[i] = list[i + 1]
  BY <1>1
<1>3. \A i \in DOMAIN list : i = 1 \/ (i - 1 \in DOMAIN rest /\ rest[i - 1] = list[i])
  BY <1>1
<1>4. DoneLast(list) => DoneLast(rest)
  BY <1>1, <1>2 DEF DoneLast
<1>5. DoneLast(list) /\ Head(list).type = "done" => rest = <<>>
  <2>1. 1 \in DOMAIN list
    BY <1>1
  <2>2. DoneLast(list) /\ Head(list).type = "done" => Len(rest) = 0
    BY <1>1, <2>1 DEF DoneLast
  <2>3. Len(rest) = 0 => rest = <<>>
    BY <1>1
  <2> QED
    BY <2>2, <2>3
<1>6. HasDone(rest) => HasDone(list)
  BY <1>2 DEF HasDone
<1>7. HasDone(list) => Head(list).type = "done" \/ HasDone(rest)
  BY <1>1, <1>3 DEF HasDone
<1> QED
  BY <1>4, <1>5, <1>6, <1>7 DEF rest

\* What one line puts out, and the step to which it leads.
Fits(events, next, n) ==
  /\ events \in Seq(TextEvent) /\ Len(events) <= 2
  /\ Chunks(events) <= n
  /\ DoneLast(events) /\ (HasDone(events) => next = "close")

LEMMA NoEventFits ==
  ASSUME NEW next, NEW n \in Nat
  PROVE  Fits(<<>>, next, n) /\ Chunks(<<>>) = 0
<1>1. {i \in DOMAIN <<>> : <<>>[i].type = "chunk"} = {}
  OBVIOUS
<1>2. Chunks(<<>>) = 0
  BY <1>1, FS_EmptySet DEF Chunks
<1> QED
  BY <1>2 DEF Fits, HasDone, DoneLast

LEMMA OneEventFits ==
  ASSUME NEW next, NEW n \in Nat, NEW e \in TextEvent,
         e.type = "done" => next = "close", e.type = "chunk" => n # 0
  PROVE  /\ Fits(<<e>>, next, n) /\ (e.type # "done" => ~HasDone(<<e>>))
         /\ Chunks(<<e>>) = IF e.type = "chunk" THEN 1 ELSE 0
<1> HIDE DEF TextEvent
<1> DEFINE none == <<>>
           one == <<e>>
<1>1. none \in Seq(TextEvent) /\ Append(none, e) = one /\ one \in Seq(TextEvent) /\ Len(one) = 1
  OBVIOUS
<1>2. Chunks(none) = 0 /\ ~HasDone(none)
  <2>1. ~HasDone(none)
    BY DEF HasDone
  <2> QED
    BY <2>1, NoEventFits
<1> HIDE DEF none, one
<1>3. Chunks(one) = IF e.type = "chunk" THEN 1 ELSE 0
  <2>1. Chunks(Append(none, e)) = Chunks(none) + (IF e.type = "chunk" THEN 1 ELSE 0)
    BY <1>1, ChunksAppend
  <2> QED
    BY <1>1, <1>2, <2>1
<1>4. DoneLast(one) /\ (HasDone(one) <=> e.type = "done")
  BY <1>1, <1>2, DoneAppend
<1>5. Fits(one, next, n)
  BY <1>1, <1>3, <1>4 DEF Fits
<1> QED
  BY <1>3, <1>4, <1>5 DEF one

LEMMA TwoEventsFit ==
  ASSUME NEW a \in TextEvent, NEW b \in TextEvent, NEW n \in Nat, a.type # "done",
         a.type # "chunk" \/ b.type # "chunk", a.type = "chunk" \/ b.type = "chunk" => n # 0,
         NEW next, b.type = "done" => next = "close"
  PROVE  Fits(<<a, b>>, next, n)
<1> HIDE DEF TextEvent
<1> DEFINE one == <<a>>
           two == <<a, b>>
<1>1. /\ one \in Seq(TextEvent) /\ Append(one, b) = two
      /\ two \in Seq(TextEvent) /\ Len(two) = 2
  <2>1. one \in Seq(TextEvent)
    OBVIOUS
  <2>3. two \in Seq(TextEvent)
    OBVIOUS
  <2>4. Len(two) = 2
    OBVIOUS
  <2>2. Append(one, b) = two
    <3>1. two[1] = a /\ two[2] = b /\ one[1] = a /\ Len(one) = 1
      OBVIOUS
    <3> HIDE DEF one, two
    <3>2. /\ Append(one, b) \in Seq(TextEvent) /\ Len(Append(one, b)) = 2
          /\ Append(one, b)[1] = a /\ Append(one, b)[2] = b
      <4>1. /\ Append(one, b) \in Seq(TextEvent) /\ Len(Append(one, b)) = Len(one) + 1
            /\ \A i \in 1 .. Len(one) : Append(one, b)[i] = one[i]
            /\ Append(one, b)[Len(one) + 1] = b
        BY <2>1, AppendProperties
      <4>2. Len(one) + 1 = 2 /\ 1 \in 1 .. Len(one)
        BY <3>1
      <4> HIDE DEF TextEvent
      <4> QED
        BY <3>1, <4>1, <4>2
    <3>3. \A i \in 1 .. 2 : Append(one, b)[i] = two[i]
      BY <3>1, <3>2
    <3> QED
      BY <2>3, <2>4, <3>2, <3>3, SeqEqual
  <2> QED
    BY <2>1, <2>2, <2>3, <2>4
<1>2. Chunks(one) = (IF a.type = "chunk" THEN 1 ELSE 0) /\ ~HasDone(one)
  <2>1. 1 \in Nat /\ 1 # 0
    OBVIOUS
  <2> QED
    BY <2>1, OneEventFits
<1> HIDE DEF one, two
<1>3. Chunks(two) = Chunks(one) + (IF b.type = "chunk" THEN 1 ELSE 0)
  BY <1>1, ChunksAppend
<1>4. DoneLast(two) /\ (HasDone(two) <=> b.type = "done")
  BY <1>1, <1>2, DoneAppend
<1>5. Fits(two, next, n)
  BY <1>1, <1>2, <1>3, <1>4 DEF Fits
<1> QED
  BY <1>5 DEF two

CallTyped ==
  /\ wire \in Wires /\ reader \in ReadersOf(wire)
  /\ pc \in {"request", "backoff", "read", "round", "tools", "tool", "close", "closed"}
  /\ tries \in 0 .. MaxRetries /\ lines \in 0 .. MaxLines /\ rounds \in 0 .. MaxIterations
  /\ cancelled \in BOOLEAN /\ cut \in BOOLEAN /\ fault \in BOOLEAN
  /\ outcome \in {"idle", "reading", "ok", "findings", "failed", "limited"}
  /\ Len(todo) <= MaxCalls

\* A line carries at most one fragment; the answer of a tool loop is one more.
TextBound == IF pc \in {"close", "closed"} THEN MaxText ELSE lines

\* What the reader has and what is on its way to it; "done" comes last.
TextFits ==
  /\ said \in Seq(Fragments) /\ Len(said) <= lines
  /\ got \in Seq(Fragments)
  /\ out \in Seq(TextEvent) /\ Len(out) <= 2
  /\ chan \in Seq(TextEvent) /\ Len(chan) <= Capacity
  /\ Len(got) + Chunks(chan) + Chunks(out) <= TextBound
  /\ DoneLast(out) /\ DoneLast(chan) /\ (HasDone(chan) => out = <<>>)
  /\ HasDone(chan) \/ HasDone(out) => pc \in {"close", "closed"}

LEMMA ChunksCounted ==
  ASSUME NEW list \in Seq(TextEvent)
  PROVE  Chunks(list) \in Nat
<1> HIDE DEF TextEvent
<1>1. {i \in DOMAIN list : list[i].type = "chunk"} \in SUBSET (1 .. Len(list))
  OBVIOUS
<1>2. IsFiniteSet(1 .. Len(list))
  BY FS_Interval
<1> QED
  BY <1>1, <1>2, FS_Subset, FS_CardinalityType DEF Chunks

LEMMA TextBoundIs ==
  ASSUME CallTyped
  PROVE  TextBound \in Nat /\ lines \in Nat /\ MaxText \in Nat /\ lines < MaxText
         /\ TextBound <= MaxText /\ lines <= TextBound
  BY CallBounds DEF CallTyped, TextBound, MaxText

LEMMA EventsTyped ==
  /\ \A type \in Types \ {"chunk"} : Plain(type) \in TextEvent /\ Plain(type).type = type
  /\ \A f \in Fragments : Chunk(<<f>>) \in TextEvent /\ Chunk(<<f>>).type = "chunk"
  /\ \A text \in Seq(Fragments) : Len(text) <= MaxText =>
       Event("done", text) \in TextEvent /\ Event("done", text).type = "done"
<1>0. MaxText \in Nat /\ 1 <= MaxText
  BY CallBounds DEF MaxText
<1>1. ASSUME NEW type \in Types \ {"chunk"}
      PROVE  Plain(type) \in TextEvent /\ Plain(type).type = type
  <2>1. <<>> \in Seq(Fragments) /\ Len(<<>>) = 0
    OBVIOUS
  <2> QED
    BY <1>0, <2>1 DEF Plain, Event, TextEvent, EventRecord
<1>2. ASSUME NEW f \in Fragments
      PROVE  Chunk(<<f>>) \in TextEvent /\ Chunk(<<f>>).type = "chunk"
  <2>1. <<f>> \in Seq(Fragments) /\ Len(<<f>>) = 1
    OBVIOUS
  <2> QED
    BY <1>0, <2>1 DEF Chunk, Event, TextEvent, EventRecord, Types
<1>3. ASSUME NEW text \in Seq(Fragments), Len(text) <= MaxText
      PROVE  Event("done", text) \in TextEvent /\ Event("done", text).type = "done"
  BY <1>3 DEF Event, TextEvent, EventRecord, Types
<1> QED
  BY <1>1, <1>2, <1>3

\* What a line of any answer puts out.
LEMMA LinePuts ==
  ASSUME CallTyped, TextFits, Read, ~ReviewBead
  PROVE  \E events \in Seq(TextEvent), next \in {"read", "close"}, n \in {0, 1} :
           /\ Scanning /\ Emits(events, next) /\ Fits(events, next, n)
           /\ lines' = lines + n /\ lines' \in 0 .. MaxLines
           /\ said' \in Seq(Fragments) /\ Len(said') <= lines' /\ cut' \in BOOLEAN
<1> HIDE DEF TextEvent
<1> DEFINE Good(events, next, n) ==
             /\ Scanning /\ Emits(events, next) /\ Fits(events, next, n)
             /\ lines' = lines + n /\ lines' \in 0 .. MaxLines
             /\ said' \in Seq(Fragments) /\ Len(said') <= lines' /\ cut' \in BOOLEAN
           Goal == \E events \in Seq(TextEvent), next \in {"read", "close"}, n \in {0, 1} : Good(events, next, n)
<1> HIDE DEF Good
<1>g. ASSUME NEW events, NEW next \in {"read", "close"}, NEW n \in {0, 1}, Good(events, next, n)
      PROVE  Goal
  <2>1. events \in Seq(TextEvent)
    BY <1>g DEF Good, Fits
  <2> QED
    BY <1>g, <2>1
<1> HIDE DEF Goal
<1> SUFFICES Goal
  BY DEF Goal, Good
<1>t. /\ lines \in Nat /\ lines \in 0 .. MaxLines /\ MaxLines \in Nat /\ lines <= MaxText
      /\ said \in Seq(Fragments) /\ Len(said) \in Nat /\ Len(said) <= lines /\ cut \in BOOLEAN
  BY CallBounds DEF CallTyped, TextFits, MaxText
<1>e. /\ \A type \in Types \ {"chunk"} : Plain(type) \in TextEvent /\ Plain(type).type = type
      /\ \A f \in Fragments : Chunk(<<f>>) \in TextEvent /\ Chunk(<<f>>).type = "chunk"
      /\ {"error", "tokens", "plan_limit", "done"} \subseteq Types \ {"chunk"}
  BY EventsTyped DEF Types
<1>n. ASSUME NextLine
      PROVE  Scanning /\ lines' = lines + 1 /\ lines' \in 0 .. MaxLines /\ cut' \in BOOLEAN
  BY <1>t, <1>n DEF NextLine
<1>1. ASSUME NEW f \in Fragments, TextLine(f)
      PROVE  Goal
  <2>1. NextLine /\ said' = Append(said, f) /\ Emits(<<Chunk(<<f>>)>>, "read")
    BY <1>1 DEF TextLine
  <2>2. said' \in Seq(Fragments) /\ Len(said') = Len(said) + 1
    BY <1>t, <2>1
  <2>3. Fits(<<Chunk(<<f>>)>>, "read", 1)
    BY <1>e, OneEventFits
  <2>4. Good(<<Chunk(<<f>>)>>, "read", 1)
    BY <1>t, <1>n, <2>1, <2>2, <2>3 DEF Good
  <2> QED
    BY <1>g, <2>4
<1>2. CASE PassedLine
  <2>1. Fits(<<>>, "read", 1)
    BY NoEventFits
  <2>2. Good(<<>>, "read", 1)
    BY <1>2, <1>t, <1>n, <2>1 DEF PassedLine, Good
  <2> QED
    BY <1>g, <2>2
<1>3. ASSUME NEW type \in {"error", "tokens"}, Reports(type)
      PROVE  Goal
  <2>1. Plain(type) \in TextEvent /\ Plain(type).type = type
    BY <1>e
  <2>2. Fits(<<Plain(type)>>, "read", 1)
    BY <2>1, OneEventFits
  <2>3. Good(<<Plain(type)>>, "read", 1)
    BY <1>3, <1>t, <1>n, <2>2 DEF Reports, Good
  <2> QED
    BY <1>g, <2>3
<1>4. ASSUME NEW events, Fits(events, "close", 1), Closes(events)
      PROVE  Goal
  <2>1. Good(events, "close", 1)
    BY <1>4, <1>t, <1>n DEF Closes, Good
  <2> QED
    BY <1>g, <2>1
<1>5. /\ Fits(<<Plain("done")>>, "close", 1) /\ Fits(<<Plain("plan_limit")>>, "close", 1)
      /\ Fits(<<Plain("done")>>, "close", 0)
  BY <1>e, OneEventFits
<1>6. /\ Fits(<<Plain("error"), Plain("done")>>, "close", 1)
      /\ Fits(<<Plain("tokens"), Plain("done")>>, "close", 1)
      /\ Fits(<<Plain("error"), Plain("done")>>, "close", 0)
  BY <1>e, TwoEventsFit
<1>7. CASE EndOfBody
  <2>1. Good(<<Plain("done")>>, "close", 0)
    BY <1>7, <1>t, <1>5 DEF EndOfBody, Good
  <2> QED
    BY <1>g, <2>1
<1>8. CASE Broken
  <2>1. Good(<<Plain("error"), Plain("done")>>, "close", 0)
    BY <1>8, <1>t, <1>6 DEF Broken, Good
  <2> QED
    BY <1>g, <2>1
<1>9. CASE TruncateAtStopToken(<<>>)
  <2>1. NextLine /\ said' = said \o <<>> /\ Emits(<<Plain("done")>>, "close")
    BY <1>9 DEF TruncateAtStopToken
  <2>2. said' = said
    BY <1>t, <2>1
  <2>3. Good(<<Plain("done")>>, "close", 1)
    BY <1>t, <1>n, <1>5, <2>1, <2>2 DEF Good
  <2> QED
    BY <1>g, <2>3
<1>10. ASSUME NEW f \in Fragments, TruncateAtStopToken(<<f>>)
       PROVE  Goal
  <2>1. NextLine /\ said' = said \o <<f>> /\ Emits(<<Chunk(<<f>>), Plain("done")>>, "close")
    BY <1>10 DEF TruncateAtStopToken
  <2>2. said' \in Seq(Fragments) /\ Len(said') = Len(said) + 1
    BY <1>t, <2>1
  <2>3. Fits(<<Chunk(<<f>>), Plain("done")>>, "close", 1)
    BY <1>e, TwoEventsFit
  <2>4. Good(<<Chunk(<<f>>), Plain("done")>>, "close", 1)
    BY <1>t, <1>n, <2>1, <2>2, <2>3 DEF Good
  <2> QED
    BY <1>g, <2>4
<1>11. CASE ResultLine
  <2>1. CASE Reports("tokens")
    BY <1>3, <2>1
  <2>2. ASSUME NextLine, said = <<>>, NEW f \in Fragments, said' = <<f>>,
               Emits(<<Plain("tokens"), Chunk(<<f>>)>>, "read")
        PROVE  Goal
    <3>1. said' \in Seq(Fragments) /\ Len(said') = 1
      BY <2>2
    <3>2. Fits(<<Plain("tokens"), Chunk(<<f>>)>>, "read", 1)
      BY <1>e, TwoEventsFit
    <3>3. Good(<<Plain("tokens"), Chunk(<<f>>)>>, "read", 1)
      BY <1>t, <1>n, <2>2, <3>1, <3>2 DEF Good
    <3> QED
      BY <1>g, <3>3
  <2>3. CASE ~Reports("tokens")
    <3>1. PICK f \in Fragments : /\ NextLine /\ said = <<>> /\ said' = <<f>>
                                 /\ Emits(<<Plain("tokens"), Chunk(<<f>>)>>, "read")
      BY <1>11, <2>3 DEF ResultLine
    <3> QED
      BY <2>2, <3>1
  <2> QED
    BY <2>1, <2>3
<1>12. CASE ProcessEnds
  <2>0. Len(said) <= MaxText
    BY <1>t, CallBounds DEF MaxText
  <2>1. Event("done", said) \in TextEvent /\ Event("done", said).type = "done"
    BY <1>t, <2>0, EventsTyped
  <2>2. Fits(<<Event("done", said)>>, "close", 0)
    BY <2>1, OneEventFits
  <2>3. Good(<<Event("done", said)>>, "close", 0)
    BY <1>12, <1>t, <2>2 DEF ProcessEnds, Good
  <2> QED
    BY <1>g, <2>3
<1>13. \/ SomeText \/ PassedLine \/ Reports("error") \/ EndOfBody \/ Broken
       \/ Closes(<<Plain("error"), Plain("done")>>) \/ Closes(<<Plain("done")>>)
       \/ Closes(<<Plain("tokens"), Plain("done")>>) \/ Closes(<<Plain("plan_limit")>>)
       \/ TruncateAtStopToken(<<>>) \/ \E f \in Fragments : TruncateAtStopToken(<<f>>)
       \/ ResultLine \/ ProcessEnds
  BY DEF Read, AnthropicStream, OpenAIStream, GeminiStream, OllamaStream, HandleSSEData, GeminiText,
         CliStream, ProcessStreamEvents
<1>14. SomeText => Goal
  BY <1>1 DEF SomeText
<1>15. Reports("error") => Goal
  BY <1>3
<1>16. /\ Closes(<<Plain("error"), Plain("done")>>) => Goal
       /\ Closes(<<Plain("done")>>) => Goal
       /\ Closes(<<Plain("tokens"), Plain("done")>>) => Goal
       /\ Closes(<<Plain("plan_limit")>>) => Goal
  BY <1>4, <1>5, <1>6
<1>17. (\E f \in Fragments : TruncateAtStopToken(<<f>>)) => Goal
  BY <1>10
<1> QED
  BY Zenon, <1>2, <1>7, <1>8, <1>9, <1>17, <1>11, <1>12, <1>13, <1>14, <1>15, <1>16

\* A step that moves no text.
LEMMA TextQuiet ==
  ASSUME CallTyped, CallTyped', TextFits, UNCHANGED <<said, got, out, chan, lines>>,
         pc \in {"close", "closed"} => pc' \in {"close", "closed"}
  PROVE  TextFits'
<1>1. TextBound <= TextBound'
  BY CallBounds DEF CallTyped, TextBound, MaxText
<1>2. TextBound \in Nat /\ TextBound' \in Nat
  BY CallBounds DEF CallTyped, TextBound, MaxText
<1>3. Len(got) \in Nat /\ Chunks(chan) \in Nat /\ Chunks(out) \in Nat
  BY ChunksCounted DEF TextFits
<1>4. Len(got) + Chunks(chan) + Chunks(out) <= TextBound'
  BY <1>1, <1>2, <1>3 DEF TextFits
<1>5. UNCHANGED <<Chunks(chan), Chunks(out)>>
  OBVIOUS
<1> HIDE DEF TextEvent
<1> QED
  BY <1>4, <1>5 DEF TextFits, DoneLast, HasDone

\* A step that puts out the events of a line, or of a step of a tool loop.
LEMMA TextPuts ==
  ASSUME CallTyped, CallTyped', TextFits, out = <<>>, pc \notin {"close", "closed"},
         NEW events, NEW next, NEW n \in {0, 1}, Fits(events, next, n), Emits(events, next),
         UNCHANGED <<got, chan>>, said' \in Seq(Fragments), Len(said') <= lines',
         \/ lines' = lines + n
         \/ lines' = lines /\ next = "close"
         \/ lines' = lines /\ n = 0
  PROVE  TextFits'
<1>1. out' = events /\ pc' = next /\ HasDone(out') = HasDone(events) /\ HasDone(chan') = HasDone(chan)
  BY DEF Emits
<1>2. Len(got) \in Nat /\ Chunks(chan) \in Nat /\ Chunks(events) \in Nat /\ Chunks(out) = 0
  BY ChunksCounted, NoEventFits DEF TextFits, Fits
<1>3. Len(got) + Chunks(chan) <= lines /\ lines \in Nat
  <2>1. TextBound = lines /\ lines \in Nat
    BY DEF TextBound, CallTyped
  <2> QED
    BY <1>2, <2>1 DEF TextFits
<1>4. Chunks(events) <= n /\ n \in Nat
  BY DEF Fits
<1>5. lines + n <= TextBound'
  <2>1. lines' \in Nat /\ lines + 1 <= MaxText /\ lines' <= MaxText /\ MaxText \in Nat
    <3>1. lines \in 0 .. MaxLines /\ lines' \in 0 .. MaxLines
      BY DEF CallTyped
    <3>2. MaxLines \in Nat
      BY CallBounds
    <3> QED
      BY <3>1, <3>2 DEF MaxText
  <2>2. TextBound' = IF next \in {"close", "closed"} THEN MaxText ELSE lines'
    BY <1>1 DEF TextBound, MaxText
  <2> QED
    BY <1>3, <2>1, <2>2
<1>6. TextBound' \in Nat
  BY CallBounds DEF CallTyped, TextBound, MaxText
<1>7. Len(got) + Chunks(chan) + Chunks(events) <= TextBound'
  BY <1>2, <1>3, <1>4, <1>5, <1>6
<1>8. Len(got') + Chunks(chan') + Chunks(out') <= TextBound'
  BY <1>1, <1>7
<1>9. ~HasDone(chan)
  BY DEF TextFits
<1>10. HasDone(out') => pc' = "close"
  BY <1>1 DEF Fits
<1>11. events \in Seq(TextEvent) /\ Len(events) <= 2 /\ DoneLast(events)
  BY DEF Fits
<1>12. chan \in Seq(TextEvent) /\ Len(chan) <= Capacity /\ DoneLast(chan) /\ got \in Seq(Fragments)
  BY DEF TextFits
<1> HIDE DEF TextEvent
<1>13. TextEvent' = TextEvent
  BY DEF TextEvent, EventRecord, MaxText
<1>14. DoneLast(out)' /\ DoneLast(chan)'
  BY <1>1, <1>11, <1>12 DEF DoneLast
<1>15. /\ ~HasDone(chan)' /\ (HasDone(out)' => pc' = "close")
       /\ (Len(got) + Chunks(chan) + Chunks(out))' <= TextBound'
  BY <1>1, <1>8, <1>9, <1>10
<1> QED
  BY <1>1, <1>11, <1>12, <1>14, <1>15 DEF TextFits

LEMMA SendFits ==
  ASSUME CallTyped, TextFits, Send
  PROVE  TextFits'
<1> DEFINE e == Head(out)
<1>1. /\ out # <<>> /\ Len(chan) < Capacity /\ chan' = Append(chan, e) /\ out' = Tail(out)
      /\ UNCHANGED <<pc, said, got, lines>>
  BY DEF Send, wireVars, readVars
<1>2. /\ out \in Seq(TextEvent) /\ Len(out) <= 2 /\ chan \in Seq(TextEvent) /\ ~HasDone(chan)
      /\ DoneLast(out) /\ (HasDone(out) => pc \in {"close", "closed"})
  BY <1>1 DEF TextFits
<1>3. /\ e \in TextEvent /\ out' \in Seq(TextEvent) /\ Len(out') <= 2
      /\ chan' \in Seq(TextEvent) /\ Len(chan') <= Capacity
  <2>1. Head(out) \in TextEvent /\ Tail(out) \in Seq(TextEvent) /\ Len(Tail(out)) = Len(out) - 1
    BY <1>1, <1>2, HeadTailProperties
  <2>2. Append(chan, e) \in Seq(TextEvent) /\ Len(Append(chan, e)) = Len(chan) + 1
    BY <1>2, <2>1, AppendProperties
  <2>3. Len(out) \in Nat /\ Len(chan) \in Nat /\ Capacity \in Nat
    BY <1>2, CallBounds
  <2> QED
    BY <1>1, <1>2, <2>1, <2>2, <2>3
<1>4. /\ Chunks(chan) \in Nat /\ Chunks(out') \in Nat
      /\ Chunks(chan') = Chunks(chan) + (IF e.type = "chunk" THEN 1 ELSE 0)
  BY <1>1, <1>2, <1>3, ChunksAppend, ChunksCounted
<1>5. Chunks(out) = Chunks(out') + (IF e.type = "chunk" THEN 1 ELSE 0)
  BY <1>1, <1>2, ChunksTail
<1>6. /\ HasDone(out') => HasDone(out)
      /\ e.type = "done" => out' = <<>>
      /\ e.type = "done" => HasDone(out)
      /\ DoneLast(out')
  <2>1. 1 \in DOMAIN out /\ out[1] = e
    BY <1>1, <1>2
  <2> QED
    BY <1>1, <1>2, <2>1, DoneTail DEF HasDone
<1>7. DoneLast(chan') /\ (HasDone(chan') => e.type = "done")
  BY <1>1, <1>2, <1>3, DoneAppend
<1>8. Len(got) + Chunks(chan') + Chunks(out') <= TextBound
  <2>1. Len(got) + Chunks(chan) + Chunks(out) <= TextBound /\ Len(got) \in Nat
    BY DEF TextFits
  <2> HIDE DEF e
  <2> QED
    BY <1>4, <1>5, <2>1
<1>9. TextBound' = TextBound
  BY <1>1 DEF TextBound, MaxText
<1>10. (Len(got) + Chunks(chan) + Chunks(out))' <= TextBound'
  BY <1>1, <1>8, <1>9
<1>11. DoneLast(out)' /\ DoneLast(chan)' /\ (HasDone(chan)' => out' = <<>>)
  BY <1>6, <1>7 DEF DoneLast, HasDone
<1>12. HasDone(chan)' \/ HasDone(out)' => pc' \in {"close", "closed"}
  BY <1>1, <1>2, <1>6, <1>7 DEF HasDone
<1>13. said' \in Seq(Fragments) /\ Len(said') <= lines' /\ got' \in Seq(Fragments)
  BY <1>1 DEF TextFits
<1>14. TextEvent' = TextEvent
  BY DEF TextEvent, EventRecord, MaxText
<1> HIDE DEF e, TextEvent, DoneLast, HasDone
<1> QED
  BY <1>3, <1>10, <1>11, <1>12, <1>13, <1>14 DEF TextFits

LEMMA TakeFits ==
  ASSUME CallTyped, TextFits, Take
  PROVE  TextFits'
<1> DEFINE e == Head(chan)
<1>1. /\ chan # <<>> /\ chan' = Tail(chan) /\ UNCHANGED <<pc, said, out, lines>>
      /\ \/ got' = got
         \/ e.type = "chunk" /\ got' = got \o e.text
         \/ e.type = "done" /\ got' = e.text
  BY DEF Take, wireVars, ReadsStrictly, ReadsPatiently, ReadsChunks, DrainsStream, ReadsExecution,
         Adds, AddsOrKeeps
<1>2. /\ chan \in Seq(TextEvent) /\ Len(chan) <= Capacity /\ DoneLast(chan)
      /\ (HasDone(chan) => out = <<>> /\ pc \in {"close", "closed"})
  BY DEF TextFits
<1>3. /\ e \in TextEvent /\ chan' \in Seq(TextEvent) /\ Len(chan') <= Capacity
  <2>1. e \in TextEvent /\ Tail(chan) \in Seq(TextEvent) /\ Len(Tail(chan)) = Len(chan) - 1
    BY <1>1, <1>2, HeadTailProperties
  <2>2. Len(chan) \in Nat /\ Capacity \in Nat
    BY <1>2, CallBounds
  <2> QED
    BY <1>1, <1>2, <2>1, <2>2
<1>4. e.text \in Seq(Fragments) /\ Len(e.text) <= MaxText /\ (e.type = "chunk" => Len(e.text) = 1)
  BY <1>3 DEF TextEvent, EventRecord
<1>5. /\ Chunks(chan') \in Nat /\ Chunks(out) \in Nat
      /\ Chunks(chan) = Chunks(chan') + (IF e.type = "chunk" THEN 1 ELSE 0)
  <2>1. out \in Seq(TextEvent)
    BY DEF TextFits
  <2> QED
    BY <1>1, <1>2, <2>1, ChunksTail, ChunksCounted
<1>6. /\ DoneLast(chan') /\ (HasDone(chan') => HasDone(chan))
      /\ (e.type = "done" => HasDone(chan) /\ chan' = <<>>)
  <2>1. 1 \in DOMAIN chan /\ chan[1] = e
    BY <1>1, <1>2
  <2> QED
    BY <1>1, <1>2, <2>1, DoneTail DEF HasDone
<1>7. Len(got) + Chunks(chan) + Chunks(out) <= TextBound /\ Len(got) \in Nat /\ got \in Seq(Fragments)
  BY DEF TextFits
<1>8. got' \in Seq(Fragments) /\ Len(got') + Chunks(chan') + Chunks(out) <= TextBound
  <2>1. CASE got' = got
    <3> HIDE DEF e
    <3>1. Chunks(chan') <= Chunks(chan)
      BY <1>5
    <3>2. TextBound \in Nat /\ Chunks(chan) \in Nat
      BY <1>2, TextBoundIs, ChunksCounted
    <3> QED
      BY <1>5, <1>7, <2>1, <3>1, <3>2
  <2>2. CASE e.type = "chunk" /\ got' = got \o e.text
    <3>1. got' \in Seq(Fragments) /\ Len(got') = Len(got) + 1
      <4>1. e.text \in Seq(Fragments) /\ Len(e.text) = 1 /\ got \in Seq(Fragments)
            /\ got' = got \o e.text
        BY <1>4, <1>7, <2>2
      <4> DEFINE text == e.text
      <4>2. text \in Seq(Fragments) /\ Len(text) = 1 /\ got' = got \o text
        BY <4>1
      <4> HIDE DEF e, text
      <4>3. got \o text \in Seq(Fragments) /\ Len(got \o text) = Len(got) + Len(text)
        BY <4>1, <4>2, ConcatProperties
      <4> QED
        BY <4>2, <4>3
    <3>2. Chunks(chan) = Chunks(chan') + 1
      BY <1>5, <2>2
    <3>3. TextBound \in Nat
      BY TextBoundIs
    <3> QED
      BY <1>5, <1>7, <3>1, <3>2, <3>3
  <2>3. CASE e.type = "done" /\ got' = e.text
    <3>1. chan' = <<>> /\ out = <<>> /\ TextBound = MaxText
      BY <1>2, <1>6, <2>3 DEF TextBound
    <3>2. Chunks(chan') = 0 /\ Chunks(out) = 0
      BY <3>1, NoEventFits
    <3>3. Len(got') \in Nat /\ Len(got') <= TextBound
      BY <1>4, <2>3, <3>1
    <3> QED
      BY <1>4, <2>3, <3>2, <3>3
  <2> QED
    BY <1>1, <2>1, <2>2, <2>3
<1>9. TextBound' = TextBound
  BY <1>1 DEF TextBound, MaxText
<1>10. (Len(got) + Chunks(chan) + Chunks(out))' <= TextBound'
  BY <1>1, <1>8, <1>9
<1>11. DoneLast(out)' /\ DoneLast(chan)' /\ (HasDone(chan)' => out' = <<>>)
  BY <1>1, <1>2, <1>6 DEF DoneLast, HasDone, TextFits
<1>12. HasDone(chan)' \/ HasDone(out)' => pc' \in {"close", "closed"}
  BY <1>1, <1>2, <1>6 DEF HasDone, TextFits
<1>13. /\ said' \in Seq(Fragments) /\ Len(said') <= lines'
       /\ out' \in Seq(TextEvent) /\ Len(out') <= 2
  BY <1>1 DEF TextFits
<1>14. TextEvent' = TextEvent
  BY DEF TextEvent, EventRecord, MaxText
<1> HIDE DEF e, TextEvent, DoneLast, HasDone
<1> QED
  BY <1>3, <1>8, <1>10, <1>11, <1>12, <1>13, <1>14 DEF TextFits

\* ReviewBead reads the process itself: nothing is on a channel.
LEMMA ReviewFits ==
  ASSUME CallTyped, CallTyped', TextFits, ReviewBead
  PROVE  TextFits'
<1>1. ASSUME NEW f \in Fragments, ReviewLine(f)
      PROVE  TextFits'
  <2>1. /\ lines' = lines + 1 /\ got' = Append(got, f) /\ pc = "read" /\ pc' = pc
        /\ UNCHANGED <<said, out, chan>>
    BY <1>1 DEF ReviewLine, Reviewing
  <2>2. /\ got' \in Seq(Fragments) /\ Len(got') = Len(got) + 1 /\ Len(got) \in Nat
        /\ Chunks(chan) \in Nat /\ Chunks(out) \in Nat /\ Len(said) \in Nat /\ lines \in Nat
    BY <2>1, ChunksCounted, TextBoundIs DEF TextFits
  <2>3. TextBound = lines /\ TextBound' = lines + 1
    BY <2>1 DEF TextBound
  <2>4. Len(got) + Chunks(chan) + Chunks(out) <= TextBound /\ Len(said) <= lines
    BY DEF TextFits
  <2>5. Len(got') + Chunks(chan) + Chunks(out) <= TextBound' /\ Len(said) <= lines'
    BY <2>1, <2>2, <2>3, <2>4
  <2>6. (Len(got) + Chunks(chan) + Chunks(out))' <= TextBound'
    BY <2>1, <2>5
  <2>7. TextEvent' = TextEvent
    BY DEF TextEvent, EventRecord, MaxText
  <2> HIDE DEF TextEvent
  <2> QED
    BY <2>1, <2>2, <2>5, <2>6, <2>7 DEF TextFits, DoneLast, HasDone
<1>2. CASE ReviewEnds
  BY <1>2, TextQuiet DEF ReviewEnds, Reviewing
<1> QED
  BY <1>1, <1>2 DEF ReviewBead

\* A step of a tool loop puts out a log line, an error, or the answer.
LEMMA LoopFits ==
  ASSUME CallTyped, CallTyped', TextFits, Loop
  PROVE  TextFits'
<1> HIDE DEF TextEvent
<1>t. /\ said \in Seq(Fragments) /\ Len(said) <= lines
  BY DEF TextFits
<1>e. /\ \A type \in Types \ {"chunk"} : Plain(type) \in TextEvent /\ Plain(type).type = type
      /\ \A f \in Fragments : Chunk(<<f>>) \in TextEvent /\ Chunk(<<f>>).type = "chunk"
      /\ {"error", "log", "done"} \subseteq Types \ {"chunk"}
  BY EventsTyped DEF Types
<1>1. ASSUME NEW events, NEW next, NEW n \in {0, 1}, Fits(events, next, n), n = 0 \/ next = "close",
             Looping, Emits(events, next), pc \notin {"close", "closed"}
      PROVE  TextFits'
  <2>1. out = <<>> /\ UNCHANGED <<got, chan, said, lines>>
    BY <1>1 DEF Looping, wireVars, readVars
  <2> QED
    BY <1>1, <1>t, <2>1, TextPuts
<1>2. ASSUME Looping, UNCHANGED out, pc \notin {"close", "closed"}
      PROVE  TextFits'
  BY <1>2, TextQuiet DEF Looping, wireVars, readVars
<1>3. CASE RoundFails
  <2>1. Fits(<<Plain("error")>>, "close", 0)
    BY <1>e, OneEventFits
  <2> QED
    BY <1>1, <1>3, <2>1 DEF RoundFails, LoopEnds
<1>4. CASE Answers(<<>>)
  <2>1. Fits(<<Plain("done")>>, "close", 0)
    BY <1>e, OneEventFits
  <2>2. Looping /\ pc = "round" /\ Emits(<<Plain("done")>>, "close")
    BY <1>4 DEF Answers, CanAsk, LoopEnds
  <2> QED
    BY <1>1, <2>1, <2>2
<1>5. ASSUME NEW f \in Fragments, Answers(<<f>>)
      PROVE  TextFits'
  <2>1. Event("done", <<f>>) \in TextEvent /\ Event("done", <<f>>).type = "done"
    <3>1. <<f>> \in Seq(Fragments) /\ Len(<<f>>) = 1
      OBVIOUS
    <3>2. 1 <= MaxText
      BY CallBounds DEF MaxText
    <3> QED
      BY <3>1, <3>2, EventsTyped
  <2>2. Fits(<<Chunk(<<f>>), Event("done", <<f>>)>>, "close", 1)
    BY <1>e, <2>1, TwoEventsFit
  <2>3. /\ Looping /\ pc = "round"
        /\ Emits(<<Chunk(<<f>>), Event("done", <<f>>)>>, "close")
    BY <1>5 DEF Answers, CanAsk, LoopEnds
  <2> QED
    BY <1>1, <2>2, <2>3
<1>6. CASE SomeCalls
  BY <1>2, <1>6 DEF SomeCalls, RoundCalls, Asks, CanAsk
<1>7. CASE CanAsk /\ UNCHANGED out
  BY <1>2, <1>7 DEF CanAsk
<1>8. CASE ToolStarts
  <2>1. Fits(<<Plain("log")>>, "tool", 0)
    BY <1>e, OneEventFits
  <2> QED
    BY <1>1, <1>8, <2>1 DEF ToolStarts
<1>9. CASE ToolReturns
  <2>1. Fits(<<Plain("log")>>, "tools", 0)
    BY <1>e, OneEventFits
  <2> QED
    BY <1>1, <1>9, <2>1 DEF ToolReturns
<1>10. CASE NextRound
  BY <1>2, <1>10 DEF NextRound
<1>11. CASE SomeAnswer
  BY <1>5, <1>11 DEF SomeAnswer
<1>12. \/ RoundFails \/ Answers(<<>>) \/ SomeAnswer \/ SomeCalls \/ (CanAsk /\ UNCHANGED out)
       \/ ToolStarts \/ ToolReturns \/ NextRound
  BY DEF Loop, AnthropicRound, OpenAIRound, NativeRound, PseudoRound, Tool
<1> QED
  BY <1>3, <1>4, <1>6, <1>7, <1>8, <1>9, <1>10, <1>11, <1>12

\* The place of a call, its counters and its outcome.
LEMMA CallTypedKeeps ==
  ASSUME CallTyped, TextFits, MessagesInv, Next
  PROVE  CallTyped'
<1>t. /\ pc \in {"request", "backoff", "read", "round", "tools", "tool", "close", "closed"}
      /\ tries \in 0 .. MaxRetries /\ lines \in 0 .. MaxLines /\ rounds \in 0 .. MaxIterations
      /\ cancelled \in BOOLEAN /\ cut \in BOOLEAN /\ fault \in BOOLEAN
      /\ outcome \in {"idle", "reading", "ok", "findings", "failed", "limited"}
      /\ wire \in Wires /\ reader \in ReadersOf(wire) /\ Len(todo) <= MaxCalls
  BY DEF CallTyped
<1> HIDE DEF Wires, ReadersOf
<1>u. ASSUME UNCHANGED <<wire, reader>> PROVE wire' \in Wires /\ reader' \in ReadersOf(wire')
  BY <1>t, <1>u
<1>1. CASE Cancel
  BY <1>1, <1>t, <1>u DEF Cancel, wireVars, readVars, loopVars, CallTyped
<1>2. CASE Request
  <2>1. /\ UNCHANGED <<wire, reader, cancelled, lines, cut, fault, rounds, todo>>
        /\ pc' \in {"closed", "read", "backoff", "request"}
        /\ outcome' \in {"failed", "reading", outcome}
        /\ tries' = tries \/ (tries < MaxRetries /\ tries' = tries + 1)
    BY <1>2 DEF Request, AnthropicChat, OpenAIChat, GeminiChat, OllamaChat, RequestFails,
       RequestAccepted, RateLimited, BackoffEnds, AtRequest, wireVars, readVars, loopVars
  <2>2. tries' \in 0 .. MaxRetries
    BY <1>t, <2>1, CallBounds
  <2> QED
    BY <1>t, <1>u, <2>1, <2>2 DEF CallTyped
<1>3. CASE Read /\ ~ReviewBead
  <2>1. PICK events \in Seq(TextEvent), next \in {"read", "close"}, n \in {0, 1} :
           /\ Scanning /\ Emits(events, next) /\ Fits(events, next, n)
           /\ lines' = lines + n /\ lines' \in 0 .. MaxLines
           /\ said' \in Seq(Fragments) /\ Len(said') <= lines' /\ cut' \in BOOLEAN
    BY <1>3, LinePuts
  <2>2. /\ UNCHANGED <<wire, reader, tries, cancelled, outcome, fault, rounds, todo>>
        /\ pc' = next /\ lines' \in 0 .. MaxLines /\ cut' \in BOOLEAN
    BY <2>1 DEF Scanning, Emits, readVars, loopVars
  <2> QED
    BY <1>t, <1>u, <2>1, <2>2 DEF CallTyped
<1>4. CASE ReviewBead
  <2>1. /\ UNCHANGED <<wire, reader, tries, cancelled, fault, rounds, todo>>
        /\ pc' \in {"closed", pc} /\ cut' \in {TRUE, FALSE, cut}
        /\ outcome' \in {"limited", "ok", "findings", outcome}
        /\ lines' = lines \/ (lines < MaxLines /\ lines' = lines + 1)
    BY <1>4 DEF ReviewBead, ReviewEnds, ReviewLine, Reviewing, loopVars
  <2>2. lines' \in 0 .. MaxLines
    BY <1>t, <2>1, CallBounds
  <2> QED
    BY <1>t, <1>u, <2>1, <2>2 DEF CallTyped
<1>5. CASE Loop
  <2>1. /\ UNCHANGED <<wire, reader, tries, lines, cut, cancelled, outcome, fault>>
        /\ pc' \in {"close", "tools", "tool", "round"}
        /\ rounds' = rounds \/ (rounds < MaxIterations /\ rounds' = rounds + 1)
    BY <1>5 DEF Loop, AnthropicRound, OpenAIRound, NativeRound, PseudoRound, Tool, RoundFails,
       Answers, SomeAnswer, SomeCalls, RoundCalls, Asks, CanAsk, Looping, LoopEnds, Emits,
       ToolStarts, ToolReturns, NextRound, wireVars, readVars, loopVars
  <2>2. rounds' \in 0 .. MaxIterations
    BY <1>t, <2>1, CallBounds
  <2>3. Len(todo') <= MaxCalls
    <3>1. \/ todo' = todo
          \/ \E n \in 1 .. MaxCalls : todo' = CallIds(n)
          \/ todo # <<>> /\ todo' = Tail(todo)
      <4>1. MaxCalls \in Nat \ {0}
        BY CallBounds
      <4>2. 1 \in 1 .. MaxCalls
        BY <4>1
      <4> QED
        BY <1>5, <4>2 DEF Loop, AnthropicRound, OpenAIRound, NativeRound, PseudoRound, Tool, RoundFails,
           Answers, SomeAnswer, SomeCalls, RoundCalls, Asks, CanAsk, LoopEnds,
           ToolStarts, ToolReturns, NextRound, loopVars, MessagesInv
    <3>2. todo \in Seq(Id) /\ rounds \in Nat
      BY DEF MessagesInv
    <3>3. MaxCalls \in Nat
      BY CallBounds
    <3>4. ASSUME NEW n \in 1 .. MaxCalls, todo' = CallIds(n) PROVE Len(todo') <= MaxCalls
      BY <3>2, <3>3, <3>4, CallIdsTyped
    <3>5. ASSUME todo # <<>>, todo' = Tail(todo) PROVE Len(todo') <= MaxCalls
      <4> HIDE DEF Id
      <4>1. Len(Tail(todo)) = Len(todo) - 1 /\ Len(todo) \in Nat
        BY <3>2, <3>5, HeadTailProperties
      <4> QED
        BY <1>t, <3>3, <3>5, <4>1
    <3> QED
      BY <1>t, <3>1, <3>4, <3>5
  <2> QED
    BY <1>t, <1>u, <2>1, <2>2, <2>3 DEF CallTyped
<1>6. CASE Send \/ Close
  BY <1>6, <1>t, <1>u DEF Send, Close, wireVars, readVars, loopVars, CallTyped
<1>7. CASE Take
  <2>1. /\ UNCHANGED <<wire, reader, pc, tries, lines, cut, cancelled, rounds, todo>>
        /\ outcome' \in {"failed", "reading", "ok", "limited", outcome}
        /\ fault' \in {TRUE, FALSE, fault}
    BY <1>7 DEF Take, ReadsStrictly, ReadsPatiently, ReadsChunks, DrainsStream, ReadsExecution,
       NotesFault, wireVars, loopVars
  <2> QED
    BY <1>t, <1>u, <2>1 DEF CallTyped
<1>8. CASE Drained
  BY <1>8, <1>t, <1>u DEF Drained, wireVars, loopVars, CallTyped
<1> QED
  BY <1>1, <1>2, <1>3, <1>4, <1>5, <1>6, <1>7, <1>8 DEF Next, Provider, Reader

LEMMA TextStepKeeps ==
  ASSUME CallTyped, CallTyped', TextFits, Next
  PROVE  TextFits'
<1>1. CASE Cancel
  BY <1>1, TextQuiet DEF Cancel, wireVars, readVars
<1>2. CASE Request
  <2>1. /\ UNCHANGED <<said, got, out, chan, lines>> /\ pc \in {"request", "backoff"}
    BY <1>2 DEF Request, AnthropicChat, OpenAIChat, GeminiChat, OllamaChat, RequestFails,
       RequestAccepted, RateLimited, BackoffEnds, AtRequest, wireVars, readVars
  <2> QED
    BY <2>1, TextQuiet
<1>3. CASE Read /\ ~ReviewBead
  <2>1. PICK events \in Seq(TextEvent), next \in {"read", "close"}, n \in {0, 1} :
           /\ Scanning /\ Emits(events, next) /\ Fits(events, next, n)
           /\ lines' = lines + n /\ lines' \in 0 .. MaxLines
           /\ said' \in Seq(Fragments) /\ Len(said') <= lines' /\ cut' \in BOOLEAN
    BY <1>3, LinePuts
  <2>2. out = <<>> /\ pc = "read" /\ UNCHANGED <<got, chan>>
    BY <2>1 DEF Scanning, readVars
  <2> QED
    BY <2>1, <2>2, TextPuts
<1>4. CASE Close
  BY <1>4, TextQuiet DEF Close, wireVars, readVars
<1>5. CASE Drained
  BY <1>5, TextQuiet DEF Drained, wireVars
<1> QED
  BY <1>1, <1>2, <1>3, <1>4, <1>5, ReviewFits, LoopFits, SendFits, TakeFits
     DEF Next, Provider, Reader

LEMMA CallTypesStart ==
  ASSUME Init \/ CallAtRest
  PROVE  CallTyped /\ TextFits
<1>1. /\ tries = 0 /\ lines = 0 /\ rounds = 0 /\ cancelled = FALSE /\ cut = FALSE /\ fault = FALSE
      /\ said = <<>> /\ out = <<>> /\ chan = <<>> /\ got = <<>> /\ todo = <<>>
  BY DEF Init, CallAtRest
<1>2. /\ wire \in Wires /\ reader \in ReadersOf(wire)
      /\ pc \in {"request", "read", "round", "closed"}
      /\ outcome \in {"idle", "reading", "ok"}
  BY DEF Init, CallAtRest, Wires, ReadersOf, Bodies, Loops
<1>3. CallTyped
  <2>1. /\ MaxRetries \in Nat /\ MaxLines \in Nat /\ MaxIterations \in Nat /\ MaxCalls \in Nat
        /\ Len(todo) = 0
    BY <1>1, CallBounds
  <2>2. 0 \in 0 .. MaxRetries /\ 0 \in 0 .. MaxLines /\ 0 \in 0 .. MaxIterations /\ Len(todo) <= MaxCalls
    BY <2>1
  <2> HIDE DEF Wires, ReadersOf
  <2> QED
    BY <1>1, <1>2, <2>2 DEF CallTyped
<1>4. /\ <<>> \in Seq(Fragments) /\ <<>> \in Seq(TextEvent) /\ Len(<<>>) = 0
      /\ Chunks(<<>>) = 0 /\ ~HasDone(<<>>) /\ DoneLast(<<>>)
  BY NoEventFits DEF HasDone, DoneLast
<1>5. 0 <= TextBound
  BY <1>3, TextBoundIs
<1>6. Len(got) + Chunks(chan) + Chunks(out) <= TextBound
  BY <1>1, <1>4, <1>5
<1>7. 0 <= Capacity
  BY CallBounds
<1> HIDE DEF TextEvent
<1>8. TextFits
  BY <1>1, <1>4, <1>6, <1>7 DEF TextFits
<1> QED
  BY <1>3, <1>8

LEMMA CallTypesUnchanged ==
  ASSUME CallTyped, TextFits, UNCHANGED vars
  PROVE  CallTyped' /\ TextFits'
<1>1. UNCHANGED <<wire, reader, pc, tries, lines, said, out, chan, cancelled, cut, got, fault,
                  outcome, rounds, todo>>
  BY DEF vars, wireVars, readVars, loopVars
<1>2. CallTyped'
  BY <1>1 DEF CallTyped, ReadersOf
<1> QED
  BY <1>1, <1>2, TextQuiet

LEMMA Bounded ==
  ASSUME NEW S, NEW list \in Seq(S), NEW n \in Nat, Len(list) <= n
  PROVE  list \in BoundedSeq(S, n)
<1>1. Len(list) \in 0 .. n /\ list \in [1 .. Len(list) -> S]
  OBVIOUS
<1> QED
  BY <1>1 DEF BoundedSeq, SeqOf

\* All that TypeOK says of a call.
LEMMA CallTypesMean ==
  ASSUME CallTyped, TextFits
  PROVE  TypeOK
<1>1. MaxText \in Nat /\ lines < MaxText /\ lines \in Nat /\ TextBound <= MaxText /\ TextBound \in Nat
  BY TextBoundIs
<1>2. Len(got) <= MaxText /\ Len(said) <= MaxText
  <2>1. Len(got) \in Nat /\ Chunks(chan) \in Nat /\ Chunks(out) \in Nat /\ Len(said) \in Nat
    BY ChunksCounted DEF TextFits
  <2>2. Len(got) + Chunks(chan) + Chunks(out) <= TextBound /\ Len(said) <= lines
    BY DEF TextFits
  <2> QED
    BY <1>1, <2>1, <2>2
<1>3. said \in BoundedSeq(Fragments, MaxText) /\ got \in BoundedSeq(Fragments, MaxText)
  BY <1>1, <1>2, Bounded DEF TextFits
<1>4. \A e \in TextEvent : e.type \in Types /\ e.text \in BoundedSeq(Fragments, MaxText)
  <2> SUFFICES ASSUME NEW e \in TextEvent
               PROVE  e.type \in Types /\ e.text \in BoundedSeq(Fragments, MaxText)
    OBVIOUS
  <2>1. e.type \in Types /\ e.text \in Seq(Fragments) /\ Len(e.text) <= MaxText
    BY DEF TextEvent, EventRecord
  <2> QED
    BY <1>1, <2>1, Bounded
<1> HIDE DEF TextEvent
<1>5. Range(out) \subseteq TextEvent /\ Range(chan) \subseteq TextEvent
  BY DEF TextFits, Range
<1>6. \A e \in Range(out) \cup Range(chan) :
        e.type \in Types /\ e.text \in BoundedSeq(Fragments, MaxText)
  BY <1>4, <1>5
<1>7. Len(chan) <= Capacity /\ Len(out) <= 2
  BY DEF TextFits
<1>8. {cancelled, cut, fault} \subseteq BOOLEAN
  BY DEF CallTyped
<1> QED
  BY <1>3, <1>6, <1>7, <1>8 DEF TypeOK, CallTyped

-----------------------------------------------------------------------------
(* Jobs made of several calls.                                             *)

JobTyped ==
  /\ drafts \in [Paths -> Nat] /\ disk \in [Paths -> Nat] /\ named \in Seq(Paths)
  /\ first \in [Sections -> Writers] /\ doc \in [Sections -> Writers]
  /\ report # "none" => step = "end"

\* The job that codes is at a file of its plan, and has named none before it
\* began to write.
AtFile ==
  job = "code" =>
    /\ step = "plan" => pos = 1
    /\ step \in {"plan", "generate"} => named = <<>>
    /\ step \in {"generate", "write", "validate", "fix"} =>
         files \in Seq(Paths) /\ pos \in 1 .. Len(files)

\* What is named and did not fail to be written is on disk as it was last
\* generated, at every moment and not only in the end.
DiskFollows == job = "code" => \A p \in Range(named) \ missed : disk[p] = drafts[p]

\* Before the draft there is none; in the end its sections have their texts.
DraftKept ==
  job = "vision" =>
    /\ step = "plan" => \A s \in Sections : first[s] = "blank"
    /\ report = "done" => \A s \in Sections : first[s] # "blank" => doc[s] # "blank"

GenInv == JobTyped /\ AtFile /\ DiskFollows /\ DraftKept

LEMMA AppendRange ==
  ASSUME NEW S, NEW list \in Seq(S), NEW x \in S
  PROVE  Append(list, x) \in Seq(S) /\ Range(Append(list, x)) = Range(list) \cup {x}
<1> DEFINE more == Append(list, x)
<1>1. /\ DOMAIN list = 1 .. Len(list) /\ Len(list) \in Nat
      /\ DOMAIN more = 1 .. Len(list) + 1 /\ more \in Seq(S)
      /\ more[Len(list) + 1] = x /\ \A i \in 1 .. Len(list) : more[i] = list[i]
  OBVIOUS
<1> HIDE DEF more
<1>2. DOMAIN more = DOMAIN list \cup {Len(list) + 1}
  BY <1>1
<1>3. Range(more) = Range(list) \cup {x}
  BY <1>1, <1>2 DEF Range
<1> QED
  BY <1>1, <1>3 DEF more

\* Any plan is a sequence of the paths.
LEMMA PlanTyped ==
  ASSUME NEW fp \in FilePlans
  PROVE  fp \in Seq(Paths) /\ 1 \in 1 .. Len(fp)
<1>1. fp \in Seq(Range(fp)) /\ fp # <<>>
  BY GenerationBounds
<1>2. Range(fp) \subseteq Paths
  BY DEF Paths
<1>3. DOMAIN fp = 1 .. Len(fp) /\ Len(fp) \in Nat /\ Len(fp) # 0
  BY <1>1
<1>4. \A i \in 1 .. Len(fp) : fp[i] \in Paths
  BY <1>1, <1>2, <1>3 DEF Range
<1>5. fp \in Seq(Paths)
  BY <1>1, <1>2
<1> QED
  BY <1>3, <1>5

\* Mock-ups, stops and the vision turn leave the files alone.
LEMMA CodeUntouched ==
  ASSUME GenInv, UNCHANGED codeVars, job' = job,
         UNCHANGED step \/ step' = "end" \/ job # "code"
  PROVE  AtFile' /\ DiskFollows'
<1>1. UNCHANGED <<files, pos, drafts, disk, named, missed, fixes>>
  BY DEF codeVars
<1>2. AtFile'
  BY <1>1 DEF GenInv, AtFile
<1>3. DiskFollows'
  BY <1>1 DEF GenInv, DiskFollows
<1> QED
  BY <1>2, <1>3

LEMMA MockKeeps ==
  ASSUME GenInv, Mock
  PROVE  GenInv'
<1>1. /\ job = "mock" /\ job' = job /\ UNCHANGED <<codeVars, visionVars>>
      /\ report # "none" => step = "end"
  BY DEF Mock, MockPlanFails, MockPlanned, TakePermit, PlanScreen, MakePart, RetryPart,
         AssembleScreen, AssemblePage, Makes, Worker, At, GenInv, JobTyped
<1>2. report' # "none" => step' = "end"
  BY <1>1 DEF Mock, MockPlanFails, MockPlanned, TakePermit, PlanScreen, MakePart, RetryPart,
         AssembleScreen, AssemblePage, Makes, Worker, At, Ends, Goto
<1>3. AtFile' /\ DiskFollows'
  BY <1>1, CodeUntouched
<1>4. JobTyped'
  BY <1>1, <1>2 DEF GenInv, JobTyped, codeVars, visionVars
<1>5. DraftKept'
  BY <1>1 DEF DraftKept
<1> QED
  BY <1>3, <1>4, <1>5 DEF GenInv

LEMMA VisionKeeps ==
  ASSUME GenInv, Vision
  PROVE  GenInv'
<1>1. /\ job = "vision" /\ job' = job /\ UNCHANGED codeVars
      /\ report' # "none" => step' = "end"
      /\ step # "end" /\ report = "none"
  BY DEF Vision, DraftFails, DraftTalks, DraftWritten, CritiqueAccepts, CritiqueRevises,
         CritiqueObjects, Repair, VisionDone, Turn, At, Ends, Goto, GenInv, JobTyped
<1>2. AtFile' /\ DiskFollows'
  BY <1>1, CodeUntouched
<1>3. "blank" \in Writers /\ "drafted" \in Writers /\ "revised" \in Writers /\ "repaired" \in Writers
  BY DEF Writers
<1>4. /\ \A some \in SUBSET Sections : \A by \in Writers : Filled(some, by) \in [Sections -> Writers]
      /\ \A a, b \in [Sections -> Writers] : MergeSections(a, b) \in [Sections -> Writers]
  BY <1>3 DEF Filled, MergeSections
<1>5. first \in [Sections -> Writers] /\ doc \in [Sections -> Writers]
  BY DEF GenInv, JobTyped
<1>6. first' \in [Sections -> Writers] /\ doc' \in [Sections -> Writers]
  BY <1>3, <1>4, <1>5 DEF Vision, DraftFails, DraftTalks, DraftWritten, CritiqueAccepts,
         CritiqueRevises, CritiqueObjects, Repair, VisionDone, Turn, visionVars
<1>7. JobTyped'
  BY <1>1, <1>6 DEF GenInv, JobTyped, codeVars
<1>8. step' # "plan"
  BY DEF Vision, DraftFails, DraftTalks, DraftWritten, CritiqueAccepts, CritiqueRevises,
         CritiqueObjects, Repair, VisionDone, Ends, Goto
<1>9. report' = "done" => \A s \in Sections : first'[s] # "blank" => doc'[s] # "blank"
  <2>1. CASE VisionDone
    <3>1. first' = first /\ doc' = MergeSections(doc, first)
      BY <2>1 DEF VisionDone
    <3> QED
      BY <3>1 DEF MergeSections
  <2>2. CASE DraftTalks
    <3>1. \A s \in Sections : first[s] = "blank"
      BY <1>1, <2>2 DEF DraftTalks, Turn, At, GenInv, DraftKept
    <3> QED
      BY <2>2, <3>1 DEF DraftTalks, visionVars
  <2>3. CASE ~VisionDone /\ ~DraftTalks
    <3>1. report' # "done"
      BY <1>1, <2>3 DEF Vision, DraftFails, DraftWritten, CritiqueAccepts, CritiqueRevises,
             CritiqueObjects, Repair, Ends, Goto
    <3> QED
      BY <3>1
  <2> QED
    BY <2>1, <2>2, <2>3
<1>10. DraftKept'
  BY <1>8, <1>9 DEF DraftKept
<1> QED
  BY <1>2, <1>7, <1>10 DEF GenInv

\* What the steps of the coding job have in common.
LEMMA CodeCommon ==
  ASSUME GenInv, Code
  PROVE  /\ job = "code" /\ job' = "code" /\ UNCHANGED visionVars
         /\ step # "end" /\ report = "none" /\ (report' # "none" => step' = "end")
         /\ DraftKept'
<1>1. job = "code" /\ job' = "code" /\ UNCHANGED visionVars
  BY DEF Code, CodePlanFails, StopsGenerating, CodeDone, BuildFails, CodePlanned, GenerateFile,
         WriteFile, FixFile, Coding, At
<1>2. step # "end" /\ report = "none"
  BY DEF Code, CodePlanFails, StopsGenerating, CodeDone, BuildFails, CodePlanned, GenerateFile,
         WriteFile, FixFile, Coding, At, GenInv, JobTyped
<1>3. report' # "none" => step' = "end"
  BY <1>2 DEF Code, CodePlanFails, StopsGenerating, CodeDone, BuildFails, CodePlanned,
         GenerateFile, WriteFile, FixFile, Dropped, Ends, Goto, NextFile
<1>4. DraftKept'
  BY <1>1 DEF DraftKept
<1> QED
  BY <1>1, <1>2, <1>3, <1>4

\* From file to file, within the plan.
LEMMA NextFileKeeps ==
  ASSUME GenInv, job = "code", step \in {"generate", "write", "fix"}, NEW stage, NextFile(stage),
         stage \in {"write", "validate"}, files' = files
  PROVE  /\ files' \in Seq(Paths) /\ pos' \in 1 .. Len(files') /\ step' \in {step, stage}
         /\ files[pos] \in Paths
<1>1. files \in Seq(Paths) /\ pos \in 1 .. Len(files) /\ Len(files) \in Nat
  BY DEF GenInv, AtFile
<1>2. files[pos] \in Paths
  BY <1>1
<1>3. pos' \in 1 .. Len(files)
  BY <1>1 DEF NextFile
<1>4. step' \in {step, stage}
  BY DEF NextFile, Goto
<1> QED
  BY <1>1, <1>2, <1>3, <1>4

LEMMA CodeKeeps ==
  ASSUME GenInv, Code
  PROVE  GenInv'
<1>0. /\ job = "code" /\ job' = "code" /\ UNCHANGED <<first, doc>>
      /\ report' # "none" => step' = "end"
      /\ DraftKept'
  BY CodeCommon DEF visionVars
<1>t. /\ drafts \in [Paths -> Nat] /\ disk \in [Paths -> Nat] /\ named \in Seq(Paths)
      /\ first \in [Sections -> Writers] /\ doc \in [Sections -> Writers]
  BY DEF GenInv, JobTyped
<1>d. \A p \in Range(named) \ missed : disk[p] = drafts[p]
  BY <1>0 DEF GenInv, DiskFollows
<1>r. Range(named) \subseteq Paths
  BY <1>t DEF Range
<1>1. CASE CodePlanFails \/ StopsGenerating \/ CodeDone
  <2>1. UNCHANGED codeVars /\ step' = "end"
    BY <1>1 DEF CodePlanFails, StopsGenerating, CodeDone, Dropped, Ends
  <2>2. AtFile' /\ DiskFollows'
    BY <1>0, <2>1, CodeUntouched
  <2>3. JobTyped'
    BY <1>0, <1>t, <2>1 DEF JobTyped, codeVars
  <2> QED
    BY <1>0, <2>2, <2>3 DEF GenInv
<1>2. CASE BuildFails
  <2>1. /\ UNCHANGED <<files, pos, drafts, disk, named, missed>>
        /\ step = "validate" /\ step' = "fix"
    BY <1>2 DEF BuildFails, Coding, At, Goto
  <2>2. files \in Seq(Paths) /\ pos \in 1 .. Len(files)
    BY <1>0, <2>1 DEF GenInv, AtFile
  <2>3. AtFile' /\ DiskFollows'
    BY <1>0, <1>d, <2>1, <2>2 DEF AtFile, DiskFollows
  <2>4. JobTyped'
    BY <1>0, <1>t, <2>1 DEF JobTyped
  <2> QED
    BY <1>0, <2>3, <2>4 DEF GenInv
<1>3. ASSUME NEW fp \in FilePlans, CodePlanned(fp) PROVE GenInv'
  <2>1. /\ UNCHANGED <<pos, drafts, disk, named, missed>> /\ files' = fp
        /\ step = "plan" /\ step' = "generate"
    BY <1>3 DEF CodePlanned, Coding, At, Goto
  <2>2. fp \in Seq(Paths) /\ named = <<>>
    BY <1>0, <2>1, PlanTyped DEF GenInv, AtFile
  <2>3. pos' \in 1 .. Len(fp)
    <3>1. pos = 1
      BY <1>0, <2>1 DEF GenInv, AtFile
    <3> QED
      BY <2>1, <3>1, PlanTyped
  <2>4. AtFile' /\ DiskFollows'
    BY <1>0, <1>d, <2>1, <2>2, <2>3 DEF AtFile, DiskFollows
  <2>5. JobTyped'
    BY <1>0, <1>t, <2>1 DEF JobTyped
  <2> QED
    BY <1>0, <2>4, <2>5 DEF GenInv
<1>4. ASSUME NEW ok \in BOOLEAN, GenerateFile(ok) PROVE GenInv'
  <2>1. /\ UNCHANGED <<files, disk, named, missed>> /\ step = "generate" /\ NextFile("write")
        /\ drafts' = IF ok THEN [drafts EXCEPT ![files[pos]] = @ + 1] ELSE drafts
    BY <1>4 DEF GenerateFile, Coding, At
  <2>2. /\ files' \in Seq(Paths) /\ pos' \in 1 .. Len(files') /\ step' \in {"generate", "write"}
        /\ files[pos] \in Paths
    BY <1>0, <2>1, NextFileKeeps
  <2>3. named = <<>>
    BY <1>0, <2>1 DEF GenInv, AtFile
  <2>4. drafts' \in [Paths -> Nat]
    <3>1. drafts[files[pos]] + 1 \in Nat
      BY <1>t, <2>2
    <3>2. [drafts EXCEPT ![files[pos]] = @ + 1] \in [Paths -> Nat]
      BY <1>t, <2>2, <3>1
    <3> QED
      BY <1>t, <2>1, <3>2
  <2>5. Range(named') = {}
    BY <2>1, <2>3 DEF Range
  <2>6. AtFile' /\ DiskFollows'
    BY <1>0, <2>1, <2>2, <2>3, <2>5 DEF AtFile, DiskFollows
  <2>7. JobTyped'
    BY <1>0, <1>t, <2>1, <2>4 DEF JobTyped
  <2> QED
    BY <1>0, <2>6, <2>7 DEF GenInv
<1>5. ASSUME NEW ok \in BOOLEAN, WriteFile(ok) PROVE GenInv'
  <2> DEFINE p == files[pos]
             writes == drafts[p] > 0
  <2>1. /\ UNCHANGED <<files, drafts>> /\ step = "write" /\ NextFile("validate")
        /\ disk' = IF writes /\ ok THEN [disk EXCEPT ![p] = drafts[p]] ELSE disk
        /\ named' = IF writes /\ ok THEN Append(named, p) ELSE named
        /\ missed' = IF writes /\ ~ok THEN missed \cup {p} ELSE missed
    BY <1>5 DEF WriteFile, Coding, At
  <2>2. /\ files' \in Seq(Paths) /\ pos' \in 1 .. Len(files') /\ step' \in {"write", "validate"}
        /\ p \in Paths
    BY <1>0, <2>1, NextFileKeeps
  <2> HIDE DEF p, writes
  <2>3. CASE writes /\ ok
    <3>1. /\ disk' = [disk EXCEPT ![p] = drafts[p]] /\ named' = Append(named, p)
          /\ missed' = missed
      BY <2>1, <2>3
    <3>2. named' \in Seq(Paths) /\ Range(named') = Range(named) \cup {p}
      BY <1>t, <2>2, <3>1, AppendRange
    <3>3. disk' \in [Paths -> Nat] /\ disk'[p] = drafts[p]
          /\ \A x \in Paths \ {p} : disk'[x] = disk[x]
      BY <1>t, <2>2, <3>1
    <3>4. \A x \in Range(named') \ missed' : disk'[x] = drafts[x]
      BY <1>d, <1>r, <3>1, <3>2, <3>3
    <3>5. AtFile' /\ DiskFollows'
      BY <1>0, <2>1, <2>2, <3>4 DEF AtFile, DiskFollows
    <3>6. JobTyped'
      BY <1>0, <1>t, <2>1, <3>2, <3>3 DEF JobTyped
    <3> QED
      BY <1>0, <3>5, <3>6 DEF GenInv
  <2>4. CASE ~(writes /\ ok)
    <3>1. disk' = disk /\ named' = named /\ missed \subseteq missed'
      BY <2>1, <2>4
    <3>2. AtFile' /\ DiskFollows'
      BY <1>0, <1>d, <2>1, <2>2, <3>1 DEF AtFile, DiskFollows
    <3>3. JobTyped'
      BY <1>0, <1>t, <2>1, <3>1 DEF JobTyped
    <3> QED
      BY <1>0, <3>2, <3>3 DEF GenInv
  <2> QED
    BY <2>3, <2>4
<1>6. ASSUME NEW ok \in BOOLEAN, NEW writes \in BOOLEAN, FixFile(ok, writes) PROVE GenInv'
  <2> DEFINE p == files[pos]
             fixed == drafts[p] > 0 /\ ok
  <2>1. /\ UNCHANGED <<files, named>> /\ step = "fix" /\ NextFile("validate")
        /\ drafts' = IF fixed THEN [drafts EXCEPT ![p] = @ + 1] ELSE drafts
        /\ disk' = IF fixed /\ writes THEN [disk EXCEPT ![p] = drafts[p] + 1] ELSE disk
        /\ missed' = IF fixed /\ ~writes THEN missed \cup {p} ELSE missed
    BY <1>6 DEF FixFile, Coding, At
  <2>2. /\ files' \in Seq(Paths) /\ pos' \in 1 .. Len(files') /\ step' \in {"fix", "validate"}
        /\ p \in Paths
    BY <1>0, <2>1, NextFileKeeps
  <2> HIDE DEF p, fixed
  <2>3. drafts' \in [Paths -> Nat] /\ disk' \in [Paths -> Nat]
    <3>1. drafts[p] + 1 \in Nat
      BY <1>t, <2>2
    <3>2. [drafts EXCEPT ![p] = drafts[p] + 1] \in [Paths -> Nat]
      BY <1>t, <3>1
    <3>3. [disk EXCEPT ![p] = drafts[p] + 1] \in [Paths -> Nat]
      BY <1>t, <3>1
    <3>4. drafts' \in [Paths -> Nat]
      BY <1>t, <2>1, <3>2
    <3>5. disk' \in [Paths -> Nat]
      BY <1>t, <2>1, <3>3
    <3> QED
      BY <3>4, <3>5
  <2>4. /\ \A x \in Paths \ {p} : disk'[x] = disk[x] /\ drafts'[x] = drafts[x]
        /\ missed \subseteq missed'
    BY <1>t, <2>1, <2>2
  <2>5. p \in Range(named) \ missed' => disk'[p] = drafts'[p]
    <3>1. CASE fixed /\ writes
      BY <1>t, <2>1, <2>2, <3>1
    <3>2. CASE fixed /\ ~writes
      BY <2>1, <3>2
    <3>3. CASE ~fixed
      BY <1>d, <2>1, <3>3
    <3> QED
      BY <3>1, <3>2, <3>3
  <2>6. \A x \in Range(named) \ missed' : disk'[x] = drafts'[x]
    BY <1>d, <1>r, <2>4, <2>5
  <2>7. AtFile' /\ DiskFollows'
    BY <1>0, <2>1, <2>2, <2>6 DEF AtFile, DiskFollows
  <2>8. JobTyped'
    BY <1>0, <1>t, <2>1, <2>3 DEF JobTyped
  <2> QED
    BY <1>0, <2>7, <2>8 DEF GenInv
<1> QED
  BY <1>1, <1>2, <1>3, <1>4, <1>5, <1>6 DEF Code

-----------------------------------------------------------------------------
(* The layout of a page. *)

Component == (UNION {Range(plan) : plan \in PagePlans}) \cup {Fallback[1]}

\* The positions of a set can be listed in order, each once.
LEMMA OrderExists ==
  ASSUME NEW spots \in SUBSET Nat, IsFiniteSet(spots)
  PROVE  /\ InOrder(spots) \in [1 .. Cardinality(spots) -> spots]
         /\ \A m, n \in 1 .. Cardinality(spots) : m < n => InOrder(spots)[m] < InOrder(spots)[n]
         /\ \A i \in spots : \E n \in 1 .. Cardinality(spots) : InOrder(spots)[n] = i
<1> DEFINE count == Cardinality(spots)
           Upto(i) == {j \in spots : j <= i}
           rank == [i \in spots |-> Cardinality(Upto(i))]
           p == [n \in 1 .. count |-> CHOOSE i \in spots : rank[i] = n]
<1>1. count \in Nat
  BY FS_CardinalityType
<1>2. ASSUME NEW i \in spots
      PROVE  IsFiniteSet(Upto(i)) /\ Cardinality(Upto(i)) \in 1 .. count
  <2>1. Upto(i) \in SUBSET spots /\ i \in Upto(i)
    OBVIOUS
  <2> HIDE DEF Upto
  <2>2. IsFiniteSet(Upto(i)) /\ Cardinality(Upto(i)) <= count
    BY <2>1, FS_Subset
  <2>3. Cardinality(Upto(i)) \in Nat /\ Cardinality(Upto(i)) # 0
    BY <2>1, <2>2, FS_CardinalityType, FS_EmptySet
  <2> QED
    BY <1>1, <2>2, <2>3
<1>3. ASSUME NEW i \in spots, NEW k \in spots, i < k
      PROVE  Cardinality(Upto(i)) < Cardinality(Upto(k))
  <2>1. Upto(i) \in SUBSET Upto(k) /\ Upto(i) # Upto(k)
    <3>1. k \in Upto(k) /\ k \notin Upto(i)
      BY <1>3
    <3>2. \A j \in spots : j <= i => j <= k
      BY <1>3
    <3>3. Upto(i) \in SUBSET Upto(k)
      BY <3>2
    <3> QED
      BY <3>1, <3>3
  <2>2. Cardinality(Upto(i)) \in Nat /\ Cardinality(Upto(k)) \in Nat /\ IsFiniteSet(Upto(k))
    BY <1>1, <1>2
  <2> HIDE DEF Upto
  <2>3. Cardinality(Upto(i)) <= Cardinality(Upto(k)) /\ Cardinality(Upto(i)) # Cardinality(Upto(k))
    BY <2>1, <2>2, FS_Subset
  <2> QED
    BY <2>2, <2>3
<1> HIDE DEF Upto
<1>4. rank \in [spots -> 1 .. count]
  BY <1>2
<1>5. \A i, k \in spots : rank[i] = rank[k] => i = k
  <2>1. ASSUME NEW i \in spots, NEW k \in spots, i < k
        PROVE  rank[i] # rank[k]
    <3>1. Cardinality(Upto(i)) < Cardinality(Upto(k))
      BY <1>3, <2>1
    <3>2. Cardinality(Upto(i)) \in Nat
      BY <1>1, <1>2
    <3>3. Cardinality(Upto(i)) # Cardinality(Upto(k))
      BY <3>1, <3>2
    <3> QED
      BY <3>3
  <2>2. \A i, k \in spots : i = k \/ i < k \/ k < i
    OBVIOUS
  <2> HIDE DEF rank
  <2> QED
    BY <2>1, <2>2
<1> HIDE DEF count
<1>6. \A n \in 1 .. count : \E i \in spots : rank[i] = n
  <2>1. IsFiniteSet(1 .. count) /\ Cardinality(1 .. count) = count
    BY <1>1, FS_Interval
  <2>2. rank \in Injection(spots, 1 .. count)
    <3> HIDE DEF rank
    <3> QED
      BY <1>4, <1>5, Fun_IsInj
  <2> HIDE DEF rank
  <2>3. rank \in Surjection(spots, 1 .. count)
    BY <2>1, <2>2, FS_Injection DEF count
  <2> QED
    BY <2>3, Fun_SurjectionProperties, ZenonT(40)
<1>7. p \in [1 .. count -> spots] /\ \A n \in 1 .. count : rank[p[n]] = n
  <2> HIDE DEF rank
  <2> QED
    BY <1>6
<1>8. ASSUME NEW m \in 1 .. count, NEW n \in 1 .. count, m < n
      PROVE  p[m] < p[n]
  <2>1. p[m] \in spots /\ p[n] \in spots /\ rank[p[m]] = m /\ rank[p[n]] = n
    BY <1>7
  <2>2. rank[p[m]] = Cardinality(Upto(p[m])) /\ rank[p[n]] = Cardinality(Upto(p[n]))
    BY <2>1
  <2> HIDE DEF p, rank
  <2>m. m \in Nat /\ n \in Nat
    BY <1>1
  <2>3. m \in Nat /\ n \in Nat /\ p[m] \in Nat /\ p[n] \in Nat
    BY <2>1, <2>m
  <2>4. CASE p[n] = p[m]
    BY <1>8, <2>1, <2>3, <2>4
  <2>5. CASE p[n] < p[m]
    BY <1>3, <1>8, <2>1, <2>2, <2>3, <2>5
  <2> QED
    BY <2>3, <2>4, <2>5
<1>9. \E q \in [1 .. count -> spots] : \A m, n \in DOMAIN q : m < n => q[m] < q[n]
  <2>1. DOMAIN p = 1 .. count
    OBVIOUS
  <2> HIDE DEF p
  <2> QED
    BY <1>7, <1>8, <2>1
<1> DEFINE q == InOrder(spots)
<1>10. q \in [1 .. count -> spots] /\ \A m, n \in 1 .. count : m < n => q[m] < q[n]
  BY <1>9 DEF InOrder, count
<1> HIDE DEF q
<1>11. \A m, n \in 1 .. count : q[m] = q[n] => m = n
  <2> SUFFICES ASSUME NEW m \in 1 .. count, NEW n \in 1 .. count, q[m] = q[n], m # n
               PROVE  FALSE
    OBVIOUS
  <2>1. m < n \/ n < m
    BY <1>1
  <2>2. q[m] \in Nat
    BY <1>10
  <2> QED
    BY <1>10, <2>1, <2>2
<1>12. \A i \in spots : \E n \in 1 .. count : q[n] = i
  <2>1. IsFiniteSet(1 .. count) /\ Cardinality(1 .. count) = count
    BY <1>1, FS_Interval
  <2>2. q \in Injection(1 .. count, spots)
    BY <1>10, <1>11, Fun_IsInj
  <2>3. q \in Surjection(1 .. count, spots)
    BY <2>1, <2>2, FS_Injection DEF count
  <2>4. \A i \in spots : \E n \in 1 .. count : q[n] = i
    BY <2>3 DEF Surjection
  <2> QED
    BY <2>4
<1> QED
  BY <1>10, <1>11, <1>12 DEF q, count

\* What a concatenation holds.
LEMMA RangeConcat ==
  ASSUME NEW S, NEW a \in Seq(S), NEW b \in Seq(S)
  PROVE  Range(a \o b) = Range(a) \cup Range(b)
<1> DEFINE c == a \o b
           A == Len(a)
           B == Len(b)
<1>1. /\ A \in Nat /\ B \in Nat /\ DOMAIN a = 1 .. A /\ DOMAIN b = 1 .. B
  OBVIOUS
<1>2. /\ c \in Seq(S) /\ Len(c) = A + B
      /\ \A i \in 1 .. A + B : c[i] = IF i <= A THEN a[i] ELSE b[i - A]
  BY ConcatProperties
<1> HIDE DEF c, A, B
<1>3. DOMAIN c = 1 .. A + B
  BY <1>2
<1>4. \A i \in 1 .. A : i \in 1 .. A + B /\ c[i] = a[i]
  BY <1>1, <1>2
<1>5. \A i \in 1 .. B : A + i \in 1 .. A + B /\ c[A + i] = b[i]
  <2> SUFFICES ASSUME NEW i \in 1 .. B
               PROVE  A + i \in 1 .. A + B /\ c[A + i] = b[i]
    OBVIOUS
  <2>1. A + i \in 1 .. A + B /\ ~(A + i <= A) /\ (A + i) - A = i
    BY <1>1
  <2> QED
    BY <1>2, <2>1
<1>6. \A i \in 1 .. A + B : (i \in 1 .. A /\ c[i] = a[i]) \/ (i - A \in 1 .. B /\ c[i] = b[i - A])
  BY <1>1, <1>2
<1>7. Range(c) = Range(a) \cup Range(b)
  <2>1. Range(c) = {c[i] : i \in 1 .. A + B} /\ Range(a) = {a[i] : i \in 1 .. A} /\ Range(b) = {b[i] : i \in 1 .. B}
    BY <1>1, <1>3 DEF Range
  <2> QED
    BY <1>4, <1>5, <1>6, <2>1
<1> QED
  BY <1>7 DEF c, A, B

LEMMA DisjointUnion ==
  ASSUME NEW S, NEW T, IsFiniteSet(S), IsFiniteSet(T), S \cap T = {}
  PROVE  IsFiniteSet(S \cup T) /\ Cardinality(S \cup T) = Cardinality(S) + Cardinality(T)
<1>1. Cardinality(S) \in Nat /\ Cardinality(T) \in Nat /\ Cardinality(S \cap T) = 0
  BY FS_CardinalityType, FS_EmptySet
<1>2. /\ IsFiniteSet(S \cup T)
      /\ Cardinality(S \cup T) = Cardinality(S) + Cardinality(T) - Cardinality(S \cap T)
  BY FS_Union
<1>3. \A x, y, z, u \in Nat : z = 0 => x + y - z = x + y
  OBVIOUS
<1>4. Cardinality(S) + Cardinality(T) - Cardinality(S \cap T) = Cardinality(S) + Cardinality(T)
  BY <1>1, <1>3
<1> QED
  BY <1>2, <1>4

\* The components of a role, each place of it once.
LEMMA InRoleTyped ==
  ASSUME NEW S, NEW plan \in Seq(S), NEW role
  PROVE  /\ IsFiniteSet(Places(plan, role)) /\ Cardinality(Places(plan, role)) \in Nat
         /\ InRole(plan, role) \in Seq(S)
         /\ Len(InRole(plan, role)) = Cardinality(Places(plan, role))
         /\ Range(InRole(plan, role)) = {plan[i] : i \in Places(plan, role)}
<1> DEFINE spots == Places(plan, role)
           count == Cardinality(spots)
           p == InOrder(spots)
           r == InRole(plan, role)
<1>1. /\ DOMAIN plan = 1 .. Len(plan) /\ Len(plan) \in Nat
      /\ \A i \in DOMAIN plan : plan[i] \in S
  OBVIOUS
<1>2. spots \in SUBSET (1 .. Len(plan)) /\ spots \in SUBSET Nat
  BY <1>1 DEF Places
<1>3. IsFiniteSet(spots) /\ count \in Nat
  <2>1. IsFiniteSet(1 .. Len(plan))
    BY <1>1, FS_Interval
  <2> HIDE DEF spots
  <2>2. IsFiniteSet(spots)
    BY <1>2, <2>1, FS_Subset
  <2> QED
    BY <2>2, FS_CardinalityType
<1>4. r = [n \in DOMAIN p |-> plan[p[n]]]
  BY DEF InRole
<1> HIDE DEF spots, r
<1>5. /\ p \in [1 .. count -> spots] /\ \A i \in spots : \E n \in 1 .. count : p[n] = i
  BY <1>2, <1>3, OrderExists
<1> HIDE DEF p, count
<1>6. r = [n \in 1 .. count |-> plan[p[n]]] /\ \A n \in 1 .. count : p[n] \in spots /\ plan[p[n]] \in S
  BY <1>1, <1>2, <1>4, <1>5
<1>7. r \in Seq(S) /\ Len(r) = count /\ DOMAIN r = 1 .. count
  BY <1>3, <1>6
<1>8. Range(r) = {plan[i] : i \in spots}
  <2>1. Range(r) = {plan[p[n]] : n \in 1 .. count}
    BY <1>6, <1>7 DEF Range
  <2> QED
    BY <1>5, <1>6, <2>1
<1> QED
  BY <1>3, <1>7, <1>8 DEF spots, count, r

LEMMA FirstAndRest ==
  ASSUME NEW S, NEW list \in Seq(S), list # <<>>
  PROVE  /\ <<list[1]>> \in Seq(S) /\ Len(<<list[1]>>) = 1 /\ Range(<<list[1]>>) = {list[1]}
         /\ Tail(list) \in Seq(S) /\ Len(list) = 1 + Len(Tail(list))
         /\ Range(list) = {list[1]} \cup Range(Tail(list))
<1> DEFINE rest == Tail(list)
           L == Len(list)
<1>1. /\ L \in Nat /\ L # 0 /\ DOMAIN list = 1 .. L /\ list[1] \in S
      /\ rest \in Seq(S) /\ Len(rest) = L - 1 /\ DOMAIN rest = 1 .. L - 1
      /\ \A i \in 1 .. L - 1 : rest[i] = list[i + 1]
  OBVIOUS
<1>2. <<list[1]>> \in Seq(S) /\ Len(<<list[1]>>) = 1 /\ Range(<<list[1]>>) = {list[1]}
  BY <1>1 DEF Range
<1> HIDE DEF rest, L
<1>3. L = 1 + Len(rest)
  BY <1>1
<1>4. Range(list) = {list[1]} \cup Range(rest)
  <2>1. Range(list) = {list[i] : i \in 1 .. L} /\ Range(rest) = {rest[i] : i \in 1 .. L - 1}
    BY <1>1 DEF Range
  <2>2. 1 \in 1 .. L /\ \A i \in 1 .. L - 1 : i + 1 \in 1 .. L
    BY <1>1
  <2>3. \A i \in 1 .. L : i = 1 \/ (i - 1 \in 1 .. L - 1 /\ (i - 1) + 1 = i)
    BY <1>1
  <2>4. \A i \in 1 .. L : i = 1 \/ (i - 1 \in 1 .. L - 1 /\ list[i] = rest[i - 1])
    BY <1>1, <2>3
  <2> QED
    BY <1>1, <2>1, <2>2, <2>4
<1> QED
  BY <1>1, <1>2, <1>3, <1>4 DEF rest, L

\* The layout has as many components as the plan, and the same.
LEMMA LayoutPlacesAll ==
  ASSUME NEW plan \in Seq(Component), \A i \in DOMAIN plan : plan[i].role \in Roles
  PROVE  /\ Layout(plan) \in Seq(Component) /\ Len(Layout(plan)) = Len(plan)
         /\ Range(Layout(plan)) = Range(plan)
<1> HIDE DEF Component
<1> DEFINE top == InRole(plan, "top")
           lefts == InRole(plan, "left")
           main == InRole(plan, "main")
           right == InRole(plan, "right")
           bottom == InRole(plan, "bottom")
           full == InRole(plan, "full")
           sides == lefts \o right
           row == lefts \o <<main[1]>> \o right \o Tail(main)
           middle == IF sides # <<>> /\ main # <<>> THEN row ELSE main \o sides
           order == top \o middle \o full \o bottom
           Count(role) == Cardinality(Places(plan, role))
           In(role) == {plan[i] : i \in Places(plan, role)}
<1>1. Layout(plan) = order
  BY Zenon DEF Layout
<1>2. /\ top \in Seq(Component) /\ Len(top) = Count("top") /\ Range(top) = In("top")
      /\ lefts \in Seq(Component) /\ Len(lefts) = Count("left") /\ Range(lefts) = In("left")
      /\ main \in Seq(Component) /\ Len(main) = Count("main") /\ Range(main) = In("main")
      /\ right \in Seq(Component) /\ Len(right) = Count("right") /\ Range(right) = In("right")
      /\ bottom \in Seq(Component) /\ Len(bottom) = Count("bottom") /\ Range(bottom) = In("bottom")
      /\ full \in Seq(Component) /\ Len(full) = Count("full") /\ Range(full) = In("full")
  BY InRoleTyped
<1>3. /\ Count("top") \in Nat /\ Count("left") \in Nat /\ Count("main") \in Nat
      /\ Count("right") \in Nat /\ Count("bottom") \in Nat /\ Count("full") \in Nat
  BY InRoleTyped
<1>4. Count("top") + Count("left") + Count("main") + Count("right") + Count("bottom") + Count("full") = Len(plan)
  <2> DEFINE P(role) == Places(plan, role)
  <2>1. \A role \in Roles : IsFiniteSet(P(role))
    BY InRoleTyped
  <2>2. \A q, r \in Roles : q # r => P(q) \cap P(r) = {}
    BY DEF Places
  <2>3. P("top") \cup P("left") \cup P("main") \cup P("right") \cup P("bottom") \cup P("full") = 1 .. Len(plan)
    BY DEF Places, Roles
  <2>4. Cardinality(1 .. Len(plan)) = Len(plan)
    <3> DEFINE L == Len(plan)
    <3>1. L \in Nat
      OBVIOUS
    <3> HIDE DEF L
    <3>2. Cardinality(1 .. L) = IF 1 > L THEN 0 ELSE L - 1 + 1
      BY <3>1, FS_Interval
    <3>3. Cardinality(1 .. L) = L
      BY <3>1, <3>2
    <3> QED
      BY <3>3 DEF L
  <2> DEFINE A == P("top") \cup P("left")
             B == A \cup P("main")
             D == B \cup P("right")
             E == D \cup P("bottom")
             F == E \cup P("full")
  <2>r. /\ "top" \in Roles /\ "left" \in Roles /\ "main" \in Roles /\ "right" \in Roles
        /\ "bottom" \in Roles /\ "full" \in Roles
    BY DEF Roles
  <2> HIDE DEF P
  <2>5. IsFiniteSet(A) /\ Cardinality(A) = Count("top") + Count("left")
    <3>1. P("top") \cap P("left") = {}
      BY <2>2, <2>r
    <3> QED
      BY <2>1, <2>r, <3>1, DisjointUnion DEF P
  <2>6. IsFiniteSet(B) /\ Cardinality(B) = Cardinality(A) + Count("main")
    <3>1. A \cap P("main") = {}
      BY <2>2, <2>r
    <3> HIDE DEF A
    <3> QED
      BY <2>1, <2>5, <2>r, <3>1, DisjointUnion DEF P
  <2>7. IsFiniteSet(D) /\ Cardinality(D) = Cardinality(B) + Count("right")
    <3>1. B \cap P("right") = {}
      BY <2>2, <2>r
    <3> HIDE DEF B
    <3> QED
      BY <2>1, <2>6, <2>r, <3>1, DisjointUnion DEF P
  <2>8. IsFiniteSet(E) /\ Cardinality(E) = Cardinality(D) + Count("bottom")
    <3>1. D \cap P("bottom") = {}
      BY <2>2, <2>r
    <3> HIDE DEF D
    <3> QED
      BY <2>1, <2>7, <2>r, <3>1, DisjointUnion DEF P
  <2>9. IsFiniteSet(F) /\ Cardinality(F) = Cardinality(E) + Count("full")
    <3>1. E \cap P("full") = {}
      BY <2>2, <2>r
    <3> HIDE DEF E
    <3> QED
      BY <2>1, <2>8, <2>r, <3>1, DisjointUnion DEF P
  <2>10. F = 1 .. Len(plan)
    BY <2>3
  <2> HIDE DEF A, B, D, E, F
  <2>11. Cardinality(F) = Len(plan)
    BY <2>4, <2>10
  <2> QED
    BY <2>5, <2>6, <2>7, <2>8, <2>9, <2>11
<1>5. In("top") \cup In("left") \cup In("main") \cup In("right") \cup In("bottom") \cup In("full") = Range(plan)
  BY DEF Places, Roles, Range
<1> HIDE DEF top, lefts, main, right, bottom, full, Count, In
<1>6. sides \in Seq(Component) /\ Len(sides) = Len(lefts) + Len(right) /\ Range(sides) = Range(lefts) \cup Range(right)
  <2>a. sides \in Seq(Component) /\ Len(sides) = Len(lefts) + Len(right)
    BY <1>2, ConcatProperties
  <2>b. Range(sides) = Range(lefts) \cup Range(right)
    BY <1>2, RangeConcat
  <2> QED
    BY <2>a, <2>b
<1>7. /\ middle \in Seq(Component) /\ Len(middle) = Len(lefts) + Len(main) + Len(right)
      /\ Range(middle) = Range(lefts) \cup Range(main) \cup Range(right)
  <2>1. CASE sides # <<>> /\ main # <<>>
    <3> DEFINE one == <<main[1]>>
               rest == Tail(main)
    <3>1. /\ one \in Seq(Component) /\ Len(one) = 1 /\ Range(one) = {main[1]}
          /\ rest \in Seq(Component) /\ Len(main) = 1 + Len(rest)
          /\ Range(main) = {main[1]} \cup Range(rest)
      BY <1>2, <2>1, FirstAndRest
    <3> HIDE DEF one, rest
    <3> DEFINE a == lefts \o one
               b == a \o right
               c == b \o rest
    <3>2. a \in Seq(Component) /\ Len(a) = Len(lefts) + 1 /\ Range(a) = Range(lefts) \cup {main[1]}
      <4>1. lefts \in Seq(Component) /\ one \in Seq(Component)
        BY <1>2, <3>1
      <4>2. a \in Seq(Component)
        BY <4>1, ConcatProperties
      <4>3. Len(a) = Len(lefts) + Len(one)
        BY <4>1, ConcatProperties
      <4>a. a \in Seq(Component) /\ Len(a) = Len(lefts) + 1
        BY <3>1, <4>2, <4>3
      <4>b. Range(a) = Range(lefts) \cup {main[1]}
        BY <1>2, <3>1, RangeConcat, SMTT(30)
      <4> QED
        BY <4>a, <4>b
    <3> HIDE DEF a
    <3>3. b \in Seq(Component) /\ Len(b) = Len(a) + Len(right) /\ Range(b) = Range(a) \cup Range(right)
      <4>1. a \in Seq(Component) /\ right \in Seq(Component)
        BY <1>2, <3>2
      <4>a. b \in Seq(Component) /\ Len(b) = Len(a) + Len(right)
        BY <4>1, ConcatProperties
      <4>b. Range(b) = Range(a) \cup Range(right)
        BY <1>2, <3>2, RangeConcat, SMTT(30)
      <4> QED
        BY <4>a, <4>b
    <3> HIDE DEF b
    <3>4. c \in Seq(Component) /\ Len(c) = Len(b) + Len(rest) /\ Range(c) = Range(b) \cup Range(rest)
      <4>a. c \in Seq(Component) /\ Len(c) = Len(b) + Len(rest)
        BY <3>1, <3>3, ConcatProperties, ZenonT(40)
      <4>b. Range(c) = Range(b) \cup Range(rest)
        BY <3>1, <3>3, RangeConcat
      <4> QED
        BY <4>a, <4>b
    <3>5. middle = c
      BY <2>1 DEF a, b, c, one, rest
    <3>6. Len(rest) \in Nat /\ Len(lefts) \in Nat /\ Len(right) \in Nat
      BY <1>2, <3>1
    <3> HIDE DEF c, middle
    <3>7. Len(c) = Len(lefts) + Len(main) + Len(right)
      BY <3>1, <3>2, <3>3, <3>4, <3>6
    <3>8. Range(c) = Range(lefts) \cup Range(main) \cup Range(right)
      BY <3>1, <3>2, <3>3, <3>4
    <3> QED
      BY <3>4, <3>5, <3>7, <3>8
  <2>2. CASE ~(sides # <<>> /\ main # <<>>)
    <3>1. middle = main \o sides
      BY <2>2
    <3> HIDE DEF sides, middle
    <3>2. /\ main \o sides \in Seq(Component) /\ Len(main \o sides) = Len(main) + Len(sides)
          /\ Range(main \o sides) = Range(main) \cup Range(sides)
      <4>a. main \o sides \in Seq(Component) /\ Len(main \o sides) = Len(main) + Len(sides)
        BY <1>2, <1>6, ConcatProperties, ZenonT(40)
      <4>b. Range(main \o sides) = Range(main) \cup Range(sides)
        BY <1>2, <1>6, RangeConcat, SMTT(30)
      <4> QED
        BY <4>a, <4>b
    <3>3. Len(main) \in Nat /\ Len(lefts) \in Nat /\ Len(right) \in Nat
      BY <1>2
    <3> QED
      BY <1>6, <3>1, <3>2, <3>3
  <2> QED
    BY <2>1, <2>2
<1> HIDE DEF middle
<1> DEFINE a == top \o middle
           b == a \o full
<1>8. a \in Seq(Component) /\ Len(a) = Len(top) + Len(middle) /\ Range(a) = Range(top) \cup Range(middle)
  <2>a. a \in Seq(Component) /\ Len(a) = Len(top) + Len(middle)
    BY <1>2, <1>7, ConcatProperties, ZenonT(40)
  <2>b. Range(a) = Range(top) \cup Range(middle)
    BY <1>2, <1>7, RangeConcat, SMTT(30)
  <2> QED
    BY <2>a, <2>b
<1> HIDE DEF a
<1>9. b \in Seq(Component) /\ Len(b) = Len(a) + Len(full) /\ Range(b) = Range(a) \cup Range(full)
  <2>a. b \in Seq(Component) /\ Len(b) = Len(a) + Len(full)
    BY <1>2, <1>8, ConcatProperties, ZenonT(40)
  <2>b. Range(b) = Range(a) \cup Range(full)
    BY <1>2, <1>8, RangeConcat, SMTT(30)
  <2> QED
    BY <2>a, <2>b
<1> HIDE DEF b
<1>10. /\ b \o bottom \in Seq(Component) /\ Len(b \o bottom) = Len(b) + Len(bottom)
       /\ Range(b \o bottom) = Range(b) \cup Range(bottom)
  <2>a. b \o bottom \in Seq(Component) /\ Len(b \o bottom) = Len(b) + Len(bottom)
    BY <1>2, <1>9, ConcatProperties, ZenonT(40)
  <2>b. Range(b \o bottom) = Range(b) \cup Range(bottom)
    BY <1>2, <1>9, RangeConcat, SMTT(30)
  <2> QED
    BY <2>a, <2>b
<1>11. order = b \o bottom
  BY DEF a, b
<1> HIDE DEF order
<1>12. Len(order) = Len(plan)
  <2>1. Len(order) = Count("top") + (Count("left") + Count("main") + Count("right")) + Count("full") + Count("bottom")
    BY <1>2, <1>7, <1>8, <1>9, <1>10, <1>11
  <2>2. \A t, l, m, r, b1, f \in Nat : t + (l + m + r) + f + b1 = t + l + m + r + b1 + f
    OBVIOUS
  <2> QED
    BY <1>3, <1>4, <2>1, <2>2
<1>13. Range(order) = Range(plan)
  BY <1>2, <1>5, <1>7, <1>8, <1>9, <1>10, <1>11, ZenonT(40)
<1> QED
  BY <1>1, <1>10, <1>11, <1>12, <1>13

-----------------------------------------------------------------------------
(* The page of a mock-up. *)

Fragment == [screen : 1 .. MaxScreens, part : Nat, ok : BOOLEAN]
ScreenRecord == [at : {"idle", "queued", "planning", "making", "over"}, plan : Seq(Component),
                 made : Seq(Fragment), tries : 0 .. MaxMockRetries, view : Seq(Fragment)]

Plannable(plan) == \A i \in DOMAIN plan : plan[i].role \in Roles

\* The fragments of a screen are those of its plan, in the order of the plan;
\* before the plan there are none.
MadeInOrder(s, w) ==
  /\ Plannable(w.plan) /\ Len(w.made) <= Len(w.plan)
  /\ \A j \in DOMAIN w.made : w.made[j].screen = s /\ w.made[j].part = j
  /\ w.at \in {"idle", "queued", "planning"} => w.made = <<>>

\* A view shows each component once, when the plan gave them different ids.
ViewWhole(s, plan, view) ==
  IsInjective([i \in DOMAIN plan |-> plan[i].id]) =>
    /\ {<<f.screen, f.part>> : f \in Range(view)} = {s} \X DOMAIN plan
    /\ Len(view) = Len(plan)

Working == {s \in 1 .. MaxScreens : screen[s].at \in {"planning", "making"}}

MockInv ==
  /\ job \in {"mock", "code", "vision"}
  /\ tabs \in 0 .. MaxScreens /\ permits \in Nat
  /\ screen \in [1 .. MaxScreens -> ScreenRecord]
  /\ permits + Cardinality(Working) = Permits
  /\ step = "plan" => Working = {}
  /\ \A s \in 1 .. MaxScreens :
       /\ MadeInOrder(s, screen[s])
       /\ screen[s].at = "over" => ViewWhole(s, screen[s].plan, screen[s].view)
  /\ job = "mock" /\ report = "done" =>
       /\ page = [s \in 1 .. tabs |-> screen[s].view]
       /\ \A s \in 1 .. tabs : screen[s].at = "over"

\* Any plan of a screen is a sequence of components with a role.
LEMMA ScreenPlanTyped ==
  ASSUME NEW plan \in PagePlans \cup {Fallback}
  PROVE  plan \in Seq(Component) /\ Plannable(plan)
<1>1. CASE plan \in PagePlans
  <2>1. plan \in Seq(Range(plan)) /\ \A c \in Range(plan) : c.role \in Roles
    BY <1>1, GenerationBounds
  <2>2. Range(plan) \subseteq Component
    BY <1>1 DEF Component
  <2>3. \A i \in DOMAIN plan : plan[i] \in Range(plan)
    BY DEF Range
  <2>4. plan \in Seq(Component)
    <3> HIDE DEF Component
    <3> QED
      BY <2>1, <2>2
  <2> QED
    BY <2>1, <2>3, <2>4 DEF Plannable
<1>2. CASE plan = Fallback
  <2> DEFINE c == Fallback[1]
  <2>1. c \in Component
    BY DEF Component
  <2>2. Fallback = <<c>> /\ c.role \in Roles
    BY DEF Fallback, Roles
  <2> HIDE DEF Component, c
  <2>3. plan = <<c>>
    BY <1>2, <2>2
  <2>4. DOMAIN plan = {1} /\ plan[1] = c
    BY <2>3
  <2> QED
    BY <2>1, <2>2, <2>3, <2>4 DEF Plannable
<1> QED
  BY <1>1, <1>2

LEMMA NoScreenTyped ==
  /\ NoScreen \in ScreenRecord /\ [NoScreen EXCEPT !.at = "queued"] \in ScreenRecord
  /\ \A s \in 1 .. MaxScreens :
       MadeInOrder(s, NoScreen) /\ MadeInOrder(s, [NoScreen EXCEPT !.at = "queued"])
  /\ NoScreen.at = "idle" /\ [NoScreen EXCEPT !.at = "queued"].at = "queued"
<1>1. 0 \in 0 .. MaxMockRetries
  BY GenerationBounds
<1>2. <<>> \in Seq(Component) /\ <<>> \in Seq(Fragment) /\ Plannable(<<>>)
  BY DEF Plannable
<1> HIDE DEF Component, Fragment
<1>3. NoScreen \in ScreenRecord /\ [NoScreen EXCEPT !.at = "queued"] \in ScreenRecord
  BY <1>1, <1>2 DEF NoScreen, ScreenRecord
<1>4. \A s \in 1 .. MaxScreens :
        MadeInOrder(s, NoScreen) /\ MadeInOrder(s, [NoScreen EXCEPT !.at = "queued"])
  BY <1>2 DEF MadeInOrder, NoScreen
<1> QED
  BY <1>3, <1>4 DEF NoScreen

\* Of the components with an id there is a last one.
LEMMA LastOfId ==
  ASSUME NEW s \in 1 .. MaxScreens, screen[s].plan \in Seq(Component),
         NEW k \in DOMAIN screen[s].plan, NEW made, screen[s].made = made,
         Len(made) = Len(screen[s].plan), made \in Seq(Fragment)
  PROVE  /\ FragmentOf(s, screen[s].plan[k].id) \in Range(made)
         /\ IsInjective([i \in DOMAIN screen[s].plan |-> screen[s].plan[i].id]) =>
              FragmentOf(s, screen[s].plan[k].id) = made[k]
<1> DEFINE plan == screen[s].plan
           id == plan[k].id
           Is(i) == plan[i].id = id /\ \A j \in DOMAIN plan : plan[j].id = id => j <= i
           spot == CHOOSE i \in DOMAIN plan : Is(i)
           same == {i \in DOMAIN plan : plan[i].id = id}
<1>1. DOMAIN plan = 1 .. Len(plan) /\ Len(plan) \in Nat /\ DOMAIN made = DOMAIN plan
  OBVIOUS
<1>2. \E i \in DOMAIN plan : Is(i)
  <2>1. IsFiniteSet(1 .. Len(plan))
    BY <1>1, FS_Interval
  <2>2. same \in SUBSET (1 .. Len(plan)) /\ same \in SUBSET Nat /\ k \in same
    BY <1>1
  <2> HIDE DEF plan, id
  <2>3. IsFiniteSet(same)
    <3> HIDE DEF same
    <3> QED
      BY <2>1, <2>2, FS_Subset
  <2> DEFINE count == Cardinality(same)
             p == InOrder(same)
  <2>4. count \in Nat /\ count # 0
    <3> HIDE DEF same
    <3> QED
      BY <2>2, <2>3, FS_CardinalityType, FS_EmptySet
  <2>5. /\ p \in [1 .. count -> same] /\ \A m, n \in 1 .. count : m < n => p[m] < p[n]
        /\ \A i \in same : \E n \in 1 .. count : p[n] = i
    <3> HIDE DEF same
    <3> QED
      BY <2>2, <2>3, OrderExists
  <2> HIDE DEF p, count
  <2>6. count \in 1 .. count /\ p[count] \in same
    BY <2>4, <2>5
  <2>7. \A j \in same : j <= p[count]
    <3> SUFFICES ASSUME NEW j \in same
                 PROVE  j <= p[count]
      OBVIOUS
    <3>1. PICK n \in 1 .. count : p[n] = j
      BY <2>5
    <3>2. n = count \/ n < count
      BY <2>4
    <3>3. j \in Nat /\ p[count] \in Nat
      BY <2>2, <2>6
    <3> HIDE DEF same
    <3>4. CASE n = count
      BY <3>1, <3>3, <3>4
    <3>5. CASE n < count
      BY <2>5, <2>6, <3>1, <3>3, <3>5
    <3> QED
      BY <3>2, <3>4, <3>5
  <2> QED
    BY <2>6, <2>7
<1>3. spot \in DOMAIN plan /\ Is(spot)
  <2> HIDE DEF plan, Is
  <2> QED
    BY <1>2
<1>4. FragmentOf(s, id) = made[spot]
  BY DEF FragmentOf
<1>5. made[spot] \in Range(made)
  BY Zenon, <1>1, <1>3 DEF Range
<1>6. ASSUME IsInjective([i \in DOMAIN plan |-> plan[i].id])
      PROVE  spot = k
  <2>1. \A a, b \in DOMAIN plan : plan[a].id = plan[b].id => a = b
    <3> HIDE DEF plan
    <3> QED
      BY <1>6 DEF IsInjective
  <2>2. plan[spot].id = plan[k].id /\ spot \in DOMAIN plan /\ k \in DOMAIN plan
    BY Zenon, <1>3
  <2> HIDE DEF spot, plan
  <2> QED
    BY <2>1, <2>2
<1> HIDE DEF spot
<1> QED
  BY <1>4, <1>5, <1>6

\* The view that is assembled of a whole screen.
LEMMA ViewAssembled ==
  ASSUME NEW s \in 1 .. MaxScreens, screen[s] \in ScreenRecord, MadeInOrder(s, screen[s]),
         Len(screen[s].made) = Len(screen[s].plan)
  PROVE  LET order == Layout(screen[s].plan)
             view == [i \in DOMAIN order |-> FragmentOf(s, order[i].id)]
         IN view \in Seq(Fragment) /\ ViewWhole(s, screen[s].plan, view)
<1> DEFINE plan == screen[s].plan
           made == screen[s].made
           order == Layout(plan)
           view == [i \in DOMAIN order |-> FragmentOf(s, order[i].id)]
<1>1. /\ plan \in Seq(Component) /\ made \in Seq(Fragment) /\ Len(made) = Len(plan) /\ Plannable(plan)
      /\ \A j \in DOMAIN made : made[j].screen = s /\ made[j].part = j
  BY DEF ScreenRecord, MadeInOrder
<1> HIDE DEF Component, Fragment
<1>2. /\ order \in Seq(Component) /\ Len(order) = Len(plan) /\ Range(order) = Range(plan)
  BY <1>1, LayoutPlacesAll DEF Plannable
<1>3. /\ DOMAIN plan = 1 .. Len(plan) /\ DOMAIN made = 1 .. Len(plan) /\ DOMAIN order = 1 .. Len(plan)
      /\ Len(plan) \in Nat
  BY <1>1, <1>2
<1>4. ASSUME NEW k \in DOMAIN plan
      PROVE  /\ FragmentOf(s, plan[k].id) \in Range(made)
             /\ IsInjective([i \in DOMAIN plan |-> plan[i].id]) => FragmentOf(s, plan[k].id) = made[k]
  BY <1>1, LastOfId
<1> HIDE DEF plan, made, order
<1>5. Range(made) \subseteq Fragment
  BY <1>1, <1>3 DEF Range
<1>6. \A i \in DOMAIN order : \E k \in DOMAIN plan : order[i] = plan[k]
  BY <1>2 DEF Range
<1>7. \A k \in DOMAIN plan : \E i \in DOMAIN order : order[i] = plan[k]
  BY <1>2 DEF Range
<1>8. \A i \in DOMAIN order : view[i] \in Fragment
  BY <1>4, <1>5, <1>6
<1>9. view \in Seq(Fragment) /\ Len(view) = Len(plan) /\ DOMAIN view = DOMAIN order
  <2>1. view = [i \in 1 .. Len(plan) |-> view[i]]
    BY <1>3
  <2> HIDE DEF view
  <2> QED
    BY <1>3, <1>8, <2>1
<1>10. ASSUME IsInjective([i \in DOMAIN plan |-> plan[i].id])
       PROVE  {<<f.screen, f.part>> : f \in Range(view)} = {s} \X DOMAIN plan
  <2>1. \A k \in DOMAIN plan : \A i \in DOMAIN order : order[i] = plan[k] => view[i] = made[k]
    BY <1>4, <1>10
  <2>2. Range(view) = {view[i] : i \in DOMAIN order}
    BY <1>9 DEF Range
  <2> HIDE DEF view
  <2>3. Range(view) = {made[k] : k \in DOMAIN plan}
    BY <1>6, <1>7, <2>1, <2>2
  <2>4. \A k \in DOMAIN plan : <<made[k].screen, made[k].part>> = <<s, k>>
    BY <1>1, <1>3
  <2>5. \A f \in Range(view) : <<f.screen, f.part>> \in {s} \X DOMAIN plan
    BY <2>3, <2>4
  <2>6. \A x \in {s} \X DOMAIN plan : \E f \in Range(view) : x = <<f.screen, f.part>>
    <3> SUFFICES ASSUME NEW k \in DOMAIN plan
                 PROVE  \E f \in Range(view) : <<s, k>> = <<f.screen, f.part>>
      OBVIOUS
    <3>1. made[k] \in Range(view) /\ <<s, k>> = <<made[k].screen, made[k].part>>
      BY <2>3, <2>4
    <3> QED
      BY <3>1
  <2> QED
    BY <2>5, <2>6
<1>11. ViewWhole(s, plan, view)
  BY <1>9, <1>10 DEF ViewWhole
<1> QED
  BY <1>9, <1>11 DEF order, plan

\* Who works on a screen is counted by the permits that are taken.
LEMMA PermitTaken ==
  ASSUME MockInv, NEW s \in 1 .. MaxScreens, screen[s].at = "queued", permits > 0,
         permits' = permits - 1, NEW w \in ScreenRecord, w.at = "planning",
         screen' = [screen EXCEPT ![s] = w]
  PROVE  permits' \in Nat /\ permits' + Cardinality(Working') = Permits
<1>1. /\ permits \in Nat /\ permits + Cardinality(Working) = Permits
      /\ screen \in [1 .. MaxScreens -> ScreenRecord]
  BY DEF MockInv
<1>2. Working' = Working \cup {s} /\ s \notin Working
  BY <1>1 DEF Working
<1>3. IsFiniteSet(Working) /\ Cardinality(Working) \in Nat
  <2>1. Working \in SUBSET (1 .. MaxScreens) /\ IsFiniteSet(1 .. MaxScreens)
    BY GenerationBounds, FS_Interval DEF Working
  <2> QED
    BY <2>1, FS_Subset, FS_CardinalityType
<1>4. Cardinality(Working') = Cardinality(Working) + 1
  BY <1>2, <1>3, FS_AddElement
<1> QED
  BY <1>1, <1>3, <1>4

LEMMA PermitReturned ==
  ASSUME MockInv, NEW s \in 1 .. MaxScreens, screen[s].at = "making",
         permits' = permits + 1, NEW w \in ScreenRecord, w.at = "over",
         screen' = [screen EXCEPT ![s] = w]
  PROVE  permits' \in Nat /\ permits' + Cardinality(Working') = Permits
<1>1. /\ permits \in Nat /\ permits + Cardinality(Working) = Permits
      /\ screen \in [1 .. MaxScreens -> ScreenRecord]
  BY DEF MockInv
<1>2. Working' = Working \ {s} /\ s \in Working
  BY <1>1 DEF Working
<1>3. IsFiniteSet(Working) /\ Cardinality(Working) \in Nat
  <2>1. Working \in SUBSET (1 .. MaxScreens) /\ IsFiniteSet(1 .. MaxScreens)
    BY GenerationBounds, FS_Interval DEF Working
  <2> QED
    BY <2>1, FS_Subset, FS_CardinalityType
<1>4. Cardinality(Working') = Cardinality(Working) - 1
  BY <1>2, <1>3, FS_RemoveElement
<1> QED
  BY <1>1, <1>3, <1>4

LEMMA PermitKept ==
  ASSUME MockInv, NEW s \in 1 .. MaxScreens, permits' = permits, NEW w \in ScreenRecord,
         (w.at \in {"planning", "making"}) <=> (screen[s].at \in {"planning", "making"}),
         screen' = [screen EXCEPT ![s] = w]
  PROVE  permits' \in Nat /\ permits' + Cardinality(Working') = Permits
<1>1. /\ permits \in Nat /\ permits + Cardinality(Working) = Permits
      /\ screen \in [1 .. MaxScreens -> ScreenRecord]
  BY DEF MockInv
<1>2. Working' = Working
  BY <1>1 DEF Working
<1> QED
  BY <1>1, <1>2

\* A step of one worker, given what it makes of its screen.
LEMMA WorkerKeeps ==
  ASSUME MockInv, job = "mock", step = "screens", report = "none",
         UNCHANGED <<job, step, report, tabs>>,
         NEW s \in 1 .. MaxScreens, NEW w \in ScreenRecord, screen' = [screen EXCEPT ![s] = w],
         permits' \in Nat, permits' + Cardinality(Working') = Permits,
         MadeInOrder(s, w), w.at = "over" => ViewWhole(s, w.plan, w.view)
  PROVE  MockInv'
<1>1. screen' \in [1 .. MaxScreens -> ScreenRecord]
  BY DEF MockInv
<1>2. \A t \in 1 .. MaxScreens : screen'[t] = IF t = s THEN w ELSE screen[t]
  BY DEF MockInv
<1>3. \A t \in 1 .. MaxScreens :
        /\ MadeInOrder(t, screen'[t])
        /\ screen'[t].at = "over" => ViewWhole(t, screen'[t].plan, screen'[t].view)
  BY <1>2 DEF MockInv
<1>4. \A t \in 1 .. MaxScreens :
        /\ MadeInOrder(t, screen[t])'
        /\ (screen[t].at = "over")' => ViewWhole(t, screen[t].plan, screen[t].view)'
  BY <1>3 DEF MadeInOrder, ViewWhole
<1>5. tabs' \in 0 .. MaxScreens
  BY DEF MockInv
<1> QED
  BY <1>1, <1>4, <1>5 DEF MockInv

LEMMA MockPageKeeps ==
  ASSUME GenInv, MockInv, Mock
  PROVE  MockInv'
<1> HIDE DEF Component
<1>0. job = "mock" /\ job' = "mock" /\ report = "none"
  BY DEF Mock, MockPlanFails, MockPlanned, TakePermit, PlanScreen, MakePart, RetryPart,
         AssembleScreen, AssemblePage, Makes, Worker, At, GenInv, JobTyped
<1>t. /\ tabs \in 0 .. MaxScreens /\ permits \in Nat
      /\ screen \in [1 .. MaxScreens -> ScreenRecord]
      /\ permits + Cardinality(Working) = Permits
      /\ step = "plan" => Working = {}
      /\ \A s \in 1 .. MaxScreens :
           /\ MadeInOrder(s, screen[s])
           /\ screen[s].at = "over" => ViewWhole(s, screen[s].plan, screen[s].view)
  BY DEF MockInv
<1>s. ASSUME NEW s \in 1 .. MaxScreens, NEW where, Worker(s, where)
      PROVE  /\ step = "screens" /\ UNCHANGED <<job, step, report, tabs>>
             /\ screen[s] \in ScreenRecord /\ screen[s].at = where
             /\ screen[s].at \in {"idle", "queued", "planning", "making", "over"}
             /\ screen[s].plan \in Seq(Component) /\ screen[s].made \in Seq(Fragment)
             /\ screen[s].tries \in 0 .. MaxMockRetries /\ screen[s].view \in Seq(Fragment)
             /\ MadeInOrder(s, screen[s])
  <2>1. step = "screens" /\ UNCHANGED <<job, step, report, tabs>> /\ screen[s].at = where
    BY <1>s DEF Worker, At
  <2>2. screen[s] \in ScreenRecord
    BY <1>t
  <2>3. MadeInOrder(s, screen[s])
    BY <1>t
  <2> HIDE DEF Fragment
  <2> QED
    BY <2>1, <2>2, <2>3 DEF ScreenRecord
<1>1. CASE MockPlanFails
  <2>1. UNCHANGED <<tabs, permits, screen, page>> /\ report' = "error" /\ step' = "end"
    BY <1>1 DEF MockPlanFails, mockVars, Ends
  <2>2. Working' = Working
    BY <2>1 DEF Working
  <2>3. \A s \in 1 .. MaxScreens :
           /\ MadeInOrder(s, screen[s])'
           /\ (screen[s].at = "over")' => ViewWhole(s, screen[s].plan, screen[s].view)'
    BY <1>t, <2>1 DEF MadeInOrder, ViewWhole
  <2> QED
    BY <1>0, <1>t, <2>1, <2>2, <2>3 DEF MockInv
<1>2. ASSUME NEW n \in 1 .. MaxScreens, MockPlanned(n)
      PROVE  MockInv'
  <2> DEFINE queued == [NoScreen EXCEPT !.at = "queued"]
  <2>1. /\ step = "plan" /\ step' = "screens" /\ report' = report /\ tabs' = n
        /\ screen' = [s \in 1 .. MaxScreens |-> IF s <= n THEN queued ELSE NoScreen]
        /\ permits' = permits
    BY <1>2 DEF MockPlanned, At, Goto
  <2>2. /\ NoScreen \in ScreenRecord /\ queued \in ScreenRecord
        /\ \A s \in 1 .. MaxScreens : MadeInOrder(s, NoScreen) /\ MadeInOrder(s, queued)
        /\ NoScreen.at = "idle" /\ queued.at = "queued"
    BY NoScreenTyped
  <2> HIDE DEF queued
  <2>3. screen' \in [1 .. MaxScreens -> ScreenRecord]
    BY <2>1, <2>2
  <2>4. \A s \in 1 .. MaxScreens : screen'[s] = queued \/ screen'[s] = NoScreen
    BY <2>1
  <2>5. \A s \in 1 .. MaxScreens : screen'[s].at \in {"idle", "queued"} /\ MadeInOrder(s, screen'[s])
    BY <2>2, <2>4
  <2>6. Working' = {}
    BY <2>5 DEF Working
  <2>7. Cardinality(Working') = Cardinality(Working)
    BY <1>t, <2>1, <2>6
  <2>8. \A s \in 1 .. MaxScreens : MadeInOrder(s, screen[s])' /\ (screen[s].at)' # "over"
    BY <2>5 DEF MadeInOrder
  <2>9. tabs' \in 0 .. MaxScreens
    BY <2>1, GenerationBounds
  <2> QED
    BY <1>0, <1>t, <2>1, <2>3, <2>6, <2>7, <2>8, <2>9 DEF MockInv
<1>3. ASSUME NEW s \in 1 .. MaxScreens, TakePermit(s)
      PROVE  MockInv'
  <2> DEFINE w == [screen[s] EXCEPT !.at = "planning"]
  <2>1. /\ Worker(s, "queued") /\ permits > 0 /\ permits' = permits - 1
        /\ screen' = [screen EXCEPT ![s] = w]
    BY <1>3 DEF TakePermit
  <2>2. /\ screen[s] \in ScreenRecord /\ screen[s].at = "queued" /\ MadeInOrder(s, screen[s])
        /\ step = "screens" /\ UNCHANGED <<job, step, report, tabs>>
    BY <1>s, <2>1
  <2>3. w \in ScreenRecord /\ w.at = "planning" /\ w.plan = screen[s].plan /\ w.made = screen[s].made
    <3> HIDE DEF Fragment
    <3> QED
      BY <2>2 DEF ScreenRecord
  <2> HIDE DEF w
  <2>4. MadeInOrder(s, w)
    BY <2>2, <2>3 DEF MadeInOrder
  <2>5. permits' \in Nat /\ permits' + Cardinality(Working') = Permits
    BY <2>1, <2>2, <2>3, PermitTaken
  <2> QED
    BY <1>0, <2>1, <2>2, <2>3, <2>4, <2>5, WorkerKeeps
<1>4. ASSUME NEW s \in 1 .. MaxScreens, NEW plan \in PagePlans \cup {Fallback}, PlanScreen(s, plan)
      PROVE  MockInv'
  <2> DEFINE w == [screen[s] EXCEPT !.at = "making", !.plan = plan]
  <2>1. Worker(s, "planning") /\ permits' = permits /\ screen' = [screen EXCEPT ![s] = w]
    BY <1>4 DEF PlanScreen
  <2>2. /\ screen[s] \in ScreenRecord /\ screen[s].at = "planning" /\ MadeInOrder(s, screen[s])
        /\ step = "screens" /\ UNCHANGED <<job, step, report, tabs>>
    BY <1>s, <2>1
  <2>3. plan \in Seq(Component) /\ Plannable(plan)
    BY ScreenPlanTyped
  <2>4. w \in ScreenRecord /\ w.at = "making" /\ w.plan = plan /\ w.made = screen[s].made
    <3> HIDE DEF Fragment
    <3> QED
      BY <2>2, <2>3 DEF ScreenRecord
  <2>e. w.made = <<>>
    BY <2>2, <2>4 DEF MadeInOrder
  <2> HIDE DEF w
  <2>5. MadeInOrder(s, w)
    <3>1. Len(w.made) = 0 /\ DOMAIN w.made = {}
      BY <2>e
    <3>2. Len(w.plan) \in Nat
      BY <2>3, <2>4
    <3> QED
      BY <2>3, <2>4, <3>1, <3>2 DEF MadeInOrder
  <2>6. permits' \in Nat /\ permits' + Cardinality(Working') = Permits
    BY <2>1, <2>2, <2>4, PermitKept
  <2> QED
    BY <1>0, <2>1, <2>2, <2>4, <2>5, <2>6, WorkerKeeps
<1>5. ASSUME NEW s \in 1 .. MaxScreens, NEW ok \in BOOLEAN, MakePart(s, ok)
      PROVE  MockInv'
  <2> DEFINE made == screen[s].made
             part == Len(made) + 1
             fragment == [screen |-> s, part |-> part, ok |-> ok]
             more == Append(made, fragment)
             w == [screen[s] EXCEPT !.made = more, !.tries = 0]
  <2>1. /\ Worker(s, "making") /\ permits' = permits /\ Len(made) < Len(screen[s].plan)
        /\ screen' = [screen EXCEPT ![s].made = more, ![s].tries = 0]
    BY <1>5 DEF MakePart, Makes
  <2>2. /\ screen[s] \in ScreenRecord /\ screen[s].at = "making" /\ MadeInOrder(s, screen[s])
        /\ step = "screens" /\ UNCHANGED <<job, step, report, tabs>>
        /\ made \in Seq(Fragment) /\ screen[s].plan \in Seq(Component)
    BY <1>s, <2>1
  <2>3. screen' = [screen EXCEPT ![s] = w]
    BY <1>t, <2>1
  <2>4. Len(made) \in Nat /\ Len(screen[s].plan) \in Nat /\ part \in Nat
    <3> HIDE DEF Fragment
    <3> QED
      BY <2>2
  <2>5. fragment \in Fragment /\ fragment.screen = s /\ fragment.part = part
    BY <2>4 DEF Fragment
  <2> HIDE DEF fragment, Fragment
  <2>6. /\ more \in Seq(Fragment) /\ Len(more) = part /\ DOMAIN more = 1 .. part
        /\ more[part] = fragment /\ \A j \in 1 .. Len(made) : more[j] = made[j]
        /\ DOMAIN made = 1 .. Len(made)
    BY <2>2, <2>5
  <2> HIDE DEF more
  <2>7. 0 \in 0 .. MaxMockRetries
    BY GenerationBounds
  <2>8. w \in ScreenRecord /\ w.at = "making" /\ w.plan = screen[s].plan /\ w.made = more
    BY <2>2, <2>6, <2>7 DEF ScreenRecord
  <2> HIDE DEF w
  <2>9. MadeInOrder(s, w)
    <3>1. \A j \in DOMAIN made : made[j].screen = s /\ made[j].part = j
      BY <2>2 DEF MadeInOrder
    <3>p. part = Len(made) + 1
      OBVIOUS
    <3> HIDE DEF made, part
    <3>2. ASSUME NEW j \in DOMAIN w.made
          PROVE  w.made[j].screen = s /\ w.made[j].part = j
      <4>1. j \in 1 .. part /\ w.made[j] = more[j]
        BY <2>6, <2>8
      <4>2. j \in 1 .. Len(made) \/ j = part
        BY <2>4, <3>p, <4>1
      <4> QED
        BY <2>5, <2>6, <3>1, <4>1, <4>2
    <3>3. Len(w.made) <= Len(w.plan)
      BY <2>1, <2>4, <2>6, <2>8, <3>p
    <3> QED
      BY <2>2, <2>8, <3>2, <3>3 DEF MadeInOrder
  <2>10. permits' \in Nat /\ permits' + Cardinality(Working') = Permits
    BY <2>1, <2>2, <2>3, <2>8, PermitKept
  <2> QED
    BY <1>0, <2>2, <2>3, <2>8, <2>9, <2>10, WorkerKeeps
<1>6. ASSUME NEW s \in 1 .. MaxScreens, RetryPart(s)
      PROVE  MockInv'
  <2> DEFINE w == [screen[s] EXCEPT !.tries = screen[s].tries + 1]
  <2>1. /\ Worker(s, "making") /\ permits' = permits /\ screen[s].tries < MaxMockRetries
        /\ screen' = [screen EXCEPT ![s].tries = screen[s].tries + 1]
    BY <1>6 DEF RetryPart, Makes
  <2>2. /\ screen[s] \in ScreenRecord /\ screen[s].at = "making" /\ MadeInOrder(s, screen[s])
        /\ step = "screens" /\ UNCHANGED <<job, step, report, tabs>>
        /\ screen[s].tries \in 0 .. MaxMockRetries
    BY <1>s, <2>1
  <2>3. screen' = [screen EXCEPT ![s] = w]
    BY <1>t, <2>1
  <2>4. screen[s].tries + 1 \in 0 .. MaxMockRetries
    BY <2>1, <2>2, GenerationBounds
  <2>5. /\ w \in ScreenRecord /\ w.at = "making"
        /\ w.plan = screen[s].plan /\ w.made = screen[s].made
    <3> HIDE DEF Fragment
    <3> QED
      BY <2>2, <2>4 DEF ScreenRecord
  <2> HIDE DEF w
  <2>6. MadeInOrder(s, w)
    BY <2>2, <2>5 DEF MadeInOrder
  <2>7. permits' \in Nat /\ permits' + Cardinality(Working') = Permits
    BY <2>1, <2>2, <2>3, <2>5, PermitKept
  <2> QED
    BY <1>0, <2>2, <2>3, <2>5, <2>6, <2>7, WorkerKeeps
<1>7. ASSUME NEW s \in 1 .. MaxScreens, AssembleScreen(s)
      PROVE  MockInv'
  <2> DEFINE order == Layout(screen[s].plan)
             view == [i \in DOMAIN order |-> FragmentOf(s, order[i].id)]
             w == [screen[s] EXCEPT !.at = "over", !.view = view]
  <2>1. /\ Worker(s, "making") /\ permits' = permits + 1
        /\ Len(screen[s].made) = Len(screen[s].plan)
        /\ screen' = [screen EXCEPT ![s].at = "over", ![s].view = view]
    BY <1>7 DEF AssembleScreen
  <2>2. /\ screen[s] \in ScreenRecord /\ screen[s].at = "making" /\ MadeInOrder(s, screen[s])
        /\ step = "screens" /\ UNCHANGED <<job, step, report, tabs>>
        /\ screen[s].made \in Seq(Fragment) /\ screen[s].plan \in Seq(Component)
    BY <1>s, <2>1
  <2>3. view \in Seq(Fragment) /\ ViewWhole(s, screen[s].plan, view)
    BY <2>1, <2>2, ViewAssembled DEF MadeInOrder
  <2> HIDE DEF view, Fragment
  <2>4. screen' = [screen EXCEPT ![s] = w]
    BY <1>t, <2>1
  <2>5. /\ w \in ScreenRecord /\ w.at = "over" /\ w.view = view
        /\ w.plan = screen[s].plan /\ w.made = screen[s].made
    BY <2>2, <2>3 DEF ScreenRecord
  <2> HIDE DEF w
  <2>6. MadeInOrder(s, w)
    BY <2>2, <2>5 DEF MadeInOrder
  <2>7. permits' \in Nat /\ permits' + Cardinality(Working') = Permits
    BY <2>1, <2>2, <2>4, <2>5, PermitReturned
  <2> QED
    BY <1>0, <2>2, <2>3, <2>4, <2>5, <2>6, <2>7, WorkerKeeps
<1>8. CASE AssemblePage
  <2>1. /\ UNCHANGED <<tabs, permits, screen>> /\ step = "screens" /\ step' = "end"
        /\ page' = [s \in 1 .. tabs |-> screen[s].view]
        /\ \A s \in 1 .. tabs : screen[s].at = "over"
    BY <1>8 DEF AssemblePage, At, Ends
  <2>2. Working' = Working
    BY <2>1 DEF Working
  <2>3. \A s \in 1 .. MaxScreens :
           /\ MadeInOrder(s, screen[s])'
           /\ (screen[s].at = "over")' => ViewWhole(s, screen[s].plan, screen[s].view)'
    BY <1>t, <2>1 DEF MadeInOrder, ViewWhole
  <2> QED
    BY <1>0, <1>t, <2>1, <2>2, <2>3 DEF MockInv
<1> QED
  BY <1>1, <1>2, <1>3, <1>4, <1>5, <1>6, <1>7, <1>8 DEF Mock

LEMMA MockUntouched ==
  ASSUME MockInv, UNCHANGED mockVars,
         UNCHANGED <<job, step, report>> \/ (job # "mock" /\ job' = job /\ step' # "plan")
  PROVE  MockInv'
<1>1. UNCHANGED <<tabs, permits, screen, page>>
  BY DEF mockVars
<1>2. Working' = Working
  BY <1>1 DEF Working
<1>3. \A s \in 1 .. MaxScreens :
        /\ MadeInOrder(s, screen[s])'
        /\ (screen[s].at = "over")' => ViewWhole(s, screen[s].plan, screen[s].view)'
  BY <1>1 DEF MockInv, MadeInOrder, ViewWhole
<1> QED
  BY <1>1, <1>2, <1>3 DEF MockInv

LEMMA MockStepKeeps ==
  ASSUME GenInv, MockInv, GenNext
  PROVE  MockInv'
<1>1. CASE StopGeneration
  BY <1>1, MockUntouched DEF StopGeneration
<1>2. CASE Code
  <2>1. job = "code" /\ job' = job /\ UNCHANGED mockVars
    BY <1>2 DEF Code, CodePlanFails, StopsGenerating, CodeDone, BuildFails, CodePlanned,
           GenerateFile, WriteFile, FixFile, Coding, At
  <2>2. step' # "plan"
    BY <1>2 DEF Code, CodePlanFails, StopsGenerating, CodeDone, BuildFails, CodePlanned,
           GenerateFile, WriteFile, FixFile, Coding, At, Dropped, Ends, Goto, NextFile
  <2> QED
    BY <2>1, <2>2, MockUntouched
<1>3. CASE Vision
  <2>1. job = "vision" /\ job' = job /\ UNCHANGED mockVars /\ step' # "plan"
    BY <1>3 DEF Vision, DraftFails, DraftTalks, DraftWritten, CritiqueAccepts, CritiqueRevises,
           CritiqueObjects, Repair, VisionDone, Turn, At, Ends, Goto
  <2> QED
    BY <2>1, MockUntouched
<1> QED
  BY <1>1, <1>2, <1>3, MockPageKeeps DEF GenNext

LEMMA MockUnchanged ==
  ASSUME MockInv, UNCHANGED genVars
  PROVE  MockInv'
  BY MockUntouched DEF genVars

LEMMA MockStart ==
  ASSUME GenInit \/ JobAtRest
  PROVE  MockInv
<1>1. /\ tabs = 0 /\ permits = Permits /\ report = "none"
      /\ screen = [s \in 1 .. MaxScreens |-> NoScreen]
  BY DEF GenInit, JobAtRest
<1>2. Working = {}
  BY <1>1 DEF Working, NoScreen
<1>3. Cardinality(Working) = 0
  BY <1>2, FS_EmptySet
<1>4. /\ tabs \in 0 .. MaxScreens /\ permits \in Nat /\ permits + 0 = Permits
      /\ job \in {"mock", "code", "vision"}
  BY <1>1, GenerationBounds DEF GenInit, JobAtRest
<1>5. screen \in [1 .. MaxScreens -> ScreenRecord]
  BY <1>1, NoScreenTyped
<1>6. \A s \in 1 .. MaxScreens : MadeInOrder(s, screen[s]) /\ screen[s].at # "over"
  BY <1>1, NoScreenTyped
<1> QED
  BY <1>1, <1>2, <1>3, <1>4, <1>5, <1>6 DEF MockInv

LEMMA GenStepKeeps ==
  ASSUME GenInv, GenNext
  PROVE  GenInv'
<1>1. ASSUME StopGeneration PROVE GenInv'
  <2>1. UNCHANGED <<job, step, report, files, pos, drafts, disk, named, missed, first, doc>>
    BY <1>1 DEF StopGeneration, codeVars, visionVars
  <2> QED
    BY <2>1 DEF GenInv, JobTyped, AtFile, DiskFollows, DraftKept
<1> QED
  BY <1>1, MockKeeps, CodeKeeps, VisionKeeps DEF GenNext

LEMMA GenUnchanged ==
  ASSUME GenInv, UNCHANGED genVars
  PROVE  GenInv'
<1>1. UNCHANGED <<job, step, report, files, pos, drafts, disk, named, missed, first, doc>>
  BY DEF genVars, codeVars, visionVars
<1> QED
  BY <1>1 DEF GenInv, JobTyped, AtFile, DiskFollows, DraftKept

LEMMA GenStart ==
  ASSUME GenInit \/ JobAtRest
  PROVE  GenInv
<1>1. /\ drafts \in [Paths -> Nat] /\ disk \in [Paths -> Nat] /\ report = "none"
      /\ named = <<>> /\ step \in {"plan", "end"}
      /\ \A p \in Paths : disk[p] = drafts[p]
      /\ pos = 1 /\ files = <<>>
  BY DEF GenInit, JobAtRest
<1>2. /\ first \in [Sections -> Writers] /\ doc \in [Sections -> Writers]
      /\ \A s \in Sections : first[s] = "blank"
  BY DEF GenInit, JobAtRest, Writers
<1>3. <<>> \in Seq(Paths) /\ Range(named) = {}
  BY <1>1 DEF Range
<1> QED
  BY <1>1, <1>2, <1>3 DEF GenInv, JobTyped, AtFile, DiskFollows, DraftKept
-----------------------------------------------------------------------------
(* What the types of the other modules' variables rest on.                 *)

GenRest ==
  /\ stopped \in BOOLEAN
  /\ step \in {"plan", "screens", "generate", "write", "validate", "fix",
               "critique", "repair", "finish", "end"}
  /\ report \in {"none", "done", "error"}
  /\ files \in Seq(Paths) /\ pos \in 1 .. Len(files) + 1
  /\ fixes \in 0 .. MaxBuildFixes - 1
  /\ missed \in SUBSET Paths

LEMMA CodeRestKeeps ==
  ASSUME GenRest, GenInv, Code
  PROVE  GenRest'
<1>t. /\ stopped \in BOOLEAN /\ report \in {"none", "done", "error"}
      /\ files \in Seq(Paths) /\ pos \in 1 .. Len(files) + 1 /\ Len(files) \in Nat
      /\ fixes \in 0 .. MaxBuildFixes - 1 /\ missed \in SUBSET Paths
      /\ MaxBuildFixes \in Nat
  BY GenerationBounds DEF GenRest
<1>0. /\ job = "code" /\ stopped' = stopped
      /\ step \in {"plan", "generate", "write", "validate", "fix"}
  BY DEF Code, CodePlanFails, StopsGenerating, CodeDone, BuildFails, CodePlanned,
         GenerateFile, WriteFile, FixFile, Coding, At
<1>1. /\ step = "plan" => pos = 1
      /\ step # "plan" => pos \in 1 .. Len(files) /\ files[pos] \in Paths
  BY <1>0, <1>t DEF GenInv, AtFile
<1>2. CASE CodePlanFails \/ StopsGenerating \/ CodeDone
  <2>1. UNCHANGED codeVars /\ step' = "end" /\ report' \in {"done", "error", report}
    BY <1>2 DEF CodePlanFails, StopsGenerating, CodeDone, Dropped, Ends
  <2> QED
    BY <1>0, <1>t, <2>1 DEF GenRest, codeVars
<1>3. CASE BuildFails
  <2>1. /\ UNCHANGED <<files, pos, missed, report>> /\ step' = "fix"
        /\ fixes' = fixes + 1 /\ fixes < MaxBuildFixes - 1
    BY <1>3 DEF BuildFails, Goto
  <2>2. fixes' \in 0 .. MaxBuildFixes - 1
    BY <1>t, <2>1
  <2> QED
    BY <1>0, <1>t, <2>1, <2>2 DEF GenRest
<1>4. ASSUME NEW fp \in FilePlans, CodePlanned(fp)
      PROVE  GenRest'
  <2>1. UNCHANGED <<pos, missed, report, fixes>> /\ step' = "generate" /\ files' = fp /\ step = "plan"
    BY <1>4 DEF CodePlanned, Goto, Coding, At
  <2>2. fp \in Seq(Paths) /\ 1 \in 1 .. Len(fp) + 1
    BY PlanTyped
  <2> QED
    BY <1>0, <1>1, <1>t, <2>1, <2>2 DEF GenRest
<1>n. ASSUME NEW stage \in {"write", "validate"}, NextFile(stage), step # "plan"
      PROVE  /\ pos' \in 1 .. Len(files) + 1 /\ step' \in {step, stage} /\ report' = report
  BY <1>0, <1>1, <1>t, <1>n DEF NextFile, Goto
<1>5. ASSUME NEW ok \in BOOLEAN, GenerateFile(ok)
      PROVE  GenRest'
  <2>1. UNCHANGED <<files, missed, fixes>> /\ NextFile("write") /\ step # "plan"
    BY <1>5 DEF GenerateFile, Coding, At
  <2> QED
    BY <1>0, <1>n, <1>t, <2>1 DEF GenRest
<1>6. ASSUME NEW ok \in BOOLEAN, WriteFile(ok)
      PROVE  GenRest'
  <2>1. /\ UNCHANGED <<files, fixes>> /\ NextFile("validate") /\ step # "plan"
        /\ missed' \in {missed, missed \cup {files[pos]}}
    BY <1>6 DEF WriteFile, Coding, At
  <2>2. missed' \in SUBSET Paths
    BY <1>1, <1>t, <2>1
  <2> QED
    BY <1>0, <1>n, <1>t, <2>1, <2>2 DEF GenRest
<1>7. ASSUME NEW ok \in BOOLEAN, NEW writes \in BOOLEAN, FixFile(ok, writes)
      PROVE  GenRest'
  <2>1. /\ UNCHANGED <<files, fixes>> /\ NextFile("validate") /\ step # "plan"
        /\ missed' \in {missed, missed \cup {files[pos]}}
    BY <1>7 DEF FixFile, Coding, At
  <2>2. missed' \in SUBSET Paths
    BY <1>1, <1>t, <2>1
  <2> QED
    BY <1>0, <1>n, <1>t, <2>1, <2>2 DEF GenRest
<1> QED
  BY <1>2, <1>3, <1>4, <1>5, <1>6, <1>7 DEF Code

LEMMA GenRestKeeps ==
  ASSUME GenRest, GenInv, GenNext
  PROVE  GenRest'
<1>1. CASE StopGeneration
  BY <1>1 DEF StopGeneration, codeVars, GenRest
<1>2. CASE Mock
  <2>1. /\ UNCHANGED codeVars /\ stopped' = stopped
        /\ step' \in {"screens", "end", step} /\ report' \in {"done", "error", report}
    BY <1>2 DEF Mock, MockPlanFails, MockPlanned, TakePermit, PlanScreen, MakePart, RetryPart,
         AssembleScreen, AssemblePage, Makes, Worker, At, Ends, Goto
  <2> QED
    BY <2>1 DEF GenRest, codeVars
<1>3. CASE Vision
  <2>1. /\ UNCHANGED codeVars /\ stopped' = stopped
        /\ step' \in {"critique", "finish", "repair", "end"} /\ report' \in {"done", "error", report}
    BY <1>3 DEF Vision, DraftFails, DraftTalks, DraftWritten, CritiqueAccepts, CritiqueRevises,
           CritiqueObjects, Repair, VisionDone, Turn, At, Ends, Goto
  <2> QED
    BY <2>1 DEF GenRest, codeVars
<1> QED
  BY <1>1, <1>2, <1>3, CodeRestKeeps DEF GenNext

LEMMA GenTypesMean ==
  ASSUME GenRest, GenInv, MockInv
  PROVE  GenTypeOK
<1>1. permits \in 0 .. Permits
  <2>0. Working \subseteq 1 .. MaxScreens
    BY DEF Working
  <2>1. Working \in SUBSET (1 .. MaxScreens) /\ IsFiniteSet(1 .. MaxScreens)
    <3>1. MaxScreens \in Int /\ 1 \in Int
      BY GenerationBounds
    <3>2. IsFiniteSet(1 .. MaxScreens)
      BY <3>1, FS_Interval
    <3> QED
      BY <2>0, <3>2
  <2>2. Cardinality(Working) \in Nat
    BY <2>1, FS_Subset, FS_CardinalityType
  <2>3. permits \in Nat /\ Permits \in Nat /\ permits + Cardinality(Working) = Permits
    BY GenerationBounds DEF MockInv
  <2> QED
    BY <2>2, <2>3
<1>2. ASSUME NEW s \in 1 .. MaxScreens
      PROVE  /\ screen[s].at \in {"idle", "queued", "planning", "making", "over"}
             /\ screen[s].tries \in 0 .. MaxMockRetries
             /\ Len(screen[s].made) <= Len(screen[s].plan)
  <2>1. screen[s] \in ScreenRecord /\ MadeInOrder(s, screen[s])
    BY DEF MockInv
  <2> HIDE DEF Component, Fragment
  <2> QED
    BY <2>1 DEF ScreenRecord, MadeInOrder
<1>3. Range(named) \cup missed \subseteq Paths
  BY DEF GenInv, JobTyped, GenRest, Range
<1>4. /\ drafts \in [Paths -> Nat] /\ disk \in [Paths -> Nat]
      /\ first \in [Sections -> Writers] /\ doc \in [Sections -> Writers]
  BY DEF GenInv, JobTyped
<1>5. job \in {"mock", "code", "vision"} /\ tabs \in 0 .. MaxScreens
  BY DEF MockInv
<1> QED
  BY <1>1, <1>2, <1>3, <1>4, <1>5 DEF GenRest, GenTypeOK

LEMMA GenRestStart ==
  ASSUME GenInit \/ JobAtRest
  PROVE  GenRest
<1>1. <<>> \in Seq(Paths) /\ 1 \in 1 .. Len(<<>>) + 1
  OBVIOUS
<1>2. 0 \in 0 .. MaxBuildFixes - 1
  BY GenerationBounds
<1> QED
  BY <1>1, <1>2 DEF GenInit, JobAtRest, GenRest

LEMMA GenRestUnchanged ==
  ASSUME GenRest, UNCHANGED genVars
  PROVE  GenRest'
  BY DEF GenRest, genVars, codeVars

-----------------------------------------------------------------------------
SettingsRest ==
  /\ known \subseteq issued /\ issued \subseteq Connection
  /\ storeLock \in Asker \cup {None} /\ fileLock \in Asker \cup {None}
  /\ late \in SUBSET (Files \X Keys)

LEMMA SettingsRestKeeps ==
  ASSUME SettingsRest, SettingsInv, SettingsNext
  PROVE  SettingsRest'
<1>t. \A r \in Asker : /\ ask[r].file \in Files /\ ask[r].key \in Keys
  BY DEF SettingsInv, SettingsTyped, AskRecord
<1>1. ASSUME NEW r \in Asker, Requests(r)
      PROVE  SettingsRest'
  <2>1. UNCHANGED <<known, issued, storeLock, fileLock, late>>
    BY Zenon, <1>1 DEF Requests, CreateConnection, UpdateConnection, TestConnection, DeleteConnection,
       SetGlobalStageDefault, SetProjectStageOverride, SetGlobalOperationDefault,
       SetProjectOperationOverride, DeleteGlobalOperationDefault, DeleteProjectOperationOverride,
       ResetProjectOverrides, CallModel, Arrive
  <2> QED
    BY <2>1 DEF SettingsRest
<1>2. ASSUME NEW r \in Asker, Serve(r)
      PROVE  SettingsRest'
  <2>1. CASE Create(r)
    BY <2>1 DEF Create, SettingsRest
  <2>2. CASE \/ GetConnection(r) \/ Update(r) \/ CollectProjectHostDirs(r) \/ CheckConnection(r)
             \/ ResolveForStageOperation(r) \/ ForConnection(r)
    BY <2>2 DEF GetConnection, Update, CollectProjectHostDirs, CheckConnection,
       ResolveForStageOperation, ForConnection, SettingsRest
  <2>3. CASE LockStore(r) \/ LockFile(r)
    BY <2>3 DEF LockStore, LockFile, SettingsRest
  <2>4. CASE RemoveConnection(r)
    BY <2>4 DEF RemoveConnection, SettingsRest
  <2>5. CASE ClearConnectionReferences(r)
    <3>1. /\ late' \subseteq late \cup Unlisted(r) /\ UNCHANGED <<known, issued, fileLock>>
          /\ storeLock' \in {storeLock, None}
      BY <2>5 DEF ClearConnectionReferences, Kept
    <3>2. Unlisted(r) \subseteq Files \X Keys
      BY DEF Unlisted, Files
    <3> QED
      BY <3>1, <3>2 DEF SettingsRest
  <2>6. CASE WriteAssignment(r) \/ RemoveOverrides(r)
    <3>1. PICK entries : Writes(r, entries)
      BY <2>6 DEF WriteAssignment, RemoveOverrides
    <3>2. /\ late' \subseteq late \cup ({ask[r].file} \X {ask[r].key})
          /\ UNCHANGED <<known, issued, storeLock>> /\ fileLock' = None
      BY <3>1 DEF Writes, Kept
    <3> QED
      BY <1>t, <3>2 DEF SettingsRest
  <2> QED
    BY <1>2, <2>1, <2>2, <2>3, <2>4, <2>5, <2>6 DEF Serve
<1>3. CASE Crash
  BY <1>3 DEF Crash, SettingsRest
<1> QED
  BY <1>1, <1>2, <1>3 DEF SettingsNext

LEMMA SettingsTypesMean ==
  ASSUME SettingsRest, SettingsInv
  PROVE  SettingsTypeOK
<1>1. ASSUME NEW r \in Asker
      PROVE  /\ ask[r].pc \in {"idle", "asked", "checked", "locked", "listed", "held", "cleared",
                               "resolved", "over"}
             /\ ask[r].op \in Ops \cup {"none"} /\ ask[r].conn \in Connection \cup {None}
             /\ ask[r].file \in Files /\ ask[r].key \in Keys /\ ask[r].dirs \subseteq Project
             /\ ask[r].result \in {"none", "provider", "fallback", "error"}
  <2>1. ask[r] \in AskRecord
    BY DEF SettingsInv, SettingsTyped
  <2> HIDE DEF Ops, Files, Keys
  <2> QED
    BY <2>1 DEF AskRecord
<1>2. assigned \in [Files -> [Keys -> Connection \cup {None}]]
  BY DEF SettingsInv, SettingsTyped
<1> QED
  BY <1>1, <1>2 DEF SettingsTypeOK, SettingsRest

LEMMA SettingsRestStart ==
  ASSUME SettingsInit \/ SettingsAtRest
  PROVE  SettingsRest
  BY DEF SettingsInit, SettingsAtRest, SettingsRest

LEMMA SettingsRestUnchanged ==
  ASSUME SettingsRest, UNCHANGED settingsVars
  PROVE  SettingsRest'
  BY DEF SettingsRest, settingsVars

-----------------------------------------------------------------------------
\* While the approval adds its paths there is one left.
RepoRest ==
  /\ left \in Seq({Summary, Graph}) /\ (turn[Approval] = "add" => left # <<>>)
  /\ requests \in 0 .. MaxRequests
  /\ spoiled \in SUBSET (Bead \cup {Approval})

LEMMA RepoRestKeeps ==
  ASSUME RepoRest, RepoInv, RepoNext
  PROVE  RepoRest'
<1>t. RepoTyped /\ MaxRequests \in Nat
  BY RepositoryNames DEF RepoInv
<1>n. User \in Actor /\ Approval \in Actor /\ Approval # User /\ Approval \notin Bead
      /\ \A w \in Bead : w \in Actor
  BY RepositoryNames DEF Actor
<1>a. \A a \in Actor : AfterMethod(a) \in Turns /\ AfterMethod(a) # "add"
  BY RepositoryNames DEF AfterMethod, Actor, Turns
\* Whoever moves, only what the approval does concerns what it has left.
<1>g. ASSUME NEW a \in Actor, NEW where \in Turns, Goes(a, where), a # Approval \/ where # "add",
             left' = left \/ (left' = <<>> /\ a = Approval),
             spoiled' \in SUBSET (Bead \cup {Approval}),
             requests' \in 0 .. MaxRequests
      PROVE  RepoRest'
  <2>1. turn'[a] = where /\ \A b \in Actor \ {a} : turn'[b] = turn[b]
    BY <1>t, <1>g, GoesTyped
  <2>0. left \in Seq({Summary, Graph}) /\ <<>> \in Seq({Summary, Graph})
    BY DEF RepoRest
  <2>2. left' \in Seq({Summary, Graph})
    BY <1>g, <2>0
  <2>3. turn'[Approval] = "add" => left' # <<>>
    <3>1. CASE a = Approval
      BY <1>g, <2>1, <3>1
    <3>2. CASE a # Approval
      BY <1>g, <1>n, <2>1, <3>2 DEF RepoRest
    <3> QED
      BY <3>1, <3>2
  <2> QED
    BY <1>g, <2>2, <2>3 DEF RepoRest
<1>s. /\ spoiled \in SUBSET (Bead \cup {Approval}) /\ Thrown \in SUBSET (Bead \cup {Approval})
      /\ requests \in 0 .. MaxRequests
  BY DEF RepoRest, Thrown
<1>1. ASSUME NEW a \in Actor, Method(a)
      PROVE  RepoRest'
  <2>1. CASE AddAll(a)
    <3>1. Goes(a, "commit") /\ UNCHANGED <<left, spoiled, requests>> /\ a # Approval
      BY <2>1 DEF AddAll, Recorded
    <3>2. "commit" \in Turns
      BY DEF Turns
    <3> QED
      BY <1>g, <1>s, <3>1, <3>2
  <2>2. CASE CommitIndex(a)
    <3>1. Goes(a, AfterMethod(a)) /\ UNCHANGED <<left, spoiled, requests>>
      BY <2>2 DEF CommitIndex, Recorded
    <3> QED
      BY <1>a, <1>g, <1>s, <3>1
  <2>3. CASE Fails(a)
    <3>1. spoiled' \in SUBSET (Bead \cup {Approval})
      BY <1>s, <2>3 DEF Fails, Actor
    <3>2. /\ Goes(a, AfterMethod(a)) /\ requests' = requests
          /\ left' = left \/ (left' = <<>> /\ a = Approval)
      BY <2>3 DEF Fails, Recorded
    <3> QED
      BY <1>a, <1>g, <1>s, <3>1, <3>2
  <2>4. CASE a = Approval /\ AddPath
    <3>0. left # <<>> /\ left \in Seq({Summary, Graph})
      BY <2>4 DEF AddPath, RepoRest
    <3>1. UNCHANGED <<spoiled, requests>>
      BY <2>4 DEF AddPath, Recorded
    <3>2. CASE Goes(Approval, AfterMethod(Approval)) /\ left' = <<>>
      BY <1>a, <1>g, <1>n, <1>s, <3>1, <3>2
    <3>3. CASE left' = Tail(left) /\ Goes(Approval, IF left' = <<>> THEN "commit" ELSE "add")
      <4>1. left' \in Seq({Summary, Graph})
        BY <3>0, <3>3, HeadTailProperties
      <4>2. turn'[Approval] = IF left' = <<>> THEN "commit" ELSE "add"
        BY <1>n, <1>t, <3>3, GoesTyped DEF Turns
      <4> QED
        BY <1>s, <3>1, <4>1, <4>2 DEF RepoRest
    <3> QED
      BY <2>4, <3>2, <3>3 DEF AddPath
  <2>5. CASE a = User /\ \E n \in DOMAIN log : ResetHard(n)
    <3>1. PICK n \in DOMAIN log : ResetHard(n)
      BY <2>5
    <3>2. Goes(User, "idle") /\ UNCHANGED <<left, requests>> /\ spoiled' = Thrown
      BY <3>1 DEF ResetHard, Recorded
    <3>3. "idle" \in Turns
      BY DEF Turns
    <3> QED
      BY <1>g, <1>n, <1>s, <3>2, <3>3
  <2>6. CASE a = User /\ (Unstage \/ RestoreAndClean)
    <3>1. /\ UNCHANGED <<left, requests>> /\ spoiled' = Thrown
          /\ Goes(User, "idle") \/ Goes(User, "clean")
      BY <2>6 DEF Unstage, RestoreAndClean, Recorded
    <3>2. "idle" \in Turns /\ "clean" \in Turns
      BY DEF Turns
    <3> QED
      BY <1>g, <1>n, <1>s, <3>1, <3>2
  <2> QED
    BY <1>1, <2>1, <2>2, <2>3, <2>4, <2>5, <2>6 DEF Method
<1>2. ASSUME NEW w \in Bead, Work(w)
      PROVE  RepoRest'
  <2>1. /\ UNCHANGED <<left, requests, spoiled>>
        /\ Goes(w, "written") \/ Goes(w, "add") \/ Goes(w, "over")
    BY <1>2 DEF Work, AgentWrites, CommitWork, RecordCommit, Recorded
  <2>2. {"written", "add", "over"} \subseteq Turns /\ w # Approval /\ w \in Actor
    BY <1>n DEF Turns
  <2> QED
    BY <1>g, <1>s, <2>1, <2>2
<1>3. CASE WriteDocuments \/ Push
  <2>1. /\ UNCHANGED <<left, requests, spoiled>>
        /\ Goes(Approval, "written") \/ Goes(Approval, "over")
    BY <1>3 DEF WriteDocuments, Push, Recorded
  <2>2. {"written", "over"} \subseteq Turns
    BY DEF Turns
  <2> QED
    BY <1>g, <1>n, <1>s, <2>1, <2>2
<1>4. CASE CommitDocuments
  <2>1. left' = <<Summary, Graph>> /\ UNCHANGED <<spoiled, requests>>
    BY <1>4 DEF CommitDocuments, Recorded
  <2>2. left' \in Seq({Summary, Graph}) /\ left' # <<>>
    BY <2>1
  <2> QED
    BY <1>s, <2>1, <2>2 DEF RepoRest
<1>5. CASE Requested
  <2>1. PICK method \in {"add", "reset", "checkout"} : Ask(method)
    BY <1>5 DEF Requested, AskCommit, AskReset, AskDiscard
  <2>2. /\ Goes(User, method) /\ left' = left /\ spoiled' = spoiled
        /\ requests' = requests + 1 /\ requests < MaxRequests
    BY <2>1 DEF Ask
  <2>3. requests' \in 0 .. MaxRequests
    BY <1>s, <1>t, <2>2
  <2>4. method \in Turns
    BY DEF Turns
  <2> QED
    BY <1>g, <1>n, <1>s, <2>2, <2>3, <2>4
<1> QED
  BY <1>1, <1>2, <1>3, <1>4, <1>5 DEF RepoNext, Approve

LEMMA RepoTypesMean ==
  ASSUME RepoRest, RepoInv
  PROVE  RepoTypeOK
<1>1. Range(left) \subseteq {Summary, Graph}
  BY DEF RepoRest, Range
<1> QED
  BY <1>1 DEF RepoRest, RepoInv, RepoTyped, RepoTypeOK

LEMMA RepoRestStart ==
  ASSUME RepoInit \/ RepoAtRest
  PROVE  RepoRest
<1>1. turn[Approval] # "add"
  BY DEF RepoInit, RepoAtRest, Actor
<1>2. <<>> \in Seq({Summary, Graph}) /\ 0 \in 0 .. MaxRequests /\ MaxRequests \in 0 .. MaxRequests
  BY RepositoryNames
<1> QED
  BY <1>1, <1>2 DEF RepoInit, RepoAtRest, RepoRest

LEMMA RepoRestUnchanged ==
  ASSUME RepoRest, UNCHANGED repoVars
  PROVE  RepoRest'
  BY DEF RepoRest, repoVars

-----------------------------------------------------------------------------
(* The commands of the validation gate.                                    *)

ProcRecord ==
  [shell : {"none", "alive", "zombie", "reaped"}, ok : BOOLEAN,
   child : BOOLEAN, signal : {"none", "term", "kill"}]

ValidationTyped ==
  /\ checks \in CheckPlans /\ verdicts \in Seq(BOOLEAN) /\ Len(verdicts) <= Len(checks)
  /\ proc \in [DOMAIN checks -> ProcRecord]
  /\ aborted \in BOOLEAN

LEMMA ProcChanges ==
  ASSUME NEW p \in ProcRecord
  PROVE  /\ [p EXCEPT !.child = TRUE] \in ProcRecord
         /\ [p EXCEPT !.child = FALSE] \in ProcRecord
         /\ \A ok \in BOOLEAN : [p EXCEPT !.shell = "zombie", !.ok = ok] \in ProcRecord
         /\ [p EXCEPT !.shell = "reaped"] \in ProcRecord
         /\ [p EXCEPT !.shell = "alive"] \in ProcRecord
         /\ [p EXCEPT !.signal = "term"] \in ProcRecord
         /\ [p EXCEPT !.signal = "kill", !.child = FALSE,
                      !.shell = IF @ = "alive" THEN "zombie" ELSE @] \in ProcRecord
  BY DEF ProcRecord

LEMMA ValidationStepKeeps ==
  ASSUME ValidationTyped, ValidationNext
  PROVE  ValidationTyped'
<1>0. checks \in Seq({"dev", "build", "run"}) /\ DOMAIN checks = 1 .. Len(checks)
      /\ Len(checks) \in Nat /\ Len(verdicts) \in Nat
  BY CheckCategories DEF ValidationTyped
<1>1. checks' = checks
  BY Zenon DEF ValidationNext, Gate, Cleanup, Processes, Abort, StartCommand, CommandEnds, WatchTimesOut,
         WatchCancelled, BuildKilled, Reap, KillLate, Fork, ShellExits, ChildExits, Judge
<1>2. aborted' \in BOOLEAN
  BY Zenon DEF ValidationNext, Gate, Cleanup, Processes, Abort, StartCommand, CommandEnds, WatchTimesOut,
         WatchCancelled, BuildKilled, Reap, KillLate, Fork, ShellExits, ChildExits, Judge,
         ValidationTyped
<1>j. ASSUME NEW v \in BOOLEAN, verdicts' = Append(verdicts, v), Current \in DOMAIN checks
      PROVE  verdicts' \in Seq(BOOLEAN) /\ Len(verdicts') <= Len(checks')
  <2>1. verdicts \in Seq(BOOLEAN)
    BY DEF ValidationTyped
  <2>2. verdicts' \in Seq(BOOLEAN) /\ Len(verdicts') = Len(verdicts) + 1
    BY <1>j, <2>1, AppendProperties
  <2> QED
    BY <1>0, <1>1, <1>j, <2>2 DEF Current
<1>t. \A i \in DOMAIN checks : proc[i] \in ProcRecord
  BY DEF ValidationTyped
<1>3. verdicts' \in Seq(BOOLEAN) /\ Len(verdicts') <= Len(checks')
  <2>1. \/ verdicts' = verdicts
        \/ Current \in DOMAIN checks /\ \E v \in BOOLEAN : verdicts' = Append(verdicts, v)
    <3>1. ASSUME Started
          PROVE  Current \in DOMAIN checks /\ proc[Current].ok \in BOOLEAN
      BY <1>t, <3>1 DEF Started, ProcRecord
    <3> QED
      BY Zenon, <3>1 DEF ValidationNext, Gate, Cleanup, Processes, Abort, StartCommand, CommandEnds,
           WatchTimesOut, WatchCancelled, BuildKilled, Reap, KillLate, Fork, ShellExits, ChildExits,
           Judge
  <2> QED
    BY <1>1, <1>j, <2>1 DEF ValidationTyped
<1>4. proc' \in [DOMAIN checks -> ProcRecord]
  <2>0. proc \in [DOMAIN checks -> ProcRecord]
    BY DEF ValidationTyped
  <2>1. ASSUME NEW i \in DOMAIN checks, NEW to \in ProcRecord, proc' = [proc EXCEPT ![i] = to]
        PROVE  proc' \in [DOMAIN checks -> ProcRecord]
    BY <2>0, <2>1
  <2>2. \/ proc' = proc
        \/ \E i \in DOMAIN checks, to \in ProcRecord : proc' = [proc EXCEPT ![i] = to]
    <3>1. CASE Gate
      <4>1. CASE CommandEnds
        BY <4>1 DEF CommandEnds
      <4>2. CASE StartCommand
        BY Zenon, <1>t, <4>2, ProcChanges DEF StartCommand
      <4>3. CASE WatchTimesOut \/ WatchCancelled
        <5>1. Current \in DOMAIN checks /\ KillProcessGroup(Current)
          BY <4>3 DEF WatchTimesOut, WatchCancelled, Started
        <5> QED
          BY <1>t, <5>1, ProcChanges DEF KillProcessGroup
      <4>4. CASE BuildKilled
        <5>1. /\ Current \in DOMAIN checks
              /\ proc' = [proc EXCEPT ![Current] =
                            [proc[Current] EXCEPT !.shell = "zombie", !.ok = FALSE]]
          BY <2>0, <4>4 DEF BuildKilled, Started
        <5>2. [proc[Current] EXCEPT !.shell = "zombie", !.ok = FALSE] \in ProcRecord
          BY <1>t, <5>1, ProcChanges
        <5> QED
          BY <5>1, <5>2
      <4> QED
        BY <3>1, <4>1, <4>2, <4>3, <4>4 DEF Gate
    <3>2. CASE Cleanup
      <4>1. PICK i \in DOMAIN checks : Reap(i) \/ KillLate(i)
        BY <3>2 DEF Cleanup
      <4>2. CASE Reap(i)
        BY <1>t, <4>2, ProcChanges DEF Reap
      <4>3. CASE KillLate(i)
        <5> DEFINE To == [proc[i] EXCEPT !.signal = "kill", !.child = FALSE,
                                         !.shell = IF @ = "alive" THEN "zombie" ELSE @]
        <5>1. To \in ProcRecord
          BY <1>t, ProcChanges
        <5>2. proc' = [proc EXCEPT ![i] = To]
          BY <2>0, <4>3 DEF KillLate
        <5> QED
          BY <5>1, <5>2
      <4> QED
        BY <4>1, <4>2, <4>3
    <3>3. CASE Processes
      <4>1. PICK i \in DOMAIN checks : Fork(i) \/ ShellExits(i) \/ ChildExits(i)
        BY <3>3 DEF Processes
      <4>2. CASE Fork(i)
        BY <1>t, <4>2, ProcChanges DEF Fork
      <4>3. CASE ShellExits(i)
        <5>1. PICK ok \in BOOLEAN : proc' = [proc EXCEPT ![i].shell = "zombie", ![i].ok = ok]
          BY <4>3 DEF ShellExits
        <5> DEFINE To == [proc[i] EXCEPT !.shell = "zombie", !.ok = ok]
        <5>2. To \in ProcRecord
          BY <1>t, ProcChanges
        <5>3. proc' = [proc EXCEPT ![i] = To]
          BY <2>0, <5>1
        <5> HIDE DEF To
        <5> QED
          BY <5>2, <5>3
      <4>4. CASE ChildExits(i)
        BY <1>t, <4>4, ProcChanges DEF ChildExits
      <4> QED
        BY <4>1, <4>2, <4>3, <4>4
    <3>4. CASE Abort
      BY <3>4 DEF Abort
    <3> QED
      BY <3>1, <3>2, <3>3, <3>4 DEF ValidationNext
  <2> QED
    BY <2>0, <2>1, <2>2
<1> QED
  BY <1>1, <1>2, <1>3, <1>4 DEF ValidationTyped

LEMMA ValidationStart ==
  ASSUME ValidationInit \/ ValidationAtRest
  PROVE  ValidationTyped
<1>1. checks \in CheckPlans
  BY RestIsLegitimate DEF ValidationInit, ValidationAtRest
<1>2. Len(checks) \in Nat /\ DOMAIN checks = 1 .. Len(checks)
  BY <1>1, CheckCategories
<1>3. NotStarted \in ProcRecord
  BY DEF NotStarted, ProcRecord
<1>4. proc \in [DOMAIN checks -> ProcRecord]
  <2>1. CASE ValidationInit
    BY <1>3, <2>1 DEF ValidationInit
  <2>2. CASE ValidationAtRest
    BY <2>2 DEF ValidationAtRest
  <2> QED
    BY <2>1, <2>2
<1>5. verdicts = <<>> /\ aborted \in BOOLEAN
  BY DEF ValidationInit, ValidationAtRest
<1>6. <<>> \in Seq(BOOLEAN) /\ Len(<<>>) = 0
  OBVIOUS
<1> QED
  BY <1>1, <1>2, <1>4, <1>5, <1>6 DEF ValidationTyped

LEMMA ValidationUnchanged ==
  ASSUME ValidationTyped, UNCHANGED validationVars
  PROVE  ValidationTyped'
  BY DEF ValidationTyped, validationVars

-----------------------------------------------------------------------------
(* The filter of streamed answers.                                         *)

\* Induction over the natural numbers comes as this: what fails somewhere
\* fails somewhere first.
LEMMA Least ==
  ASSUME NEW T \in SUBSET Nat, T # {}
  PROVE  \E n \in T : \A m \in T : n <= m
<1>1. IsWellFoundedOn(OpToRel(<, Nat), Nat)
  BY NatLessThanWellFounded
<1>2. PICK n \in T : \A m \in T : ~ (<<m, n>> \in OpToRel(<, Nat))
  BY <1>1, WFMin
<1>3. \A m \in T : ~(m < n)
  BY <1>2 DEF OpToRel
<1> QED
  BY <1>3

LEMMA MinIs ==
  ASSUME NEW T \in SUBSET Nat, T # {}
  PROVE  Min(T) \in T /\ \A m \in T : Min(T) <= m
  BY Least DEF Min

\* The provers do not know that a letter is in STRING.
Character == STRING \cup {"<", "/", ">", "s", "e"} \cup Tags \cup {Think}
String == Seq(Character)

LEMMA RestIs ==
  ASSUME NEW input \in String, NEW i \in 1 .. Len(input) + 1
  PROVE  /\ Rest(input, i) \in String /\ Len(Rest(input, i)) = Len(input) + 1 - i
         /\ \A x \in 1 .. Len(Rest(input, i)) : Rest(input, i)[x] = input[x + i - 1]
<1>1. Len(input) \in Nat
  BY LenProperties DEF String
<1>2. \A x \in i .. Len(input) : input[x] \in Character
  BY <1>1, ElementOfSeq DEF String
<1>3. /\ SubSeq(input, i, Len(input)) \in Seq(Character)
      /\ Len(SubSeq(input, i, Len(input))) = IF i <= Len(input) THEN Len(input) - i + 1 ELSE 0
      /\ \A x \in 1 .. Len(input) - i + 1 : SubSeq(input, i, Len(input))[x] = input[i + x - 1]
  BY <1>1, <1>2, SubSeqProperties
<1>4. Len(Rest(input, i)) = Len(input) + 1 - i
  BY <1>1, <1>3 DEF Rest
<1>5. ASSUME NEW x \in 1 .. Len(Rest(input, i))
      PROVE  Rest(input, i)[x] = input[x + i - 1]
  <2>1. x \in 1 .. Len(input) - i + 1 /\ i + x - 1 = x + i - 1
    BY <1>1, <1>4
  <2> QED
    BY <1>3, <2>1 DEF Rest
<1> QED
  BY <1>3, <1>4, <1>5 DEF Rest, String

LEMMA TagIs ==
  ASSUME NEW input \in String, NEW i \in 1 .. Len(input), ClosedAt(input, i) # {}
  PROVE  /\ Min(ClosedAt(input, i)) \in ClosedAt(input, i)
         /\ \A x \in ClosedAt(input, i) : Min(ClosedAt(input, i)) <= x
         /\ TagAt(input, i) \in String
         /\ Len(TagAt(input, i)) = Min(ClosedAt(input, i)) + 1 - i
         /\ \A x \in 1 .. Len(TagAt(input, i)) : TagAt(input, i)[x] = input[x + i - 1]
         /\ i + Len(TagAt(input, i)) \in i + 1 .. Len(input) + 1
<1> DEFINE m == Min(ClosedAt(input, i))
<1>1. Len(input) \in Nat
  BY LenProperties DEF String
<1>2. ClosedAt(input, i) \in SUBSET Nat
  BY <1>1 DEF ClosedAt
<1>3. m \in ClosedAt(input, i) /\ \A x \in ClosedAt(input, i) : m <= x
  BY <1>2, MinIs
<1>4. m \in i .. Len(input)
  BY <1>3 DEF ClosedAt
<1> HIDE DEF m
<1>5. \A x \in i .. m : input[x] \in Character
  BY <1>1, <1>4, ElementOfSeq DEF String
<1>6. /\ SubSeq(input, i, m) \in Seq(Character)
      /\ Len(SubSeq(input, i, m)) = IF i <= m THEN m - i + 1 ELSE 0
      /\ \A x \in 1 .. m - i + 1 : SubSeq(input, i, m)[x] = input[i + x - 1]
  BY <1>1, <1>4, <1>5, SubSeqProperties
<1>7. TagAt(input, i) = SubSeq(input, i, m)
  BY DEF TagAt, m
<1>8. Len(TagAt(input, i)) = m + 1 - i /\ i + Len(TagAt(input, i)) \in i + 1 .. Len(input) + 1
  BY <1>1, <1>4, <1>6, <1>7
<1>9. ASSUME NEW x \in 1 .. Len(TagAt(input, i))
      PROVE  TagAt(input, i)[x] = input[x + i - 1]
  <2>1. x \in 1 .. m - i + 1 /\ i + x - 1 = x + i - 1
    BY <1>1, <1>4, <1>8
  <2> QED
    BY <1>6, <1>7, <2>1
<1>10. TagAt(input, i) \in String
  BY <1>6, <1>7 DEF String
<1> QED
  BY <1>3, <1>8, <1>9, <1>10 DEF m

LEMMA TransitionIs ==
  ASSUME NEW text
  PROVE  Transition(text) \in FilterStates
  BY DEF Transition, FilterStates, Tags

\* What reading from i on gives, when F is what it gives further on.
Row(input, F, i) ==
  [s \in FilterStates |->
     IF Stops(input, i) THEN [out |-> <<>>, at |-> s, hold |-> Rest(input, i)]
     ELSE IF StartsTag(input, i)
     THEN F[i + Len(TagAt(input, i))][Transition(TagAt(input, i))]
     ELSE LET next == F[i + 1][s] IN [next EXCEPT !.out = Emit(input[i], s) \o @]]

Reads(input, F, k) == F = [i \in k .. Len(input) + 1 |-> Row(input, F, i)]

LEMMA RowIs ==
  ASSUME NEW input \in String, NEW i \in 1 .. Len(input) + 1, NEW F, NEW G,
         \A j \in i + 1 .. Len(input) + 1 : F[j] = G[j]
  PROVE  Row(input, F, i) = Row(input, G, i)
<1>1. Len(input) \in Nat
  BY LenProperties DEF String
<1>2. CASE Stops(input, i)
  BY <1>2 DEF Row
<1>3. CASE ~Stops(input, i)
  <2>1. i \in 1 .. Len(input)
    BY <1>1, <1>3 DEF Stops
  <2>2. F[i + 1] = G[i + 1]
    BY <1>1, <2>1
  <2>3. StartsTag(input, i) => F[i + Len(TagAt(input, i))] = G[i + Len(TagAt(input, i))]
    BY <2>1, TagIs DEF StartsTag
  <2> QED
    BY <2>2, <2>3 DEF Row
<1> QED
  BY <1>2, <1>3

\* Reading is defined: from the end of the input, where it stops, back to its
\* start.
LEMMA ReadingExists ==
  ASSUME NEW input \in String
  PROVE  \E F : Reads(input, F, 1)
<1> DEFINE L == Len(input)
<1>1. L \in Nat
  BY LenProperties DEF String
<1> HIDE DEF L
<1> DEFINE Missing(n) == ~ \E F : Reads(input, F, L + 1 - n)
<1> DEFINE T == {n \in 0 .. L : Missing(n)}
<1>2. T = {}
  <2>1. SUFFICES ASSUME T # {}
                 PROVE  FALSE
    OBVIOUS
  <2>2. PICK n \in T : \A m \in T : n <= m
    <3>1. T \in SUBSET Nat
      OBVIOUS
    <3> QED
      BY <2>1, <3>1, Least
  <2>3. n \in 0 .. L /\ Missing(n)
    OBVIOUS
  <2>4. CASE n = 0
    <3> DEFINE F == [i \in L + 1 .. L + 1 |-> Row(input, <<>>, i)]
    <3>1. ASSUME NEW i \in L + 1 .. L + 1
          PROVE  Row(input, <<>>, i) = Row(input, F, i)
      <4>1. i \in 1 .. Len(input) + 1 /\ i + 1 .. Len(input) + 1 = {}
        BY <1>1, <3>1 DEF L
      <4> HIDE DEF F
      <4> QED
        BY <4>1, RowIs
    <3>2. F = [i \in L + 1 .. L + 1 |-> Row(input, F, i)]
      BY <3>1
    <3> HIDE DEF F
    <3>3. Reads(input, F, L + 1 - n)
      BY <1>1, <2>4, <3>2 DEF Reads, L
    <3> QED
      BY <2>3, <3>3
  <2>5. CASE n # 0
    <3> DEFINE k == L + 1 - n
    <3>1. k \in 1 .. L /\ k + 1 = L + 1 - (n - 1)
      BY <1>1, <2>3, <2>5
    <3>2. n - 1 \in 0 .. L /\ n - 1 \notin T
      <4> HIDE DEF Missing
      <4> QED
        BY <1>1, <2>2, <2>3, <2>5
    <3>3. PICK G : Reads(input, G, k + 1)
      BY <3>1, <3>2
    <3> HIDE DEF k
    <3> DEFINE F == [i \in k .. L + 1 |-> IF i = k THEN Row(input, G, k) ELSE G[i]]
    <3>4. \A j \in k + 1 .. L + 1 : F[j] = G[j]
      BY <1>1, <3>1
    <3>5. ASSUME NEW i \in k .. L + 1
          PROVE  F[i] = Row(input, F, i)
      <4>1. /\ i \in 1 .. Len(input) + 1
            /\ \A j \in i + 1 .. Len(input) + 1 : j \in k + 1 .. L + 1
        BY <1>1, <3>1, <3>5 DEF L
      <4>2. F[i] = Row(input, G, i)
        <5>1. CASE i = k
          BY <5>1
        <5>2. CASE i # k
          <6>1. i \in k + 1 .. Len(input) + 1
            BY <1>1, <3>1, <3>5, <5>2 DEF L
          <6>2. F[i] = G[i]
            BY <3>4, <6>1 DEF L
          <6> QED
            BY <3>3, <6>1, <6>2 DEF Reads
        <5> QED
          BY <5>1, <5>2
      <4> HIDE DEF F
      <4> QED
        BY <3>4, <4>1, <4>2, RowIs
    <3>6. F = [i \in k .. L + 1 |-> Row(input, F, i)]
      BY <3>5
    <3> HIDE DEF F
    <3>7. Reads(input, F, k)
      BY <3>6 DEF Reads, L
    <3> QED
      BY <2>3, <3>7 DEF k
  <2> QED
    BY <2>4, <2>5
<1>3. L \in 0 .. L /\ L + 1 - L = 1
  BY <1>1
<1>4. ~ Missing(L)
  <2> HIDE DEF Missing
  <2> QED
    BY <1>2, <1>3
<1> QED
  BY <1>3, <1>4

LEMMA FeedReads ==
  ASSUME NEW input \in String
  PROVE  \E F : Reads(input, F, 1) /\ \A s : Feed(input, s) = F[1][s]
<1> DEFINE F == CHOOSE F : F = [i \in 1 .. Len(input) + 1 |->
        [s \in FilterStates |->
          IF Stops(input, i) THEN [out |-> <<>>, at |-> s, hold |-> Rest(input, i)]
          ELSE IF StartsTag(input, i)
          THEN F[i + Len(TagAt(input, i))][Transition(TagAt(input, i))]
          ELSE LET next == F[i + 1][s] IN [next EXCEPT !.out = Emit(input[i], s) \o @]]]
<1>1. \A s : Feed(input, s) = F[1][s]
  BY DEF Feed
<1>2. Reads(input, F, 1)
  BY Zenon, ReadingExists DEF Reads, Row
<1> HIDE DEF F
<1> QED
  BY <1>1, <1>2

\* Reading on is reading the rest.
LEMMA Shift ==
  ASSUME NEW input \in String, NEW k \in 0 .. Len(input),
         NEW j \in 1 .. Len(input) - k + 1
  PROVE  LET rest == Rest(input, k + 1)
         IN /\ rest \in String /\ Len(rest) = Len(input) - k
            /\ Rest(rest, j) = Rest(input, j + k)
            /\ j <= Len(rest) =>
                 /\ rest[j] = input[j + k]
                 /\ (ClosedAt(rest, j) = {}) = (ClosedAt(input, j + k) = {})
                 /\ ClosedAt(rest, j) # {} => TagAt(rest, j) = TagAt(input, j + k)
            /\ Stops(rest, j) = Stops(input, j + k)
            /\ j <= Len(rest) => (StartsTag(rest, j) = StartsTag(input, j + k))
<1> DEFINE rest == Rest(input, k + 1)
<1>0. Len(input) \in Nat
  BY LenProperties DEF String
<1>1. /\ rest \in String /\ Len(rest) = Len(input) - k
      /\ \A x \in 1 .. Len(rest) : rest[x] = input[x + k]
  <2>1. k + 1 \in 1 .. Len(input) + 1
    BY <1>0
  <2>2. /\ rest \in String /\ Len(rest) = Len(input) + 1 - (k + 1)
        /\ \A x \in 1 .. Len(rest) : rest[x] = input[x + (k + 1) - 1]
    BY <2>1, RestIs
  <2>3. \A x \in Nat : x + (k + 1) - 1 = x + k
    OBVIOUS
  <2> QED
    BY <1>0, <2>2, <2>3
<1> HIDE DEF rest
<1>2. Rest(rest, j) = Rest(input, j + k)
  <2>1. j \in 1 .. Len(rest) + 1 /\ j + k \in 1 .. Len(input) + 1
    BY <1>0, <1>1
  <2>2. /\ Rest(rest, j) \in String /\ Len(Rest(rest, j)) = Len(rest) + 1 - j
        /\ \A x \in 1 .. Len(Rest(rest, j)) : Rest(rest, j)[x] = rest[x + j - 1]
    BY <1>1, <2>1, RestIs
  <2>3. /\ Rest(input, j + k) \in String /\ Len(Rest(input, j + k)) = Len(input) + 1 - (j + k)
        /\ \A x \in 1 .. Len(Rest(input, j + k)) :
             Rest(input, j + k)[x] = input[x + (j + k) - 1]
    BY <2>1, RestIs
  <2>4. Len(Rest(rest, j)) = Len(Rest(input, j + k))
    BY <1>0, <1>1, <2>2, <2>3
  <2>5. ASSUME NEW x \in 1 .. Len(Rest(rest, j))
        PROVE  Rest(rest, j)[x] = Rest(input, j + k)[x]
    <3>1. /\ x + j - 1 \in 1 .. Len(rest) /\ (x + j - 1) + k = x + (j + k) - 1
          /\ x \in 1 .. Len(Rest(input, j + k))
      BY <1>0, <1>1, <2>2, <2>4
    <3>2. Rest(rest, j)[x] = input[(x + j - 1) + k]
      BY <1>1, <2>2, <3>1
    <3> QED
      BY <2>3, <3>1, <3>2
  <2> QED
    BY <2>2, <2>3, <2>4, <2>5, SeqEqual DEF String
<1>3. ASSUME j <= Len(rest)
      PROVE  /\ rest[j] = input[j + k]
             /\ (ClosedAt(rest, j) = {}) = (ClosedAt(input, j + k) = {})
             /\ ClosedAt(rest, j) # {} => TagAt(rest, j) = TagAt(input, j + k)
  <2>1. j \in 1 .. Len(rest) /\ j + k \in 1 .. Len(input)
    BY <1>0, <1>1, <1>3
  <2>2. \A x \in ClosedAt(rest, j) : x + k \in ClosedAt(input, j + k)
    BY <1>0, <1>1 DEF ClosedAt
  <2>3. \A x \in ClosedAt(input, j + k) : x - k \in ClosedAt(rest, j)
    <3>1. ASSUME NEW x \in ClosedAt(input, j + k)
          PROVE  x - k \in ClosedAt(rest, j)
      <4>1. x \in j + k .. Len(input) /\ input[x] = ">"
        BY DEF ClosedAt
      <4>2. x - k \in j .. Len(rest) /\ x - k \in 1 .. Len(rest) /\ (x - k) + k = x
        BY <1>0, <1>1, <4>1
      <4> QED
        BY <1>1, <4>1, <4>2 DEF ClosedAt
    <3> QED
      BY <3>1
  <2>4. ASSUME ClosedAt(rest, j) # {}
        PROVE  TagAt(rest, j) = TagAt(input, j + k)
    <3> DEFINE m == Min(ClosedAt(rest, j))
               n == Min(ClosedAt(input, j + k))
    <3>0. ClosedAt(input, j + k) # {}
      BY <2>2, <2>4
    <3>1. /\ m \in ClosedAt(rest, j) /\ \A x \in ClosedAt(rest, j) : m <= x
          /\ TagAt(rest, j) \in String
          /\ Len(TagAt(rest, j)) = m + 1 - j
          /\ \A x \in 1 .. Len(TagAt(rest, j)) : TagAt(rest, j)[x] = rest[x + j - 1]
      BY <1>1, <2>1, <2>4, TagIs
    <3>2. /\ n \in ClosedAt(input, j + k) /\ \A x \in ClosedAt(input, j + k) : n <= x
          /\ TagAt(input, j + k) \in String
          /\ Len(TagAt(input, j + k)) = n + 1 - (j + k)
          /\ \A x \in 1 .. Len(TagAt(input, j + k)) : TagAt(input, j + k)[x] = input[x + (j + k) - 1]
      BY <2>1, <3>0, TagIs
    <3> HIDE DEF m, n
    <3>3. m \in j .. Len(rest) /\ n \in j + k .. Len(input)
      BY <3>1, <3>2 DEF ClosedAt
    <3>4. n = m + k
      <4>1. n <= m + k
        BY <2>2, <3>1, <3>2
      <4>2. m <= n - k
        BY <2>3, <3>1, <3>2
      <4> QED
        BY <1>0, <1>1, <3>3, <4>1, <4>2
    <3>5. Len(TagAt(rest, j)) = Len(TagAt(input, j + k))
      <4>1. m \in Int /\ j \in Int /\ k \in Int
        BY <3>3
      <4>2. (m + k) + 1 - (j + k) = m + 1 - j
        BY <4>1
      <4> QED
        BY <3>1, <3>2, <3>4, <4>2
    <3>6. ASSUME NEW x \in 1 .. Len(TagAt(rest, j))
          PROVE  TagAt(rest, j)[x] = TagAt(input, j + k)[x]
      <4>1. x + j - 1 \in 1 .. Len(rest) /\ (x + j - 1) + k = x + (j + k) - 1
        BY <1>0, <1>1, <3>1, <3>3
      <4>2. TagAt(rest, j)[x] = input[(x + j - 1) + k]
        BY <1>1, <3>1, <4>1
      <4> QED
        BY <3>2, <3>5, <4>1, <4>2
    <3> QED
      BY <3>1, <3>2, <3>5, <3>6, SeqEqual DEF String
  <2> QED
    BY <1>1, <2>1, <2>2, <2>3, <2>4
<1>4. Stops(rest, j) = Stops(input, j + k)
  <2>1. (j > Len(rest)) = (j + k > Len(input))
    BY <1>0, <1>1
  <2>2. CASE j > Len(rest)
    BY <2>1, <2>2 DEF Stops
  <2>3. CASE j <= Len(rest)
    BY <1>2, <1>3, <2>1, <2>3 DEF Stops
  <2> QED
    BY <1>0, <1>1, <2>2, <2>3
<1>5. j <= Len(rest) => (StartsTag(rest, j) = StartsTag(input, j + k))
  BY <1>3 DEF StartsTag
<1> QED
  BY <1>1, <1>2, <1>3, <1>4, <1>5 DEF rest

LEMMA ReadingTheRest ==
  ASSUME NEW input \in String, NEW F, Reads(input, F, 1), NEW k \in 0 .. Len(input),
         NEW G, Reads(Rest(input, k + 1), G, 1)
  PROVE  G[1] = F[k + 1]
<1> DEFINE rest == Rest(input, k + 1)
           L == Len(rest)
<1>0. Len(input) \in Nat
  BY LenProperties DEF String
<1>1. /\ rest \in String /\ L = Len(input) - k /\ L \in Nat
  <2>1. 1 \in 1 .. Len(input) - k + 1
    BY <1>0
  <2> QED
    BY <1>0, <2>1, Shift
<1>2. \A i \in 1 .. L + 1 : G[i] = Row(rest, G, i)
  BY DEF Reads
<1>3. \A i \in 1 .. Len(input) + 1 : F[i] = Row(input, F, i)
  BY DEF Reads
<1> HIDE DEF rest, L
<1> DEFINE T == {n \in 0 .. L : G[L + 1 - n] # F[L + 1 - n + k]}
<1>4. T = {}
  <2>1. SUFFICES ASSUME T # {}
                 PROVE  FALSE
    OBVIOUS
  <2>2. PICK n \in T : \A m \in T : n <= m
    <3>1. T \in SUBSET Nat
      OBVIOUS
    <3> QED
      BY <2>1, <3>1, Least
  <2> DEFINE j == L + 1 - n
  <2>3. /\ n \in 0 .. L /\ G[j] # F[j + k]
    OBVIOUS
  <2>4. /\ j \in 1 .. L + 1 /\ j \in 1 .. Len(input) - k + 1
        /\ j + k \in 1 .. Len(input) + 1
    BY <1>0, <1>1, <2>3
  <2>5. ASSUME NEW i \in j + 1 .. L + 1
        PROVE  G[i] = F[i + k]
    <3>1. L + 1 - i \in 0 .. L /\ L + 1 - i < n /\ L + 1 - (L + 1 - i) = i
      BY <1>1, <2>3, <2>4
    <3>2. L + 1 - i \notin T
      BY <2>2, <2>3, <3>1
    <3> QED
      BY <3>1, <3>2
  <2> HIDE DEF j, T
  <2>6. /\ Rest(rest, j) = Rest(input, j + k)
        /\ Stops(rest, j) = Stops(input, j + k)
        /\ j <= L => /\ rest[j] = input[j + k]
                     /\ ClosedAt(rest, j) # {} => TagAt(rest, j) = TagAt(input, j + k)
                     /\ StartsTag(rest, j) = StartsTag(input, j + k)
    BY <2>4, Shift DEF rest, L
  <2>7. Row(rest, G, j) = Row(input, F, j + k)
    <3>1. CASE Stops(rest, j)
      BY <2>6, <3>1 DEF Row
    <3>2. CASE ~Stops(rest, j)
      <4>1. j \in 1 .. L
        BY <1>1, <2>4, <3>2 DEF Stops, L
      <4>2. G[j + 1] = F[(j + k) + 1]
        <5>1. j + 1 \in j + 1 .. L + 1 /\ (j + 1) + k = (j + k) + 1
          BY <1>0, <1>1, <4>1
        <5> QED
          BY <2>5, <5>1
      <4>3. StartsTag(rest, j) =>
              /\ TagAt(rest, j) = TagAt(input, j + k)
              /\ G[j + Len(TagAt(rest, j))] = F[(j + k) + Len(TagAt(input, j + k))]
        <5>1. SUFFICES ASSUME StartsTag(rest, j)
                       PROVE  /\ TagAt(rest, j) = TagAt(input, j + k)
                              /\ G[j + Len(TagAt(rest, j))] = F[(j + k) + Len(TagAt(input, j + k))]
          OBVIOUS
        <5>2. ClosedAt(rest, j) # {}
          BY <5>1 DEF StartsTag
        <5>3. TagAt(rest, j) = TagAt(input, j + k)
          BY <1>1, <2>6, <4>1, <5>2
        <5>4. TagAt(rest, j) \in String /\ j + Len(TagAt(rest, j)) \in j + 1 .. L + 1
          BY <1>1, <4>1, <5>2, TagIs DEF L
        <5>5. Len(TagAt(rest, j)) \in Nat
          BY <5>4, LenProperties DEF String
        <5>6. (j + Len(TagAt(rest, j))) + k = (j + k) + Len(TagAt(rest, j))
          BY <1>0, <4>1, <5>5
        <5> QED
          BY <2>5, <5>3, <5>4, <5>6
      <4>4. ~Stops(input, j + k) /\ rest[j] = input[j + k]
            /\ StartsTag(rest, j) = StartsTag(input, j + k)
        BY <1>1, <2>6, <3>2, <4>1
      <4>5. CASE StartsTag(rest, j)
        BY <3>2, <4>3, <4>4, <4>5 DEF Row
      <4>6. CASE ~StartsTag(rest, j)
        <5> DEFINE Text1(c, f) ==
                     [s \in FilterStates |->
                        LET next == f[s] IN [next EXCEPT !.out = Emit(c, s) \o @]]
        <5>1. Row(rest, G, j) = Text1(rest[j], G[j + 1])
          BY <3>2, <4>6 DEF Row
        <5>2. Row(input, F, j + k) = Text1(input[j + k], F[(j + k) + 1])
          BY <4>4, <4>6 DEF Row
        <5> HIDE DEF Text1
        <5> QED
          BY <4>2, <4>4, <5>1, <5>2
      <4> QED
        BY <4>5, <4>6
    <3> QED
      BY <3>1, <3>2
  <2> QED
    BY <1>2, <1>3, <2>3, <2>4, <2>7 DEF j
<1>5. L \notin T /\ L \in 0 .. L /\ L + 1 - L = 1 /\ 1 + k = k + 1
  <2>1. L \in 0 .. L /\ L + 1 - L = 1 /\ 1 + k = k + 1
    BY <1>0, <1>1
  <2> HIDE DEF T
  <2> QED
    BY <1>4, <2>1
<1> QED
  BY <1>5

\* The text from some place on is read like a text of its own.
LEMMA FeedIsFrom ==
  ASSUME NEW input \in String, NEW F, Reads(input, F, 1), NEW k \in 0 .. Len(input)
  PROVE  \A s : Feed(Rest(input, k + 1), s) = F[k + 1][s]
<1>1. Rest(input, k + 1) \in String
  <2>1. k + 1 \in 1 .. Len(input) + 1
    BY LenProperties DEF String
  <2> QED
    BY <2>1, RestIs
<1>2. PICK G : /\ Reads(Rest(input, k + 1), G, 1)
               /\ \A s : Feed(Rest(input, k + 1), s) = G[1][s]
  BY <1>1, FeedReads
<1>3. G[1] = F[k + 1]
  BY <1>2, ReadingTheRest
<1> QED
  BY <1>2, <1>3

\* The filter's loop, one turn at a time.
LEMMA FeedStops ==
  ASSUME NEW input \in String, NEW s \in FilterStates, Stops(input, 1)
  PROVE  Feed(input, s) = [out |-> <<>>, at |-> s, hold |-> input]
<1>1. PICK F : Reads(input, F, 1) /\ Feed(input, s) = F[1][s]
  BY FeedReads
<1>2. Len(input) \in Nat
  BY LenProperties DEF String
<1>3. F[1] = Row(input, F, 1)
  BY <1>1, <1>2 DEF Reads
<1>4. Rest(input, 1) = input
  BY SubSeqFull DEF Rest, String
<1> QED
  BY <1>1, <1>3, <1>4 DEF Row

LEMMA FeedTag ==
  ASSUME NEW input \in String, NEW s \in FilterStates, ~Stops(input, 1), StartsTag(input, 1)
  PROVE  /\ TagAt(input, 1) \in String
         /\ Len(TagAt(input, 1)) \in 1 .. Len(input)
         /\ Feed(input, s) = Feed(Rest(input, Len(TagAt(input, 1)) + 1), Transition(TagAt(input, 1)))
<1>1. PICK F : Reads(input, F, 1) /\ Feed(input, s) = F[1][s]
  BY FeedReads
<1>2. Len(input) \in Nat /\ Len(input) >= 1
  BY LenProperties DEF String, Stops
<1>3. F[1] = Row(input, F, 1)
  BY <1>1, <1>2 DEF Reads
<1>4. /\ TagAt(input, 1) \in String
      /\ 1 + Len(TagAt(input, 1)) \in 1 + 1 .. Len(input) + 1
  BY <1>2, TagIs DEF StartsTag
<1>5. /\ Len(TagAt(input, 1)) \in 1 .. Len(input)
      /\ 1 + Len(TagAt(input, 1)) = Len(TagAt(input, 1)) + 1
  <2>1. Len(TagAt(input, 1)) \in Nat
    BY <1>4, LenProperties DEF String
  <2> QED
    BY <1>2, <1>4, <2>1
<1>6. F[1][s] = F[1 + Len(TagAt(input, 1))][Transition(TagAt(input, 1))]
  BY <1>3 DEF Row
<1>7. \A t : Feed(Rest(input, Len(TagAt(input, 1)) + 1), t) = F[Len(TagAt(input, 1)) + 1][t]
  <2>1. Len(TagAt(input, 1)) \in 0 .. Len(input)
    BY <1>2, <1>5
  <2> QED
    BY <1>1, <2>1, FeedIsFrom
<1> QED
  BY <1>1, <1>4, <1>5, <1>6, <1>7

LEMMA FeedText ==
  ASSUME NEW input \in String, NEW s \in FilterStates, ~Stops(input, 1), ~StartsTag(input, 1)
  PROVE  /\ Len(input) >= 1
         /\ Feed(input, s) = [Feed(Rest(input, 2), s) EXCEPT !.out = Emit(input[1], s) \o @]
<1>1. PICK F : Reads(input, F, 1) /\ Feed(input, s) = F[1][s]
  BY FeedReads
<1>2. Len(input) \in Nat /\ Len(input) >= 1
  BY LenProperties DEF String, Stops
<1>3. F[1] = Row(input, F, 1)
  BY <1>1, <1>2 DEF Reads
<1>4. Feed(Rest(input, 2), s) = F[2][s]
  <2>1. 1 \in 0 .. Len(input) /\ 1 + 1 = 2
    BY <1>2
  <2>2. \A t : Feed(Rest(input, 1 + 1), t) = F[1 + 1][t]
    BY <1>1, <2>1, FeedIsFrom
  <2> QED
    BY <2>1, <2>2
<1>5. 1 + 1 = 2
  OBVIOUS
<1> DEFINE next == F[1 + 1][s]
<1>6. F[1][s] = [next EXCEPT !.out = Emit(input[1], s) \o @]
  BY <1>3 DEF Row
<1> QED
  BY <1>1, <1>2, <1>4, <1>5, <1>6

FeedRecord == [out : String, at : FilterStates, hold : String]

\* What the filter lets through and what it keeps back is part of what it
\* was given.
FedTyped(input, r) ==
  /\ r \in FeedRecord
  /\ Len(r.hold) <= MaxTagLen /\ Len(r.out) + Len(r.hold) <= Len(input)

LEMMA EmitIs ==
  ASSUME NEW c \in Character, NEW s
  PROVE  Emit(c, s) \in String /\ Len(Emit(c, s)) \in 0 .. 1
<1>1. CASE Streamable(s)
  <2>1. <<c>> \in String
    <3>1. <<>> \in Seq(Character) /\ Append(<<>>, c) \in Seq(Character)
      BY EmptySeq, AppendProperties
    <3>2. Append(<<>>, c) = <<c>>
      OBVIOUS
    <3> QED
      BY <3>1, <3>2 DEF String
  <2>2. Len(<<c>>) = 1
    OBVIOUS
  <2>3. Emit(c, s) = <<c>>
    BY <1>1 DEF Emit
  <2> QED
    BY <2>1, <2>2, <2>3
<1>2. CASE ~Streamable(s)
  <2>1. <<>> \in Seq(Character) /\ Len(<<>>) = 0
    OBVIOUS
  <2> QED
    BY <1>2, <2>1 DEF Emit, String
<1> QED
  BY <1>1, <1>2

LEMMA FeedTyped ==
  ASSUME NEW word \in String, NEW state \in FilterStates
  PROVE  FedTyped(word, Feed(word, state))
<1> DEFINE T == {n \in Nat : \E input \in String : \E s \in FilterStates :
                   Len(input) = n /\ ~FedTyped(input, Feed(input, s))}
<1>1. T = {}
  <2>1. SUFFICES ASSUME T # {}
                 PROVE  FALSE
    OBVIOUS
  <2>2. PICK n \in T : \A m \in T : n <= m
    <3>1. T \in SUBSET Nat
      OBVIOUS
    <3> QED
      BY <2>1, <3>1, Least
  <2>3. PICK input \in String : \E s \in FilterStates :
                   Len(input) = n /\ ~FedTyped(input, Feed(input, s))
    OBVIOUS
  <2>4. PICK s \in FilterStates : Len(input) = n /\ ~FedTyped(input, Feed(input, s))
    BY <2>3
  <2>5. n \in Nat
    OBVIOUS
  <2>6. ASSUME NEW rest \in String, NEW t \in FilterStates, Len(rest) < n
        PROVE  FedTyped(rest, Feed(rest, t))
    <3>1. Len(rest) \in Nat /\ ~(n <= Len(rest))
      BY <2>5, <2>6, LenProperties DEF String
    <3>2. Len(rest) \notin T
      BY <2>2, <3>1
    <3> QED
      BY <3>1, <3>2
  <2> HIDE DEF T
  <2>7. CASE Stops(input, 1)
    <3>1. Feed(input, s) = [out |-> <<>>, at |-> s, hold |-> input]
      BY <2>7, FeedStops
    <3>2. Len(input) <= MaxTagLen
      <4>1. Rest(input, 1) = input
        BY SubSeqFull DEF Rest, String
      <4> QED
        BY <2>4, <2>5, <2>7, <4>1 DEF Stops, MayBeTag, MaxTagLen
    <3>3. <<>> \in String /\ Len(<<>>) = 0
      BY EmptySeq DEF String
    <3>4. Feed(input, s) \in FeedRecord
      BY <3>1, <3>3 DEF FeedRecord
    <3> QED
      BY <2>4, <2>5, <3>1, <3>2, <3>3, <3>4 DEF FedTyped
  <2>8. CASE ~Stops(input, 1) /\ StartsTag(input, 1)
    <3> DEFINE l == Len(TagAt(input, 1))
               t == Transition(TagAt(input, 1))
               rest == Rest(input, l + 1)
    <3>1. l \in 1 .. Len(input) /\ Feed(input, s) = Feed(rest, t)
      BY <2>8, FeedTag
    <3>2. t \in FilterStates
      BY TransitionIs
    <3> HIDE DEF l, t
    <3>3. rest \in String /\ Len(rest) = Len(input) - l
      <4>1. l + 1 \in 1 .. Len(input) + 1 /\ Len(input) + 1 - (l + 1) = Len(input) - l
        BY <2>4, <2>5, <3>1
      <4> QED
        BY <4>1, RestIs
    <3>4. FedTyped(rest, Feed(rest, t))
      BY <2>4, <2>5, <2>6, <3>1, <3>2, <3>3
    <3> HIDE DEF rest
    <3>5. Len(Feed(rest, t).out) \in Nat /\ Len(Feed(rest, t).hold) \in Nat
      <4>1. Feed(rest, t).out \in String /\ Feed(rest, t).hold \in String
        BY <3>4 DEF FedTyped, FeedRecord
      <4> QED
        BY <4>1, LenProperties DEF String
    <3>6. /\ Len(Feed(rest, t).hold) <= MaxTagLen /\ Feed(rest, t) \in FeedRecord
          /\ Len(Feed(rest, t).out) + Len(Feed(rest, t).hold) <= Len(rest)
      BY <3>4 DEF FedTyped
    <3>7. Len(Feed(rest, t).out) + Len(Feed(rest, t).hold) <= Len(input)
      <4>1. Len(input) \in Nat
        BY <2>4, <2>5
      <4>2. Len(rest) <= Len(input)
        BY <3>1, <3>3, <4>1
      <4>3. Len(rest) \in Int
        BY <3>1, <3>3, <4>1
      <4> DEFINE a == Len(Feed(rest, t).out) + Len(Feed(rest, t).hold)
      <4>4. a \in Int
        BY <3>5
      <4>6. a <= Len(rest)
        BY <3>6
      <4> HIDE DEF a
      <4>5. a <= Len(input)
        BY <4>1, <4>2, <4>3, <4>4, <4>6
      <4> QED
        BY <4>5 DEF a
    <3> QED
      BY <2>4, <3>1, <3>6, <3>7 DEF FedTyped
  <2>9. CASE ~Stops(input, 1) /\ ~StartsTag(input, 1)
    <3> DEFINE rest == Rest(input, 2)
               r == Feed(rest, s)
               e == Emit(input[1], s)
    <3>1. Len(input) >= 1 /\ Feed(input, s) = [r EXCEPT !.out = e \o @]
      BY Zenon, <2>9, FeedText
    <3>2. rest \in String /\ Len(rest) = Len(input) - 1
      <4>1. 2 \in 1 .. Len(input) + 1 /\ Len(input) + 1 - 2 = Len(input) - 1
        BY <2>4, <2>5, <3>1
      <4> QED
        BY Zenon, <4>1, RestIs
    <3>3. FedTyped(rest, r)
      BY <2>4, <2>5, <2>6, <3>1, <3>2
    <3>4. e \in String /\ Len(e) \in 0 .. 1
      <4>1. input[1] \in Character
        BY <2>4, <2>5, <3>1, ElementOfSeq DEF String
      <4> QED
        BY <4>1, EmitIs
    <3> HIDE DEF rest, r, e
    <3>5. r.out \in String /\ r.hold \in String /\ r.at \in FilterStates /\ r \in FeedRecord
      BY <3>3 DEF FedTyped, FeedRecord
    <3>6. Len(r.out) \in Nat /\ Len(r.hold) \in Nat
      BY <3>5, LenProperties DEF String
    <3>7. e \o r.out \in String /\ Len(e \o r.out) = Len(e) + Len(r.out)
      BY <3>4, <3>5, ConcatProperties DEF String
    <3>8. Feed(input, s) = [out |-> e \o r.out, at |-> r.at, hold |-> r.hold]
      BY <3>1, <3>5 DEF FeedRecord
    <3>9. Feed(input, s) \in FeedRecord
      BY <3>5, <3>7, <3>8 DEF FeedRecord
    <3>10. Len(r.hold) <= MaxTagLen /\ Len(r.out) + Len(r.hold) <= Len(rest)
      BY <3>3 DEF FedTyped
    <3>11. Len(e \o r.out) + Len(r.hold) <= Len(input)
      <4>1. Len(input) \in Nat
        BY <2>4, <2>5
      <4>2. Len(rest) \in Int /\ Len(e) \in Int
        BY <3>2, <3>4, <4>1
      <4> DEFINE a == Len(r.out)
                 b == Len(r.hold)
      <4>3. a \in Nat /\ b \in Nat /\ a + b <= Len(rest) /\ Len(e \o r.out) = Len(e) + a
        BY <3>6, <3>7, <3>10
      <4> HIDE DEF a, b
      <4>4. Len(e) + a + b <= Len(input)
        <5>0. Len(input) = Len(rest) + 1
          BY <3>2, <4>1
        <5>1. Len(input) = Len(rest) + 1 /\ Len(e) <= 1
          BY <3>4, <5>0
        <5> DEFINE c == Len(rest)
                   d == Len(e)
        <5>2. c \in Int /\ d \in Int /\ d <= 1 /\ Len(input) = c + 1
          BY <4>2, <5>1
        <5>3. a \in Int /\ b \in Int
          BY <4>3
        <5>4. a + b <= c
          BY <4>3
        <5> HIDE DEF c, d
        <5>5. d + a + b <= c + 1
          BY <5>2, <5>3, <5>4
        <5> QED
          BY <5>2, <5>5 DEF d
      <4> QED
        BY <4>3, <4>4 DEF b
    <3>12. Feed(input, s).out = e \o r.out /\ Feed(input, s).hold = r.hold
      BY <3>8
    <3> QED
      BY <2>4, <3>9, <3>10, <3>11, <3>12 DEF FedTyped
  <2> QED
    BY <2>7, <2>8, <2>9
<1>2. Len(word) \in Nat
  BY LenProperties DEF String
<1> QED
  BY <1>1, <1>2

LEMMA TagsAreShort ==
  ASSUME NEW text \in String, IsTag(text)
  PROVE  Len(text) <= MaxTagLen
<1>1. Len(StartMarker) = 3 /\ Len(EndMarker) = 3
  BY DEF StartMarker, EndMarker
<1>2. \A t \in Tags : Len(OpenTag(t)) = 3 /\ Len(ShutTag(t)) = 4
  BY DEF OpenTag, ShutTag
<1>3. \/ text = StartMarker \/ text = EndMarker
      \/ \E t \in Tags : text = OpenTag(t) \/ text = ShutTag(t)
  BY DEF IsTag
<1>4. Len(text) = 3 \/ Len(text) = 4
  BY <1>1, <1>2, <1>3
<1>5. MaxTagLen = 4
  BY DEF MaxTagLen
<1>6. CASE Len(text) = 3
  BY <1>5, <1>6
<1>7. CASE Len(text) = 4
  BY <1>5, <1>7
<1> QED
  BY <1>4, <1>6, <1>7

\* What is appended changes nothing of what was closed before it.
LEMMA Longer ==
  ASSUME NEW a \in String, NEW b \in String, Len(a) >= 1
  PROVE  /\ a \o b \in String /\ Len(a \o b) = Len(a) + Len(b) /\ (a \o b)[1] = a[1]
         /\ \A k \in 0 .. Len(a) : Rest(a \o b, k + 1) = Rest(a, k + 1) \o b
         /\ ClosedAt(a, 1) # {} => /\ ClosedAt(a \o b, 1) # {}
                                   /\ TagAt(a \o b, 1) = TagAt(a, 1)
         /\ ClosedAt(a, 1) = {} /\ ClosedAt(a \o b, 1) # {} => Len(TagAt(a \o b, 1)) > Len(a)
<1> DEFINE ab == a \o b
<1>0. Len(a) \in Nat /\ Len(b) \in Nat
  BY LenProperties DEF String
<1>1. /\ ab \in String /\ Len(ab) = Len(a) + Len(b)
      /\ \A x \in 1 .. Len(a) + Len(b) : ab[x] = IF x <= Len(a) THEN a[x] ELSE b[x - Len(a)]
  BY ConcatProperties DEF String
<1> HIDE DEF ab
<1>2. \A x \in 1 .. Len(a) : ab[x] = a[x]
  BY <1>0, <1>1
<1>3. ASSUME NEW k \in 0 .. Len(a)
      PROVE  Rest(ab, k + 1) = Rest(a, k + 1) \o b
  <2> DEFINE r == Rest(a, k + 1)
             q == Rest(ab, k + 1)
  <2>0. k + 1 \in 1 .. Len(a) + 1 /\ k + 1 \in 1 .. Len(ab) + 1
    BY <1>0, <1>1
  <2>1. /\ r \in String /\ Len(r) = Len(a) + 1 - (k + 1)
        /\ \A x \in 1 .. Len(r) : r[x] = a[x + (k + 1) - 1]
    BY <2>0, RestIs
  <2>2. /\ q \in String /\ Len(q) = Len(ab) + 1 - (k + 1)
        /\ \A x \in 1 .. Len(q) : q[x] = ab[x + (k + 1) - 1]
    BY <1>1, <2>0, RestIs
  <2> HIDE DEF r, q
  <2>3. /\ r \o b \in String /\ Len(r \o b) = Len(r) + Len(b)
        /\ \A x \in 1 .. Len(r) + Len(b) : (r \o b)[x] = IF x <= Len(r) THEN r[x] ELSE b[x - Len(r)]
    <3>1. r \in Seq(Character) /\ b \in Seq(Character)
      BY <2>1 DEF String
    <3> QED
      BY <3>1, ConcatProperties DEF String
  <2>4. Len(r) = Len(a) - k /\ Len(q) = Len(r) + Len(b) /\ Len(r) \in Nat
    BY <1>0, <1>1, <2>1, <2>2
  <2>5. ASSUME NEW x \in 1 .. Len(q)
        PROVE  q[x] = (r \o b)[x]
    <3>1. /\ x + (k + 1) - 1 = x + k /\ x + k \in 1 .. Len(a) + Len(b)
          /\ x \in 1 .. Len(r) + Len(b)
      BY <1>0, <2>4
    <3>2. q[x] = ab[x + k]
      BY <2>2, <3>1
    <3>3. CASE x <= Len(r)
      <4>1. x \in 1 .. Len(r) /\ x + k \in 1 .. Len(a)
        BY <1>0, <2>4, <3>3
      <4>2. r[x] = a[x + k]
        BY <2>1, <3>1, <4>1
      <4> QED
        BY <1>2, <2>3, <3>1, <3>2, <3>3, <4>1, <4>2
    <3>4. CASE ~(x <= Len(r))
      <4>1. ~(x + k <= Len(a)) /\ x + k - Len(a) = x - Len(r)
        BY <1>0, <2>4, <3>4
      <4>2. ab[x + k] = b[x + k - Len(a)]
        BY <1>1, <3>1, <4>1
      <4>3. (r \o b)[x] = b[x - Len(r)]
        BY <2>3, <3>1, <3>4
      <4> QED
        BY <3>2, <4>1, <4>2, <4>3
    <3> QED
      BY <3>3, <3>4
  <2>6. q = r \o b
    BY <2>2, <2>3, <2>4, <2>5, SeqEqual DEF String
  <2> QED
    BY <2>6 DEF q, r
<1>4. \A x \in ClosedAt(a, 1) : x \in ClosedAt(ab, 1)
  BY <1>0, <1>1, <1>2 DEF ClosedAt
<1>5. \A x \in ClosedAt(ab, 1) : x <= Len(a) => x \in ClosedAt(a, 1)
  BY <1>0, <1>1, <1>2 DEF ClosedAt
<1>6. 1 \in 1 .. Len(a) /\ 1 \in 1 .. Len(ab)
  BY <1>0, <1>1
<1>7. ASSUME ClosedAt(ab, 1) # {}
      PROVE  /\ Min(ClosedAt(ab, 1)) \in ClosedAt(ab, 1)
             /\ \A x \in ClosedAt(ab, 1) : Min(ClosedAt(ab, 1)) <= x
             /\ TagAt(ab, 1) \in String
             /\ Len(TagAt(ab, 1)) = Min(ClosedAt(ab, 1)) + 1 - 1
             /\ \A x \in 1 .. Len(TagAt(ab, 1)) : TagAt(ab, 1)[x] = ab[x + 1 - 1]
             /\ Min(ClosedAt(ab, 1)) \in Nat
  <2>1. /\ Min(ClosedAt(ab, 1)) \in ClosedAt(ab, 1)
        /\ \A x \in ClosedAt(ab, 1) : Min(ClosedAt(ab, 1)) <= x
        /\ TagAt(ab, 1) \in String
        /\ Len(TagAt(ab, 1)) = Min(ClosedAt(ab, 1)) + 1 - 1
        /\ \A x \in 1 .. Len(TagAt(ab, 1)) : TagAt(ab, 1)[x] = ab[x + 1 - 1]
    BY <1>1, <1>6, <1>7, TagIs
  <2>2. ClosedAt(ab, 1) \subseteq Nat
    BY DEF ClosedAt
  <2> QED
    BY <2>1, <2>2
<1>8. ASSUME ClosedAt(a, 1) # {}
      PROVE  ClosedAt(ab, 1) # {} /\ TagAt(ab, 1) = TagAt(a, 1)
  <2> DEFINE m == Min(ClosedAt(a, 1))
             n == Min(ClosedAt(ab, 1))
  <2>1. ClosedAt(ab, 1) # {}
    BY <1>4, <1>8
  <2>2. /\ m \in ClosedAt(a, 1) /\ \A x \in ClosedAt(a, 1) : m <= x
        /\ TagAt(a, 1) \in String
        /\ Len(TagAt(a, 1)) = m + 1 - 1
        /\ \A x \in 1 .. Len(TagAt(a, 1)) : TagAt(a, 1)[x] = a[x + 1 - 1]
    BY <1>6, <1>8, TagIs
  <2>3. /\ n \in ClosedAt(ab, 1) /\ \A x \in ClosedAt(ab, 1) : n <= x
        /\ n \in Nat /\ TagAt(ab, 1) \in String /\ Len(TagAt(ab, 1)) = n + 1 - 1
        /\ \A x \in 1 .. Len(TagAt(ab, 1)) : TagAt(ab, 1)[x] = ab[x + 1 - 1]
    BY <1>7, <2>1
  <2> HIDE DEF m, n
  <2>4. m \in 1 .. Len(a)
    BY <2>2 DEF ClosedAt
  <2>5. n <= m
    BY <1>4, <2>2, <2>3
  <2>6. m = n
    <3>1. n \in ClosedAt(a, 1)
      BY <1>0, <1>5, <2>3, <2>4, <2>5
    <3>2. m <= n
      BY <2>2, <3>1
    <3> QED
      BY <2>3, <2>4, <2>5, <3>2
  <2>7. Len(TagAt(ab, 1)) = m /\ Len(TagAt(a, 1)) = m
    BY <2>2, <2>3, <2>4, <2>6
  <2>8. ASSUME NEW x \in 1 .. m
        PROVE  TagAt(ab, 1)[x] = TagAt(a, 1)[x]
    <3>1. x + 1 - 1 = x /\ x \in 1 .. Len(a)
      BY <1>0, <2>4
    <3> QED
      BY <1>2, <2>2, <2>3, <2>7, <3>1
  <2> QED
    BY <2>1, <2>2, <2>3, <2>7, <2>8, SeqEqual DEF String
<1>9. ASSUME ClosedAt(a, 1) = {}, ClosedAt(ab, 1) # {}
      PROVE  Len(TagAt(ab, 1)) > Len(a)
  <2> DEFINE n == Min(ClosedAt(ab, 1))
  <2>1. n \in ClosedAt(ab, 1) /\ n \in Nat /\ Len(TagAt(ab, 1)) = n + 1 - 1
    BY <1>7, <1>9
  <2> HIDE DEF n
  <2>2. ~(n <= Len(a))
    BY <1>5, <1>9, <2>1
  <2> QED
    BY <1>0, <2>1, <2>2
<1> QED
  BY <1>1, <1>2, <1>3, <1>6, <1>8, <1>9 DEF ab

\* However a text is cut in two, the filter does with its parts what it does
\* with the whole.
Joined(r, q) == [out |-> r.out \o q.out, at |-> q.at, hold |-> q.hold]
FedInTwo(a, b, s) ==
  Feed(a \o b, s) = Joined(Feed(a, s), Feed(Feed(a, s).hold \o b, Feed(a, s).at))

LEMMA FeedInPieces ==
  ASSUME NEW word \in String, NEW more \in String, NEW state \in FilterStates
  PROVE  FedInTwo(word, more, state)
<1> DEFINE T == {n \in Nat : \E a \in String : \E s \in FilterStates :
                   Len(a) = n /\ ~FedInTwo(a, more, s)}
<1>1. T = {}
  <2>1. SUFFICES ASSUME T # {}
                 PROVE  FALSE
    OBVIOUS
  <2>2. PICK n \in T : \A m \in T : n <= m
    <3>1. T \in SUBSET Nat
      OBVIOUS
    <3> QED
      BY <2>1, <3>1, Least
  <2>3. PICK a \in String : \E s \in FilterStates : Len(a) = n /\ ~FedInTwo(a, more, s)
    OBVIOUS
  <2>4. PICK s \in FilterStates : Len(a) = n /\ ~FedInTwo(a, more, s)
    BY <2>3
  <2>5. n \in Nat
    OBVIOUS
  <2>6. ASSUME NEW rest \in String, NEW t \in FilterStates, Len(rest) < n
        PROVE  FedInTwo(rest, more, t)
    <3>1. Len(rest) \in Nat /\ ~(n <= Len(rest))
      BY <2>5, <2>6, LenProperties DEF String
    <3>2. Len(rest) \notin T
      BY <2>2, <3>1
    <3> QED
      BY <3>1, <3>2
  <2> HIDE DEF T
  <2> DEFINE ab == a \o more
  <2>7. CASE Stops(a, 1)
    <3>1. Feed(a, s) = [out |-> <<>>, at |-> s, hold |-> a]
      BY <2>7, FeedStops
    <3>2. ab \in String
      BY ConcatProperties DEF String
    <3>3. Feed(ab, s) \in FeedRecord
      BY <3>2, FeedTyped DEF FedTyped
    <3> DEFINE q == Feed(ab, s)
    <3> HIDE DEF q
    <3>4. q \in FeedRecord /\ <<>> \o q.out = q.out
      <4>1. q \in FeedRecord /\ q.out \in Seq(Character)
        BY <3>3 DEF q, FeedRecord, String
      <4> QED
        BY <4>1, ConcatEmptySeq
    <3>5. q = [out |-> <<>> \o q.out, at |-> q.at, hold |-> q.hold]
      BY <3>4 DEF FeedRecord
    <3>6. Feed(Feed(a, s).hold \o more, Feed(a, s).at) = q
      BY <3>1 DEF q
    <3>7. Joined(Feed(a, s), q) = [out |-> <<>> \o q.out, at |-> q.at, hold |-> q.hold]
      BY <3>1 DEF Joined
    <3> QED
      BY <2>4, <3>5, <3>6, <3>7 DEF FedInTwo, q
  <2>8. ASSUME ~Stops(a, 1)
        PROVE  /\ Len(a) >= 1 /\ ab \in String /\ Len(ab) >= 1 /\ ab[1] = a[1]
               /\ \A k \in 0 .. Len(a) : Rest(ab, k + 1) = Rest(a, k + 1) \o more
               /\ ClosedAt(a, 1) # {} => /\ ClosedAt(ab, 1) # {}
                                         /\ TagAt(ab, 1) = TagAt(a, 1)
               /\ ClosedAt(a, 1) = {} /\ ClosedAt(ab, 1) # {} => Len(TagAt(ab, 1)) > Len(a)
               /\ Len(Rest(a, 1)) = Len(a) /\ Len(Rest(ab, 1)) = Len(a) + Len(more)
    <3>1. Len(a) >= 1
      BY <2>4, <2>5, <2>8 DEF Stops
    <3>2. Len(more) \in Nat
      BY LenProperties DEF String
    <3>3. /\ ab \in String /\ Len(ab) = Len(a) + Len(more) /\ ab[1] = a[1]
          /\ \A k \in 0 .. Len(a) : Rest(ab, k + 1) = Rest(a, k + 1) \o more
          /\ ClosedAt(a, 1) # {} => /\ ClosedAt(ab, 1) # {}
                                    /\ TagAt(ab, 1) = TagAt(a, 1)
          /\ ClosedAt(a, 1) = {} /\ ClosedAt(ab, 1) # {} => Len(TagAt(ab, 1)) > Len(a)
      BY <3>1, Longer
    <3> HIDE DEF ab
    <3>4. Len(ab) \in Nat /\ Len(ab) >= 1
      BY <2>4, <2>5, <3>1, <3>2, <3>3
    <3>5. Rest(a, 1) = a /\ Rest(ab, 1) = ab
      BY <3>3, SubSeqFull DEF Rest, String
    <3> QED
      BY <3>1, <3>3, <3>4, <3>5
  <2>9. CASE ~Stops(a, 1) /\ StartsTag(a, 1)
    <3> DEFINE l == Len(TagAt(a, 1))
               t == Transition(TagAt(a, 1))
               rest == Rest(a, l + 1)
    <3>1. l \in 1 .. Len(a) /\ Feed(a, s) = Feed(rest, t)
      BY <2>9, FeedTag
    <3>2. t \in FilterStates
      BY TransitionIs
    <3>3. ClosedAt(ab, 1) # {} /\ TagAt(ab, 1) = TagAt(a, 1) /\ ab[1] = a[1]
      BY <2>8, <2>9 DEF StartsTag
    <3>4. ab \in String /\ Len(ab) >= 1
      BY <2>8, <2>9
    <3>5. l \in 0 .. Len(a)
      BY <2>4, <2>5, <3>1
    <3>6. Rest(ab, l + 1) = rest \o more
      BY <2>8, <2>9, <3>5
    <3>7. rest \in String /\ Len(rest) < n
      <4>1. l + 1 \in 1 .. Len(a) + 1 /\ Len(a) + 1 - (l + 1) < n
        BY <2>4, <2>5, <3>1
      <4>2. rest \in String /\ Len(rest) = Len(a) + 1 - (l + 1)
        BY <4>1, RestIs
      <4> QED
        BY <4>1, <4>2
    <3> HIDE DEF ab
    <3>8. ~Stops(ab, 1) /\ StartsTag(ab, 1)
      <4>1. ~(1 > Len(ab))
        <5>1. Len(ab) \in Nat
          BY <3>4, LenProperties DEF String
        <5> QED
          BY <3>4, <5>1
      <4> QED
        BY <2>9, <3>3, <4>1 DEF StartsTag, Stops
    <3>9. Feed(ab, s) = Feed(rest \o more, t)
      <4>1. Feed(ab, s) = Feed(Rest(ab, Len(TagAt(ab, 1)) + 1), Transition(TagAt(ab, 1)))
        BY <3>4, <3>8, FeedTag
      <4> QED
        BY <3>3, <3>6, <4>1
    <3> HIDE DEF l, t, rest
    <3>10. FedInTwo(rest, more, t)
      BY <2>6, <3>2, <3>7
    <3> QED
      BY <2>4, <3>1, <3>9, <3>10 DEF FedInTwo, ab
  <2>10. CASE ~Stops(a, 1) /\ ~StartsTag(a, 1)
    <3> DEFINE rest == Rest(a, 2)
               r == Feed(rest, s)
               e == Emit(a[1], s)
               q == Feed(r.hold \o more, r.at)
    <3>1. Feed(a, s) = [r EXCEPT !.out = e \o @]
      BY <2>10, FeedText
    <3>2. ab \in String /\ Len(ab) >= 1 /\ ab[1] = a[1] /\ Len(a) >= 1
      BY <2>8, <2>10
    <3>3. Rest(ab, 2) = rest \o more
      <4>1. 1 \in 0 .. Len(a) /\ 1 + 1 = 2
        BY <2>4, <2>5, <3>2
      <4>2. Rest(ab, 1 + 1) = Rest(a, 1 + 1) \o more
        BY <2>8, <2>10, <4>1
      <4> QED
        BY <4>1, <4>2
    <3>4. rest \in String /\ Len(rest) < n
      <4>1. 2 \in 1 .. Len(a) + 1 /\ Len(a) + 1 - 2 < n
        BY <2>4, <2>5, <3>2
      <4>2. rest \in String /\ Len(rest) = Len(a) + 1 - 2
        BY <4>1, RestIs
      <4> QED
        BY <4>1, <4>2
    <3>5. Len(a) \in Nat /\ Len(more) \in Nat /\ Len(ab) \in Nat
      BY <2>4, <2>5, <3>2, LenProperties DEF String
    <3>6. ~Stops(ab, 1)
      <4>1. SUFFICES ASSUME Stops(ab, 1)
                     PROVE  FALSE
        OBVIOUS
      <4> HIDE DEF ab
      <4>2. ab[1] = "<" /\ ClosedAt(ab, 1) = {} /\ Len(Rest(ab, 1)) <= MaxTagLen
        BY <3>2, <3>5, <4>1 DEF Stops, MayBeTag
      <4>3. a[1] = "<" /\ ClosedAt(a, 1) = {}
        BY <2>8, <2>10, <3>2, <4>2
      <4>4. Len(Rest(a, 1)) <= MaxTagLen
        <5>1. Len(a) + Len(more) <= MaxTagLen /\ MaxTagLen = 4
          BY <2>8, <2>10, <4>2 DEF MaxTagLen
        <5>2. Len(a) <= MaxTagLen
          BY <3>5, <5>1
        <5> QED
          BY <2>8, <2>10, <5>2
      <4> QED
        BY <2>10, <4>3, <4>4 DEF Stops, MayBeTag
    <3>7. ~StartsTag(ab, 1)
      <4>1. SUFFICES ASSUME StartsTag(ab, 1)
                     PROVE  FALSE
        OBVIOUS
      <4> HIDE DEF ab
      <4>2. ab[1] = "<" /\ ClosedAt(ab, 1) # {} /\ IsTag(TagAt(ab, 1))
        BY <4>1 DEF StartsTag
      <4>3. CASE ClosedAt(a, 1) # {}
        BY <2>8, <2>10, <3>2, <4>2, <4>3 DEF StartsTag
      <4>4. CASE ClosedAt(a, 1) = {}
        <5>1. Len(TagAt(ab, 1)) > Len(a)
          BY <2>8, <2>10, <4>2, <4>4
        <5>2. TagAt(ab, 1) \in String /\ Len(TagAt(ab, 1)) \in Nat
          <6>1. 1 \in 1 .. Len(ab)
            BY <3>2, <3>5
          <6>2. TagAt(ab, 1) \in String
            BY <3>2, <4>2, <6>1, TagIs
          <6> QED
            BY <6>2, LenProperties DEF String
        <5>3. Len(TagAt(ab, 1)) <= MaxTagLen /\ MaxTagLen = 4
          BY <4>2, <5>2, TagsAreShort DEF MaxTagLen
        <5>4. Len(a) <= MaxTagLen
          BY <3>5, <5>1, <5>2, <5>3
        <5>5. Len(Rest(a, 1)) <= MaxTagLen
          BY <2>8, <2>10, <5>4
        <5> QED
          BY <2>10, <3>2, <4>2, <4>4, <5>5 DEF Stops, MayBeTag
      <4> QED
        BY <4>3, <4>4
    <3>8. Feed(ab, s) = [Feed(rest \o more, s) EXCEPT !.out = e \o @]
      <4> HIDE DEF ab, rest, e
      <4>1. Feed(ab, s) = [Feed(Rest(ab, 2), s) EXCEPT !.out = Emit(ab[1], s) \o @]
        BY <3>2, <3>6, <3>7, FeedText
      <4> QED
        BY <3>2, <3>3, <4>1 DEF e
    <3>9. Feed(rest \o more, s) = Joined(r, q)
      <4>1. FedInTwo(rest, more, s)
        BY <2>6, <3>4
      <4> QED
        BY <4>1 DEF FedInTwo
    <3>10. r \in FeedRecord
      BY <3>4, FeedTyped DEF FedTyped
    <3>11. r.hold \o more \in String /\ r.out \in String /\ r.at \in FilterStates
      <4>1. r.hold \in String /\ r.out \in String /\ r.at \in FilterStates
        <5> HIDE DEF r
        <5> QED
          BY <3>10 DEF FeedRecord
      <4> QED
        BY <4>1, ConcatProperties DEF String
    <3>12. q \in FeedRecord
      BY <3>11, FeedTyped DEF FedTyped
    <3>13. e \in String
      <4>1. a[1] \in Character
        BY <2>4, <2>5, <3>2, ElementOfSeq DEF String
      <4> QED
        BY <4>1, EmitIs
    <3>14. /\ Feed(a, s).hold = r.hold /\ Feed(a, s).at = r.at
           /\ Feed(a, s).out = e \o r.out
      <4> HIDE DEF r, e
      <4> QED
        BY <3>1, <3>10 DEF FeedRecord
    <3>15. Feed(Feed(a, s).hold \o more, Feed(a, s).at) = q
      BY <3>14
    <3> HIDE DEF ab, q, r, e, rest
    <3>16. (e \o r.out) \o q.out = e \o (r.out \o q.out)
      <4>1. q.out \in String
        BY <3>12 DEF FeedRecord
      <4>2. e \in Seq(Character) /\ r.out \in Seq(Character) /\ q.out \in Seq(Character)
        BY <3>11, <3>13, <4>1 DEF String
      <4> DEFINE x == r.out
                 y == q.out
      <4>3. e \in Seq(Character) /\ x \in Seq(Character) /\ y \in Seq(Character)
        BY <4>2
      <4> HIDE DEF x, y
      <4>4. (e \o x) \o y = e \o (x \o y)
        BY <4>3, ConcatAssociative
      <4> QED
        BY <4>4 DEF x, y
    <3>17. Feed(ab, s) = [out |-> e \o (r.out \o q.out), at |-> q.at, hold |-> q.hold]
      <4> DEFINE w == Feed(rest \o more, s)
      <4>1. w = [out |-> r.out \o q.out, at |-> q.at, hold |-> q.hold]
        BY <3>9 DEF Joined
      <4>2. Feed(ab, s) = [w EXCEPT !.out = e \o @]
        BY <3>8
      <4> HIDE DEF w
      <4> QED
        BY <4>1, <4>2
    <3>18. Joined(Feed(a, s), q) = [out |-> (e \o r.out) \o q.out, at |-> q.at, hold |-> q.hold]
      BY <3>14 DEF Joined
    <3> QED
      BY <2>4, <3>15, <3>16, <3>17, <3>18 DEF FedInTwo, ab
  <2> QED
    BY <2>7, <2>9, <2>10
<1>2. Len(word) \in Nat
  BY LenProperties DEF String
<1> QED
  BY <1>1, <1>2

\* A text of many parts grows part by part.
LEMMA FlattenGrows ==
  ASSUME NEW seqs \in Seq(String)
  PROVE  \E f \in [0 .. Len(seqs) -> String] :
           /\ f[0] = <<>> /\ \A i \in 1 .. Len(seqs) : f[i] = f[i - 1] \o seqs[i]
           /\ FlattenSeq(seqs) = f[Len(seqs)]
<1>0. Len(seqs) \in Nat /\ \A i \in 1 .. Len(seqs) : seqs[i] \in String
  BY LenProperties, ElementOfSeq
<1>1. CASE Len(seqs) = 0
  <2>1. seqs = <<>> /\ FlattenSeq(seqs) = seqs
    BY <1>1, EmptySeq DEF FlattenSeq
  <2> DEFINE none == [i \in 0 .. 0 |-> <<>>]
  <2>2. none \in [0 .. 0 -> String] /\ none[0] = <<>>
    BY EmptySeq DEF String
  <2> HIDE DEF none
  <2>3. none \in [0 .. Len(seqs) -> String] /\ FlattenSeq(seqs) = none[Len(seqs)]
        /\ \A i \in 1 .. Len(seqs) : FALSE
    BY <1>1, <2>1, <2>2
  <2> QED
    BY <2>2, <2>3
<1>2. CASE Len(seqs) # 0
  <2> DEFINE Joins(f, n) == f = [i \in 1 .. n |-> IF i = 1 THEN seqs[i] ELSE f[i - 1] \o seqs[i]]
             Missing(n) == ~ \E f : Joins(f, n)
             T == {n \in 1 .. Len(seqs) : Missing(n)}
  <2>1. T = {}
    <3>1. SUFFICES ASSUME T # {}
                   PROVE  FALSE
      OBVIOUS
    <3>2. PICK n \in T : \A m \in T : n <= m
      <4>1. T \in SUBSET Nat
        <5> HIDE DEF Missing
        <5> QED
          BY <1>0
      <4> QED
        BY <3>1, <4>1, Least
    <3>3. n \in 1 .. Len(seqs) /\ Missing(n)
      OBVIOUS
    <3>4. CASE n = 1
      <4> DEFINE f == [i \in 1 .. 1 |-> seqs[1]]
      <4>1. Joins(f, 1)
        OBVIOUS
      <4> QED
        BY <3>3, <3>4, <4>1
    <3>5. CASE n # 1
      <4>1. n - 1 \in 1 .. Len(seqs) /\ n - 1 \notin T
        <5> HIDE DEF Missing
        <5> QED
          BY <1>0, <3>2, <3>3, <3>5
      <4>2. PICK g : Joins(g, n - 1)
        BY <4>1
      <4> DEFINE f == [i \in 1 .. n |-> IF i = n THEN g[n - 1] \o seqs[n] ELSE g[i]]
      <4>3. \A i \in 1 .. n - 1 : f[i] = g[i]
        BY <1>0, <3>3
      <4>4. ASSUME NEW i \in 1 .. n
            PROVE  f[i] = IF i = 1 THEN seqs[i] ELSE f[i - 1] \o seqs[i]
        <5>1. CASE i = n
          <6>1. f[i] = g[n - 1] \o seqs[n]
            BY <5>1
          <6>2. n - 1 \in 1 .. n - 1
            BY <1>0, <3>3, <3>5
          <6> HIDE DEF f
          <6> QED
            BY <3>5, <4>3, <5>1, <6>1, <6>2
        <5>2. CASE i # n
          <6>1. i \in 1 .. n - 1 /\ (i # 1 => i - 1 \in 1 .. n - 1)
            BY <1>0, <3>3, <5>2
          <6>2. g[i] = IF i = 1 THEN seqs[i] ELSE g[i - 1] \o seqs[i]
            BY <4>2, <6>1
          <6> HIDE DEF f
          <6> QED
            BY <4>3, <6>1, <6>2
        <5> QED
          BY <5>1, <5>2
      <4>5. f = [i \in 1 .. n |-> IF i = 1 THEN seqs[i] ELSE f[i - 1] \o seqs[i]]
        BY <4>4
      <4> HIDE DEF f
      <4>6. Joins(f, n)
        BY <4>5
      <4> QED
        BY <3>3, <4>6
    <3> QED
      BY <3>4, <3>5
  <2>2. \E f : Joins(f, Len(seqs))
    <3>1. ~ Missing(Len(seqs))
      <4>1. Len(seqs) \in 1 .. Len(seqs)
        BY <1>0, <1>2
      <4> HIDE DEF Missing
      <4> QED
        BY <2>1, <4>1
    <3> QED
      BY <3>1
  <2> HIDE DEF T, Missing
  <2> DEFINE f == CHOOSE f : f = [i \in 1 .. Len(seqs) |->
                               IF i = 1 THEN seqs[i] ELSE f[i - 1] \o seqs[i]]
  <2>3. FlattenSeq(seqs) = f[Len(seqs)]
    BY <1>2 DEF FlattenSeq
  <2>4. Joins(f, Len(seqs))
    BY Zenon, <2>2
  <2> HIDE DEF f
  <2>5. \A i \in 1 .. Len(seqs) : f[i] = IF i = 1 THEN seqs[i] ELSE f[i - 1] \o seqs[i]
    BY <2>4
  <2> HIDE DEF Joins
  <2> DEFINE U == {i \in 1 .. Len(seqs) : f[i] \notin String}
  <2>6. U = {}
    <3>1. SUFFICES ASSUME U # {}
                   PROVE  FALSE
      OBVIOUS
    <3>2. PICK n \in U : \A m \in U : n <= m
      <4>1. U \in SUBSET Nat
        BY <1>0
      <4> QED
        BY <3>1, <4>1, Least
    <3>3. n \in 1 .. Len(seqs) /\ f[n] \notin String
      OBVIOUS
    <3>4. n # 1
      BY <1>0, <2>5, <3>3
    <3>5. n - 1 \in 1 .. Len(seqs) /\ f[n - 1] \in String
      BY <1>0, <3>2, <3>3, <3>4
    <3>6. f[n] = f[n - 1] \o seqs[n] /\ seqs[n] \in String
      BY <1>0, <2>5, <3>3, <3>4
    <3>7. f[n - 1] \o seqs[n] \in String
      <4> DEFINE x == f[n - 1]
                 y == seqs[n]
      <4>1. x \in Seq(Character) /\ y \in Seq(Character)
        BY <3>5, <3>6 DEF String
      <4> HIDE DEF x, y
      <4>2. x \o y \in Seq(Character)
        BY <4>1, ConcatProperties
      <4> QED
        BY <4>2 DEF x, y, String
    <3> QED
      BY <3>3, <3>6, <3>7
  <2>7. Len(seqs) \in 1 .. Len(seqs)
    BY <1>0, <1>2
  <2> HIDE DEF U
  <2> DEFINE g == [i \in 0 .. Len(seqs) |-> IF i = 0 THEN <<>> ELSE f[i]]
  <2>8. g[0] = <<>> /\ \A i \in 1 .. Len(seqs) : g[i] = f[i]
    BY <1>0
  <2>9. g \in [0 .. Len(seqs) -> String]
    <3>1. ASSUME NEW i \in 0 .. Len(seqs)
          PROVE  (IF i = 0 THEN <<>> ELSE f[i]) \in String
      <4>1. CASE i = 0
        BY <4>1, EmptySeq DEF String
      <4>2. CASE i # 0
        <5>1. i \in 1 .. Len(seqs)
          BY <1>0, <4>2
        <5> QED
          BY <2>6, <4>2, <5>1 DEF U
      <4> QED
        BY <4>1, <4>2
    <3> QED
      BY <3>1
  <2> HIDE DEF g
  <2>10. ASSUME NEW i \in 1 .. Len(seqs)
         PROVE  g[i] = g[i - 1] \o seqs[i]
    <3>1. CASE i = 1
      <4>1. g[i] = seqs[i] /\ i - 1 = 0 /\ seqs[i] \in String
        BY <1>0, <2>5, <2>8, <3>1
      <4>2. <<>> \o seqs[i] = seqs[i]
        BY <4>1, ConcatEmptySeq DEF String
      <4> QED
        BY <2>8, <4>1, <4>2
    <3>2. CASE i # 1
      <4>1. i - 1 \in 1 .. Len(seqs)
        BY <1>0, <3>2
      <4>2. f[i] = f[i - 1] \o seqs[i]
        BY <2>5, <3>2
      <4> QED
        BY <2>8, <4>1, <4>2
    <3> QED
      BY <3>1, <3>2
  <2>11. FlattenSeq(seqs) = g[Len(seqs)]
    BY <2>3, <2>7, <2>8
  <2> QED
    BY <2>8, <2>9, <2>10, <2>11
<1> QED
  BY <1>1, <1>2

LEMMA FlattenIs ==
  ASSUME NEW seqs \in Seq(String)
  PROVE  FlattenSeq(seqs) \in String
<1>1. PICK f \in [0 .. Len(seqs) -> String] : FlattenSeq(seqs) = f[Len(seqs)]
  BY FlattenGrows
<1>2. Len(seqs) \in Nat
  BY LenProperties
<1> QED
  BY <1>1, <1>2

LEMMA LettersAreCharacters ==
  ASSUME NEW text \in Seq(STRING)
  PROVE  text \in String
<1>1. Len(text) \in Nat /\ \A i \in 1 .. Len(text) : text[i] \in STRING
  BY LenProperties, ElementOfSeq
<1>2. text = [i \in 1 .. Len(text) |-> text[i]]
  BY LenProperties
<1>3. text \in [1 .. Len(text) -> Character]
  BY <1>1, <1>2 DEF Character
<1> QED
  BY <1>1, <1>3 DEF String

LEMMA TextIs ==
  ASSUME NEW words \in ModelAnswers
  PROVE  Text(words) \in String
<1>1. /\ words \in Seq(Range(words))
      /\ \A section \in Range(words) :
           section.tag \in Tags \cup {Think, "none"} /\ section.text \in String
  BY LettersAreCharacters, ModelAnswersAreSections
<1>2. /\ \A tag \in Character : OpenTag(tag) \in String /\ ShutTag(tag) \in String
      /\ StartMarker \in String /\ EndMarker \in String /\ <<>> \in String
  <2>1. {"<", "/", ">", "s", "e"} \subseteq Character
    BY DEF Character
  <2> HIDE DEF Character
  <2>2. <<>> \in String
    BY EmptySeq DEF String
  <2> QED
    BY <2>1, <2>2 DEF OpenTag, ShutTag, StartMarker, EndMarker, String
<1>3. \A tag \in Tags \cup {Think} : tag \in Character
  BY DEF Character
<1>c. ASSUME NEW x \in String, NEW y \in String
      PROVE  x \o y \in String
  BY <1>c, ConcatProperties DEF String
<1>4. ASSUME NEW section \in Range(words)
      PROVE  Render(section) \in String
  <2> DEFINE text == section.text
             tag == section.tag
  <2>1. text \in String /\ tag \in Tags \cup {Think, "none"}
    BY <1>1
  <2>2. CASE tag = "none"
    BY <2>1, <2>2 DEF Render
  <2>3. CASE tag # "none"
    <3> HIDE DEF text, tag
    <3>1. OpenTag(tag) \in String /\ ShutTag(tag) \in String
      BY <1>2, <1>3, <2>1, <2>3
    <3> DEFINE end == IF section.shut THEN ShutTag(tag) ELSE <<>>
    <3>2. end \in String
      BY <1>2, <3>1
    <3> HIDE DEF end
    <3>3. text \o end \in String /\ OpenTag(tag) \o text \in String
      BY <1>c, <2>1, <3>1, <3>2
    <3>4. (OpenTag(tag) \o text) \o end \in String
      BY <1>c, <3>2, <3>3
    <3> QED
      BY <2>3, <3>4 DEF Render, end, text, tag
  <2> QED
    BY <2>2, <2>3
<1>5. [i \in DOMAIN words |-> Render(words[i])] \in Seq(String)
  <2>1. Len(words) \in Nat /\ DOMAIN words = 1 .. Len(words)
    BY <1>1, LenProperties
  <2>2. \A i \in 1 .. Len(words) : words[i] \in Range(words)
    BY <2>1 DEF Range
  <2>3. \A i \in 1 .. Len(words) : Render(words[i]) \in String
    BY <1>4, <2>2
  <2> QED
    BY <2>1, <2>3
<1> DEFINE body == FlattenSeq([i \in DOMAIN words |-> Render(words[i])])
<1>6. body \in String
  BY <1>5, FlattenIs
<1> HIDE DEF body
<1>7. StartMarker \o body \in String
  BY <1>2, <1>6, <1>c
<1>8. (StartMarker \o body) \o EndMarker \in String
  BY <1>2, <1>7, <1>c
<1> QED
  BY <1>8 DEF Text, body

\* However the answer has been cut into chunks, the filter has done with it
\* what it does with all of it at once.
FedAsWhole ==
  [out |-> shown, at |-> at, hold |-> hold] = Feed(SubSeq(Text(answer), 1, fed), "before")

FilterInv == answer \in ModelAnswers /\ fed \in 0 .. Len(Text(answer)) /\ FedAsWhole

LEMMA PrefixIs ==
  ASSUME NEW text \in String, NEW n \in 0 .. Len(text)
  PROVE  SubSeq(text, 1, n) \in String /\ Len(SubSeq(text, 1, n)) = n
<1>1. Len(text) \in Nat
  BY LenProperties DEF String
<1>2. \A i \in 1 .. n : text[i] \in Character
  BY <1>1, ElementOfSeq DEF String
<1>3. /\ SubSeq(text, 1, n) \in Seq(Character)
      /\ Len(SubSeq(text, 1, n)) = IF 1 <= n THEN n - 1 + 1 ELSE 0
  BY <1>2, SubSeqProperties
<1> QED
  BY <1>3 DEF String

LEMMA FilterMeans ==
  ASSUME FilterInv
  PROVE  FilterTypeOK
<1> DEFINE text == SubSeq(Text(answer), 1, fed)
<1>1. fed \in Nat /\ text \in String /\ Len(text) = fed
  <2>1. Text(answer) \in String
    BY TextIs DEF FilterInv
  <2> QED
    BY <2>1, PrefixIs DEF FilterInv
<1> HIDE DEF text
<1>2. FedTyped(text, Feed(text, "before"))
  BY <1>1, FeedTyped DEF FilterStates
<1>3. [out |-> shown, at |-> at, hold |-> hold] = Feed(text, "before")
  BY DEF FilterInv, FedAsWhole, text
<1>4. Feed(text, "before").out = shown /\ Feed(text, "before").at = at
      /\ Feed(text, "before").hold = hold
  BY <1>3
<1>5. at \in FilterStates /\ Len(hold) <= MaxTagLen /\ Len(shown) + Len(hold) <= fed
  <2>1. Feed(text, "before").at \in FilterStates
    BY <1>2 DEF FedTyped, FeedRecord
  <2>2. /\ Len(Feed(text, "before").hold) <= MaxTagLen
        /\ Len(Feed(text, "before").out) + Len(Feed(text, "before").hold) <= Len(text)
    BY <1>2 DEF FedTyped
  <2> QED
    BY <1>1, <1>4, <2>1, <2>2
<1> QED
  BY <1>5 DEF FilterInv, FilterTypeOK

LEMMA FilterStepKeeps ==
  ASSUME FilterInv, FilterNext
  PROVE  FilterInv'
<1>1. PICK n \in 1 .. MaxChunk : FeedChunk(n)
  BY DEF FilterNext
<1> DEFINE text == Text(answer)
           before == SubSeq(text, 1, fed)
           chunk == SubSeq(text, fed + 1, fed + n)
           was == Feed(before, "before")
           result == Feed(hold \o chunk, at)
<1>2. /\ answer' = answer /\ fed' = fed + n /\ fed + n <= Len(text)
      /\ shown' = shown \o result.out /\ at' = result.at /\ hold' = result.hold
  BY <1>1 DEF FeedChunk
<1>3. text \in String /\ fed \in 0 .. Len(text)
  BY TextIs DEF FilterInv
<1>4. Text(answer') = text
  BY <1>2
<1>5. was = [out |-> shown, at |-> at, hold |-> hold]
  BY DEF FilterInv, FedAsWhole
<1> HIDE DEF text
<1>6. Len(text) \in Nat /\ n \in Nat /\ fed \in Nat
  BY <1>3, ChunkBound, LenProperties DEF String
<1>7. fed + n \in 0 .. Len(text)
  BY <1>2, <1>6
<1>8. before \in String /\ chunk \in String /\ SubSeq(text, 1, fed + n) = before \o chunk
  <2>1. before \in String
    BY <1>3, PrefixIs
  <2>2. \A i \in 1 .. Len(text) : text[i] \in Character
    BY <1>3, ElementOfSeq DEF String
  <2>3. /\ chunk \in Seq(Character) /\ Len(chunk) = n
        /\ \A i \in 1 .. n : chunk[i] = text[fed + i]
    <3> DEFINE from == fed + 1
               to == fed + n
    <3>1. \A i \in from .. to : text[i] \in Character
      BY <1>2, <1>6, <2>2
    <3>2. from \in Int /\ to \in Int /\ to - from + 1 = n /\ from <= to
      <4>1. 1 <= n
        OBVIOUS
      <4> QED
        BY <1>6, <4>1
    <3>3. \A i \in Nat : from + i - 1 = fed + i
      BY <1>6
    <3>4. chunk = SubSeq(text, from, to)
      OBVIOUS
    <3> HIDE DEF from, to, chunk
    <3>5. /\ SubSeq(text, from, to) \in Seq(Character)
          /\ Len(SubSeq(text, from, to)) = IF from <= to THEN to - from + 1 ELSE 0
          /\ \A i \in 1 .. to - from + 1 : SubSeq(text, from, to)[i] = text[from + i - 1]
      BY <3>1, <3>2, SubSeqProperties
    <3>6. chunk \in Seq(Character) /\ Len(chunk) = n
      BY <3>2, <3>4, <3>5
    <3>7. \A i \in 1 .. n : chunk[i] = text[from + i - 1]
      BY <3>2, <3>4, <3>5
    <3>8. \A i \in 1 .. n : from + i - 1 = fed + i
      BY <3>3
    <3> QED
      BY <3>6, <3>7, <3>8
  <2>4. /\ before \in Seq(Character)
        /\ Len(before) = IF 1 <= fed THEN fed - 1 + 1 ELSE 0
        /\ \A i \in 1 .. fed - 1 + 1 : before[i] = text[1 + i - 1]
    <3>1. \A i \in 1 .. fed : text[i] \in Character
      BY <1>3, <1>6, <2>2
    <3> QED
      BY <1>6, <3>1, SubSeqProperties
  <2> DEFINE all == SubSeq(text, 1, fed + n)
  <2>5. /\ all \in Seq(Character)
        /\ Len(all) = IF 1 <= fed + n THEN fed + n - 1 + 1 ELSE 0
        /\ \A i \in 1 .. fed + n - 1 + 1 : all[i] = text[1 + i - 1]
    <3>1. \A i \in 1 .. fed + n : text[i] \in Character
      BY <1>2, <1>6, <2>2
    <3> QED
      BY <1>6, <3>1, SubSeqProperties
  <2> HIDE DEF before, chunk, all
  <2>6. Len(before) = fed /\ Len(chunk) = n /\ Len(all) = fed + n
    <3>1. Len(before) = fed
      BY <1>6, <2>4
    <3>2. Len(chunk) = n
      BY <2>3
    <3>3. Len(all) = fed + n
      BY <1>6, <2>5
    <3> QED
      BY <3>1, <3>2, <3>3
  <2>7. /\ before \o chunk \in Seq(Character) /\ Len(before \o chunk) = Len(before) + Len(chunk)
        /\ \A i \in 1 .. Len(before) + Len(chunk) :
             (before \o chunk)[i] = IF i <= Len(before) THEN before[i] ELSE chunk[i - Len(before)]
    BY <2>3, <2>4, ConcatProperties, ZenonT(40)
  <2>8. ASSUME NEW i \in 1 .. Len(all)
        PROVE  all[i] = (before \o chunk)[i]
    <3>1. /\ i \in 1 .. Len(before) + Len(chunk) /\ i \in 1 .. fed + n - 1 + 1
          /\ 1 + i - 1 = i
      BY <1>6, <2>6
    <3>2. all[i] = text[i]
      BY <2>5, <3>1
    <3>3. CASE i <= fed
      <4>1. i \in 1 .. fed - 1 + 1
        BY <1>6, <3>1, <3>3
      <4>2. before[i] = text[i]
        BY <2>4, <3>1, <4>1
      <4> QED
        BY <2>6, <2>7, <3>1, <3>2, <3>3, <4>2
    <3>4. CASE ~(i <= fed)
      <4>1. i - fed \in 1 .. n /\ fed + (i - fed) = i
        BY <1>6, <2>6, <3>4
      <4>2. chunk[i - fed] = text[i]
        BY <2>3, <4>1
      <4> QED
        BY <2>6, <2>7, <3>1, <3>2, <3>4, <4>2
    <3> QED
      BY <3>3, <3>4
  <2>9. all = before \o chunk
    BY <1>6, <2>5, <2>6, <2>7, <2>8, SeqEqual
  <2> QED
    BY <2>1, <2>3, <2>9 DEF all, String
<1>9. FedInTwo(before, chunk, "before")
  <2>1. "before" \in FilterStates
    BY DEF FilterStates
  <2> HIDE DEF before, chunk
  <2> QED
    BY <1>8, <2>1, FeedInPieces
<1> HIDE DEF before, chunk
<1>10. Feed(before \o chunk, "before") = Joined(was, Feed(was.hold \o chunk, was.at))
  BY <1>9 DEF FedInTwo
<1>11. was.hold = hold /\ was.at = at /\ was.out = shown
  BY <1>5
<1> HIDE DEF was
<1>12. Feed(before \o chunk, "before") = Joined(was, result)
  BY <1>10, <1>11
<1> HIDE DEF result
<1>13. Joined(was, result) = [out |-> shown', at |-> at', hold |-> hold']
  BY <1>2, <1>11 DEF Joined
<1>14. FedAsWhole'
  BY <1>2, <1>4, <1>8, <1>12, <1>13 DEF FedAsWhole
<1> QED
  BY <1>2, <1>4, <1>7, <1>14 DEF FilterInv

LEMMA FilterStart ==
  ASSUME FilterInit \/ FilterAtRest
  PROVE  FilterInv
<1>1. answer \in ModelAnswers
  BY RestIsLegitimate DEF FilterInit, FilterAtRest
<1>2. Text(answer) \in String /\ Len(Text(answer)) \in Nat
  <2>1. Text(answer) \in String
    BY <1>1, TextIs
  <2> QED
    BY <2>1, LenProperties DEF String
<1>3. CASE FilterInit
  <2>1. fed = 0 /\ at = "before" /\ hold = <<>> /\ shown = <<>>
    BY <1>3 DEF FilterInit
  <2>2. SubSeq(Text(answer), 1, fed) = <<>>
    BY <2>1, SubSeqEmpty
  <2>3. <<>> \in String /\ Len(<<>>) = 0
    BY EmptySeq DEF String
  <2>4. Stops(<<>>, 1)
    BY <2>3 DEF Stops
  <2>5. Feed(<<>>, "before") = [out |-> <<>>, at |-> "before", hold |-> <<>>]
    <3>1. "before" \in FilterStates
      BY DEF FilterStates
    <3> QED
      BY <2>3, <2>4, <3>1, FeedStops
  <2>6. FedAsWhole
    BY <2>1, <2>2, <2>5 DEF FedAsWhole
  <2> QED
    BY <1>1, <1>2, <2>1, <2>6 DEF FilterInv
<1>4. CASE FilterAtRest
  <2> DEFINE text == Text(answer)
             all == Feed(text, "before")
  <2>1. fed = Len(text) /\ at = all.at /\ hold = all.hold /\ shown = all.out
    BY <1>4 DEF FilterAtRest
  <2>2. text \in String /\ Len(text) \in Nat
    BY <1>2
  <2> HIDE DEF text
  <2>3. SubSeq(text, 1, fed) = text
    BY <2>1, <2>2, SubSeqFull DEF String
  <2>4. all \in FeedRecord
    BY <2>2, FeedTyped DEF FedTyped, FilterStates
  <2> HIDE DEF all
  <2>5. all = [out |-> shown, at |-> at, hold |-> hold]
    BY <2>1, <2>4 DEF FeedRecord
  <2>6. FedAsWhole
    BY <2>3, <2>5 DEF FedAsWhole, all, text
  <2>7. fed \in 0 .. Len(text)
    BY <2>1, <2>2
  <2> QED
    BY <1>1, <2>6, <2>7 DEF FilterInv, text
<1> QED
  BY <1>3, <1>4

LEMMA FilterUnchanged ==
  ASSUME FilterInv, UNCHANGED filterVars
  PROVE  FilterInv'
<1>1. answer' = answer /\ fed' = fed /\ at' = at /\ hold' = hold /\ shown' = shown
  BY DEF filterVars
<1>2. Text(answer') = Text(answer)
  BY <1>1
<1> QED
  BY <1>1, <1>2 DEF FilterInv, FedAsWhole

-----------------------------------------------------------------------------
(* The modules side by side.                                               *)

-----------------------------------------------------------------------------
(* What the filter shows is what is saved.                                 *)

\* Joining two texts, seen from each of them.
LEMMA Concat ==
  ASSUME NEW a \in String, NEW b \in String
  PROVE  /\ Len(a) \in Nat /\ Len(b) \in Nat
         /\ a \o b \in String /\ Len(a \o b) = Len(a) + Len(b)
         /\ \A x \in 1 .. Len(a) : (a \o b)[x] = a[x]
         /\ \A x \in 1 .. Len(b) : (a \o b)[Len(a) + x] = b[x]
<1> DEFINE ab == a \o b
<1>1. Len(a) \in Nat /\ Len(b) \in Nat
  BY LenProperties DEF String
<1>2. /\ ab \in String /\ Len(ab) = Len(a) + Len(b)
      /\ \A x \in 1 .. Len(a) + Len(b) : ab[x] = IF x <= Len(a) THEN a[x] ELSE b[x - Len(a)]
  BY ConcatProperties DEF String
<1> HIDE DEF ab
<1>3. \A x \in 1 .. Len(a) : ab[x] = a[x]
  BY <1>1, <1>2
<1>4. ASSUME NEW x \in 1 .. Len(b)
      PROVE  ab[Len(a) + x] = b[x]
  <2>1. Len(a) + x \in 1 .. Len(a) + Len(b) /\ ~(Len(a) + x <= Len(a)) /\ Len(a) + x - Len(a) = x
    BY <1>1
  <2> QED
    BY <1>2, <2>1
<1> QED
  BY <1>1, <1>2, <1>3, <1>4 DEF ab

LEMMA RestOfConcat ==
  ASSUME NEW a \in String, NEW b \in String
  PROVE  Rest(a \o b, Len(a) + 1) = b
<1> DEFINE ab == a \o b
           r == Rest(ab, Len(a) + 1)
<1>1. /\ Len(a) \in Nat /\ Len(b) \in Nat
      /\ ab \in String /\ Len(ab) = Len(a) + Len(b)
      /\ \A x \in 1 .. Len(b) : ab[Len(a) + x] = b[x]
  BY Concat
<1> HIDE DEF ab
<1>2. /\ r \in String /\ Len(r) = Len(ab) + 1 - (Len(a) + 1)
      /\ \A x \in 1 .. Len(r) : r[x] = ab[x + (Len(a) + 1) - 1]
  <2>1. Len(a) + 1 \in 1 .. Len(ab) + 1
    BY <1>1
  <2> QED
    BY <1>1, <2>1, RestIs
<1> HIDE DEF r
<1>3. Len(r) = Len(b)
  BY <1>1, <1>2
<1>4. ASSUME NEW x \in 1 .. Len(r)
      PROVE  r[x] = b[x]
  <2>1. x + (Len(a) + 1) - 1 = Len(a) + x /\ x \in 1 .. Len(b)
    BY <1>1, <1>3
  <2> QED
    BY <1>1, <1>2, <2>1
<1>5. r = b
  BY <1>2, <1>3, <1>4, SeqEqual DEF String
<1> QED
  BY <1>5 DEF r, ab

\* A tag begins with the only "<" in it and ends with the only ">".
LEMMA MarkShape ==
  ASSUME NEW p \in Marks
  PROVE  /\ p \in String /\ Len(p) \in 3 .. 4
         /\ p[1] = "<" /\ \A k \in 2 .. Len(p) : p[k] # "<"
         /\ p[Len(p)] = ">" /\ \A k \in 1 .. Len(p) - 1 : p[k] # ">"
<1>1. /\ "<" \in Character /\ "/" \in Character /\ ">" \in Character
      /\ "s" \in Character /\ "e" \in Character
      /\ \A tag \in Tags \cup {Think} : tag \in Character /\ tag # "<" /\ tag # ">"
  BY DEF Character, Tags, Think
<1>2. ASSUME NEW c \in Character, c # "<", c # ">", p = <<"<", c, ">">>
      PROVE  /\ p \in String /\ Len(p) \in 3 .. 4
             /\ p[1] = "<" /\ \A k \in 2 .. Len(p) : p[k] # "<"
             /\ p[Len(p)] = ">" /\ \A k \in 1 .. Len(p) - 1 : p[k] # ">"
  <2>1. Len(p) = 3 /\ p[1] = "<" /\ p[2] = c /\ p[3] = ">"
    BY <1>2
  <2>2. p \in String
    <3> HIDE DEF Character
    <3> QED
      BY <1>1, <1>2 DEF String
  <2>3. \A k \in 2 .. Len(p) : k = 2 \/ k = 3
    BY <2>1
  <2>4. \A k \in 1 .. Len(p) - 1 : k = 1 \/ k = 2
    BY <2>1
  <2> QED
    BY <1>2, <2>1, <2>2, <2>3, <2>4
<1>3. ASSUME NEW c \in Character, c # "<", c # ">", p = <<"<", "/", c, ">">>
      PROVE  /\ p \in String /\ Len(p) \in 3 .. 4
             /\ p[1] = "<" /\ \A k \in 2 .. Len(p) : p[k] # "<"
             /\ p[Len(p)] = ">" /\ \A k \in 1 .. Len(p) - 1 : p[k] # ">"
  <2>1. Len(p) = 4 /\ p[1] = "<" /\ p[2] = "/" /\ p[3] = c /\ p[4] = ">"
    BY <1>3
  <2>2. p \in String
    <3> HIDE DEF Character
    <3> QED
      BY <1>1, <1>3 DEF String
  <2>3. \A k \in 2 .. Len(p) : k = 2 \/ k = 3 \/ k = 4
    BY <2>1
  <2>4. \A k \in 1 .. Len(p) - 1 : k = 1 \/ k = 2 \/ k = 3
    BY <2>1
  <2> QED
    BY <1>3, <2>1, <2>2, <2>3, <2>4
<1>4. CASE p = StartMarker
  <2>1. p = <<"<", "s", ">">>
    BY <1>4 DEF StartMarker
  <2> QED
    BY <1>1, <1>2, <2>1
<1>5. CASE p = EndMarker
  <2>1. p = <<"<", "e", ">">>
    BY <1>5 DEF EndMarker
  <2> QED
    BY <1>1, <1>2, <2>1
<1>6. CASE \E tag \in Tags \cup {Think} : p = OpenTag(tag)
  <2>1. PICK tag \in Tags \cup {Think} : p = <<"<", tag, ">">>
    BY <1>6 DEF OpenTag
  <2> QED
    BY <1>1, <1>2, <2>1
<1>7. CASE \E tag \in Tags \cup {Think} : p = ShutTag(tag)
  <2>1. PICK tag \in Tags \cup {Think} : p = <<"<", "/", tag, ">">>
    BY <1>7 DEF ShutTag
  <2> QED
    BY <1>1, <1>3, <2>1
<1> QED
  BY <1>4, <1>5, <1>6, <1>7 DEF Marks

Found(text, part, i) ==
  i + Len(part) - 1 <= Len(text) /\ \A k \in 1 .. Len(part) : text[i + k - 1] = part[k]

LEMMA PositionsAre ==
  ASSUME NEW text \in String, NEW part \in String
  PROVE  Positions(text, part) = {i \in 1 .. Len(text) : Found(text, part, i)}
<1>1. Len(text) \in Nat /\ Len(part) \in Nat
  BY LenProperties DEF String
<1>2. ASSUME NEW i \in 1 .. Len(text)
      PROVE  IsPrefix(part, SubSeq(text, i, Len(text))) = Found(text, part, i)
  <2> DEFINE r == Rest(text, i)
             q == SubSeq(r, 1, Len(part))
  <2>1. /\ r \in String /\ Len(r) = Len(text) + 1 - i
        /\ \A x \in 1 .. Len(r) : r[x] = text[x + i - 1]
    <3>1. i \in 1 .. Len(text) + 1
      BY <1>1
    <3> QED
      BY <3>1, RestIs
  <2>2. SubSeq(part, 1, Len(part)) = part
    BY SubSeqFull DEF String
  <2>3. IsPrefix(part, SubSeq(text, i, Len(text))) = (Len(part) <= Len(r) /\ part = q)
    BY <2>2 DEF IsPrefix, Rest
  <2>4. (Len(part) <= Len(r)) = (i + Len(part) - 1 <= Len(text))
    BY <1>1, <2>1
  <2> HIDE DEF r
  <2>5. ASSUME Len(part) <= Len(r)
        PROVE  (part = q) = (\A k \in 1 .. Len(part) : text[i + k - 1] = part[k])
    <3>1. Len(r) \in Nat /\ \A k \in 1 .. Len(part) : k \in 1 .. Len(r)
      BY <1>1, <2>1, <2>5
    <3>2. \A k \in 1 .. Len(part) : r[k] \in Character
      BY <2>1, <3>1, ElementOfSeq DEF String
    <3>3. /\ q \in Seq(Character)
          /\ Len(q) = IF 1 <= Len(part) THEN Len(part) - 1 + 1 ELSE 0
          /\ \A k \in 1 .. Len(part) - 1 + 1 : q[k] = r[1 + k - 1]
      BY <1>1, <3>2, SubSeqProperties
    <3> HIDE DEF q
    <3>4. Len(q) = Len(part)
      BY <1>1, <3>3
    <3>5. ASSUME NEW k \in 1 .. Len(part)
          PROVE  q[k] = text[i + k - 1]
      <4>1. k \in 1 .. Len(part) - 1 + 1 /\ 1 + k - 1 = k /\ k + i - 1 = i + k - 1
        BY <1>1
      <4>2. q[k] = r[k] /\ k \in 1 .. Len(r)
        BY <3>1, <3>3, <4>1
      <4> QED
        BY <2>1, <4>1, <4>2
    <3>6. ASSUME \A k \in 1 .. Len(part) : text[i + k - 1] = part[k]
          PROVE  part = q
      <4>1. \A k \in 1 .. Len(part) : part[k] = q[k]
        BY <3>5, <3>6
      <4> QED
        BY <3>3, <3>4, <4>1, SeqEqual DEF String
    <3> QED
      BY <3>5, <3>6
  <2> QED
    BY <2>3, <2>4, <2>5 DEF Found
<1> QED
  BY <1>2 DEF Positions

\* No tag lies across the place where two texts are joined, if the first ends
\* a tag or the second begins one.
Meets(a, b) == a = <<>> \/ b = <<>> \/ a[Len(a)] = ">" \/ b[1] = "<"

LEMMA PositionsJoin ==
  ASSUME NEW a \in String, NEW b \in String, NEW p \in Marks, Meets(a, b)
  PROVE  Positions(a \o b, p) = Positions(a, p) \cup {Len(a) + i : i \in Positions(b, p)}
<1> DEFINE ab == a \o b
<1>1. /\ Len(a) \in Nat /\ Len(b) \in Nat
      /\ ab \in String /\ Len(ab) = Len(a) + Len(b)
      /\ \A x \in 1 .. Len(a) : ab[x] = a[x]
      /\ \A x \in 1 .. Len(b) : ab[Len(a) + x] = b[x]
  BY Concat
<1>2. /\ p \in String /\ Len(p) \in 3 .. 4
      /\ p[1] = "<" /\ \A k \in 2 .. Len(p) : p[k] # "<"
      /\ p[Len(p)] = ">" /\ \A k \in 1 .. Len(p) - 1 : p[k] # ">"
  BY MarkShape
<1> HIDE DEF ab
<1>3. /\ Positions(ab, p) = {i \in 1 .. Len(ab) : Found(ab, p, i)}
      /\ Positions(a, p) = {i \in 1 .. Len(a) : Found(a, p, i)}
      /\ Positions(b, p) = {i \in 1 .. Len(b) : Found(b, p, i)}
  BY <1>1, <1>2, PositionsAre
<1>4. ASSUME NEW i \in 1 .. Len(a)
      PROVE  Found(a, p, i) = Found(ab, p, i)
  <2>1. ASSUME i + Len(p) - 1 <= Len(a), NEW k \in 1 .. Len(p)
        PROVE  ab[i + k - 1] = a[i + k - 1]
    <3>1. i + k - 1 \in 1 .. Len(a)
      BY <1>1, <1>2, <2>1
    <3> QED
      BY <1>1, <3>1
  <2>2. CASE i + Len(p) - 1 <= Len(a)
    <3>1. i + Len(p) - 1 <= Len(ab)
      BY <1>1, <1>2, <2>2
    <3> QED
      BY <2>1, <2>2, <3>1 DEF Found
  <2>3. CASE ~(i + Len(p) - 1 <= Len(a))
    <3>1. ~Found(a, p, i)
      BY <2>3 DEF Found
    <3>2. ASSUME Found(ab, p, i)
          PROVE  FALSE
      <4>1. i + Len(p) - 1 <= Len(a) + Len(b) /\ \A k \in 1 .. Len(p) : ab[i + k - 1] = p[k]
        BY <1>1, <3>2 DEF Found
      <4> DEFINE u == Len(a) + 1 - i
                 v == Len(a) + 2 - i
      <4>2. /\ u \in 1 .. Len(p) - 1 /\ u \in 1 .. Len(p) /\ i + u - 1 = Len(a)
            /\ v \in 2 .. Len(p) /\ v \in 1 .. Len(p) /\ i + v - 1 = Len(a) + 1
        BY <1>1, <1>2, <2>3
      <4>3. 1 \in 1 .. Len(b) /\ Len(a) \in 1 .. Len(a)
        BY <1>1, <1>2, <2>3, <4>1
      <4> HIDE DEF u, v
      <4>4. a[Len(a)] # ">"
        <5>1. ab[Len(a)] = p[u] /\ p[u] # ">"
          BY <1>2, <4>1, <4>2
        <5> QED
          BY <1>1, <4>3, <5>1
      <4>5. b[1] # "<"
        <5>1. ab[Len(a) + 1] = p[v] /\ p[v] # "<"
          BY <1>2, <4>1, <4>2
        <5> QED
          BY <1>1, <4>3, <5>1
      <4>6. a # <<>> /\ b # <<>>
        BY <1>1, <4>3
      <4> QED
        BY <4>4, <4>5, <4>6 DEF Meets
    <3> QED
      BY <3>1, <3>2 DEF Found
  <2> QED
    BY <2>2, <2>3
<1>5. ASSUME NEW i \in 1 .. Len(b)
      PROVE  Found(b, p, i) = Found(ab, p, Len(a) + i)
  <2>1. (i + Len(p) - 1 <= Len(b)) = (Len(a) + i + Len(p) - 1 <= Len(ab))
    BY <1>1, <1>2
  <2>2. ASSUME i + Len(p) - 1 <= Len(b), NEW k \in 1 .. Len(p)
        PROVE  ab[Len(a) + i + k - 1] = b[i + k - 1]
    <3>1. i + k - 1 \in 1 .. Len(b) /\ Len(a) + (i + k - 1) = Len(a) + i + k - 1
      BY <1>1, <1>2, <2>2
    <3> QED
      BY <1>1, <3>1
  <2> QED
    BY <2>1, <2>2 DEF Found
<1>6. ASSUME NEW i \in Positions(ab, p)
      PROVE  i \in Positions(a, p) \cup {Len(a) + x : x \in Positions(b, p)}
  <2>1. i \in 1 .. Len(ab) /\ Found(ab, p, i)
    BY <1>3
  <2>2. CASE i <= Len(a)
    <3>1. i \in 1 .. Len(a)
      BY <1>1, <2>1, <2>2
    <3> QED
      BY <1>3, <1>4, <2>1, <3>1
  <2>3. CASE ~(i <= Len(a))
    <3>1. i - Len(a) \in 1 .. Len(b) /\ Len(a) + (i - Len(a)) = i
      BY <1>1, <2>1, <2>3
    <3>2. i - Len(a) \in Positions(b, p)
      BY <1>3, <1>5, <2>1, <3>1
    <3> QED
      BY <3>1, <3>2
  <2> QED
    BY <2>2, <2>3
<1>7. ASSUME NEW i \in Positions(a, p)
      PROVE  i \in Positions(ab, p)
  <2>1. i \in 1 .. Len(a) /\ Found(a, p, i) /\ i \in 1 .. Len(ab)
    BY <1>1, <1>3
  <2> QED
    BY <1>3, <1>4, <2>1
<1>8. ASSUME NEW i \in Positions(b, p)
      PROVE  Len(a) + i \in Positions(ab, p)
  <2>1. i \in 1 .. Len(b) /\ Found(b, p, i) /\ Len(a) + i \in 1 .. Len(ab)
    BY <1>1, <1>3
  <2> QED
    BY <1>3, <1>5, <2>1
<1> QED
  BY <1>6, <1>7, <1>8 DEF ab

\* A tag holds no other.
LEMMA MarkInMark ==
  ASSUME NEW q \in Marks, NEW p \in Marks
  PROVE  Positions(q, p) = IF p = q THEN {1} ELSE {}
<1>1. /\ p \in String /\ Len(p) \in 3 .. 4
      /\ p[1] = "<" /\ \A k \in 2 .. Len(p) : p[k] # "<"
      /\ p[Len(p)] = ">" /\ \A k \in 1 .. Len(p) - 1 : p[k] # ">"
  BY MarkShape
<1>2. /\ q \in String /\ Len(q) \in 3 .. 4
      /\ q[1] = "<" /\ \A k \in 2 .. Len(q) : q[k] # "<"
      /\ q[Len(q)] = ">" /\ \A k \in 1 .. Len(q) - 1 : q[k] # ">"
  BY MarkShape
<1>3. Positions(q, p) = {i \in 1 .. Len(q) : Found(q, p, i)}
  BY <1>1, <1>2, PositionsAre
<1>4. ASSUME NEW i \in 1 .. Len(q), Found(q, p, i)
      PROVE  i = 1 /\ p = q
  <2>1. i + Len(p) - 1 <= Len(q) /\ \A k \in 1 .. Len(p) : q[i + k - 1] = p[k]
    BY <1>4 DEF Found
  <2>2. 1 \in 1 .. Len(p) /\ i + 1 - 1 = i
    BY <1>1
  <2>3. q[i] = "<"
    BY <1>1, <2>1, <2>2
  <2>4. i = 1
    <3>1. CASE i \in 2 .. Len(q)
      BY <1>2, <2>3, <3>1
    <3>2. CASE i \notin 2 .. Len(q)
      BY <3>2
    <3> QED
      BY <3>1, <3>2
  <2>5. \A k \in 1 .. Len(p) : q[k] = p[k]
    <3>1. \A k \in 1 .. Len(p) : i + k - 1 = k
      BY <1>1, <2>4
    <3> QED
      BY <2>1, <3>1
  <2>6. Len(p) = Len(q)
    <3>1. Len(p) \in 1 .. Len(p) /\ Len(p) <= Len(q)
      BY <1>1, <1>2, <2>1, <2>4
    <3>2. q[Len(p)] = ">"
      BY <1>1, <2>5, <3>1
    <3>3. Len(p) \notin 1 .. Len(q) - 1
      BY <1>2, <3>2
    <3> QED
      BY <1>1, <1>2, <3>1, <3>3
  <2>7. p = q
    BY <1>1, <1>2, <2>5, <2>6, SeqEqual DEF String
  <2> QED
    BY <2>4, <2>7
<1>5. ASSUME p = q
      PROVE  1 \in 1 .. Len(q) /\ Found(q, p, 1)
  <2>1. 1 \in 1 .. Len(q) /\ 1 + Len(p) - 1 <= Len(q)
    BY <1>2, <1>5
  <2>2. \A k \in 1 .. Len(p) : 1 + k - 1 = k
    BY <1>1
  <2> QED
    BY <1>5, <2>1, <2>2 DEF Found
<1>6. CASE p = q
  BY <1>3, <1>4, <1>5, <1>6
<1>7. CASE p # q
  BY <1>3, <1>4, <1>7
<1> QED
  BY <1>6, <1>7

LEMMA NoPositionsInNothing ==
  ASSUME NEW p \in Marks
  PROVE  Positions(<<>>, p) = {}
<1>1. <<>> \in String /\ Len(<<>>) = 0
  BY EmptySeq DEF String
<1> QED
  BY <1>1, PositionsAre, MarkShape

\* The tags of different sections are different.
LEMMA MarksDiffer ==
  /\ \A t \in Tags \cup {Think} : OpenTag(t) \in Marks /\ ShutTag(t) \in Marks
  /\ \A t \in Tags \cup {Think} : OpenTag(t) \notin {StartMarker, EndMarker}
  /\ \A t \in Tags \cup {Think} : ShutTag(t) \notin {StartMarker, EndMarker}
  /\ \A t, u \in Tags \cup {Think} : OpenTag(t) = OpenTag(u) => t = u
  /\ \A t, u \in Tags \cup {Think} : ShutTag(t) = ShutTag(u) => t = u
  /\ \A t, u \in Tags \cup {Think} : OpenTag(t) # ShutTag(u)
  /\ StartMarker \in Marks /\ EndMarker \in Marks /\ StartMarker # EndMarker
<1>1. \A t \in Tags \cup {Think} : OpenTag(t) \in Marks /\ ShutTag(t) \in Marks
  BY DEF Marks
<1>2. \A t \in Tags \cup {Think} : t # "s" /\ t # "e" /\ t # "/"
  BY DEF Tags, Think
<1>3. ASSUME NEW t \in Tags \cup {Think}
      PROVE  /\ OpenTag(t)[2] = t /\ ShutTag(t)[2] = "/" /\ ShutTag(t)[3] = t
             /\ Len(OpenTag(t)) = 3 /\ Len(ShutTag(t)) = 4
  BY DEF OpenTag, ShutTag
<1>4. /\ StartMarker[2] = "s" /\ EndMarker[2] = "e" /\ Len(StartMarker) = 3 /\ Len(EndMarker) = 3
  BY DEF StartMarker, EndMarker
<1>5. StartMarker \in Marks /\ EndMarker \in Marks /\ StartMarker # EndMarker
  BY <1>4 DEF Marks
<1>6. \A t \in Tags \cup {Think} : OpenTag(t) \notin {StartMarker, EndMarker}
  BY <1>2, <1>3, <1>4
<1>7. \A t \in Tags \cup {Think} : ShutTag(t) \notin {StartMarker, EndMarker}
  BY <1>3, <1>4
<1>8. \A t, u \in Tags \cup {Think} : OpenTag(t) = OpenTag(u) => t = u
  BY <1>3
<1>9. \A t, u \in Tags \cup {Think} : ShutTag(t) = ShutTag(u) => t = u
  BY <1>3
<1>10. \A t, u \in Tags \cup {Think} : OpenTag(t) # ShutTag(u)
  BY <1>3
<1> QED
  BY <1>1, <1>5, <1>6, <1>7, <1>8, <1>9, <1>10

-----------------------------------------------------------------------------
(* Sections that keep the format, and where they are in the text.          *)

\* A section that keeps the format, and one that is text between sections.
MarksOf(tag) == {OpenTag(tag), ShutTag(tag)}
Clean(section) ==
  /\ section.tag \in Tags \cup {Think, "none"} /\ section.text \in String
  /\ section.tag # "none" => section.shut
  /\ \A mark \in Marks : Positions(section.text, mark) = {}
Tagged(section) == section.tag # "none"
Bare(section) == section.tag = "none" /\ section.text # <<>>

LEMMA TaggedRender ==
  ASSUME NEW section, Clean(section), Tagged(section)
  PROVE  LET t == section.tag
             x == section.text
             w == (OpenTag(t) \o x) \o ShutTag(t)
         IN /\ t \in Tags \cup {Think} /\ Render(section) = w
            /\ OpenTag(t) \o x \in String /\ Len(OpenTag(t) \o x) = 3 + Len(x) /\ Len(x) \in Nat
            /\ w \in String /\ Len(w) = 7 + Len(x) /\ w[1] = "<" /\ w[Len(w)] = ">"
            /\ \A k \in 1 .. Len(x) : w[3 + k] = x[k]
            /\ \A p \in Marks : Positions(w, p) = Positions(OpenTag(t), p)
                                     \cup {3 + Len(x) + i : i \in Positions(ShutTag(t), p)}
<1> DEFINE t == section.tag
           x == section.text
           o == OpenTag(t)
           s == ShutTag(t)
           ox == o \o x
           w == ox \o s
<1>1. t \in Tags \cup {Think} /\ x \in String /\ section.shut
  BY DEF Clean, Tagged
<1>2. /\ o \in Marks /\ s \in Marks /\ Len(o) = 3 /\ Len(s) = 4 /\ o[3] = ">" /\ s[1] = "<" /\ s[4] = ">"
      /\ o[1] = "<"
  BY <1>1 DEF Marks, OpenTag, ShutTag
<1>3. Render(section) = w
  <2>1. Render(section) = (o \o x) \o IF section.shut THEN s ELSE <<>>
    BY DEF Render, Tagged
  <2> QED
    BY <1>1, <2>1
<1>4. \A mark \in Marks : Positions(x, mark) = {}
  BY DEF Clean
<1> HIDE DEF t, x, o, s
<1>5. o \in String /\ s \in String
  BY <1>2, MarkShape
<1>6. /\ Len(x) \in Nat /\ ox \in String /\ Len(ox) = 3 + Len(x)
      /\ \A k \in 1 .. 3 : ox[k] = o[k]
      /\ \A k \in 1 .. Len(x) : ox[3 + k] = x[k]
  <2>1. /\ Len(x) \in Nat /\ ox \in String /\ Len(ox) = Len(o) + Len(x)
        /\ \A k \in 1 .. Len(o) : ox[k] = o[k]
        /\ \A k \in 1 .. Len(x) : ox[Len(o) + k] = x[k]
    BY <1>1, <1>5, Concat
  <2> HIDE DEF ox
  <2> QED
    BY <1>2, <2>1
<1> HIDE DEF ox
<1>7. /\ w \in String /\ Len(w) = 7 + Len(x)
      /\ \A k \in 1 .. 3 + Len(x) : w[k] = ox[k]
      /\ \A k \in 1 .. 4 : w[3 + Len(x) + k] = s[k]
  <2>1. /\ w \in String /\ Len(w) = Len(ox) + Len(s)
        /\ \A k \in 1 .. Len(ox) : w[k] = ox[k]
        /\ \A k \in 1 .. Len(s) : w[Len(ox) + k] = s[k]
    BY <1>5, <1>6, Concat
  <2> HIDE DEF w
  <2>2. (3 + Len(x)) + 4 = 7 + Len(x)
    BY <1>6
  <2> QED
    BY <1>2, <1>6, <2>1, <2>2
<1>8. w[1] = "<" /\ w[Len(w)] = ">"
  <2> HIDE DEF w
  <2>1. 1 \in 1 .. 3 + Len(x) /\ 1 \in 1 .. 3 /\ 4 \in 1 .. 4 /\ 3 + Len(x) + 4 = 7 + Len(x)
    BY <1>6
  <2>2. w[1] = ox[1] /\ ox[1] = o[1]
    BY <1>6, <1>7, <2>1
  <2>3. w[3 + Len(x) + 4] = s[4]
    BY <1>7, <2>1
  <2> QED
    BY <1>2, <1>7, <2>1, <2>2, <2>3
<1>9. ASSUME NEW k \in 1 .. Len(x)
      PROVE  w[3 + k] = x[k]
  <2> HIDE DEF w
  <2>1. 3 + k \in 1 .. 3 + Len(x)
    BY <1>6
  <2> QED
    BY <1>6, <1>7, <2>1
<1>10. ASSUME NEW p \in Marks
       PROVE  Positions(w, p) = Positions(o, p) \cup {3 + Len(x) + i : i \in Positions(s, p)}
  <2>1. Meets(o, x) /\ Meets(ox, s)
    BY <1>2 DEF Meets
  <2>2. Positions(ox, p) = Positions(o, p) \cup {Len(o) + i : i \in Positions(x, p)}
    BY <1>1, <1>5, <2>1, PositionsJoin DEF ox
  <2>3. Positions(ox, p) = Positions(o, p)
    BY <1>4, <2>2
  <2>4. Positions(w, p) = Positions(ox, p) \cup {Len(ox) + i : i \in Positions(s, p)}
    BY <1>5, <1>6, <2>1, PositionsJoin
  <2> HIDE DEF w
  <2> QED
    BY <1>6, <2>3, <2>4
<1> HIDE DEF w
<1> QED
  BY <1>1, <1>3, <1>6, <1>7, <1>8, <1>9, <1>10, Zenon DEF w, ox, o, s, t, x

LEMMA RenderIs ==
  ASSUME NEW section, Clean(section)
  PROVE  /\ Render(section) \in String
         /\ Tagged(section) => Render(section) # <<>>
         /\ ~Bare(section) => \/ Render(section) = <<>>
                              \/ /\ Render(section)[1] = "<"
                                 /\ Render(section)[Len(Render(section))] = ">"
         /\ \A p \in Marks \ MarksOf(section.tag) : Positions(Render(section), p) = {}
         /\ Tagged(section) =>
              /\ Positions(Render(section), OpenTag(section.tag)) = {1}
              /\ Positions(Render(section), ShutTag(section.tag)) = {4 + Len(section.text)}
<1> DEFINE w == Render(section)
           t == section.tag
           x == section.text
<1>1. CASE ~Tagged(section)
  <2>1. w = x /\ x \in String /\ \A p \in Marks : Positions(x, p) = {}
    BY <1>1 DEF Render, Tagged, Clean
  <2> QED
    BY <1>1, <2>1 DEF Tagged, Bare
<1>2. CASE Tagged(section)
  <2> DEFINE v == (OpenTag(t) \o x) \o ShutTag(t)
  <2>0. /\ t \in Tags \cup {Think} /\ Len(x) \in Nat /\ Render(section) = v
        /\ v \in String /\ Len(v) = 7 + Len(x) /\ v[1] = "<" /\ v[Len(v)] = ">"
        /\ \A p \in Marks : Positions(v, p) = Positions(OpenTag(t), p)
                                 \cup {3 + Len(x) + i : i \in Positions(ShutTag(t), p)}
    BY <1>2, TaggedRender, Zenon
  <2> HIDE DEF v
  <2>1. /\ t \in Tags \cup {Think} /\ Len(x) \in Nat
        /\ w \in String /\ Len(w) = 7 + Len(x) /\ w[1] = "<" /\ w[Len(w)] = ">"
        /\ \A p \in Marks : Positions(w, p) = Positions(OpenTag(t), p)
                                 \cup {3 + Len(x) + i : i \in Positions(ShutTag(t), p)}
    BY <2>0
  <2> HIDE DEF w, t, x
  <2>2. OpenTag(t) \in Marks /\ ShutTag(t) \in Marks /\ OpenTag(t) # ShutTag(t)
    BY <2>1, MarksDiffer
  <2>3. ASSUME NEW p \in Marks
        PROVE  /\ Positions(OpenTag(t), p) = IF p = OpenTag(t) THEN {1} ELSE {}
               /\ Positions(ShutTag(t), p) = IF p = ShutTag(t) THEN {1} ELSE {}
    BY <2>2, <2>3, MarkInMark
  <2>4. \A p \in Marks \ MarksOf(t) : Positions(w, p) = {}
    BY <2>1, <2>3 DEF MarksOf
  <2>5. Positions(w, OpenTag(t)) = {1}
    BY <2>1, <2>2, <2>3
  <2>6. Positions(w, ShutTag(t)) = {4 + Len(x)}
    <3>1. Positions(w, ShutTag(t)) = {} \cup {3 + Len(x) + i : i \in {1}}
      BY <2>1, <2>2, <2>3
    <3>2. 3 + Len(x) + 1 = 4 + Len(x)
      BY <2>1
    <3> QED
      BY <3>1, <3>2
  <2>7. w # <<>>
    <3>1. Len(w) # 0
      BY <2>1
    <3> QED
      BY <3>1
  <2>8. w = Render(section) /\ t = section.tag /\ x = section.text
    BY DEF w, t, x
  <2> QED
    BY <2>1, <2>4, <2>5, <2>6, <2>7, <2>8
<1> QED
  BY <1>1, <1>2

LEMMA Assoc ==
  ASSUME NEW a \in String, NEW b \in String, NEW c \in String
  PROVE  (a \o b) \o c = a \o (b \o c)
  BY ConcatAssociative DEF String

LEMMA EmptyJoins ==
  /\ <<>> \in String
  /\ \A a \in String : <<>> \o a = a /\ a \o <<>> = a
  BY EmptySeq, ConcatEmptySeq DEF String

\* An answer whose sections keep the format, none twice; text between them in
\* one place at most.
Neat(words) ==
  /\ words \in Seq(Range(words))
  /\ \A i \in 1 .. Len(words) : Clean(words[i])
  /\ \A i, j \in 1 .. Len(words) : i # j /\ Tagged(words[i]) => words[i].tag # words[j].tag
  /\ \A i, j \in 1 .. Len(words) : i # j /\ Bare(words[i]) => ~Bare(words[j])

\* The text up to the end of each section, and what follows it.
Cut(words, head, tail) ==
  /\ head \in [0 .. Len(words) -> String] /\ tail \in [0 .. Len(words) -> String]
  /\ head[0] = StartMarker /\ tail[Len(words)] = EndMarker
  /\ \A j \in 1 .. Len(words) : head[j] = head[j - 1] \o Render(words[j])
  /\ \A j \in 1 .. Len(words) : tail[j - 1] = Render(words[j]) \o tail[j]
  /\ \A j \in 0 .. Len(words) : Text(words) = head[j] \o tail[j]

LEMMA CutExists ==
  ASSUME NEW words, Neat(words)
  PROVE  \E head, tail : Cut(words, head, tail)
<1> DEFINE n == Len(words)
           rs == [i \in DOMAIN words |-> Render(words[i])]
<1>1. n \in Nat /\ DOMAIN words = 1 .. n
  BY LenProperties DEF Neat
<1>2. \A i \in 1 .. n : Render(words[i]) \in String
  BY RenderIs DEF Neat
<1>3. rs \in Seq(String) /\ Len(rs) = n /\ \A i \in 1 .. n : rs[i] = Render(words[i])
  BY <1>1, <1>2
<1>4. Text(words) = (StartMarker \o FlattenSeq(rs)) \o EndMarker
  BY DEF Text
<1> HIDE DEF n, rs
<1>5. PICK f \in [0 .. n -> String] :
        /\ f[0] = <<>> /\ \A i \in 1 .. n : f[i] = f[i - 1] \o rs[i]
        /\ FlattenSeq(rs) = f[n]
  BY <1>3, FlattenGrows
<1>6. StartMarker \in String /\ EndMarker \in String
  BY MarksDiffer, MarkShape
<1> DEFINE g == [j \in 0 .. n |-> StartMarker \o f[j]]
<1>7. \A j \in 0 .. n : g[j] = StartMarker \o f[j] /\ g[j] \in String
  BY <1>5, <1>6, Concat
<1>8. g \in [0 .. n -> String]
  BY <1>7
<1> HIDE DEF g
<1>9. 0 \in 0 .. n /\ n \in 0 .. n
  BY <1>1
<1>10. g[0] = StartMarker
  BY <1>5, <1>6, <1>7, <1>9, ConcatEmptySeq DEF String
<1>11. ASSUME NEW j \in 1 .. n
       PROVE  g[j] = g[j - 1] \o Render(words[j])
  <2>1. j \in 0 .. n /\ j - 1 \in 0 .. n
    BY <1>1
  <2>2. f[j] = f[j - 1] \o Render(words[j]) /\ f[j - 1] \in String /\ Render(words[j]) \in String
    BY <1>2, <1>3, <1>5, <2>1
  <2>3. StartMarker \o (f[j - 1] \o Render(words[j])) = (StartMarker \o f[j - 1]) \o Render(words[j])
    BY <1>6, <2>2, Assoc
  <2> QED
    BY <1>7, <2>1, <2>2, <2>3
<1>12. Text(words) = g[n] \o EndMarker
  BY <1>4, <1>5, <1>7, <1>9
<1> DEFINE Follows(j) == \E r \in String : Text(words) = g[j] \o r
           T == {m \in 0 .. n : ~Follows(n - m)}
<1>13. T = {}
  <2>1. SUFFICES ASSUME T # {}
                 PROVE  FALSE
    OBVIOUS
  <2>2. PICK m \in T : \A k \in T : m <= k
    <3>1. T \in SUBSET Nat
      <4> HIDE DEF Follows
      <4> QED
        BY <1>1
    <3> QED
      BY <2>1, <3>1, Least
  <2>3. m \in 0 .. n /\ ~Follows(n - m)
    OBVIOUS
  <2>4. m # 0
    <3>1. ASSUME m = 0
          PROVE  FALSE
      <4>1. n - m = n
        BY <1>1, <3>1
      <4>2. Follows(n)
        BY <1>6, <1>12
      <4> QED
        BY <2>3, <4>1, <4>2
    <3> QED
      BY <3>1
  <2> DEFINE j == n - m + 1
  <2>5. j \in 1 .. n /\ m - 1 \in 0 .. n /\ n - (m - 1) = j /\ j - 1 = n - m /\ m - 1 < m
        /\ j \in 0 .. n /\ j - 1 \in 0 .. n
    BY <1>1, <2>3, <2>4
  <2> HIDE DEF j
  <2>6. m - 1 \notin T
    <3> HIDE DEF T
    <3> QED
      BY <1>1, <2>2, <2>3, <2>5
  <2>7. Follows(j)
    <3> HIDE DEF Follows
    <3> QED
      BY <2>5, <2>6
  <2>8. PICK r \in String : Text(words) = g[j] \o r
    BY <2>7
  <2>9. Render(words[j]) \in String /\ g[j - 1] \in String /\ Render(words[j]) \o r \in String
    BY <1>2, <1>7, <2>5, Concat
  <2>10. Text(words) = g[j - 1] \o (Render(words[j]) \o r)
    <3>1. (g[j - 1] \o Render(words[j])) \o r = g[j - 1] \o (Render(words[j]) \o r)
      BY Zenon, <2>9, Assoc
    <3> QED
      BY <1>11, <2>5, <2>8, <3>1
  <2>11. Follows(j - 1)
    BY <2>9, <2>10
  <2> HIDE DEF Follows
  <2> QED
    BY <2>3, <2>5, <2>11
<1>14. ASSUME NEW j \in 0 .. n
       PROVE  Follows(j)
  <2> HIDE DEF Follows
  <2>1. n - j \in 0 .. n /\ n - (n - j) = j
    BY <1>1
  <2> QED
    BY <1>13, <2>1
<1> HIDE DEF T
<1> DEFINE y == [j \in 0 .. n |-> Rest(Text(words), Len(g[j]) + 1)]
<1>15. ASSUME NEW j \in 0 .. n
       PROVE  /\ y[j] = Rest(Text(words), Len(g[j]) + 1)
              /\ y[j] \in String /\ Text(words) = g[j] \o y[j]
  <2>1. PICK r \in String : Text(words) = g[j] \o r
    BY <1>14
  <2>2. y[j] = Rest(Text(words), Len(g[j]) + 1)
    OBVIOUS
  <2>3. y[j] = r
    BY <1>7, <2>1, <2>2, RestOfConcat
  <2> QED
    BY <2>1, <2>2, <2>3
<1>16. y \in [0 .. n -> String]
  BY <1>15
<1> HIDE DEF y, Follows
<1>17. y[n] = EndMarker
  <2>1. g[n] \in String /\ y[n] = Rest(g[n] \o EndMarker, Len(g[n]) + 1)
    BY <1>7, <1>9, <1>12, <1>15
  <2> QED
    BY <1>6, <2>1, RestOfConcat
<1>18. ASSUME NEW j \in 1 .. n
       PROVE  y[j - 1] = Render(words[j]) \o y[j]
  <2>1. j \in 0 .. n /\ j - 1 \in 0 .. n
    BY <1>1
  <2>2. /\ g[j] = g[j - 1] \o Render(words[j]) /\ g[j - 1] \in String /\ Render(words[j]) \in String
        /\ y[j] \in String /\ Text(words) = g[j] \o y[j]
    BY <1>2, <1>7, <1>11, <1>15, <2>1
  <2>3. Render(words[j]) \o y[j] \in String
    BY <2>2, Concat
  <2>4. Text(words) = g[j - 1] \o (Render(words[j]) \o y[j])
    <3>1. (g[j - 1] \o Render(words[j])) \o y[j] = g[j - 1] \o (Render(words[j]) \o y[j])
      BY <2>2, Assoc
    <3> QED
      BY <2>2, <3>1
  <2>5. Rest(Text(words), Len(g[j - 1]) + 1) = Render(words[j]) \o y[j]
    BY <2>2, <2>3, <2>4, RestOfConcat
  <2> QED
    BY <1>15, <2>1, <2>5
<1>19. Cut(words, g, y)
  BY <1>8, <1>10, <1>11, <1>15, <1>16, <1>17, <1>18 DEF Cut, n
<1> QED
  BY <1>19

LEMMA EndsOfJoin ==
  ASSUME NEW a \in String, NEW b \in String
  PROVE  /\ b # <<>> => a \o b # <<>> /\ (a \o b)[Len(a \o b)] = b[Len(b)]
         /\ a # <<>> => a \o b # <<>> /\ (a \o b)[1] = a[1]
<1>1. /\ Len(a) \in Nat /\ Len(b) \in Nat
      /\ a \o b \in String /\ Len(a \o b) = Len(a) + Len(b)
      /\ \A x \in 1 .. Len(a) : (a \o b)[x] = a[x]
      /\ \A x \in 1 .. Len(b) : (a \o b)[Len(a) + x] = b[x]
  BY Concat
<1>2. ASSUME NEW c \in String
      PROVE  c # <<>> => Len(c) \in Nat \ {0}
  BY <1>2, EmptySeq DEF String
<1>3. \A c \in String : Len(c) # 0 => c # <<>>
  BY DEF String
<1>4. ASSUME b # <<>>
      PROVE  a \o b # <<>> /\ (a \o b)[Len(a \o b)] = b[Len(b)]
  <2>1. Len(b) \in 1 .. Len(b) /\ Len(a \o b) # 0
    BY <1>1, <1>2, <1>4
  <2> QED
    BY <1>1, <1>3, <2>1
<1>5. ASSUME a # <<>>
      PROVE  a \o b # <<>> /\ (a \o b)[1] = a[1]
  <2>1. 1 \in 1 .. Len(a) /\ Len(a \o b) # 0
    BY <1>1, <1>2, <1>5
  <2> QED
    BY <1>1, <1>3, <2>1
<1> QED
  BY <1>4, <1>5

Shuts(a) == a # <<>> /\ a[Len(a)] = ">"
Opens(a) == a # <<>> /\ a[1] = "<"

LEMMA MarkEnds ==
  ASSUME NEW p \in Marks
  PROVE  Opens(p) /\ Shuts(p)
<1>1. p \in String /\ Len(p) \in 3 .. 4 /\ p[1] = "<" /\ p[Len(p)] = ">"
  BY MarkShape
<1>2. Len(p) # 0
  BY <1>1
<1>3. p # <<>>
  BY <1>2
<1> QED
  BY <1>1, <1>3 DEF Opens, Shuts

LEMMA CutTyped ==
  ASSUME NEW words, NEW head, NEW tail, Neat(words), Cut(words, head, tail)
  PROVE  /\ Len(words) \in Nat /\ 0 \in 0 .. Len(words) /\ Len(words) \in 0 .. Len(words)
         /\ \A j \in 0 .. Len(words) : head[j] \in String /\ tail[j] \in String
         /\ \A j \in 1 .. Len(words) :
              /\ j \in 0 .. Len(words) /\ j - 1 \in 0 .. Len(words)
              /\ Clean(words[j]) /\ Render(words[j]) \in String
         /\ head[0] = StartMarker /\ tail[Len(words)] = EndMarker
         /\ Text(words) \in String
<1>1. Len(words) \in Nat
  BY LenProperties DEF Neat
<1>2. 0 \in 0 .. Len(words) /\ Len(words) \in 0 .. Len(words)
  BY <1>1
<1>3. \A j \in 0 .. Len(words) : head[j] \in String /\ tail[j] \in String
  BY DEF Cut
<1>4. \A j \in 1 .. Len(words) : j \in 0 .. Len(words) /\ j - 1 \in 0 .. Len(words)
  BY <1>1
<1>5. \A j \in 1 .. Len(words) : Clean(words[j]) /\ Render(words[j]) \in String
  BY RenderIs DEF Neat
<1>6. Text(words) \in String
  <2>1. Text(words) = head[0] \o tail[0]
    BY <1>2 DEF Cut
  <2> QED
    BY <1>2, <1>3, <2>1, Concat
<1> QED
  BY <1>1, <1>2, <1>3, <1>4, <1>5, <1>6 DEF Cut

LEMMA HeadShuts ==
  ASSUME NEW words, NEW head, NEW tail, Neat(words), Cut(words, head, tail),
         NEW j \in 0 .. Len(words), \A i \in 1 .. j : ~Bare(words[i])
  PROVE  Shuts(head[j])
<1> DEFINE T == {k \in 0 .. j : ~Shuts(head[k])}
<1>1. /\ Len(words) \in Nat
      /\ \A k \in 0 .. Len(words) : head[k] \in String
      /\ \A k \in 1 .. Len(words) : Clean(words[k]) /\ Render(words[k]) \in String
      /\ head[0] = StartMarker
  BY CutTyped
<1>2. T = {}
  <2>1. SUFFICES ASSUME T # {}
                 PROVE  FALSE
    OBVIOUS
  <2>2. PICK k \in T : \A m \in T : k <= m
    <3>1. T \in SUBSET Nat
      OBVIOUS
    <3> QED
      BY <2>1, <3>1, Least
  <2>3. k \in 0 .. j /\ ~Shuts(head[k])
    OBVIOUS
  <2>4. k # 0
    BY <1>1, <2>3, MarksDiffer, MarkEnds
  <2>5. k \in 1 .. j /\ k \in 1 .. Len(words) /\ k - 1 \in 0 .. j /\ k - 1 < k /\ k - 1 \in 0 .. Len(words)
    BY <1>1, <2>3, <2>4
  <2>6. k - 1 \notin T
    <3> HIDE DEF T
    <3> QED
      BY <1>1, <2>2, <2>3, <2>5
  <2>7. Shuts(head[k - 1])
    BY <2>5, <2>6
  <2> HIDE DEF T
  <2> DEFINE a == head[k - 1]
             r == Render(words[k])
  <2>8. /\ head[k] = a \o r /\ a \in String /\ r \in String /\ Clean(words[k]) /\ ~Bare(words[k])
    BY <1>1, <2>5 DEF Cut
  <2>9. r = <<>> \/ Shuts(r)
    BY <2>8, RenderIs DEF Shuts
  <2> HIDE DEF r
  <2>10. CASE r = <<>>
    BY <2>3, <2>7, <2>8, <2>10, EmptyJoins
  <2>11. CASE Shuts(r)
    BY <2>3, <2>8, <2>11, EndsOfJoin DEF Shuts
  <2> QED
    BY <2>9, <2>10, <2>11
<1>3. j \in 0 .. j
  BY <1>1
<1> QED
  BY <1>2, <1>3

LEMMA TailOpens ==
  ASSUME NEW words, NEW head, NEW tail, Neat(words), Cut(words, head, tail),
         NEW j \in 0 .. Len(words), \A i \in j + 1 .. Len(words) : ~Bare(words[i])
  PROVE  Opens(tail[j])
<1> DEFINE n == Len(words)
           T == {k \in 0 .. n - j : ~Opens(tail[n - k])}
<1>1. /\ n \in Nat
      /\ \A k \in 0 .. n : tail[k] \in String
      /\ \A k \in 1 .. n : Clean(words[k]) /\ Render(words[k]) \in String
      /\ tail[n] = EndMarker
  BY CutTyped
<1>c. \A k \in 1 .. n : tail[k - 1] = Render(words[k]) \o tail[k]
  BY DEF Cut
<1> HIDE DEF n
<1>j. j \in 0 .. n /\ \A i \in j + 1 .. n : ~Bare(words[i])
  BY DEF n
<1>2. T = {}
  <2>1. SUFFICES ASSUME T # {}
                 PROVE  FALSE
    OBVIOUS
  <2>2. PICK k \in T : \A m \in T : k <= m
    <3>1. T \in SUBSET Nat
      OBVIOUS
    <3> QED
      BY <2>1, <3>1, Least
  <2>3. k \in 0 .. n - j /\ ~Opens(tail[n - k])
    OBVIOUS
  <2>4. k # 0
    <3>1. n - 0 = n
      BY <1>1
    <3> QED
      BY <1>1, <2>3, <3>1, MarksDiffer, MarkEnds
  <2> DEFINE i == n - k + 1
  <2>5. i \in j + 1 .. n /\ i \in 1 .. n /\ k - 1 \in 0 .. n - j /\ k - 1 < k /\ i - 1 = n - k
        /\ n - (k - 1) = i /\ i \in 0 .. n
    BY <1>1, <1>j, <2>3, <2>4
  <2> HIDE DEF i
  <2>6. k - 1 \notin T
    <3> HIDE DEF T
    <3> QED
      BY <1>1, <2>2, <2>3, <2>5
  <2>7. Opens(tail[i])
    BY <2>5, <2>6
  <2> HIDE DEF T
  <2> DEFINE a == tail[i]
             r == Render(words[i])
  <2>8. /\ tail[n - k] = r \o a /\ a \in String /\ r \in String /\ Clean(words[i]) /\ ~Bare(words[i])
    BY <1>1, <1>c, <1>j, <2>5
  <2>9. r = <<>> \/ Opens(r)
    BY <2>8, RenderIs DEF Opens
  <2> HIDE DEF r
  <2>10. CASE r = <<>>
    BY <2>3, <2>7, <2>8, <2>10, EmptyJoins
  <2>11. CASE Opens(r)
    BY <2>3, <2>8, <2>11, EndsOfJoin DEF Opens
  <2> QED
    BY <2>9, <2>10, <2>11
<1>3. n - j \in 0 .. n - j /\ n - (n - j) = j
  BY <1>1, <1>j
<1> QED
  BY <1>2, <1>3

\* Wherever the text is cut between its sections, no tag is cut.
LEMMA CutMeets ==
  ASSUME NEW words, NEW head, NEW tail, Neat(words), Cut(words, head, tail)
  PROVE  /\ \A j \in 0 .. Len(words) : Meets(head[j], tail[j])
         /\ \A j \in 1 .. Len(words) : Meets(head[j - 1], Render(words[j])) /\ Meets(Render(words[j]), tail[j])
<1> DEFINE n == Len(words)
<1>1. /\ n \in Nat
      /\ \A j \in 0 .. n : head[j] \in String /\ tail[j] \in String
      /\ \A j \in 1 .. n :
           /\ j \in 0 .. n /\ j - 1 \in 0 .. n
           /\ Clean(words[j]) /\ Render(words[j]) \in String
  BY CutTyped
<1>2. ASSUME NEW j \in 0 .. n
      PROVE  Shuts(head[j]) \/ Opens(tail[j])
  <2>1. CASE \A i \in 1 .. j : ~Bare(words[i])
    BY <2>1, HeadShuts
  <2>2. CASE \E i \in 1 .. j : Bare(words[i])
    <3>1. PICK i \in 1 .. j : Bare(words[i])
      BY <2>2
    <3>2. \A k \in j + 1 .. n : i \in 1 .. n /\ k \in 1 .. n /\ i # k
      BY <1>1
    <3>3. \A k \in j + 1 .. Len(words) : ~Bare(words[k])
      BY <3>1, <3>2 DEF Neat
    <3> QED
      BY <3>3, TailOpens
  <2> QED
    BY <2>1, <2>2
<1>3. ASSUME NEW j \in 1 .. n
      PROVE  Meets(head[j - 1], Render(words[j])) /\ Meets(Render(words[j]), tail[j])
  <2> DEFINE r == Render(words[j])
             a == head[j - 1]
             b == tail[j]
  <2>1. r \in String /\ a \in String /\ b \in String /\ tail[j - 1] = r \o b /\ head[j] = a \o r
    BY <1>1 DEF Cut
  <2>2. (Shuts(a) \/ Opens(r \o b)) /\ (Shuts(a \o r) \/ Opens(b))
    BY <1>1, <1>2, <2>1
  <2> HIDE DEF r, a, b
  <2>3. Meets(a, r)
    <3>1. r # <<>> => (r \o b)[1] = r[1]
      BY <2>1, EndsOfJoin
    <3> QED
      BY <2>2, <3>1 DEF Meets, Shuts, Opens
  <2>4. Meets(r, b)
    <3>1. r # <<>> => (a \o r)[Len(a \o r)] = r[Len(r)]
      BY <2>1, EndsOfJoin
    <3> QED
      BY <2>2, <3>1 DEF Meets, Shuts, Opens
  <2> QED
    BY <2>3, <2>4 DEF r, a, b
<1>4. \A j \in 0 .. n : Meets(head[j], tail[j])
  BY <1>2 DEF Meets, Shuts, Opens
<1> QED
  BY <1>3, <1>4

\* The tags of a section are in it and nowhere else.
LEMMA OthersMarks ==
  ASSUME NEW t \in Tags \cup {Think}, NEW p \in MarksOf(t), NEW section, Clean(section), section.tag # t
  PROVE  p \in Marks /\ Positions(Render(section), p) = {}
<1>1. p \in Marks
  BY MarksDiffer DEF MarksOf
<1>2. CASE Tagged(section)
  <2>1. section.tag \in Tags \cup {Think}
    BY <1>2 DEF Clean, Tagged
  <2>2. p \notin MarksOf(section.tag)
    BY <2>1, MarksDiffer DEF MarksOf
  <2> QED
    BY <1>1, <2>2, RenderIs
<1>3. CASE ~Tagged(section)
  <2>1. Render(section) = section.text
    BY <1>3 DEF Render, Tagged
  <2> QED
    BY <1>1, <2>1 DEF Clean
<1> QED
  BY <1>1, <1>2, <1>3

LEMMA HeadWithout ==
  ASSUME NEW words, NEW head, NEW tail, Neat(words), Cut(words, head, tail),
         NEW t \in Tags \cup {Think}, NEW p \in MarksOf(t),
         NEW j \in 0 .. Len(words), \A i \in 1 .. j : words[i].tag # t
  PROVE  Positions(head[j], p) = {}
<1> DEFINE T == {k \in 0 .. j : Positions(head[k], p) # {}}
<1>1. /\ Len(words) \in Nat
      /\ \A k \in 0 .. Len(words) : head[k] \in String
      /\ \A k \in 1 .. Len(words) : Clean(words[k]) /\ Render(words[k]) \in String
      /\ head[0] = StartMarker
  BY CutTyped
<1>p. p \in Marks /\ p # StartMarker
  BY MarksDiffer DEF MarksOf
<1>2. T = {}
  <2>1. SUFFICES ASSUME T # {}
                 PROVE  FALSE
    OBVIOUS
  <2>2. PICK k \in T : \A m \in T : k <= m
    <3>1. T \in SUBSET Nat
      OBVIOUS
    <3> QED
      BY <2>1, <3>1, Least
  <2>3. k \in 0 .. j /\ Positions(head[k], p) # {}
    OBVIOUS
  <2>4. k # 0
    BY <1>1, <1>p, <2>3, MarksDiffer, MarkInMark
  <2>5. k \in 1 .. j /\ k \in 1 .. Len(words) /\ k - 1 \in 0 .. j /\ k - 1 < k /\ k - 1 \in 0 .. Len(words)
    BY <1>1, <2>3, <2>4
  <2>6. k - 1 \notin T
    <3> HIDE DEF T
    <3> QED
      BY <1>1, <2>2, <2>3, <2>5
  <2>7. Positions(head[k - 1], p) = {}
    BY <2>5, <2>6
  <2> HIDE DEF T
  <2> DEFINE a == head[k - 1]
             r == Render(words[k])
  <2>8. /\ head[k] = a \o r /\ a \in String /\ r \in String /\ Meets(a, r) /\ Positions(r, p) = {}
    <3>1. head[k] = a \o r
      BY <2>5 DEF Cut
    <3>2. a \in String /\ r \in String
      BY <1>1, <2>5
    <3>3. Meets(a, r)
      BY <2>5, CutMeets
    <3>4. Positions(r, p) = {}
      BY <1>1, <2>5, OthersMarks
    <3> QED
      BY <3>1, <3>2, <3>3, <3>4
  <2>9. Positions(head[k], p) = {} \cup {Len(a) + i : i \in {}}
    BY <1>p, <2>7, <2>8, PositionsJoin
  <2> QED
    BY <2>3, <2>9
<1>3. j \in 0 .. j
  BY <1>1
<1> QED
  BY <1>2, <1>3

LEMMA TailWithout ==
  ASSUME NEW words, NEW head, NEW tail, Neat(words), Cut(words, head, tail),
         NEW t \in Tags \cup {Think}, NEW p \in MarksOf(t),
         NEW j \in 0 .. Len(words), \A i \in j + 1 .. Len(words) : words[i].tag # t
  PROVE  Positions(tail[j], p) = {}
<1> DEFINE n == Len(words)
           T == {k \in 0 .. n - j : Positions(tail[n - k], p) # {}}
<1>1. /\ n \in Nat
      /\ \A k \in 0 .. n : tail[k] \in String
      /\ \A k \in 1 .. n : Clean(words[k]) /\ Render(words[k]) \in String
      /\ tail[n] = EndMarker
  BY CutTyped
<1>c. \A k \in 1 .. n : tail[k - 1] = Render(words[k]) \o tail[k]
  BY DEF Cut
<1>f. \A k \in 1 .. n : Meets(Render(words[k]), tail[k])
  BY CutMeets
<1> HIDE DEF n
<1>j. j \in 0 .. n /\ \A i \in j + 1 .. n : words[i].tag # t
  BY DEF n
<1>p. p \in Marks /\ p # EndMarker
  BY MarksDiffer DEF MarksOf
<1>2. T = {}
  <2>1. SUFFICES ASSUME T # {}
                 PROVE  FALSE
    OBVIOUS
  <2>2. PICK k \in T : \A m \in T : k <= m
    <3>1. T \in SUBSET Nat
      OBVIOUS
    <3> QED
      BY <2>1, <3>1, Least
  <2>3. k \in 0 .. n - j /\ Positions(tail[n - k], p) # {}
    OBVIOUS
  <2>4. k # 0
    <3>1. n - 0 = n
      BY <1>1
    <3> QED
      BY <1>1, <1>p, <2>3, <3>1, MarksDiffer, MarkInMark
  <2> DEFINE i == n - k + 1
  <2>5. i \in j + 1 .. n /\ i \in 1 .. n /\ k - 1 \in 0 .. n - j /\ k - 1 < k /\ i - 1 = n - k
        /\ n - (k - 1) = i /\ i \in 0 .. n
    BY <1>1, <1>j, <2>3, <2>4
  <2> HIDE DEF i
  <2>6. k - 1 \notin T
    <3> HIDE DEF T
    <3> QED
      BY <1>1, <2>2, <2>3, <2>5
  <2>7. Positions(tail[i], p) = {}
    BY <2>5, <2>6
  <2> HIDE DEF T
  <2> DEFINE a == tail[i]
             r == Render(words[i])
  <2>8. /\ tail[n - k] = r \o a /\ a \in String /\ r \in String /\ Meets(r, a) /\ Positions(r, p) = {}
    <3>1. tail[n - k] = r \o a
      BY <1>c, <2>5
    <3>2. a \in String /\ r \in String /\ Meets(r, a)
      BY <1>1, <1>f, <2>5
    <3>3. Positions(r, p) = {}
      BY <1>1, <1>j, <2>5, OthersMarks
    <3> QED
      BY <3>1, <3>2, <3>3
  <2>9. Positions(tail[n - k], p) = {} \cup {Len(r) + x : x \in {}}
    BY <1>p, <2>7, <2>8, PositionsJoin
  <2> QED
    BY <2>3, <2>9
<1>3. n - j \in 0 .. n - j /\ n - (n - j) = j
  BY <1>1, <1>j
<1> QED
  BY <1>2, <1>3

LEMMA TextWithout ==
  ASSUME NEW words, Neat(words), NEW t \in Tags \cup {Think}, NEW p \in MarksOf(t),
         \A i \in 1 .. Len(words) : words[i].tag # t
  PROVE  Positions(Text(words), p) = {}
<1>1. PICK head, tail : Cut(words, head, tail)
  BY CutExists
<1> DEFINE n == Len(words)
           a == head[n]
           b == tail[n]
<1>2. n \in 0 .. n /\ a \in String /\ b = EndMarker /\ b \in String
  BY <1>1, CutTyped
<1>3. Text(words) = a \o b /\ Meets(a, b)
  BY <1>1, <1>2, CutMeets DEF Cut
<1>4. Positions(a, p) = {}
  BY <1>1, <1>2, HeadWithout
<1>5. p \in Marks /\ Positions(b, p) = {}
  BY <1>2, MarksDiffer, MarkInMark DEF MarksOf
<1> HIDE DEF a, b
<1>6. Positions(a \o b, p) = {} \cup {Len(a) + i : i \in {}}
  BY <1>2, <1>3, <1>4, <1>5, PositionsJoin
<1> QED
  BY <1>3, <1>6

\* Where the tags of a section are, and its text.
FoundAt(words, t, x, b) ==
  /\ b \in Nat /\ Len(x) \in Nat /\ t \in Tags \cup {Think}
  /\ Positions(Text(words), OpenTag(t)) = {b + 1}
  /\ Positions(Text(words), ShutTag(t)) = {b + 4 + Len(x)}
  /\ Len(Text(words)) >= b + 7 + Len(x)
  /\ \A k \in 1 .. Len(x) : Text(words)[b + 3 + k] = x[k]

LEMMA SectionFound ==
  ASSUME NEW words, NEW head, NEW tail, Neat(words), Cut(words, head, tail),
         NEW m \in 1 .. Len(words), Tagged(words[m])
  PROVE  FoundAt(words, words[m].tag, words[m].text, Len(head[m - 1]))
<1> DEFINE t == words[m].tag
           x == words[m].text
           a == head[m - 1]
           b == Len(a)
           r == Render(words[m])
           y == tail[m]
           text == Text(words)
           ar == a \o r
           v == (OpenTag(t) \o x) \o ShutTag(t)
<1>1. /\ a \in String /\ y \in String /\ r \in String /\ Clean(words[m])
      /\ ar = head[m] /\ text = ar \o y
  <2>1. /\ m \in 0 .. Len(words) /\ m - 1 \in 0 .. Len(words)
        /\ a \in String /\ y \in String /\ r \in String /\ Clean(words[m])
    BY CutTyped
  <2> QED
    BY <2>1 DEF Cut
<1>2. Meets(a, r) /\ Meets(ar, y)
  BY <1>1, CutMeets, CutTyped
<1>3. /\ t \in Tags \cup {Think} /\ r = v /\ Len(x) \in Nat
      /\ v \in String /\ Len(v) = 7 + Len(x)
      /\ \A k \in 1 .. Len(x) : v[3 + k] = x[k]
  BY <1>1, TaggedRender, Zenon
<1>4. /\ Positions(r, OpenTag(t)) = {1}
      /\ Positions(r, ShutTag(t)) = {4 + Len(x)}
  BY <1>1, RenderIs
<1>5. \A p \in MarksOf(t) : Positions(a, p) = {} /\ Positions(y, p) = {}
  <2>1. Len(words) \in Nat /\ m \in 0 .. Len(words) /\ m - 1 \in 0 .. Len(words)
    BY CutTyped
  <2>2. \A i \in 1 .. m - 1 : words[i].tag # t
    <3>1. \A i \in 1 .. m - 1 : i \in 1 .. Len(words) /\ i # m
      BY <2>1
    <3> QED
      BY <3>1 DEF Neat
  <2>3. \A i \in m + 1 .. Len(words) : words[i].tag # t
    <3>1. \A i \in m + 1 .. Len(words) : i \in 1 .. Len(words) /\ i # m
      BY <2>1
    <3> QED
      BY <3>1 DEF Neat
  <2>4. \A p \in MarksOf(t) : Positions(a, p) = {}
    BY <1>3, <2>1, <2>2, HeadWithout
  <2>5. \A p \in MarksOf(t) : Positions(y, p) = {}
    BY <1>3, <2>1, <2>3, TailWithout
  <2> QED
    BY <2>4, <2>5
<1> HIDE DEF v, t, x, a, r, y, text, b
<1>6. /\ b \in Nat /\ ar \in String /\ Len(ar) = b + (7 + Len(x))
      /\ \A k \in 1 .. 7 + Len(x) : ar[b + k] = r[k]
  <2>1. /\ Len(a) \in Nat /\ Len(r) \in Nat
        /\ ar \in String /\ Len(ar) = Len(a) + Len(r)
        /\ \A k \in 1 .. Len(r) : ar[Len(a) + k] = r[k]
    BY <1>1, Concat
  <2> HIDE DEF ar
  <2> QED
    BY <1>3, <2>1 DEF b
<1>7. ASSUME NEW p \in MarksOf(t)
      PROVE  Positions(text, p) = {b + i : i \in Positions(r, p)}
  <2>1. p \in Marks
    BY <1>3, MarksDiffer DEF MarksOf
  <2>2. Positions(ar, p) = Positions(a, p) \cup {Len(a) + i : i \in Positions(r, p)}
    BY <1>1, <1>2, <2>1, PositionsJoin
  <2> HIDE DEF ar
  <2>3. Positions(ar \o y, p) = Positions(ar, p) \cup {Len(ar) + i : i \in Positions(y, p)}
    BY <1>1, <1>2, <1>6, <2>1, PositionsJoin
  <2>4. Positions(a, p) = {} /\ Positions(y, p) = {}
    BY <1>5
  <2> QED
    BY <1>1, <2>2, <2>3, <2>4 DEF b
<1>8. Positions(text, OpenTag(t)) = {b + 1}
  BY <1>4, <1>7 DEF MarksOf
<1>9. Positions(text, ShutTag(t)) = {b + 4 + Len(x)}
  <2>1. Positions(text, ShutTag(t)) = {b + i : i \in {4 + Len(x)}}
    BY <1>4, <1>7 DEF MarksOf
  <2>2. b + (4 + Len(x)) = b + 4 + Len(x)
    BY <1>3, <1>6
  <2> QED
    BY <2>1, <2>2
<1> HIDE DEF ar
<1>10. /\ Len(text) = Len(ar) + Len(y) /\ Len(y) \in Nat
       /\ \A k \in 1 .. Len(ar) : text[k] = ar[k]
  <2>1. /\ Len(ar \o y) = Len(ar) + Len(y) /\ Len(y) \in Nat
        /\ \A k \in 1 .. Len(ar) : (ar \o y)[k] = ar[k]
    BY <1>1, <1>6, Concat
  <2>2. text = ar \o y
    BY <1>1
  <2> QED
    BY <2>1, <2>2
<1>11. Len(text) >= b + 7 + Len(x)
  BY <1>3, <1>6, <1>10
<1>12. ASSUME NEW k \in 1 .. Len(x)
       PROVE  text[b + 3 + k] = x[k]
  <2>1. 3 + k \in 1 .. 7 + Len(x) /\ b + (3 + k) = b + 3 + k /\ b + 3 + k \in 1 .. Len(ar)
    BY <1>3, <1>6
  <2>2. text[b + 3 + k] = r[3 + k]
    BY <1>6, <1>10, <2>1
  <2> QED
    BY <1>3, <2>2
<1>13. FoundAt(words, t, x, b)
  <2> USE DEF text
  <2> QED
    BY <1>3, <1>6, <1>8, <1>9, <1>11, <1>12, Zenon DEF FoundAt
<1> QED
  BY <1>13 DEF b, a, x, t

LEMMA OnlyOne ==
  ASSUME NEW n \in Nat
  PROVE  Min({n}) = n /\ Max({n}) = n
<1>1. Min({n}) = n
  BY MinIs
<1>2. Max({n}) = n
  <2>1. n \in {n} /\ \A m \in {n} : n >= m
    OBVIOUS
  <2> DEFINE x == CHOOSE x \in {n} : \A m \in {n} : x >= m
  <2>2. x \in {n}
    BY <2>1
  <2> QED
    BY <2>2 DEF Max
<1> QED
  BY <1>1, <1>2

\* Of an empty section the closing tag is found, with all that follows it.
LEMMA ExtractedEmpty ==
  ASSUME NEW words, Neat(words), NEW m \in 1 .. Len(words), Tagged(words[m]),
         words[m].text = <<>>
  PROVE  /\ Has(Text(words), OpenTag(words[m].tag)) /\ Has(Text(words), ShutTag(words[m].tag))
         /\ IsPrefix(ShutTag(words[m].tag), ExtractBetween(Text(words), words[m].tag))
<1>1. PICK head, tail : Cut(words, head, tail)
  BY CutExists
<1> DEFINE t == words[m].tag
           x == words[m].text
           b == Len(head[m - 1])
           text == Text(words)
           ends == Positions(text, ShutTag(t))
           from == Min(Positions(text, OpenTag(t))) + 3
<1>2. FoundAt(words, t, x, b)
  BY <1>1, SectionFound
<1>3. Len(x) = 0
  OBVIOUS
<1> HIDE DEF b, t, x
<1>4. /\ b \in Nat /\ Positions(text, OpenTag(t)) = {b + 1} /\ ends = {b + 4}
  BY <1>2, <1>3 DEF FoundAt
<1>5. from = b + 4 /\ Max(ends) = b + 4
  <2>1. b + 1 \in Nat /\ b + 4 \in Nat /\ b + 1 + 3 = b + 4
    BY <1>4
  <2>2. Min({b + 1}) = b + 1 /\ Max({b + 4}) = b + 4
    BY <2>1, OnlyOne
  <2> QED
    BY <1>4, <2>1, <2>2
<1>6. Has(text, OpenTag(t)) /\ Has(text, ShutTag(t))
  BY <1>4 DEF Has
<1>7. Max(ends) <= from
  BY <1>4, <1>5
<1>8. ExtractBetween(text, t) = SubSeq(text, from, Len(text))
  BY <1>6, <1>7 DEF ExtractBetween
<1>9. IsPrefix(ShutTag(t), SubSeq(text, b + 4, Len(text)))
  BY <1>4 DEF Positions
<1>10. IsPrefix(ShutTag(t), ExtractBetween(text, t))
  BY <1>5, <1>8, <1>9
<1> QED
  BY <1>6, <1>10 DEF t

\* A section that is not empty is found where it is.
LEMMA Extracted ==
  ASSUME NEW words, Neat(words), NEW m \in 1 .. Len(words), Tagged(words[m]),
         words[m].text # <<>>
  PROVE  /\ Has(Text(words), OpenTag(words[m].tag)) /\ Has(Text(words), ShutTag(words[m].tag))
         /\ ExtractBetween(Text(words), words[m].tag) = words[m].text
<1>1. PICK head, tail : Cut(words, head, tail)
  BY CutExists
<1> DEFINE t == words[m].tag
           x == words[m].text
           b == Len(head[m - 1])
           text == Text(words)
<1>2. /\ b \in Nat /\ Len(x) \in Nat /\ t \in Tags \cup {Think}
      /\ Positions(text, OpenTag(t)) = {b + 1}
      /\ Positions(text, ShutTag(t)) = {b + 4 + Len(x)}
      /\ Len(text) >= b + 7 + Len(x)
      /\ \A k \in 1 .. Len(x) : text[b + 3 + k] = x[k]
  <2>1. FoundAt(words, t, x, b)
    BY <1>1, SectionFound
  <2> HIDE DEF b, t, x
  <2> QED
    BY <2>1 DEF FoundAt
<1>3. x \in String /\ text \in String
  BY <1>1, CutTyped DEF Clean
<1> HIDE DEF b, text, t
<1>4. Len(x) > 0
  <2> HIDE DEF x
  <2>1. x # <<>> => Len(x) \in Nat \ {0}
    BY <1>3, EmptySeq DEF String
  <2>2. x # <<>>
    BY DEF x
  <2> QED
    BY <2>1, <2>2
<1> HIDE DEF x
<1>5. Has(text, OpenTag(t)) /\ Has(text, ShutTag(t))
  BY <1>2 DEF Has
<1>6. Min(Positions(text, OpenTag(t))) + 3 = b + 4
  <2>1. Min({b + 1}) = b + 1
    <3>1. b + 1 \in Nat
      BY <1>2
    <3> QED
      BY <3>1, OnlyOne
  <2> QED
    BY <1>2, <2>1
<1>7. Max(Positions(text, ShutTag(t))) = b + 4 + Len(x)
  <2>1. b + 4 + Len(x) \in Nat
    BY <1>2
  <2> QED
    BY <1>2, <2>1, OnlyOne
<1>8. ~(Positions(text, ShutTag(t)) = {} \/ Max(Positions(text, ShutTag(t))) <= b + 4)
  BY <1>2, <1>4, <1>7
<1> DEFINE z == SubSeq(text, b + 4, b + 4 + Len(x) - 1)
<1>9. ExtractBetween(text, t) = z
  <2> DEFINE ends == Positions(text, ShutTag(t))
             from == Min(Positions(text, OpenTag(t))) + 3
             early == ends = {} \/ Max(ends) <= from
  <2>1. ExtractBetween(text, t) =
          IF early THEN SubSeq(text, from, Len(text)) ELSE SubSeq(text, from, Max(ends) - 1)
    BY <1>5 DEF ExtractBetween
  <2>2. ~early
    BY <1>6, <1>8
  <2>3. from = b + 4 /\ Max(ends) = b + 4 + Len(x)
    BY <1>6, <1>7
  <2> HIDE DEF early, from, ends
  <2>4. ExtractBetween(text, t) = SubSeq(text, from, Max(ends) - 1)
    BY <2>1, <2>2
  <2>5. from = b + 4 /\ Max(ends) - 1 = b + 4 + Len(x) - 1
    BY <1>2, <2>3
  <2> QED
    BY <2>4, <2>5, Zenon
<1>10. z = x
  <2>1. \A i \in b + 4 .. b + 4 + Len(x) - 1 : text[i] \in Character
    <3>1. \A i \in b + 4 .. b + 4 + Len(x) - 1 : i \in 1 .. Len(text)
      <4>1. Len(text) \in Nat
        BY <1>3, LenProperties DEF String
      <4> QED
        BY <1>2, <4>1
    <3> QED
      BY <1>3, <3>1, ElementOfSeq DEF String
  <2> DEFINE p == b + 4
             q == b + 4 + Len(x) - 1
  <2>2. p \in Int /\ q \in Int /\ q - p + 1 = Len(x) /\ p <= q
    BY <1>2, <1>4
  <2>3. \A i \in p .. q : text[i] \in Character
    BY <2>1
  <2>4. z = SubSeq(text, p, q)
    OBVIOUS
  <2>5. \A k \in 1 .. Len(x) : p + k - 1 = b + 3 + k
    BY <1>2
  <2> HIDE DEF p, q, z
  <2>6. /\ z \in Seq(Character) /\ Len(z) = Len(x)
        /\ \A k \in 1 .. Len(x) : z[k] = text[p + k - 1]
    <3>1. /\ SubSeq(text, p, q) \in Seq(Character)
          /\ Len(SubSeq(text, p, q)) = IF p <= q THEN q - p + 1 ELSE 0
          /\ \A k \in 1 .. q - p + 1 : SubSeq(text, p, q)[k] = text[p + k - 1]
      BY <2>2, <2>3, SubSeqProperties
    <3> QED
      BY <2>2, <2>4, <3>1
  <2>7. \A k \in 1 .. Len(x) : z[k] = x[k]
    BY <1>2, <2>5, <2>6
  <2> QED
    BY <1>3, <2>6, <2>7, SeqEqual DEF String
<1> QED
  BY <1>5, <1>9, <1>10 DEF text, t, x

-----------------------------------------------------------------------------
(* Think blocks, and what is saved of the other sections.                  *)

\* An answer without one of its sections.
Without(words, k) == [words EXCEPT ![k] = Nothing]

LEMMA WithoutIs ==
  ASSUME NEW words, Neat(words), NEW k \in 1 .. Len(words)
  PROVE  /\ Neat(Without(words, k)) /\ Len(Without(words, k)) = Len(words)
         /\ Without(words, k)[k] = Nothing
         /\ \A i \in 1 .. Len(words) : i # k => Without(words, k)[i] = words[i]
         /\ Render(Nothing) = <<>> /\ Nothing.tag = "none"
<1> DEFINE w == Without(words, k)
           n == Len(words)
<1>1. n \in Nat /\ DOMAIN words = 1 .. n /\ words \in [1 .. n -> Range(words)]
  BY LenProperties DEF Neat
<1>2. /\ w[k] = Nothing /\ \A i \in 1 .. n : i # k => w[i] = words[i]
      /\ w = [i \in 1 .. n |-> w[i]]
  BY <1>1 DEF Without
<1> HIDE DEF w
<1>3. w \in [1 .. n -> Range(w)]
  <2>1. DOMAIN w = 1 .. n
    BY <1>2
  <2>2. \A i \in 1 .. n : w[i] \in Range(w)
    BY <2>1 DEF Range
  <2> QED
    BY <1>2, <2>2
<1>4. w \in Seq(Range(w)) /\ Len(w) = n
  BY <1>1, <1>3
<1>5. Clean(Nothing) /\ ~Tagged(Nothing) /\ ~Bare(Nothing)
  <2>1. Nothing.tag = "none" /\ Nothing.text = <<>>
    BY DEF Nothing
  <2>2. <<>> \in String
    BY EmptyJoins
  <2> QED
    BY <2>1, <2>2, NoPositionsInNothing DEF Clean, Tagged, Bare
<1>6. \A i \in 1 .. n : Clean(w[i])
  BY <1>2, <1>5 DEF Neat
<1>7. ASSUME NEW i \in 1 .. n, NEW j \in 1 .. n, i # j, Tagged(w[i])
      PROVE  w[i].tag # w[j].tag
  <2>1. i # k /\ w[i] = words[i]
    BY <1>2, <1>5, <1>7
  <2>2. CASE j = k
    BY <1>2, <1>5, <1>7, <2>2 DEF Tagged
  <2>3. CASE j # k
    <3>1. w[j] = words[j]
      BY <1>2, <2>3
    <3> QED
      BY <1>7, <2>1, <3>1 DEF Neat
  <2> QED
    BY <2>2, <2>3
<1>8. ASSUME NEW i \in 1 .. n, NEW j \in 1 .. n, i # j, Bare(w[i])
      PROVE  ~Bare(w[j])
  <2>1. i # k /\ w[i] = words[i]
    BY <1>2, <1>5, <1>8
  <2>2. CASE j = k
    BY <1>2, <1>5, <2>2
  <2>3. CASE j # k
    <3>1. w[j] = words[j]
      BY <1>2, <2>3
    <3> QED
      BY <1>8, <2>1, <3>1 DEF Neat
  <2> QED
    BY <2>2, <2>3
<1>9. Neat(w)
  BY <1>4, <1>6, <1>7, <1>8 DEF Neat
<1>10. Render(Nothing) = <<>> /\ Nothing.tag = "none"
  BY DEF Render, Nothing
<1> QED
  BY <1>2, <1>4, <1>9, <1>10 DEF w

\* The text without a section is what is around it.
Spliced(words, k, a, y) == Text(Without(words, k)) = a \o y

LEMMA CutsOfWithout ==
  ASSUME NEW words, NEW head, NEW tail, Neat(words), Cut(words, head, tail),
         NEW k \in 1 .. Len(words)
  PROVE  Spliced(words, k, head[k - 1], tail[k])
<1> DEFINE w == Without(words, k)
           n == Len(words)
<1>1. /\ Neat(w) /\ Len(w) = n /\ w[k] = Nothing
      /\ \A i \in 1 .. n : i # k => w[i] = words[i]
      /\ Render(Nothing) = <<>>
  BY WithoutIs
<1> HIDE DEF w
<1>2. PICK g, y : Cut(w, g, y)
  BY <1>1, CutExists
<1>3. /\ n \in Nat /\ k \in 0 .. n /\ k - 1 \in 0 .. n
      /\ \A j \in 0 .. n : head[j] \in String /\ tail[j] \in String
      /\ head[0] = StartMarker /\ tail[n] = EndMarker
      /\ \A j \in 1 .. n : head[j] = head[j - 1] \o Render(words[j])
      /\ \A j \in 1 .. n : tail[j - 1] = Render(words[j]) \o tail[j]
  BY CutTyped DEF Cut
<1>4. /\ \A j \in 0 .. n : g[j] \in String /\ y[j] \in String
      /\ g[0] = StartMarker /\ y[n] = EndMarker
      /\ \A j \in 1 .. n : g[j] = g[j - 1] \o Render(w[j])
      /\ \A j \in 1 .. n : y[j - 1] = Render(w[j]) \o y[j]
      /\ Text(w) = g[k] \o y[k]
  BY <1>1, <1>2, <1>3, CutTyped DEF Cut
<1> HIDE DEF n
<1>k. k \in 1 .. n
  BY DEF n
<1> DEFINE T == {j \in 0 .. k - 1 : g[j] # head[j]}
<1>5. T = {}
  <2>1. SUFFICES ASSUME T # {}
                 PROVE  FALSE
    OBVIOUS
  <2>2. PICK j \in T : \A m \in T : j <= m
    <3>1. T \in SUBSET Nat
      OBVIOUS
    <3> QED
      BY <2>1, <3>1, Least
  <2>3. j \in 0 .. k - 1 /\ g[j] # head[j]
    OBVIOUS
  <2>4. j # 0
    BY <1>3, <1>4, <2>3
  <2>5. j \in 1 .. n /\ j # k /\ j - 1 \in 0 .. k - 1 /\ j - 1 < j
    BY <1>3, <1>k, <2>3, <2>4
  <2>6. j - 1 \notin T
    <3> HIDE DEF T
    <3> QED
      BY <1>3, <2>2, <2>3, <2>5
  <2>7. g[j - 1] = head[j - 1]
    BY <2>5, <2>6
  <2>8. Render(w[j]) = Render(words[j])
    BY <1>1, <2>5 DEF n
  <2> HIDE DEF T
  <2> QED
    BY <1>3, <1>4, <2>3, <2>5, <2>7, <2>8
<1> DEFINE U == {j \in 0 .. n - k : y[n - j] # tail[n - j]}
<1>6. U = {}
  <2>1. SUFFICES ASSUME U # {}
                 PROVE  FALSE
    OBVIOUS
  <2>2. PICK j \in U : \A m \in U : j <= m
    <3>1. U \in SUBSET Nat
      OBVIOUS
    <3> QED
      BY <2>1, <3>1, Least
  <2>3. j \in 0 .. n - k /\ y[n - j] # tail[n - j]
    OBVIOUS
  <2>4. j # 0
    <3>1. n - 0 = n
      BY <1>3
    <3> QED
      BY <1>3, <1>4, <2>3, <3>1
  <2> DEFINE i == n - j + 1
  <2>5. i \in 1 .. n /\ i # k /\ j - 1 \in 0 .. n - k /\ j - 1 < j /\ n - (j - 1) = i /\ n - j = i - 1
    BY <1>3, <1>k, <2>3, <2>4
  <2> HIDE DEF i
  <2>6. j - 1 \notin U
    <3> HIDE DEF U
    <3> QED
      BY <1>3, <2>2, <2>3, <2>5
  <2>7. y[i] = tail[i]
    BY <2>5, <2>6
  <2>8. Render(w[i]) = Render(words[i])
    BY <1>1, <2>5 DEF n
  <2> HIDE DEF U
  <2> QED
    BY <1>3, <1>4, <2>3, <2>5, <2>7, <2>8
<1>7. g[k - 1] = head[k - 1]
  <2>1. k - 1 \in 0 .. k - 1
    BY <1>3, <1>k
  <2> QED
    BY <1>5, <2>1
<1>8. y[k] = tail[k]
  <2>1. n - k \in 0 .. n - k /\ n - (n - k) = k
    BY <1>3, <1>k
  <2> QED
    BY <1>6, <2>1
<1>9. g[k] = g[k - 1]
  <2>1. g[k] = g[k - 1] \o <<>> /\ g[k - 1] \in String
    BY <1>1, <1>3, <1>4, <1>k
  <2> QED
    BY <2>1, EmptyJoins
<1> QED
  BY <1>4, <1>7, <1>8, <1>9 DEF w, Spliced

LEMMA PrefixOfConcat ==
  ASSUME NEW a \in String, NEW b \in String
  PROVE  SubSeq(a \o b, 1, Len(a)) = a
<1> DEFINE ab == a \o b
           r == SubSeq(ab, 1, Len(a))
<1>1. /\ Len(a) \in Nat /\ Len(b) \in Nat
      /\ ab \in String /\ Len(ab) = Len(a) + Len(b)
      /\ \A x \in 1 .. Len(a) : ab[x] = a[x]
  BY Concat
<1> HIDE DEF ab
<1>2. \A i \in 1 .. Len(a) : ab[i] \in Character
  BY <1>1, ElementOfSeq DEF String
<1>3. /\ r \in Seq(Character)
      /\ Len(r) = IF 1 <= Len(a) THEN Len(a) - 1 + 1 ELSE 0
      /\ \A x \in 1 .. Len(a) - 1 + 1 : r[x] = ab[1 + x - 1]
  BY <1>1, <1>2, SubSeqProperties
<1> HIDE DEF r
<1>4. Len(r) = Len(a)
  BY <1>1, <1>3
<1>5. ASSUME NEW x \in 1 .. Len(a)
      PROVE  r[x] = a[x]
  <2>1. x \in 1 .. Len(a) - 1 + 1 /\ 1 + x - 1 = x
    BY <1>1
  <2> QED
    BY <1>1, <1>3, <2>1
<1>6. r = a
  BY <1>3, <1>4, <1>5, SeqEqual DEF String
<1> QED
  BY <1>6 DEF r, ab

LEMMA StripsNone ==
  ASSUME NEW words, Neat(words), \A i \in 1 .. Len(words) : words[i].tag # Think
  PROVE  StripThinkBlock(Text(words)) = Text(words)
<1>1. Positions(Text(words), OpenTag(Think)) = {}
  <2>1. Think \in Tags \cup {Think} /\ OpenTag(Think) \in MarksOf(Think)
    BY DEF MarksOf
  <2> QED
    BY <2>1, TextWithout
<1> QED
  BY <1>1 DEF StripThinkBlock, Has

LEMMA StripsOne ==
  ASSUME NEW words, Neat(words), NEW k \in 1 .. Len(words), words[k].tag = Think
  PROVE  StripThinkBlock(Text(words)) = Text(Without(words, k))
<1>1. PICK head, tail : Cut(words, head, tail)
  BY CutExists
<1>c. Spliced(words, k, head[k - 1], tail[k])
  BY <1>1, CutsOfWithout
<1> DEFINE x == words[k].text
           a == head[k - 1]
           ar == head[k]
           y == tail[k]
           z == tail[k - 1]
           b == Len(a)
           text == Text(words)
<1>t. Tagged(words[k])
  BY DEF Tagged, Think
<1>2. FoundAt(words, Think, x, b)
  BY <1>1, <1>t, SectionFound
<1>3. /\ a \in String /\ ar \in String /\ y \in String /\ z \in String /\ text \in String
      /\ Clean(words[k]) /\ Render(words[k]) \in String
      /\ text = a \o z /\ text = ar \o y /\ ar = a \o Render(words[k])
  <2>1. /\ k \in 0 .. Len(words) /\ k - 1 \in 0 .. Len(words) /\ Clean(words[k])
        /\ a \in String /\ ar \in String /\ y \in String /\ z \in String /\ text \in String
        /\ Render(words[k]) \in String
    BY <1>1, CutTyped
  <2> QED
    BY <1>1, <2>1 DEF Cut
<1>4. Len(Render(words[k])) = 7 + Len(words[k].text)
  <2> DEFINE t == words[k].tag
             u == words[k].text
             w == (OpenTag(t) \o u) \o ShutTag(t)
  <2>1. /\ t \in Tags \cup {Think} /\ Render(words[k]) = w
        /\ w \in String /\ Len(w) = 7 + Len(u)
    BY <1>3, <1>t, TaggedRender, Zenon
  <2> QED
    BY <2>1
<1> HIDE DEF x, a, ar, y, z, b, text
<1>5. /\ b \in Nat /\ Len(x) \in Nat
      /\ Positions(text, OpenTag(Think)) = {b + 1}
      /\ Positions(text, ShutTag(Think)) = {b + 4 + Len(x)}
  BY <1>2 DEF FoundAt, text
<1>6. Len(ar) = b + (7 + Len(x))
  <2>1. Len(ar) = Len(a) + Len(Render(words[k]))
    BY <1>3, Concat
  <2> QED
    BY <1>4, <2>1 DEF b, x
<1>7. SubSeq(text, 1, b) = a
  BY <1>3, PrefixOfConcat DEF b
<1>8. Rest(text, Len(ar) + 1) = y
  <2>1. ar \in String /\ y \in String /\ text = ar \o y
    BY <1>3
  <2>2. Rest(ar \o y, Len(ar) + 1) = y
    BY <2>1, RestOfConcat
  <2> QED
    BY <2>1, <2>2
<1> DEFINE from == Min(Positions(text, OpenTag(Think)))
           ends == {i \in Positions(text, ShutTag(Think)) : i > from}
           before == SubSeq(text, 1, from - 1)
<1>9. Has(text, OpenTag(Think))
  BY <1>5 DEF Has
<1>10. StripThinkBlock(text) =
         IF ends = {} THEN before ELSE before \o SubSeq(text, Min(ends) + 4, Len(text))
  BY <1>9 DEF StripThinkBlock
<1>11. from = b + 1
  <2>1. b + 1 \in Nat
    BY <1>5
  <2> QED
    BY <1>5, <2>1, OnlyOne
<1>12. ends = {b + 4 + Len(x)}
  <2> HIDE DEF from
  <2>1. b + 4 + Len(x) > from
    BY <1>5, <1>11
  <2> QED
    BY <1>5, <2>1
<1> HIDE DEF ends
<1>13. Min(ends) + 4 = Len(ar) + 1
  <2>1. b + 4 + Len(x) \in Nat
    BY <1>5
  <2>2. Min(ends) = b + 4 + Len(x)
    BY <1>12, <2>1, OnlyOne
  <2> QED
    BY <1>5, <1>6, <2>2
<1>14. before = a
  <2> HIDE DEF from
  <2>1. from - 1 = b
    BY <1>5, <1>11
  <2> QED
    BY <1>7, <2>1
<1> HIDE DEF before
<1>15. StripThinkBlock(text) = a \o y
  <2>1. ends # {}
    BY <1>12
  <2>2. SubSeq(text, Min(ends) + 4, Len(text)) = y
    BY <1>8, <1>13 DEF Rest
  <2> QED
    BY <1>10, <1>14, <2>1, <2>2
<1>16. Text(Without(words, k)) = a \o y
  BY <1>c DEF a, y, Spliced
<1> QED
  BY <1>15, <1>16 DEF text

LEMMA Rounds ==
  ASSUME NEW text \in String, Len(text) >= 1, NEW raw,
         StripThinkBlock(text) = raw, StripThinkBlock(raw) = raw
  PROVE  StripThinkBlocks(text) = raw
<1> DEFINE L == Len(text)
           Strips(f) == f = [n \in 0 .. L |-> IF n = 0 THEN text ELSE StripThinkBlock(f[n - 1])]
           F == CHOOSE f : Strips(f)
<1>1. L \in Nat /\ L >= 1
  BY LenProperties DEF String
<1>2. StripThinkBlocks(text) = F[L]
  BY DEF StripThinkBlocks
<1> HIDE DEF L
<1> DEFINE W == [n \in 0 .. L |-> IF n = 0 THEN text ELSE raw]
<1>3. Strips(W)
  <2>1. ASSUME NEW n \in 0 .. L, n # 0
        PROVE  StripThinkBlock(W[n - 1]) = raw
    <3>1. n - 1 \in 0 .. L
      BY <1>1, <2>1
    <3>2. W[n - 1] = text \/ W[n - 1] = raw
      BY <3>1
    <3> QED
      BY <3>2
  <2> QED
    BY <2>1
<1>4. Strips(F)
  BY <1>3
<1> HIDE DEF F
<1>5. F[0] = text /\ \A n \in 1 .. L : F[n] = StripThinkBlock(F[n - 1])
  BY <1>1, <1>4
<1> HIDE DEF Strips
<1> DEFINE T == {n \in 1 .. L : F[n] # raw}
<1>6. T = {}
  <2>1. SUFFICES ASSUME T # {}
                 PROVE  FALSE
    OBVIOUS
  <2>2. PICK n \in T : \A m \in T : n <= m
    <3>1. T \in SUBSET Nat
      OBVIOUS
    <3> QED
      BY <2>1, <3>1, Least
  <2>3. n \in 1 .. L /\ F[n] # raw
    OBVIOUS
  <2>4. n - 1 \notin T
    <3> HIDE DEF T
    <3> QED
      BY <1>1, <2>2, <2>3
  <2>5. n = 1 \/ n - 1 \in 1 .. L
    BY <1>1, <2>3
  <2>6. F[n - 1] = text \/ F[n - 1] = raw
    BY <1>5, <2>4, <2>5
  <2> HIDE DEF T
  <2> QED
    BY <1>5, <2>3, <2>6
<1> QED
  BY <1>1, <1>2, <1>6

\* Without its think block the answer is the other sections.
LEMMA Stripped ==
  ASSUME NEW words, Neat(words)
  PROVE  \E kept :
           /\ Neat(kept) /\ Len(kept) = Len(words)
           /\ StripThinkBlocks(Text(words)) = Text(kept)
           /\ \A i \in 1 .. Len(words) : kept[i].tag # Think
           /\ \A i \in 1 .. Len(words) : words[i].tag # Think => kept[i] = words[i]
<1>1. Text(words) \in String /\ Len(Text(words)) >= 1
  <2>1. PICK head, tail : Cut(words, head, tail)
    BY CutExists
  <2>2. /\ 0 \in 0 .. Len(words) /\ tail[0] \in String /\ head[0] = StartMarker
        /\ Text(words) \in String
    BY <2>1, CutTyped
  <2>3. Text(words) = StartMarker \o tail[0]
    BY <2>1, <2>2 DEF Cut
  <2>4. StartMarker \in String /\ Len(StartMarker) \in 3 .. 4
    BY MarksDiffer, MarkShape
  <2> DEFINE u == StartMarker
             v == tail[0]
             text == Text(words)
  <2>5. u \in String /\ v \in String /\ text \in String /\ Len(u) \in 3 .. 4
    BY <2>2, <2>4
  <2>6. text = u \o v
    BY <2>3
  <2> HIDE DEF u, v, text
  <2>7. Len(u \o v) = Len(u) + Len(v) /\ Len(v) \in Nat
    BY <2>5, Concat
  <2>8. Len(text) >= 1
    BY <2>5, <2>6, <2>7
  <2> QED
    BY <2>5, <2>8 DEF text
<1>2. CASE \A i \in 1 .. Len(words) : words[i].tag # Think
  <2>1. StripThinkBlock(Text(words)) = Text(words)
    BY <1>2, StripsNone
  <2>2. StripThinkBlocks(Text(words)) = Text(words)
    BY <1>1, <2>1, Rounds
  <2> QED
    BY <1>2, <2>2
<1>3. CASE \E k \in 1 .. Len(words) : words[k].tag = Think
  <2>1. PICK k \in 1 .. Len(words) : words[k].tag = Think
    BY <1>3
  <2> DEFINE kept == Without(words, k)
  <2>2. /\ Neat(kept) /\ Len(kept) = Len(words) /\ kept[k] = Nothing
        /\ \A i \in 1 .. Len(words) : i # k => kept[i] = words[i]
        /\ Nothing.tag = "none"
    BY WithoutIs
  <2> HIDE DEF kept
  <2>3. \A i \in 1 .. Len(words) : kept[i].tag # Think
    <3>1. Tagged(words[k])
      BY <2>1 DEF Tagged, Think
    <3>2. \A i \in 1 .. Len(words) : i # k => words[i].tag # Think
      BY <2>1, <3>1 DEF Neat
    <3>3. Nothing.tag # Think
      BY <2>2 DEF Think
    <3> QED
      BY <2>2, <3>2, <3>3
  <2>4. StripThinkBlock(Text(words)) = Text(kept)
    BY <2>1, StripsOne DEF kept
  <2>5. StripThinkBlock(Text(kept)) = Text(kept)
    BY <2>2, <2>3, StripsNone
  <2>6. StripThinkBlocks(Text(words)) = Text(kept)
    BY <1>1, <2>4, <2>5, Rounds
  <2> QED
    BY <2>1, <2>2, <2>3, <2>6
<1> QED
  BY <1>2, <1>3

\* What is saved of a visible section that is not empty is its text; of an empty
\* one it begins with the closing tag.
LEMMA SavedIs ==
  ASSUME NEW words, Neat(words), NEW m \in 1 .. Len(words), words[m].tag \in Visible
  PROVE  LET saved == ParseResponse(Text(words))[words[m].tag]
         IN IF words[m].text # <<>> THEN saved = words[m].text
            ELSE IsPrefix(ShutTag(words[m].tag), saved)
<1>1. PICK kept :
        /\ Neat(kept) /\ Len(kept) = Len(words)
        /\ StripThinkBlocks(Text(words)) = Text(kept)
        /\ \A i \in 1 .. Len(words) : kept[i].tag # Think
        /\ \A i \in 1 .. Len(words) : words[i].tag # Think => kept[i] = words[i]
  BY Stripped
<1>2. /\ words[m].tag # Think /\ words[m].tag \in Tags /\ words[m].tag # "none"
  BY DEF Visible, Think, Tags
<1>3. kept[m] = words[m] /\ m \in 1 .. Len(kept)
  BY <1>1, <1>2
<1>4. Tagged(kept[m])
  BY <1>2, <1>3 DEF Tagged
<1>5. /\ Has(Text(kept), OpenTag(words[m].tag)) /\ Has(Text(kept), ShutTag(words[m].tag))
      /\ IF words[m].text # <<>> THEN ExtractBetween(Text(kept), words[m].tag) = words[m].text
         ELSE IsPrefix(ShutTag(words[m].tag), ExtractBetween(Text(kept), words[m].tag))
  BY <1>1, <1>3, <1>4, Extracted, ExtractedEmpty
<1>6. Structured(Text(kept))
  BY <1>5 DEF Structured
<1>7. ParseResponse(Text(words)) = [t \in Tags |-> ExtractBetween(Text(kept), t)]
  BY <1>1, <1>6 DEF ParseResponse
<1>8. ParseResponse(Text(words))[words[m].tag] = ExtractBetween(Text(kept), words[m].tag)
  BY <1>2, <1>7
<1> QED
  BY <1>5, <1>8

-----------------------------------------------------------------------------
(* The filter, section by section.                                         *)

\* A tag of the filter at the beginning of what it is fed.
LEMMA MarkTag ==
  ASSUME NEW p \in Marks
  PROVE  ClosedAt(p, 1) # {} /\ TagAt(p, 1) = p
<1>1. /\ p \in String /\ Len(p) \in 3 .. 4
      /\ p[Len(p)] = ">" /\ \A k \in 1 .. Len(p) - 1 : p[k] # ">"
  BY MarkShape
<1>2. ClosedAt(p, 1) = {Len(p)}
  <2>1. Len(p) \in 1 .. Len(p)
    BY <1>1
  <2>2. \A k \in 1 .. Len(p) : k = Len(p) \/ k \in 1 .. Len(p) - 1
    BY <1>1
  <2> QED
    BY <1>1, <2>1, <2>2 DEF ClosedAt
<1>3. Min(ClosedAt(p, 1)) = Len(p)
  <2>1. Len(p) \in Nat
    BY <1>1
  <2> QED
    BY <1>2, <2>1, OnlyOne
<1>4. SubSeq(p, 1, Len(p)) = p
  BY <1>1, SubSeqFull DEF String
<1> QED
  BY <1>2, <1>3, <1>4 DEF TagAt

LEMMA TagsAreMarks ==
  ASSUME NEW p, IsTag(p)
  PROVE  p \in Marks
  BY DEF IsTag, Marks

LEMMA FedMark ==
  ASSUME NEW p, IsTag(p), NEW y \in String, NEW s \in FilterStates
  PROVE  Feed(p \o y, s) = Feed(y, Transition(p))
<1> DEFINE input == p \o y
<1>1. p \in Marks /\ p \in String /\ Len(p) \in 3 .. 4 /\ p[1] = "<"
  BY TagsAreMarks, MarkShape
<1>2. /\ input \in String /\ Len(input) = Len(p) + Len(y) /\ input[1] = p[1]
      /\ ClosedAt(p, 1) # {} => ClosedAt(input, 1) # {} /\ TagAt(input, 1) = TagAt(p, 1)
  <2>1. Len(p) >= 1
    BY <1>1
  <2> QED
    BY <1>1, <2>1, Longer
<1>3. Len(y) \in Nat /\ Rest(input, Len(p) + 1) = y
  BY <1>1, RestOfConcat, LenProperties DEF String
<1> HIDE DEF input
<1>4. ClosedAt(input, 1) # {} /\ TagAt(input, 1) = p
  BY <1>1, <1>2, MarkTag
<1>5. ~Stops(input, 1) /\ StartsTag(input, 1)
  <2>1. ~(1 > Len(input))
    BY <1>1, <1>2, <1>3
  <2> QED
    BY <1>1, <1>2, <1>4, <2>1 DEF Stops, StartsTag
<1>6. Feed(input, s) = Feed(Rest(input, Len(TagAt(input, 1)) + 1), Transition(TagAt(input, 1)))
  BY <1>2, <1>5, FeedTag
<1> QED
  BY <1>3, <1>4, <1>6 DEF input

\* The first character, and the others.
LEMMA RestsOf ==
  ASSUME NEW x \in String, Len(x) >= 1
  PROVE  /\ x[1] \in Character /\ Rest(x, 2) \in String
         /\ Len(Rest(x, 2)) = Len(x) - 1 /\ Len(x) \in Nat
         /\ \A i \in 1 .. Len(x) - 1 : Rest(x, 2)[i] = x[i + 1]
<1>1. Len(x) \in Nat
  BY LenProperties DEF String
<1>2. x[1] \in Character
  <2>1. 1 \in 1 .. Len(x)
    BY <1>1
  <2> QED
    BY <2>1, ElementOfSeq DEF String
<1> DEFINE r == Rest(x, 2)
<1>3. /\ r \in String /\ Len(r) = Len(x) + 1 - 2
      /\ \A i \in 1 .. Len(r) : r[i] = x[i + 2 - 1]
  <2>1. 2 \in 1 .. Len(x) + 1
    BY <1>1
  <2> QED
    BY <2>1, RestIs
<1> HIDE DEF r
<1>4. Len(r) = Len(x) - 1
  BY <1>1, <1>3
<1>5. ASSUME NEW i \in 1 .. Len(x) - 1
      PROVE  r[i] = x[i + 1]
  <2>1. i + 2 - 1 = i + 1 /\ i \in 1 .. Len(r)
    BY <1>4
  <2> QED
    BY <1>3, <2>1
<1> QED
  BY <1>1, <1>2, <1>3, <1>4, <1>5 DEF r

First(x) == <<x[1]>>

LEMMA FirstIs ==
  ASSUME NEW x, x[1] \in Character
  PROVE  First(x) \in String /\ Len(First(x)) = 1 /\ First(x)[1] = x[1]
<1> DEFINE c == x[1]
<1>1. First(x) = <<c>>
  BY DEF First
<1> HIDE DEF c
<1>2. <<>> \in Seq(Character) /\ Append(<<>>, c) \in Seq(Character)
  BY EmptySeq, AppendProperties DEF c
<1>3. Append(<<>>, c) = <<c>>
  OBVIOUS
<1>4. First(x) \in String /\ Len(First(x)) = 1 /\ First(x)[1] = c
  BY <1>1, <1>2, <1>3 DEF String
<1> QED
  BY <1>4 DEF c

LEMMA CharacterAndRest ==
  ASSUME NEW x \in String, Len(x) >= 1
  PROVE  First(x) \o Rest(x, 2) = x
<1> DEFINE o == First(x)
           r == Rest(x, 2)
<1>1. /\ x[1] \in Character /\ r \in String
      /\ Len(r) = Len(x) - 1 /\ Len(x) \in Nat
      /\ \A i \in 1 .. Len(x) - 1 : r[i] = x[i + 1]
  BY RestsOf
<1> HIDE DEF r
<1>3. o \in String /\ Len(o) = 1 /\ o[1] = x[1]
  BY <1>1, FirstIs
<1> HIDE DEF o
<1> DEFINE w == o \o r
<1>6. /\ w \in String /\ Len(w) = Len(o) + Len(r)
      /\ \A k \in 1 .. Len(o) : w[k] = o[k]
      /\ \A k \in 1 .. Len(r) : w[Len(o) + k] = r[k]
  BY <1>1, <1>3, Concat
<1> HIDE DEF w
<1>7. Len(w) = Len(x)
  BY <1>1, <1>3, <1>6
<1>8. ASSUME NEW k \in 1 .. Len(w)
      PROVE  w[k] = x[k]
  <2>1. CASE k = 1
    <3>1. 1 \in 1 .. Len(o)
      BY <1>3
    <3> QED
      BY <1>3, <1>6, <2>1, <3>1
  <2>2. CASE k # 1
    <3>1. k - 1 \in 1 .. Len(r) /\ Len(o) + (k - 1) = k /\ k - 1 + 1 = k /\ k - 1 \in 1 .. Len(x) - 1
      BY <1>1, <1>3, <1>7, <2>2
    <3>2. w[k] = r[k - 1] /\ r[k - 1] = x[k]
      <4>1. w[Len(o) + (k - 1)] = r[k - 1] /\ r[k - 1] = x[k - 1 + 1]
        BY <1>1, <1>6, <3>1
      <4> QED
        BY <3>1, <4>1
    <3> QED
      BY <3>2
  <2> QED
    BY <2>1, <2>2
<1>9. w = x
  BY <1>6, <1>7, <1>8, SeqEqual DEF String
<1>10. First(x) \o Rest(x, 2) = w
  BY DEF w, o, r
<1> QED
  BY <1>9, <1>10

\* No tag of the filter in a text.
Untagged(text) == \A p : IsTag(p) => Positions(text, p) = {}

LEMMA UntaggedRest ==
  ASSUME NEW x \in String, Len(x) >= 1, Untagged(x)
  PROVE  Untagged(Rest(x, 2))
<1> DEFINE r == Rest(x, 2)
<1>1. /\ r \in String /\ Len(r) = Len(x) - 1 /\ Len(x) \in Nat
      /\ \A i \in 1 .. Len(x) - 1 : r[i] = x[i + 1]
  BY RestsOf
<1> HIDE DEF r
<1>2. ASSUME NEW p, IsTag(p), NEW i \in Positions(r, p)
      PROVE  FALSE
  <2>1. p \in String /\ Len(p) \in 3 .. 4
    BY <1>2, TagsAreMarks, MarkShape
  <2>2. i \in 1 .. Len(r) /\ i + Len(p) - 1 <= Len(r) /\ \A k \in 1 .. Len(p) : r[i + k - 1] = p[k]
    BY <1>1, <2>1, PositionsAre DEF Found
  <2>3. i + 1 \in 1 .. Len(x) /\ i + 1 + Len(p) - 1 <= Len(x)
    BY <1>1, <2>1, <2>2
  <2>4. ASSUME NEW k \in 1 .. Len(p)
        PROVE  x[i + 1 + k - 1] = p[k]
    <3>1. i + k - 1 \in 1 .. Len(x) - 1 /\ i + k - 1 + 1 = i + 1 + k - 1
      BY <1>1, <2>1, <2>2
    <3>2. r[i + k - 1] = x[i + k - 1 + 1]
      BY <1>1, <3>1
    <3> QED
      BY <2>2, <3>1, <3>2
  <2>5. i + 1 \in Positions(x, p)
    BY <2>1, <2>3, <2>4, PositionsAre DEF Found
  <2> QED
    BY <1>2, <2>5 DEF Untagged
<1>3. \A p : IsTag(p) => Positions(r, p) = {}
  <2>1. ASSUME NEW p, IsTag(p)
        PROVE  Positions(r, p) = {}
    BY <1>2, <2>1
  <2> QED
    BY <2>1
<1> QED
  BY <1>3 DEF Untagged, r

HasEnd(text) == \E i \in 1 .. Len(text) : text[i] = ">"

LEMMA HasEndJoin ==
  ASSUME NEW a \in String, NEW b \in String, HasEnd(b)
  PROVE  HasEnd(a \o b)
<1>1. PICK i \in 1 .. Len(b) : b[i] = ">"
  BY DEF HasEnd
<1> DEFINE ab == a \o b
<1>2. /\ Len(a) \in Nat /\ Len(b) \in Nat /\ Len(ab) = Len(a) + Len(b)
      /\ \A x \in 1 .. Len(b) : ab[Len(a) + x] = b[x]
  BY Concat
<1> HIDE DEF ab
<1>3. Len(a) + i \in 1 .. Len(ab) /\ ab[Len(a) + i] = ">"
  BY <1>1, <1>2
<1>4. HasEnd(ab)
  BY <1>3 DEF HasEnd
<1> QED
  BY <1>4 DEF ab

\* What the filter lets through of a text without tags.
Passed(x, s) == IF Streamable(s) THEN x ELSE <<>>

LEMMA PassedIs ==
  ASSUME NEW x \in String, NEW s
  PROVE  Passed(x, s) \in String /\ Passed(<<>>, s) = <<>>
  BY EmptyJoins DEF Passed

LEMMA PassedGrows ==
  ASSUME NEW x \in String, Len(x) >= 1, NEW s, NEW z \in String
  PROVE  Emit(x[1], s) \o (Passed(Rest(x, 2), s) \o z) = Passed(x, s) \o z
<1>1. x[1] \in Character /\ Rest(x, 2) \in String
  BY RestsOf
<1>2. First(x) \in String
  BY <1>1, FirstIs
<1>3. First(x) \o Rest(x, 2) = x
  BY CharacterAndRest
<1>4. CASE Streamable(s)
  <2>1. Emit(x[1], s) = First(x)
    BY <1>4 DEF Emit, First
  <2>2. Passed(Rest(x, 2), s) = Rest(x, 2) /\ Passed(x, s) = x
    BY <1>4 DEF Passed
  <2>3. First(x) \o (Rest(x, 2) \o z) = (First(x) \o Rest(x, 2)) \o z
    BY <1>1, <1>2, Assoc
  <2> QED
    BY <1>3, <2>1, <2>2, <2>3
<1>5. CASE ~Streamable(s)
  <2>1. Emit(x[1], s) = <<>>
    BY <1>5 DEF Emit
  <2>2. Passed(Rest(x, 2), s) = <<>> /\ Passed(x, s) = <<>>
    BY <1>5 DEF Passed
  <2>3. <<>> \o z = z
    BY EmptyJoins
  <2> QED
    BY <2>1, <2>2, <2>3
<1> QED
  BY <1>4, <1>5

FedOver(x, y, s) ==
  Feed(x \o y, s) = [out |-> Passed(x, s) \o Feed(y, s).out, at |-> Feed(y, s).at, hold |-> Feed(y, s).hold]

LEMMA FedText ==
  ASSUME NEW word \in String, NEW y \in String, NEW s \in FilterStates,
         Untagged(word), Meets(word, y), HasEnd(y)
  PROVE  FedOver(word, y, s)
<1> DEFINE T == {n \in Nat : \E x \in String :
                   Len(x) = n /\ Untagged(x) /\ Meets(x, y) /\ ~FedOver(x, y, s)}
           r == Feed(y, s)
<1>1. r \in FeedRecord /\ r.out \in String
  <2>1. r \in FeedRecord
    BY FeedTyped DEF FedTyped
  <2> QED
    BY <2>1 DEF FeedRecord
<1>2. r = [out |-> r.out, at |-> r.at, hold |-> r.hold]
  <2> HIDE DEF r
  <2> QED
    BY <1>1 DEF FeedRecord
<1>3. T = {}
  <2>1. SUFFICES ASSUME T # {}
                 PROVE  FALSE
    OBVIOUS
  <2>2. PICK n \in T : \A m \in T : n <= m
    <3>1. T \in SUBSET Nat
      OBVIOUS
    <3> QED
      BY <2>1, <3>1, Least
  <2>3. PICK x \in String : Len(x) = n /\ Untagged(x) /\ Meets(x, y) /\ ~FedOver(x, y, s)
    OBVIOUS
  <2>4. n \in Nat
    OBVIOUS
  <2>5. CASE n = 0
    <3>1. x = <<>>
      BY <2>3, <2>5, EmptySeq DEF String
    <3>2. x \o y = y /\ Passed(x, s) \o r.out = r.out
      <4>1. Passed(x, s) = <<>>
        BY <3>1, PassedIs
      <4> HIDE DEF r
      <4> QED
        BY <1>1, <3>1, <4>1, EmptyJoins
    <3> QED
      BY <1>2, <2>3, <3>2 DEF FedOver
  <2>6. CASE n # 0
    <3> DEFINE input == x \o y
               rest == Rest(x, 2)
    <3>1. /\ Len(x) >= 1 /\ Len(x) \in Nat /\ x[1] \in Character /\ rest \in String
          /\ Len(rest) = n - 1 /\ \A i \in 1 .. Len(x) - 1 : rest[i] = x[i + 1]
      <4>1. Len(x) >= 1
        BY <2>3, <2>4, <2>6
      <4> QED
        BY <2>3, <4>1, RestsOf
    <3> HIDE DEF T
    <3>2. n - 1 \notin T
      BY <2>2, <2>4, <2>6
    <3> USE DEF T
    <3>3. Untagged(rest)
      BY <2>3, <3>1, UntaggedRest
    <3>4. Meets(rest, y)
      <4> HIDE DEF rest
      <4>1. CASE n = 1
        <5>1. rest = <<>>
          BY <3>1, <4>1, EmptySeq DEF String
        <5> QED
          BY <5>1 DEF Meets
      <4>2. CASE n # 1
        <5>1. Len(rest) \in 1 .. Len(x) - 1 /\ Len(rest) + 1 = Len(x)
          BY <2>3, <2>4, <2>6, <3>1, <4>2
        <5>2. rest[Len(rest)] = x[Len(x)] /\ x # <<>>
          BY <3>1, <5>1
        <5> QED
          BY <2>3, <5>2 DEF Meets
      <4> QED
        BY <4>1, <4>2
    <3>5. FedOver(rest, y, s)
      <4>1. n - 1 \in Nat
        BY <2>4, <2>6
      <4> HIDE DEF rest
      <4> QED
        BY <3>1, <3>2, <3>3, <3>4, <4>1
    <3>6. /\ input \in String /\ Len(input) = Len(x) + Len(y) /\ Len(y) \in Nat
          /\ input[1] = x[1] /\ Rest(input, 2) = rest \o y
      <4>1. /\ input \in String /\ Len(input) = Len(x) + Len(y) /\ input[1] = x[1]
            /\ \A k \in 0 .. Len(x) : Rest(input, k + 1) = Rest(x, k + 1) \o y
        BY <3>1, Longer
      <4>2. 1 \in 0 .. Len(x) /\ 1 + 1 = 2
        BY <3>1
      <4>3. Rest(input, 2) = rest \o y
        BY <4>1, <4>2
      <4>4. Len(y) \in Nat
        BY LenProperties DEF String
      <4> QED
        BY <4>1, <4>3, <4>4
    <3>7. HasEnd(input)
      BY HasEndJoin
    <3>8. \A p : IsTag(p) => 1 \notin Positions(input, p)
      <4>1. ASSUME NEW p, IsTag(p)
            PROVE  1 \notin Positions(input, p)
        <5>1. p \in Marks /\ p \in String
          BY <4>1, TagsAreMarks, MarkShape
        <5>2. Positions(input, p) = Positions(x, p) \cup {Len(x) + i : i \in Positions(y, p)}
          BY <2>3, <5>1, PositionsJoin
        <5>3. Positions(x, p) = {}
          BY <2>3, <4>1 DEF Untagged
        <5>4. \A i \in Positions(y, p) : i \in 1 .. Len(y)
          BY DEF Positions
        <5>5. \A i \in Positions(y, p) : Len(x) + i # 1
          BY <3>1, <3>6, <5>4
        <5> HIDE DEF input
        <5> QED
          BY <5>2, <5>3, <5>5
      <4> QED
        BY <4>1
    <3> HIDE DEF input
    <3>9. ClosedAt(input, 1) # {} /\ ~Stops(input, 1)
      <4>1. ClosedAt(input, 1) # {}
        BY <3>7 DEF HasEnd, ClosedAt
      <4>2. ~(1 > Len(input))
        BY <3>1, <3>6
      <4> QED
        BY <4>1, <4>2 DEF Stops
    <3>10. ~StartsTag(input, 1)
      <4>1. SUFFICES ASSUME StartsTag(input, 1)
                     PROVE  FALSE
        OBVIOUS
      <4> DEFINE t == TagAt(input, 1)
      <4>2. IsTag(t)
        BY <4>1 DEF StartsTag
      <4>3. 1 \in 1 .. Len(input)
        BY <3>1, <3>6
      <4>4. /\ t \in String
            /\ \A k \in 1 .. Len(t) : t[k] = input[k + 1 - 1]
            /\ 1 + Len(t) \in 1 + 1 .. Len(input) + 1
        BY <3>6, <3>9, <4>3, TagIs
      <4> HIDE DEF t
      <4>5. Len(t) \in Nat /\ \A k \in 1 .. Len(t) : k + 1 - 1 = 1 + k - 1
        BY <4>4, LenProperties DEF String
      <4>6. Found(input, t, 1)
        <5>1. 1 + Len(t) - 1 <= Len(input)
          BY <3>1, <3>6, <4>4, <4>5
        <5>2. \A k \in 1 .. Len(t) : input[1 + k - 1] = t[k]
          BY <4>4, <4>5
        <5> QED
          BY <5>1, <5>2 DEF Found
      <4>7. 1 \in Positions(input, t)
        BY <3>6, <4>3, <4>4, <4>6, PositionsAre
      <4> QED
        BY <3>8, <4>2, <4>7
    <3>11. Feed(input, s) = [Feed(rest \o y, s) EXCEPT !.out = Emit(x[1], s) \o @]
      <4>1. Feed(input, s) = [Feed(Rest(input, 2), s) EXCEPT !.out = Emit(input[1], s) \o @]
        BY <3>6, <3>9, <3>10, FeedText
      <4> QED
        BY <3>6, <4>1
    <3>12. Feed(rest \o y, s) = [out |-> Passed(rest, s) \o r.out, at |-> r.at, hold |-> r.hold]
      BY <3>5 DEF FedOver
    <3>13. Emit(x[1], s) \o (Passed(rest, s) \o r.out) = Passed(x, s) \o r.out
      <4> DEFINE z == r.out
      <4>1. z \in String /\ x \in String /\ Len(x) >= 1
        BY <1>1, <3>1
      <4> HIDE DEF z
      <4>2. Emit(x[1], s) \o (Passed(Rest(x, 2), s) \o z) = Passed(x, s) \o z
        BY <4>1, PassedGrows
      <4> QED
        BY <4>2 DEF z
    <3> HIDE DEF rest
    <3>14. Feed(input, s) = [out |-> Passed(x, s) \o r.out, at |-> r.at, hold |-> r.hold]
      <4> HIDE DEF r
      <4> DEFINE e == Emit(x[1], s)
                 g == Passed(rest, s) \o r.out
                 f == Feed(rest \o y, s)
      <4>1. f = [out |-> g, at |-> r.at, hold |-> r.hold]
        BY <3>12
      <4>2. Feed(input, s) = [f EXCEPT !.out = e \o @]
        BY <3>11
      <4> HIDE DEF e, g, f
      <4>3. Feed(input, s) = [out |-> e \o g, at |-> r.at, hold |-> r.hold]
        BY <4>1, <4>2
      <4>4. e \o g = Passed(x, s) \o r.out
        BY <3>13 DEF e, g
      <4> QED
        BY <4>3, <4>4
    <3>15. FedOver(x, y, s)
      BY <3>14 DEF FedOver, input
    <3> QED
      BY <2>3, <3>15
  <2> QED
    BY <2>5, <2>6
<1>4. Len(word) \in Nat
  BY LenProperties DEF String
<1> QED
  BY <1>3, <1>4

\* What each tag does to the filter.
LEMMA MarkStates ==
  /\ IsTag(StartMarker) /\ Transition(StartMarker) = "root"
  /\ IsTag(EndMarker) /\ Transition(EndMarker) = "before"
  /\ \A t \in Tags : /\ IsTag(OpenTag(t)) /\ Transition(OpenTag(t)) = t
                     /\ IsTag(ShutTag(t)) /\ Transition(ShutTag(t)) = "root"
<1>1. /\ \A t \in Tags : OpenTag(t) \notin {StartMarker, EndMarker}
      /\ \A t \in Tags : ShutTag(t) \notin {StartMarker, EndMarker}
      /\ \A t, u \in Tags : OpenTag(t) = OpenTag(u) => t = u
      /\ \A t, u \in Tags : OpenTag(t) # ShutTag(u)
      /\ StartMarker # EndMarker
  BY MarksDiffer
<1>2. IsTag(StartMarker) /\ IsTag(EndMarker) /\ \A t \in Tags : IsTag(OpenTag(t)) /\ IsTag(ShutTag(t))
  BY DEF IsTag
<1>3. Transition(StartMarker) = "root"
  BY <1>1 DEF Transition
<1>4. Transition(EndMarker) = "before"
  BY <1>1 DEF Transition
<1>5. ASSUME NEW t \in Tags
      PROVE  Transition(OpenTag(t)) = t
  <2>1. (CHOOSE u \in Tags : OpenTag(t) = OpenTag(u)) = t
    BY <1>1
  <2>2. /\ OpenTag(t) # StartMarker /\ OpenTag(t) # EndMarker
        /\ \E u \in Tags : OpenTag(t) = OpenTag(u)
    BY <1>1
  <2> QED
    BY <2>1, <2>2 DEF Transition
<1>6. ASSUME NEW t \in Tags
      PROVE  Transition(ShutTag(t)) = "root"
  <2>1. /\ ShutTag(t) # StartMarker /\ ShutTag(t) # EndMarker
        /\ ~ \E u \in Tags : ShutTag(t) = OpenTag(u)
    BY <1>1
  <2> QED
    BY <2>1 DEF Transition
<1> QED
  BY <1>2, <1>3, <1>4, <1>5, <1>6

\* What the user sees of a section.
Seen(section) == IF IsVisible(section) THEN section.text ELSE <<>>

LEMMA SeenIs ==
  ASSUME NEW section, Clean(section)
  PROVE  Seen(section) \in String
  BY EmptyJoins DEF Seen, Clean

LEMMA FedHidden ==
  ASSUME NEW section, Clean(section), section.tag \notin Tags,
         NEW y \in String, HasEnd(y), Meets(Render(section), y)
  PROVE  Feed(Render(section) \o y, "root").out = Seen(section) \o Feed(y, "root").out
<1> DEFINE w == Render(section)
           r == Feed(y, "root")
<1>1. w \in String
  BY RenderIs
<1>2. Untagged(w)
  <2>1. ASSUME NEW p, IsTag(p)
        PROVE  Positions(w, p) = {}
    <3>1. p \in Marks
      BY <2>1, TagsAreMarks
    <3>2. CASE section.tag = "none"
      <4>1. w = section.text
        BY <3>2 DEF Render
      <4> QED
        BY <3>1, <4>1 DEF Clean
    <3>3. CASE section.tag # "none"
      <4>1. section.tag = Think
        BY <3>3 DEF Clean
      <4>2. p \notin MarksOf(Think)
        <5>1. Think \in Tags \cup {Think} /\ Think \notin Tags
          BY DEF Tags, Think
        <5>2. \A t \in Tags : OpenTag(t) # OpenTag(Think) /\ ShutTag(t) # ShutTag(Think)
          BY <5>1, MarksDiffer
        <5>3. \A t \in Tags : OpenTag(t) # ShutTag(Think) /\ ShutTag(t) # OpenTag(Think)
          BY <5>1, MarksDiffer
        <5>4. {StartMarker, EndMarker} \cap MarksOf(Think) = {}
          BY <5>1, MarksDiffer DEF MarksOf
        <5> QED
          BY <2>1, <5>2, <5>3, <5>4 DEF IsTag, MarksOf
      <4> QED
        BY <3>1, <4>1, <4>2, RenderIs
    <3> QED
      BY <3>2, <3>3
  <2> QED
    BY <2>1 DEF Untagged
<1> HIDE DEF w
<1>3. "root" \in FilterStates
  BY DEF FilterStates
<1>4. FedOver(w, y, "root")
  BY <1>1, <1>2, <1>3, FedText DEF w
<1>5. Passed(w, "root") = <<>>
  BY DEF Passed, Streamable, Visible
<1>6. Seen(section) = <<>>
  BY DEF Seen, IsVisible, Visible, Tags
<1>7. Feed(w \o y, "root").out = Passed(w, "root") \o r.out
  BY <1>4 DEF FedOver
<1> HIDE DEF r
<1>8. Feed(w \o y, "root").out = Seen(section) \o r.out
  BY <1>5, <1>6, <1>7
<1> QED
  BY <1>8 DEF w, r

LEMMA FedSection ==
  ASSUME NEW section, Clean(section), section.tag \in Tags, NEW y \in String, HasEnd(y)
  PROVE  Feed(Render(section) \o y, "root").out = Seen(section) \o Feed(y, "root").out
<1> DEFINE t == section.tag
           x == section.text
           open == OpenTag(t)
           shut == ShutTag(t)
           r == Feed(y, "root")
           more == shut \o y
<1>1. /\ t \in Tags /\ x \in String /\ Render(section) = (open \o x) \o shut
      /\ \A p \in Marks : Positions(x, p) = {}
  <2>1. section.shut /\ t # "none"
    BY DEF Clean, Tags
  <2>2. Render(section) = (open \o x) \o shut
    BY <2>1 DEF Render
  <2> QED
    BY <2>2 DEF Clean
<1>2. /\ IsTag(open) /\ Transition(open) = t /\ IsTag(shut) /\ Transition(shut) = "root"
      /\ "root" \in FilterStates /\ t \in FilterStates
  BY <1>1, MarkStates DEF FilterStates
<1>3. open \in String /\ shut \in String /\ shut \in Marks
  BY <1>2, TagsAreMarks, MarkShape
<1>4. (t \in Visible) = IsVisible(section)
  BY DEF IsVisible
<1>u. Untagged(x)
  BY <1>1, TagsAreMarks DEF Untagged
<1>s. Seen(section) = Passed(x, t)
  BY <1>4 DEF Seen, Passed, Streamable
<1> HIDE DEF t, x, open, shut, r
<1>5. more \in String
  BY <1>3, Concat
<1>6. Render(section) \o y = open \o (x \o more)
  <2>1. open \o x \in String
    BY <1>1, <1>3, Concat
  <2>2. ((open \o x) \o shut) \o y = (open \o x) \o (shut \o y)
    BY <1>3, <2>1, Assoc
  <2>3. (open \o x) \o more = open \o (x \o more)
    <3> HIDE DEF more
    <3> QED
      BY <1>1, <1>3, <1>5, Assoc
  <2> QED
    BY <1>1, <2>2, <2>3
<1>7. HasEnd(more) /\ Meets(x, more)
  <2>1. HasEnd(more)
    BY <1>3, HasEndJoin
  <2>2. shut # <<>> /\ shut[1] = "<"
    BY <1>3, MarkEnds DEF Opens
  <2>3. more[1] = "<"
    BY <1>3, <2>2, EndsOfJoin
  <2> HIDE DEF more
  <2> QED
    BY <2>1, <2>3 DEF Meets
<1> DEFINE inner == x \o more
<1>8. inner \in String
  <2> HIDE DEF more
  <2> QED
    BY <1>1, <1>5, Concat
<1>9. Feed(open \o inner, "root") = Feed(inner, t)
  <2> HIDE DEF inner
  <2> QED
    BY <1>2, <1>8, FedMark
<1>10. Feed(inner, t).out = Passed(x, t) \o Feed(more, t).out
  <2>1. FedOver(x, more, t)
    <3> HIDE DEF more
    <3> QED
      BY <1>1, <1>2, <1>5, <1>7, <1>u, FedText
  <2> HIDE DEF more
  <2> QED
    BY <2>1 DEF FedOver
<1>11. Feed(more, t) = r
  BY <1>2, FedMark DEF r
<1> QED
  BY <1>6, <1>9, <1>10, <1>11, <1>s DEF r

LEMMA FedOneSection ==
  ASSUME NEW section, Clean(section), NEW y \in String, HasEnd(y), Meets(Render(section), y)
  PROVE  Feed(Render(section) \o y, "root").out = Seen(section) \o Feed(y, "root").out
  BY FedHidden, FedSection

LEMMA TailEnds ==
  ASSUME NEW words, NEW head, NEW tail, Neat(words), Cut(words, head, tail), NEW j \in 0 .. Len(words)
  PROVE  HasEnd(tail[j])
<1> DEFINE n == Len(words)
           T == {k \in 0 .. n - j : ~HasEnd(tail[n - k])}
<1>1. /\ n \in Nat /\ j \in 0 .. n
      /\ \A k \in 0 .. n : tail[k] \in String
      /\ \A k \in 1 .. n : Render(words[k]) \in String
      /\ tail[n] = EndMarker
  BY CutTyped
<1>2. \A k \in 1 .. n : tail[k - 1] = Render(words[k]) \o tail[k]
  BY DEF Cut
<1>3. HasEnd(EndMarker)
  <2>1. EndMarker[3] = ">" /\ 3 \in 1 .. Len(EndMarker)
    BY DEF EndMarker
  <2> QED
    BY <2>1 DEF HasEnd
<1> HIDE DEF n
<1>4. T = {}
  <2>1. SUFFICES ASSUME T # {}
                 PROVE  FALSE
    OBVIOUS
  <2>2. PICK k \in T : \A m \in T : k <= m
    <3>1. T \in SUBSET Nat
      OBVIOUS
    <3> QED
      BY <2>1, <3>1, Least
  <2>3. k \in 0 .. n - j /\ ~HasEnd(tail[n - k])
    OBVIOUS
  <2>4. k # 0
    <3>1. n - 0 = n
      BY <1>1
    <3> QED
      BY <1>1, <1>3, <2>3, <3>1
  <2> DEFINE i == n - k + 1
  <2>5. i \in 1 .. n /\ i \in 0 .. n /\ k - 1 \in 0 .. n - j /\ k - 1 < k /\ n - (k - 1) = i /\ n - k = i - 1
    BY <1>1, <2>3, <2>4
  <2> HIDE DEF i
  <2>6. k - 1 \notin T
    <3> HIDE DEF T
    <3> QED
      BY <1>1, <2>2, <2>3, <2>5
  <2>7. HasEnd(tail[i])
    BY <2>5, <2>6
  <2> HIDE DEF T
  <2>8. HasEnd(Render(words[i]) \o tail[i])
    BY <1>1, <2>5, <2>7, HasEndJoin
  <2> QED
    BY <1>2, <2>3, <2>5, <2>8
<1> QED
  <2>1. n - j \in 0 .. n - j /\ n - (n - j) = j
    BY <1>1
  <2> QED
    BY <1>4, <2>1

\* Of an answer that keeps the format the filter lets through the visible
\* sections, in their order.
LEMMA Shows ==
  ASSUME NEW words, Neat(words)
  PROVE  Feed(Text(words), "before").out = FlattenSeq([i \in DOMAIN words |-> Seen(words[i])])
<1>1. PICK head, tail : Cut(words, head, tail)
  BY CutExists
<1> DEFINE n == Len(words)
           seen == [i \in DOMAIN words |-> Seen(words[i])]
           O(j) == Feed(tail[j], "root").out
<1>2. /\ n \in Nat /\ 0 \in 0 .. n /\ n \in 0 .. n
      /\ \A j \in 0 .. n : tail[j] \in String
      /\ \A j \in 1 .. n : j \in 0 .. n /\ j - 1 \in 0 .. n /\ Clean(words[j])
      /\ head[0] = StartMarker /\ tail[n] = EndMarker
  BY <1>1, CutTyped
<1>3. DOMAIN words = 1 .. n
  BY LenProperties DEF Neat
<1>4. seen \in Seq(String) /\ Len(seen) = n /\ \A i \in 1 .. n : seen[i] = Seen(words[i])
  <2>1. \A i \in 1 .. n : Seen(words[i]) \in String
    BY <1>2, SeenIs
  <2> QED
    BY <1>2, <1>3, <2>1
<1>5. \A j \in 1 .. n : tail[j - 1] = Render(words[j]) \o tail[j]
  BY <1>1 DEF Cut
<1>6. Text(words) = StartMarker \o tail[0]
  BY <1>1, <1>2 DEF Cut
<1>7. \A j \in 0 .. n : HasEnd(tail[j])
  BY <1>1, TailEnds
<1>8. \A j \in 1 .. n : Meets(Render(words[j]), tail[j])
  BY <1>1, CutMeets
<1>9. PICK f \in [0 .. n -> String] :
        /\ f[0] = <<>> /\ \A i \in 1 .. n : f[i] = f[i - 1] \o seen[i]
        /\ FlattenSeq(seen) = f[n]
  <2> HIDE DEF n, seen
  <2> QED
    BY <1>4, FlattenGrows
<1> HIDE DEF n, seen
<1>10. ASSUME NEW j \in 1 .. n
       PROVE  O(j - 1) = seen[j] \o O(j)
  <2>1. Clean(words[j]) /\ tail[j] \in String /\ HasEnd(tail[j]) /\ Meets(Render(words[j]), tail[j])
    BY <1>2, <1>7, <1>8
  <2>2. Feed(Render(words[j]) \o tail[j], "root").out = Seen(words[j]) \o Feed(tail[j], "root").out
    BY <2>1, FedOneSection
  <2> QED
    BY <1>4, <1>5, <2>2
<1>11. ASSUME NEW j \in 0 .. n
       PROVE  O(j) \in String
  <2>1. Feed(tail[j], "root") \in FeedRecord
    BY <1>2, FeedTyped DEF FedTyped, FilterStates
  <2> QED
    BY <2>1 DEF FeedRecord
<1>12. O(n) = <<>>
  <2>1. EndMarker \o <<>> = EndMarker /\ <<>> \in String
    BY EmptyJoins, MarksDiffer, MarkShape
  <2> DEFINE z == <<>>
  <2>z. z \in String /\ "root" \in FilterStates
    BY <2>1 DEF FilterStates
  <2> HIDE DEF z
  <2>e. IsTag(EndMarker) /\ Transition(EndMarker) = "before"
    BY MarkStates
  <2>f. Feed(EndMarker \o z, "root") = Feed(z, Transition(EndMarker))
    BY <2>z, <2>e, FedMark
  <2>2. Feed(EndMarker \o <<>>, "root") = Feed(<<>>, "before")
    BY <2>e, <2>f DEF z
  <2>3. Stops(<<>>, 1)
    BY DEF Stops
  <2>4. Feed(<<>>, "before").out = <<>>
    BY <2>1, <2>3, FeedStops DEF FilterStates
  <2> QED
    BY <1>2, <2>1, <2>2, <2>4
<1>13. Feed(Text(words), "before").out = O(0)
  <2>1. Feed(StartMarker \o tail[0], "before") = Feed(tail[0], "root")
    BY <1>2, MarkStates, FedMark DEF FilterStates
  <2> QED
    BY <1>6, <2>1
<1> HIDE DEF O
<1> DEFINE T == {j \in 0 .. n : O(0) # f[j] \o O(j)}
<1>14. T = {}
  <2>1. SUFFICES ASSUME T # {}
                 PROVE  FALSE
    OBVIOUS
  <2>2. PICK j \in T : \A m \in T : j <= m
    <3>1. T \in SUBSET Nat
      OBVIOUS
    <3> QED
      BY <2>1, <3>1, Least
  <2>3. j \in 0 .. n /\ O(0) # f[j] \o O(j)
    OBVIOUS
  <2>4. j # 0
    <3>1. f[0] \o O(0) = O(0)
      BY <1>2, <1>9, <1>11, EmptyJoins
    <3> QED
      BY <2>3, <3>1
  <2>5. j \in 1 .. n /\ j - 1 \in 0 .. n /\ j - 1 < j
    BY <1>2, <2>3, <2>4
  <2>6. j - 1 \notin T
    <3> HIDE DEF T
    <3> QED
      BY <1>2, <2>2, <2>3, <2>5
  <2>7. O(0) = f[j - 1] \o O(j - 1)
    BY <2>5, <2>6
  <2> HIDE DEF T
  <2>8. f[j - 1] \o (seen[j] \o O(j)) = (f[j - 1] \o seen[j]) \o O(j)
    <3> DEFINE a == f[j - 1]
               b == seen[j]
               c == O(j)
    <3>1. a \in String /\ b \in String /\ c \in String
      <4>1. b \in String
        BY <1>4, <2>5, ElementOfSeq
      <4> QED
        BY <1>9, <1>11, <2>3, <2>5, <4>1
    <3> HIDE DEF a, b, c
    <3>2. a \o (b \o c) = (a \o b) \o c
      BY <3>1, Assoc
    <3> QED
      BY <3>2 DEF a, b, c
  <2>9. O(j - 1) = seen[j] \o O(j) /\ f[j] = f[j - 1] \o seen[j]
    BY <1>9, <1>10, <2>5
  <2> QED
    BY <2>3, <2>7, <2>8, <2>9
<1>15. O(0) = f[n] \o <<>>
  BY <1>2, <1>12, <1>14
<1>16. f[n] \o <<>> = f[n]
  BY <1>2, <1>9, EmptyJoins
<1>17. Feed(Text(words), "before").out = FlattenSeq(seen)
  BY <1>9, <1>13, <1>15, <1>16
<1> QED
  BY <1>17 DEF seen

LEMMA WellFormedIsNeat ==
  ASSUME answer \in ModelAnswers, WellFormed
  PROVE  Neat(answer) /\ DOMAIN answer = 1 .. Len(answer)
<1>1. /\ answer \in Seq(Range(answer))
      /\ \A section \in Range(answer) :
           section.tag \in Tags \cup {Think, "none"} /\ section.text \in String
  BY ModelAnswersAreSections, LettersAreCharacters
<1>2. DOMAIN answer = 1 .. Len(answer)
  BY <1>1, LenProperties
<1>3. \A i \in 1 .. Len(answer) : answer[i] \in Range(answer)
  BY <1>2 DEF Range
<1>4. ASSUME NEW i \in 1 .. Len(answer)
      PROVE  Clean(answer[i])
  <2>1. answer[i].tag \in Tags \cup {Think, "none"} /\ answer[i].text \in String
    BY <1>1, <1>3
  <2>2. answer[i].tag # "none" => answer[i].shut
    BY <1>2 DEF WellFormed
  <2>3. \A mark \in Marks : Positions(answer[i].text, mark) = {}
    BY <1>2 DEF WellFormed, Has
  <2> QED
    BY <2>1, <2>2, <2>3 DEF Clean
<1>5. \A i, j \in 1 .. Len(answer) : i # j => answer[i].tag # answer[j].tag
  BY <1>2 DEF WellFormed
<1>6. \A i, j \in 1 .. Len(answer) : i # j /\ Bare(answer[i]) => ~Bare(answer[j])
  BY <1>5 DEF Bare
<1> QED
  BY <1>1, <1>2, <1>4, <1>5, <1>6 DEF Neat

LEMMA FilterShows ==
  ASSUME FilterInv
  PROVE  ShownIsSaved
<1>1. SUFFICES ASSUME fed = Len(Text(answer)), WellFormed
               PROVE  /\ shown = FlattenSeq([i \in DOMAIN answer |->
                            IF IsVisible(answer[i]) THEN answer[i].text ELSE <<>>])
                      /\ \A i \in DOMAIN answer : IsVisible(answer[i]) =>
                           IF answer[i].text # <<>> THEN Saved(answer[i].tag) = answer[i].text
                           ELSE IsPrefix(ShutTag(answer[i].tag), Saved(answer[i].tag))
  BY DEF ShownIsSaved
<1>2. Neat(answer) /\ DOMAIN answer = 1 .. Len(answer)
  BY <1>1, WellFormedIsNeat DEF FilterInv
<1>3. SubSeq(Text(answer), 1, fed) = Text(answer)
  <2>1. Text(answer) \in String
    BY TextIs DEF FilterInv
  <2> QED
    BY <1>1, <2>1, SubSeqFull DEF String
<1>4. shown = Feed(Text(answer), "before").out
  <2>1. [out |-> shown, at |-> at, hold |-> hold] = Feed(Text(answer), "before")
    BY <1>3 DEF FilterInv, FedAsWhole
  <2>2. Feed(Text(answer), "before").out = shown
    BY <2>1
  <2> QED
    BY <2>2
<1>5. ASSUME NEW i \in DOMAIN answer, IsVisible(answer[i])
      PROVE  IF answer[i].text # <<>> THEN Saved(answer[i].tag) = answer[i].text
             ELSE IsPrefix(ShutTag(answer[i].tag), Saved(answer[i].tag))
  <2>1. answer[i].tag \in Visible /\ i \in 1 .. Len(answer)
    BY <1>2, <1>5 DEF IsVisible
  <2> QED
    BY <1>2, <2>1, SavedIs DEF Saved
<1>6. [i \in DOMAIN answer |-> Seen(answer[i])] =
      [i \in DOMAIN answer |-> IF IsVisible(answer[i]) THEN answer[i].text ELSE <<>>]
  BY DEF Seen
<1>7. shown = FlattenSeq([i \in DOMAIN answer |-> Seen(answer[i])])
  BY <1>2, <1>4, Shows
<1>8. shown = FlattenSeq([i \in DOMAIN answer |->
                IF IsVisible(answer[i]) THEN answer[i].text ELSE <<>>])
  BY <1>6, <1>7, Zenon
<1> QED
  BY <1>5, <1>8

\* What the types of all variables rest on, and what the filter has let through.
WorkTyped ==
  /\ CallTyped /\ TextFits /\ GenRest /\ SettingsRest /\ RepoRest
  /\ FilterInv /\ ValidationTyped

WorkInv == SettingsInv /\ RepoInv /\ ObserverInv /\ ErrorArrives /\ MessagesInv /\ GenInv
           /\ MockInv /\ WorkTyped

LEMMA WorkStart ==
  ASSUME WorkInit
  PROVE  WorkInv
<1>1. /\ Init \/ CallAtRest
      /\ GenInit \/ JobAtRest
      /\ SettingsInit \/ SettingsAtRest
      /\ FilterInit \/ FilterAtRest
      /\ RepoInit \/ RepoAtRest
      /\ ObserverInit \/ ObserverAtRest
      /\ ValidationInit \/ ValidationAtRest
  BY DEF WorkInit
<1>2. SettingsInv /\ RepoInv /\ ObserverInv /\ ErrorArrives /\ MessagesInv /\ GenInv /\ MockInv
  BY <1>1, SettingsStart, RepoStart, ObserverStart, CallStart, MessagesStart, GenStart, MockStart
<1>3. CallTyped /\ TextFits /\ GenRest /\ SettingsRest /\ RepoRest
  BY <1>1, CallTypesStart, GenRestStart, SettingsRestStart, RepoRestStart
<1>4. FilterInv /\ ValidationTyped
  BY <1>1, FilterStart, ValidationStart
<1> QED
  BY <1>2, <1>3, <1>4 DEF WorkInv, WorkTyped

LEMMA SettingsUnchanged ==
  ASSUME SettingsInv, UNCHANGED settingsVars
  PROVE  SettingsInv'
<1>1. UNCHANGED <<known, assigned, storeLock, ask, late>>
  BY DEF settingsVars
<1> QED
  BY <1>1 DEF SettingsInv, SettingsTyped, OneDeletion, ClearedAreLate, AssignmentsResolve, Doing

LEMMA RepoUnchanged ==
  ASSUME RepoInv, UNCHANGED repoVars
  PROVE  RepoInv'
  BY DEF repoVars, RepoInv, RepoTyped, WorkIsThere, BeadDiffHasItsWork

LEMMA ObserverUnchanged ==
  ASSUME ObserverInv, UNCHANGED observerVars
  PROVE  ObserverInv'
<1>1. UNCHANGED <<recorded, buffer, running, analysis, skills, shape, queue, sessions, spent, down>>
  BY DEF observerVars
<1>2. ObserverTyped'
  BY <1>1 DEF ObserverInv, ObserverTyped, ObserverTypeOK
<1>3. OneBatch' /\ CallsInOrder'
  BY <1>1 DEF ObserverInv, OneBatch, CallsInOrder
<1>4. Costs'
  BY <1>1, CostsStay DEF ObserverInv
<1> QED
  BY <1>2, <1>3, <1>4 DEF ObserverInv

LEMMA CallUnchanged ==
  ASSUME ErrorArrives, UNCHANGED vars
  PROVE  ErrorArrives'
<1>1. UNCHANGED <<wire, reader, pc, out, chan, cut, outcome, fault>>
  BY DEF vars, wireVars, readVars
<1> QED
  BY <1>1 DEF ErrorArrives, Minding, Reported

LEMMA WorkStep ==
  ASSUME WorkInv, [WorkNext]_workVars
  PROVE  WorkInv'
<1>1. (Next \/ UNCHANGED vars) /\ (SettingsNext \/ UNCHANGED settingsVars)
      /\ (RepoNext \/ UNCHANGED repoVars) /\ (ObserverNext \/ UNCHANGED observerVars)
      /\ (GenNext \/ UNCHANGED genVars) /\ (FilterNext \/ UNCHANGED filterVars)
      /\ (ValidationNext \/ UNCHANGED validationVars)
  BY DEF WorkNext, workVars
<1>2. SettingsInv'
  BY <1>1, SettingsStepKeeps, SettingsUnchanged DEF WorkInv
<1>3. RepoInv'
  BY <1>1, RepoStepKeeps, RepoUnchanged DEF WorkInv
<1>4. ObserverInv'
  BY <1>1, ObserverStepKeeps, ObserverUnchanged DEF WorkInv
<1>5. ErrorArrives'
  BY <1>1, CallStepKeeps, CallUnchanged DEF WorkInv
<1>6. GenInv'
  BY <1>1, GenStepKeeps, GenUnchanged DEF WorkInv
<1>7. MessagesInv'
  BY <1>1, MessagesStepKeeps, MessagesUnchanged DEF WorkInv
<1>8. MockInv'
  BY <1>1, MockStepKeeps, MockUnchanged DEF WorkInv
<1>9. CallTyped' /\ TextFits'
  BY <1>1, CallTypedKeeps, TextStepKeeps, CallTypesUnchanged DEF WorkInv, WorkTyped
<1>10. GenRest' /\ SettingsRest' /\ RepoRest'
  BY <1>1, GenRestKeeps, GenRestUnchanged, SettingsRestKeeps, SettingsRestUnchanged,
     RepoRestKeeps, RepoRestUnchanged DEF WorkInv, WorkTyped
<1>11. FilterInv' /\ ValidationTyped'
  BY <1>1, FilterStepKeeps, FilterUnchanged, ValidationStepKeeps, ValidationUnchanged
     DEF WorkInv, WorkTyped
<1> QED
  BY <1>2, <1>3, <1>4, <1>5, <1>6, <1>7, <1>8, <1>9, <1>10, <1>11 DEF WorkInv, WorkTyped

\* The invariants of the seven modules hold side by side: a step of one leaves
\* the variables of the others alone.
THEOREM WorkInvariant == WorkSpec => []WorkInv
<1>1. WorkInit => WorkInv
  BY WorkStart
<1>2. WorkInv /\ [WorkNext]_workVars => WorkInv'
  BY WorkStep
<1> QED
  BY <1>1, <1>2, PTL DEF WorkSpec

\* The types: at most Capacity events wait in the channel of a call and no more
\* chunks and retries are counted than there are, the semaphore of a mock-up
\* has at least no and at most all of its places, a validation has a verdict for
\* no more commands than it runs, and what the filter has shown and holds back
\* is no more than it was fed (provider/*.go, handler/mock.go, agent/parse.go,
\* pipeline/validation.go).
THEOREM WorkTypes == WorkSpec => []WorkTypeOK
<1>1. WorkInv => WorkTypeOK
  <2> SUFFICES ASSUME WorkInv
               PROVE  WorkTypeOK
    OBVIOUS
  <2>1. /\ SettingsInv /\ RepoInv /\ ObserverInv /\ GenInv /\ MockInv /\ CallTyped /\ TextFits
        /\ GenRest /\ SettingsRest /\ RepoRest /\ FilterInv /\ ValidationTyped
    BY DEF WorkInv, WorkTyped
  <2>2. TypeOK /\ GenTypeOK
    BY <2>1, CallTypesMean, GenTypesMean
  <2>3. SettingsTypeOK /\ RepoTypeOK /\ FilterTypeOK
    BY <2>1, SettingsTypesMean, RepoTypesMean, FilterMeans
  <2>4. ObserverTypeOK
    BY <2>1 DEF ObserverInv, ObserverTyped
  <2>5. ValidationTypeOK
    BY <2>1 DEF ValidationTyped, ValidationTypeOK, ProcRecord
  <2> QED
    BY <2>2, <2>3, <2>4, <2>5 DEF WorkTypeOK
<1> QED
  BY <1>1, WorkInvariant, PTL

\* Chunks end anywhere, in the middle of a tag too; still what a user has been
\* shown, the state of the filter and the tail it holds back are those of a
\* filter that was fed all of it in one piece (agent/parse.go).
THEOREM ChunksDoNotMatter == WorkSpec => []FedAsWhole
<1>1. WorkInv => FedAsWhole
  BY DEF WorkInv, WorkTyped, FilterInv
<1> QED
  BY <1>1, WorkInvariant, PTL

\* Of a well-formed answer the user has seen the texts of the visible sections,
\* in their order and whatever the chunks, and each of them that is not empty is
\* saved as it was shown.  Of an empty one what is saved begins with its closing
\* tag, which nobody was shown: extractBetween takes that tag, right behind the
\* opening one, for a missing one (StreamFilter and ParseResponse, agent/parse.go).
THEOREM SavedAsShown == WorkSpec => []ShownIsSaved
<1>1. WorkInv => ShownIsSaved
  BY FilterShows DEF WorkInv, WorkTyped
<1> QED
  BY <1>1, WorkInvariant, PTL

\* However deletions of connections, changes of settings, failed writes and
\* crashes interleave, a setting refers to a connection the store has, unless
\* it was written after the deletion had cleared the references, or lay in a
\* project the deletion could not list (provider/connection_store.go,
\* provider/stage_config.go, handler/connection.go).
THEOREM SettingsCorrect == WorkSpec => []AssignmentsResolve
<1>1. WorkInv => AssignmentsResolve
  BY DEF WorkInv, SettingsInv
<1> QED
  BY <1>1, WorkInvariant, PTL

\* Workers stage and commit each other's files, and requests run between
\* their commands under another lock; still the commit whose hash a worker
\* records holds what it wrote, unless git failed for it or a user threw its
\* file away (handler/bead.go, git/git.go).
THEOREM DiffsCorrect == WorkSpec => []BeadDiffHasItsWork
<1>1. WorkInv => BeadDiffHasItsWork
  BY DEF WorkInv, RepoInv
<1> QED
  BY <1>1, WorkInvariant, PTL

\* Every closed bead is in one batch of the skill observer, and the tokens of
\* a batch are in the session log once, if that file can be read and written
\* (handler/skill_observer.go, repository/fs/sessions.go).
THEOREM BeadsAnalysed == WorkSpec => []EveryBeadIsAnalysed
<1>1. WorkInv => EveryBeadIsAnalysed
  BY ObserverMeans DEF WorkInv
<1> QED
  BY <1>1, WorkInvariant, PTL

\* A reader that minds errors never takes an HTTP answer whose transport broke
\* for a whole one, whatever the service sent before (provider/*.go and their
\* callers); a body that ends cleanly too early is whole to them.
THEOREM AnswersWhole == WorkSpec => []AnswerIsWhole
<1>1. WorkInv => AnswerIsWhole
  BY DEF WorkInv, ErrorArrives, Minding, AnswerIsWhole
<1> QED
  BY <1>1, WorkInvariant, PTL

\* Before every request of a tool loop, however many rounds it has run and
\* however many calls the model made in each, every call is followed by its
\* results in the order of the calls (provider/anthropic.go, provider/openai_compat.go,
\* provider/ollama.go).
THEOREM CallsAreAnswered == WorkSpec => []CallsAnswered
<1>1. WorkInv => CallsAnswered
  BY DEF WorkInv, MessagesInv, InTools, CallsAnswered
<1> QED
  BY <1>1, WorkInvariant, PTL

\* Whatever fails on the way, a job that reports its end has a whole result:
\* the page of a mock-up shows each component of a screen once, however its
\* workers took turns and its layout moved the components; the files a coding
\* job names have their last content on disk unless a write failed; a vision
\* turn keeps a text for every section its draft had one for (handler/mock.go,
\* handler/bead_orchestrated.go, agent/vision_turn.go).
THEOREM ResultsComplete == WorkSpec => []ResultIsComplete
<1>1. WorkInv => ResultIsComplete
  <2> SUFFICES ASSUME WorkInv, report = "done"
               PROVE  ResultIsComplete
    BY DEF ResultIsComplete
  <2>1. CASE job = "mock"
    <3>1. ASSUME NEW s \in 1 .. tabs
          PROVE  ViewWhole(s, screen[s].plan, page[s])
      <4>1. /\ page[s] = screen[s].view /\ screen[s].at = "over"
            /\ s \in 1 .. MaxScreens
        BY <2>1, <3>1, GenerationBounds DEF WorkInv, MockInv
      <4> QED
        BY <4>1 DEF WorkInv, MockInv
    <3> QED
      BY <2>1, <3>1 DEF ViewWhole, ResultIsComplete
  <2>2. CASE job # "mock"
    BY <2>2 DEF WorkInv, MockInv, GenInv, DiskFollows, DraftKept, ResultIsComplete
  <2> QED
    BY <2>1, <2>2
<1> QED
  BY <1>1, WorkInvariant, PTL
=============================================================================
