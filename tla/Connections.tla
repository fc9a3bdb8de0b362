------------------------------ MODULE Connections ------------------------------
(***************************************************************************)
(* Which connection a call of a model uses: the connection store           *)
(* (connections.json, kept in memory), the stage settings (config.json and *)
(* one stage_config.json per project, read anew every time), each behind a *)
(* lock of its own, and the requests that change and read them.  The       *)
(* interesting one is the deletion of a connection: it holds the store's   *)
(* lock, takes the settings' lock, clears every reference, and only then   *)
(* removes the connection.                                                 *)
(*                                                                         *)
(* One stage with one operation stands for all of them.  None is an absent *)
(* entry, a null one and one with an empty connectionId: resolution treats *)
(* the three alike.  Memory and connections.json change together under the *)
(* lock, and a failed save rolls memory back, so they are one variable.    *)
(***************************************************************************)
EXTENDS Naturals, FiniteSets

CONSTANTS Connection, \* ids ever handed out
          Project,    \* projects of the registry
          Asker,    \* requests made, each once
          None,       \* no connection
          Global      \* the settings file that is no project's

ASSUME SettingsAreTold == None \notin Connection \cup Asker /\ Global \notin Project

Files == {Global} \cup Project
Keys == {"stage", "operation"}

VARIABLES
  known,     \* connections of the store
  issued,    \* ids handed out so far
  assigned,  \* the settings files: connection of each key
  storeLock, \* the deletion that holds the store's lock
  fileLock,  \* the request that holds the settings' lock
  ask,       \* the requests
  late       \* history: entries that a request wrote, or that lay in an unlisted
             \* project, when a deletion cleared the references to their connection

settingsVars == <<known, issued, assigned, storeLock, fileLock, ask, late>>

Ops == {"create", "update", "set", "reset", "delete", "resolve"}
NoAsk == [pc |-> "idle", op |-> "none", conn |-> None, file |-> Global, key |-> "stage",
          dirs |-> {}, result |-> "none"]

SettingsTypeOK ==
  /\ known \subseteq issued /\ issued \subseteq Connection
  /\ assigned \in [Files -> [Keys -> Connection \cup {None}]]
  /\ {storeLock, fileLock} \subseteq Asker \cup {None}
  /\ \A r \in Asker :
       /\ ask[r].pc \in {"idle", "asked", "checked", "locked", "listed", "held", "cleared",
                         "resolved", "over"}
       /\ ask[r].op \in Ops \cup {"none"}
       /\ ask[r].conn \in Connection \cup {None}
       /\ ask[r].file \in Files /\ ask[r].key \in Keys /\ ask[r].dirs \subseteq Project
       /\ ask[r].result \in {"none", "provider", "fallback", "error"}
  /\ late \subseteq Files \X Keys

(* Settings refer to connections the store has. *)
SettingsInit ==
  /\ known \in SUBSET Connection /\ issued = known
  /\ assigned \in [Files -> [Keys -> known \cup {None}]]
  /\ storeLock = None /\ fileLock = None /\ late = {}
  /\ ask = [r \in Asker |-> NoAsk]

Doing(r, op, pc) == ask[r].op = op /\ ask[r].pc = pc
Moves(r, pc) == ask' = [ask EXCEPT ![r].pc = pc]
Over(r, result) == ask' = [ask EXCEPT ![r] = [NoAsk EXCEPT !.pc = "over", !.result = result]]

Arrive(r, op, c, f, k) ==
  /\ ask[r].pc = "idle"
  /\ ask' = [ask EXCEPT ![r] = [NoAsk EXCEPT !.pc = "asked", !.op = op, !.conn = c,
                                             !.file = f, !.key = k]]
  /\ UNCHANGED <<known, issued, assigned, storeLock, fileLock, late>>

-----------------------------------------------------------------------------
(* The connection store. *)

(* A new id is appended and saved; a failed save takes it back. *)
Create(r) ==
  /\ Doing(r, "create", "asked") /\ storeLock = None
  /\ \/ \E c \in Connection \ issued : issued' = issued \cup {c} /\ known' = known \cup {c}
     \/ UNCHANGED <<known, issued>>
  /\ Over(r, "none")
  /\ UNCHANGED <<assigned, storeLock, fileLock, late>>

(* An update looks the connection up to keep its key, and again to replace *)
(* what it tells of the model; its id, all that is told apart here, stays. *)
GetConnection(r) ==
  /\ Doing(r, "update", "asked") /\ storeLock = None
  /\ IF ask[r].conn \in known THEN Moves(r, "checked") ELSE Over(r, "error")
  /\ UNCHANGED <<known, issued, assigned, storeLock, fileLock, late>>

Update(r) ==
  /\ Doing(r, "update", "checked") /\ storeLock = None
  /\ \/ ask[r].conn \in known /\ Over(r, "none")
     \/ Over(r, "error")
  /\ UNCHANGED <<known, issued, assigned, storeLock, fileLock, late>>

(* collectProjectHostDirs: every project, or none if the registry cannot   *)
(* be read.                                                                *)
CollectProjectHostDirs(r) ==
  /\ Doing(r, "delete", "asked")
  /\ \E dirs \in {Project, {}} : ask' = [ask EXCEPT ![r].pc = "listed", ![r].dirs = dirs]
  /\ UNCHANGED <<known, issued, assigned, storeLock, fileLock, late>>

LockStore(r) ==
  /\ Doing(r, "delete", "listed") /\ storeLock = None
  /\ IF ask[r].conn \in known THEN storeLock' = r /\ Moves(r, "held")
                              ELSE Over(r, "error") /\ UNCHANGED storeLock
  /\ UNCHANGED <<known, issued, assigned, fileLock, late>>

Refers(f, c) == \E k \in Keys : assigned[f][k] = c
Cleared(files, keys, c) ==
  [f \in Files |-> [k \in Keys |->
     IF f \in files /\ k \in keys /\ assigned[f][k] = c THEN None ELSE assigned[f][k]]]

Kept(entries) == {e \in entries : assigned'[e[1]][e[2]] # None}
Unlisted(r) ==
  {e \in (Project \ ask[r].dirs) \X Keys : assigned[e[1]][e[2]] = ask[r].conn}

(* Slip: entries of operations, added after those of stages, are forgotten.*)
ClearStageReferences(r) ==
  /\ Doing(r, "delete", "held") /\ fileLock = None
  /\ assigned' = Cleared({Global} \cup ask[r].dirs, {"stage"}, ask[r].conn)
  /\ late' = Kept(late \cup Unlisted(r))
  /\ Moves(r, "cleared") /\ UNCHANGED <<known, issued, storeLock, fileLock>>

(* ClearConnectionReferences: the global file, then each project's.  The   *)
(* first file that cannot be written ends the deletion, with the earlier   *)
(* ones cleared and the connection still there.                            *)
ClearConnectionReferences(r) ==
  /\ Doing(r, "delete", "held") /\ fileLock = None
  /\ LET c == ask[r].conn
         files == {Global} \cup ask[r].dirs
     IN \/ /\ assigned' = Cleared(files, Keys, c)
           /\ late' = Kept(late \cup Unlisted(r))
           /\ Moves(r, "cleared") /\ UNCHANGED storeLock
        \/ /\ \E f \in files : /\ Refers(f, c)
                               /\ \E before \in SUBSET (files \ {f}) :
                                    /\ f = Global => before = {}
                                    /\ f # Global => Global \in before
                                    /\ assigned' = Cleared(before, Keys, c)
           /\ late' = Kept(late)
           /\ Over(r, "error") /\ storeLock' = None
  /\ UNCHANGED <<known, issued, fileLock>>

(* The removal is saved, or rolled back. *)
RemoveConnection(r) ==
  /\ Doing(r, "delete", "cleared")
  /\ \/ known' = known \ {ask[r].conn} /\ Over(r, "none")
     \/ UNCHANGED known /\ Over(r, "error")
  /\ storeLock' = None
  /\ UNCHANGED <<issued, assigned, fileLock, late>>

-----------------------------------------------------------------------------
(* The settings. *)

(* The handlers look the connection up before they touch the settings; an  *)
(* empty id or a null needs no connection.                                 *)
CheckConnection(r) ==
  /\ Doing(r, "set", "asked") /\ storeLock = None
  /\ IF ask[r].conn \in known \cup {None} THEN Moves(r, "checked") ELSE Over(r, "error")
  /\ UNCHANGED <<known, issued, assigned, storeLock, fileLock, late>>

LockFile(r) ==
  /\ Doing(r, "set", "checked") \/ Doing(r, "reset", "asked")
  /\ fileLock = None /\ fileLock' = r
  /\ Moves(r, "locked")
  /\ UNCHANGED <<known, issued, assigned, storeLock, late>>

BeingRemoved(c) == c \notin known \/ \E q \in Asker : Doing(q, "delete", "cleared") /\ ask[q].conn = c

(* A file is read, changed, and renamed into place, under the lock.        *)
Writes(r, entries) ==
  /\ fileLock = r /\ fileLock' = None
  /\ \/ /\ assigned' = [assigned EXCEPT ![ask[r].file] = entries]
        /\ late' = Kept(late \cup {e \in {ask[r].file} \X {ask[r].key} : BeingRemoved(entries[e[2]])})
        /\ Over(r, "none")
     \/ UNCHANGED <<assigned, late>> /\ Over(r, "error")
  /\ UNCHANGED <<known, issued, storeLock>>

(* The four setters, and the removal of an operation's entry.              *)
WriteAssignment(r) ==
  /\ Doing(r, "set", "locked")
  /\ Writes(r, [assigned[ask[r].file] EXCEPT ![ask[r].key] = ask[r].conn])

RemoveOverrides(r) ==
  /\ Doing(r, "reset", "locked")
  /\ Writes(r, [k \in Keys |-> None])

-----------------------------------------------------------------------------
(* A call of the model. *)

FirstOf(a, b) == IF a # None THEN a ELSE b

(* Project before global, and for an operation both operation levels       *)
(* before both stage levels.                                               *)
ResolveStage(p) == FirstOf(assigned[p]["stage"], assigned[Global]["stage"])
ResolveOperation(p) ==
  FirstOf(FirstOf(assigned[p]["operation"], assigned[Global]["operation"]), ResolveStage(p))

ResolveForStageOperation(r) ==
  /\ Doing(r, "resolve", "asked") /\ fileLock = None
  /\ LET c == IF ask[r].key = "operation" THEN ResolveOperation(ask[r].file)
                                          ELSE ResolveStage(ask[r].file)
     IN ask' = [ask EXCEPT ![r].conn = c, ![r].pc = "resolved"]
  /\ UNCHANGED <<known, issued, assigned, storeLock, fileLock, late>>

(* ForConnection: a connection that is gone is an error, not a fallback;   *)
(* only an absent setting falls back to the Claude command line.           *)
ForConnection(r) ==
  /\ Doing(r, "resolve", "resolved") /\ storeLock = None
  /\ Over(r, CASE ask[r].conn = None -> "fallback"
               [] ask[r].conn \in known -> "provider"
               [] OTHER -> "error")
  /\ UNCHANGED <<known, issued, assigned, storeLock, fileLock, late>>

Serving == {r \in Asker : ask[r].pc \notin {"idle", "over"}}

(* The server is killed and started again: the files are what they were.   *)
Crash ==
  /\ Serving # {}
  /\ ask' = [r \in Asker |-> IF r \in Serving THEN [NoAsk EXCEPT !.pc = "over"] ELSE ask[r]]
  /\ storeLock' = None /\ fileLock' = None
  /\ UNCHANGED <<known, issued, assigned, late>>

-----------------------------------------------------------------------------
Assignment == Connection \cup {None}

CreateConnection(r) == Arrive(r, "create", None, Global, "stage")
UpdateConnection(r) == \E c \in Connection : Arrive(r, "update", c, Global, "stage")
DeleteConnection(r) == \E c \in Connection : Arrive(r, "delete", c, Global, "stage")
SetGlobalStageDefault(r) == \E c \in Assignment : Arrive(r, "set", c, Global, "stage")
SetProjectStageOverride(r) ==
  \E c \in Assignment : \E p \in Project : Arrive(r, "set", c, p, "stage")
SetGlobalOperationDefault(r) == \E c \in Assignment : Arrive(r, "set", c, Global, "operation")
SetProjectOperationOverride(r) ==
  \E c \in Assignment : \E p \in Project : Arrive(r, "set", c, p, "operation")
DeleteGlobalOperationDefault(r) == Arrive(r, "set", None, Global, "operation")
DeleteProjectOperationOverride(r) == \E p \in Project : Arrive(r, "set", None, p, "operation")
ResetProjectOverrides(r) == \E p \in Project : Arrive(r, "reset", None, p, "stage")
CallModel(r) == \E p \in Project : \E k \in Keys : Arrive(r, "resolve", None, p, k)

(* The test of a connection, or the list of its models, asks no settings. *)
TestConnection(r) ==
  /\ ask[r].pc = "idle"
  /\ \E c \in Connection :
       ask' = [ask EXCEPT ![r] = [NoAsk EXCEPT !.pc = "resolved", !.op = "resolve", !.conn = c]]
  /\ UNCHANGED <<known, issued, assigned, storeLock, fileLock, late>>

Requests(r) ==
  \/ CreateConnection(r) \/ UpdateConnection(r) \/ TestConnection(r) \/ DeleteConnection(r)
  \/ SetGlobalStageDefault(r) \/ SetProjectStageOverride(r)
  \/ SetGlobalOperationDefault(r) \/ SetProjectOperationOverride(r)
  \/ DeleteGlobalOperationDefault(r) \/ DeleteProjectOperationOverride(r)
  \/ ResetProjectOverrides(r) \/ CallModel(r)

Serve(r) ==
  \/ Create(r) \/ GetConnection(r) \/ Update(r)
  \/ CollectProjectHostDirs(r) \/ LockStore(r) \/ ClearConnectionReferences(r) \/ RemoveConnection(r)
  \/ CheckConnection(r) \/ LockFile(r) \/ WriteAssignment(r) \/ RemoveOverrides(r)
  \/ ResolveForStageOperation(r) \/ ForConnection(r)

SettingsNext == (\E r \in Asker : Requests(r) \/ Serve(r)) \/ Crash

-----------------------------------------------------------------------------
(* An entry of the settings that names a connection the store no longer    *)
(* has makes every call of its stage fail.  However deletions, settings,   *)
(* failed writes and crashes interleave, the only such entries are those   *)
(* of a request that had looked the connection up before it was deleted    *)
(* and wrote after the references were cleared, or of projects the         *)
(* deletion could not list.                                                *)
AssignmentsResolve ==
  \A f \in Files : \A k \in Keys :
    assigned[f][k] \in known \cup {None} \/ <<f, k>> \in late

(* No request that has arrived is left without its answer. *)
RequestsAnswered == Serving = {}
=============================================================================
