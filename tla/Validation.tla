------------------------------- MODULE Validation -------------------------------
(***************************************************************************)
(* The validation gate of an execution run at work: the project's commands *)
(* one after another, each a shell in a process group of its own.  A build *)
(* command must end; a development or run command passes when it is still  *)
(* there at its timeout, and its group is then killed.  A command may      *)
(* start a child that stays in its group and keeps its output open.        *)
(***************************************************************************)
EXTENDS Naturals, Sequences

CONSTANT CheckPlans \* the lists of commands, by category

ASSUME CheckCategories == CheckPlans \subseteq Seq({"dev", "build", "run"})

VARIABLES
  checks,   \* the commands, in the order they are run
  verdicts, \* results so far
  proc,     \* the process group of each command
  aborted   \* the run's context is done

validationVars == <<checks, verdicts, proc, aborted>>

NotStarted == [shell |-> "none", ok |-> FALSE, child |-> FALSE, signal |-> "none"]

ValidationTypeOK ==
  /\ checks \in CheckPlans /\ Len(verdicts) <= Len(checks)
  /\ proc \in [DOMAIN checks ->
       [shell : {"none", "alive", "zombie", "reaped"}, ok : BOOLEAN,
        child : BOOLEAN, signal : {"none", "term", "kill"}]]
  /\ aborted \in BOOLEAN

ValidationInit ==
  /\ checks \in CheckPlans /\ verdicts = <<>> /\ aborted = FALSE
  /\ proc = [i \in DOMAIN checks |-> NotStarted]

-----------------------------------------------------------------------------
(* The processes. *)

Fork(i) ==
  /\ proc[i].shell = "alive" /\ proc' = [proc EXCEPT ![i].child = TRUE]
  /\ UNCHANGED <<checks, verdicts, aborted>>

ShellExits(i) ==
  /\ proc[i].shell = "alive"
  /\ \E ok \in BOOLEAN : proc' = [proc EXCEPT ![i].shell = "zombie", ![i].ok = ok]
  /\ UNCHANGED <<checks, verdicts, aborted>>

ChildExits(i) ==
  /\ proc[i].child /\ proc' = [proc EXCEPT ![i].child = FALSE]
  /\ UNCHANGED <<checks, verdicts, aborted>>

(* Wait first collects the shell, then waits until nobody holds the output.*)
Reap(i) ==
  /\ proc[i].shell = "zombie" /\ proc' = [proc EXCEPT ![i].shell = "reaped"]
  /\ UNCHANGED <<checks, verdicts, aborted>>

OutputClosed(i) == proc[i].shell = "reaped" /\ ~proc[i].child

-----------------------------------------------------------------------------
(* The gate. *)

Current == Len(verdicts) + 1
Started == Current \in DOMAIN checks /\ proc[Current].shell # "none"
LongRunning == checks[Current] \in {"dev", "run"}
Judge(v) == verdicts' = Append(verdicts, v) /\ UNCHANGED <<checks, aborted>>

(* A build command is not started once the run is stopped; the others are, *)
(* to be killed at once.  Starting may fail.                               *)
StartCommand ==
  /\ Current \in DOMAIN checks /\ ~Started
  /\ \/ /\ aborted => LongRunning
        /\ proc' = [proc EXCEPT ![Current].shell = "alive"]
        /\ UNCHANGED <<checks, verdicts, aborted>>
     \/ Judge(FALSE) /\ UNCHANGED proc

CommandEnds ==
  /\ Started /\ OutputClosed(Current)
  /\ Judge(proc[Current].ok) /\ UNCHANGED proc

(* The group of a shell that has been collected cannot be looked up any    *)
(* more: it is sent nothing.                                               *)
KillProcessGroup(i) ==
  proc' = IF proc[i].shell = "reaped" THEN proc
          ELSE [proc EXCEPT ![i].signal = "term"]

WatchTimesOut ==
  Started /\ LongRunning /\ KillProcessGroup(Current) /\ Judge(TRUE)

WatchCancelled ==
  Started /\ LongRunning /\ aborted /\ KillProcessGroup(Current) /\ Judge(FALSE)

(* Slip: the command has the context of the run, without a timeout.        *)
BuildKilledAtStop ==
  /\ Started /\ ~LongRunning /\ aborted /\ proc[Current].shell = "alive"
  /\ proc' = [proc EXCEPT ![Current].shell = "zombie", ![Current].ok = FALSE]
  /\ UNCHANGED <<checks, verdicts, aborted>>

(* The context of a build command is done, by timeout or by stop: its      *)
(* shell is killed, and nobody else.                                       *)
BuildKilled ==
  /\ Started /\ ~LongRunning /\ proc[Current].shell = "alive"
  /\ proc' = [proc EXCEPT ![Current].shell = "zombie", ![Current].ok = FALSE]
  /\ UNCHANGED <<checks, verdicts, aborted>>

(* Five seconds after the first signal. *)
KillLate(i) ==
  /\ proc[i].signal = "term"
  /\ proc' = [proc EXCEPT ![i].signal = "kill", ![i].child = FALSE,
                          ![i].shell = IF @ = "alive" THEN "zombie" ELSE @]
  /\ UNCHANGED <<checks, verdicts, aborted>>

Abort ==
  /\ ~aborted /\ Current \in DOMAIN checks /\ aborted' = TRUE
  /\ UNCHANGED <<checks, verdicts, proc>>

Gate == StartCommand \/ CommandEnds \/ WatchTimesOut \/ WatchCancelled \/ BuildKilled
Cleanup == \E i \in DOMAIN checks : Reap(i) \/ KillLate(i)
Processes == \E i \in DOMAIN checks : Fork(i) \/ ShellExits(i) \/ ChildExits(i)
ValidationNext == Gate \/ Cleanup \/ Processes \/ Abort

-----------------------------------------------------------------------------
(* The one way the gate never ends: the shell of a build command is gone   *)
(* and a child of it still holds the output, which no timeout watches.     *)
HeldByChild ==
  Started /\ ~LongRunning /\ proc[Current].shell = "reaped" /\ proc[Current].child

(* The gate is over, no shell is left, and a child is only where nobody    *)
(* has sent the group a signal.                                            *)
ValidationOver ==
  /\ Current \notin DOMAIN checks \/ HeldByChild
  /\ \A i \in DOMAIN checks :
       /\ proc[i].shell \in {"none", "reaped"}
       /\ proc[i].child => proc[i].signal = "none"
=============================================================================
