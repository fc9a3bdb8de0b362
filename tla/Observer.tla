-------------------------------- MODULE Observer --------------------------------
(***************************************************************************)
(* What an execution run keeps of the beads it has closed: the skill       *)
(* observer asks a model about them batch by batch, each time the buffer   *)
(* is full in a goroutine of its own and at the end in the run's; what it  *)
(* finds goes to the file of observed skills, which every analysis reads   *)
(* and writes without a lock, and what it cost to the session log, which   *)
(* belongs to one goroutine with a channel.                                *)
(***************************************************************************)
EXTENDS Naturals, Sequences, FiniteSets

CONSTANTS Observed,  \* the beads the run closes
          Run,       \* the run itself, which analyses what is left at its end
          BatchSize, \* 5 in the code
          Room       \* places in the channel of the session writer, 64 in the code

ASSUME ObserverBounds ==
  {BatchSize, Room} \subseteq Nat \ {0} /\ Run \notin Observed /\ "beads" \notin Observed \cup {Run}

(* An analysis bears the name of the bead that filled the buffer. *)
Analyst == Observed \cup {Run}

VARIABLES
  recorded, \* beads closed so far
  buffer,   \* those no analysis has taken
  running,  \* the run: working, flushing, flushed, over
  analysis, \* [at, batch, seen]: seen is what it read of the file
  skills,   \* observed-skills.json: the analyses it has suggestions of
  shape,    \* of that file: whole, empty or mixed
  queue,    \* sessions in the writer's channel
  sessions, \* sessions.json
  spent,    \* history: whose tokens were to be recorded
  down      \* the process has panicked

observerVars ==
  <<recorded, buffer, running, analysis, skills, shape, queue, sessions, spent, down>>

NoAnalysis == [at |-> "none", batch |-> {}, seen |-> {}]

ObserverTypeOK ==
  /\ recorded \subseteq Observed /\ buffer \subseteq recorded
  /\ running \in {"working", "flushing", "flushed", "over"}
  /\ analysis \in [Analyst -> [at : {"none", "called", "asked", "spent", "found", "read", "writing", "over"},
                               batch : SUBSET Observed, seen : SUBSET Analyst]]
  /\ {skills, spent} \subseteq SUBSET Analyst
  /\ Len(queue) <= Room
  /\ shape \in {"whole", "empty", "mixed"} /\ down \in BOOLEAN

ObserverInit ==
  /\ recorded = {} /\ buffer = {} /\ running = "working"
  /\ analysis = [a \in Analyst |-> NoAnalysis]
  /\ skills = {} /\ shape = "whole"
  /\ queue = <<>> /\ sessions = <<>> /\ spent = {} /\ down = FALSE

-----------------------------------------------------------------------------
(* The observer's buffer, under its lock. *)

RecordBead(b) ==
  /\ ~down /\ running = "working" /\ b \notin recorded
  /\ recorded' = recorded \cup {b} /\ buffer' = buffer \cup {b}
  /\ analysis' = IF Cardinality(buffer') >= BatchSize
                 THEN [analysis EXCEPT ![b].at = "called"] ELSE analysis
  /\ UNCHANGED <<running, skills, shape, queue, sessions, spent, down>>

(* Slip: only a full buffer is flushed. *)
FlushFull ==
  /\ ~down /\ running = "working"
  /\ IF Cardinality(buffer) < BatchSize THEN running' = "flushed" /\ UNCHANGED analysis
     ELSE running' = "flushing" /\ analysis' = [analysis EXCEPT ![Run].at = "called"]
  /\ UNCHANGED <<recorded, buffer, skills, shape, queue, sessions, spent, down>>

(* All workers are done; the deferred Flush. *)
Flush ==
  /\ ~down /\ running = "working"
  /\ IF buffer = {} THEN running' = "flushed" /\ UNCHANGED analysis
     ELSE running' = "flushing" /\ analysis' = [analysis EXCEPT ![Run].at = "called"]
  /\ UNCHANGED <<recorded, buffer, skills, shape, queue, sessions, spent, down>>

(* analyzeBatch empties the buffer, or finds that another has.             *)
TakeBatch(a) ==
  /\ ~down /\ analysis[a].at = "called"
  /\ analysis' = IF buffer = {} THEN [analysis EXCEPT ![a].at = "over"]
                 ELSE [analysis EXCEPT ![a].at = "asked", ![a].batch = buffer]
  /\ buffer' = {}
  /\ UNCHANGED <<recorded, running, skills, shape, queue, sessions, spent, down>>

-----------------------------------------------------------------------------
(* The rest of analyzeBatch, without the lock. *)

analysisRest == <<recorded, buffer, running, sessions>>
Reaches(a, where) == analysis' = [analysis EXCEPT ![a].at = where]

(* The model's answer; a provider that fails ends the analysis.  Errors in *)
(* the stream are not looked at.                                           *)
Answered(a) ==
  /\ ~down /\ analysis[a].at = "asked"
  /\ \/ Reaches(a, "over") /\ UNCHANGED spent
     \/ Reaches(a, "spent") /\ spent' = spent \cup {a}
     \/ Reaches(a, "found") /\ UNCHANGED spent
  /\ UNCHANGED <<skills, shape, queue, down, analysisRest>>

RecordSession(a) ==
  /\ ~down /\ Len(queue) < Room
  /\ queue' = Append(queue, a)

RecordTokens(a) ==
  /\ analysis[a].at = "spent" /\ RecordSession(a) /\ Reaches(a, "found")
  /\ UNCHANGED <<skills, shape, spent, down, analysisRest>>

NoSuggestions(a) ==
  /\ ~down /\ analysis[a].at = "found" /\ Reaches(a, "over")
  /\ UNCHANGED <<skills, shape, queue, spent, down, analysisRest>>

(* A file that cannot be parsed gives no list, and to append to it is a    *)
(* panic, in a goroutine that nothing recovers.                            *)
ReadObservedSkills(a) ==
  /\ ~down /\ analysis[a].at = "found"
  /\ IF shape # "whole" THEN down' = TRUE /\ UNCHANGED analysis
     ELSE analysis' = [analysis EXCEPT ![a].at = "read", ![a].seen = skills] /\ UNCHANGED down
  /\ UNCHANGED <<skills, shape, queue, spent, analysisRest>>

(* os.WriteFile truncates first; written over what another has written     *)
(* since, a shorter list leaves the end of the longer one.                 *)
TruncateSkills(a) ==
  /\ ~down /\ analysis[a].at = "read"
  /\ shape' = "empty" /\ Reaches(a, "writing")
  /\ UNCHANGED <<skills, queue, spent, down, analysisRest>>

WriteObservedSkills(a) ==
  /\ ~down /\ analysis[a].at = "writing"
  /\ skills' = analysis[a].seen \cup {a}
  /\ shape' \in {"whole"} \cup (IF shape = "empty" THEN {} ELSE {"mixed"})
  /\ Reaches(a, "over")
  /\ UNCHANGED <<queue, spent, down, analysisRest>>

Analyse(a) ==
  \/ TakeBatch(a) \/ Answered(a) \/ RecordTokens(a) \/ NoSuggestions(a)
  \/ ReadObservedSkills(a) \/ TruncateSkills(a) \/ WriteObservedSkills(a)

(* The deferred functions after Flush; the tokens of the run. *)
EndRun ==
  /\ \/ running = "flushed"
     \/ running = "flushing" /\ analysis[Run].at = "over"
  /\ \/ RecordSession("beads") /\ UNCHANGED down
     \/ ~down /\ UNCHANGED <<queue, down>>
  /\ running' = "over"
  /\ UNCHANGED <<recorded, buffer, analysis, skills, shape, sessions, spent>>

(* SessionWriter.run: the one goroutine that reads and writes the log.     *)
AppendToDisk ==
  /\ ~down /\ queue # <<>>
  /\ sessions' = Append(sessions, Head(queue)) /\ queue' = Tail(queue)
  /\ UNCHANGED <<recorded, buffer, running, analysis, skills, shape, spent, down>>

Observing == Flush \/ EndRun \/ AppendToDisk \/ \E a \in Analyst : Analyse(a)
ObserverNext == Observing \/ \E b \in Observed : RecordBead(b)

-----------------------------------------------------------------------------
Quiet ==
  running = "over" /\ queue = <<>> /\ \A a \in Analyst : analysis[a].at \in {"none", "over"}

(* However the analyses overlap with each other, the workers and the end   *)
(* of the run, every closed bead has been in exactly one batch, and the    *)
(* tokens of every batch are in the session log exactly once: a log that   *)
(* can be read and written, for its writer ignores errors of the disk.     *)
EveryBeadIsAnalysed ==
  Quiet =>
    /\ \A b \in recorded : Cardinality({a \in Analyst : b \in analysis[a].batch}) = 1
    /\ \A a \in spent : Cardinality({i \in DOMAIN sessions : sessions[i] = a}) = 1

(* Nothing is left to do, or nobody to do it. *)
ObserverOver == Quiet \/ down
=============================================================================
