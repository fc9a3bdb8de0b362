------------------------------ MODULE Generations ------------------------------
(***************************************************************************)
(* The three jobs that make one result out of several model calls:         *)
(*   mock    StartMockRunOrchestrated: a planner, then one worker for each *)
(*           screen that plans and makes its components, then one page;    *)
(*   code    dispatchExecuteBeadOrchestrated: plan the files of a bead,    *)
(*           generate, write, build, and regenerate when the build fails;  *)
(*   vision  RunVisionTurn: draft, critique, perhaps one repair.           *)
(* A call is one step that succeeds or fails as module ModelCalls allows.  *)
(* A component is an id and a layout role, a fragment the screen and the   *)
(* position in the plan it was made for; the content of a file is the      *)
(* number of times it has been generated, a vision section who wrote it.   *)
(***************************************************************************)
EXTENDS Naturals, Sequences, FiniteSets, SequencesExt

CONSTANTS MaxScreens,     \* bound: screens the planner lists
          PagePlans,      \* what component planners may answer
          FilePlans,      \* what file planners may answer: sequences of paths
          Sections,       \* seven in the code
          Permits,        \* maxViewWorkers, 3 in the code
          MaxMockRetries, \* 2 in the code
          MaxBuildFixes   \* 2 in the code

Roles == {"top", "left", "main", "right", "bottom", "full"}
Paths == UNION {Range(fp) : fp \in FilePlans}

ASSUME GenerationBounds ==
  /\ {MaxScreens, Permits, MaxBuildFixes} \subseteq Nat \ {0}
  /\ MaxMockRetries \in Nat
  /\ \A plan \in PagePlans :
       plan # <<>> /\ plan \in Seq(Range(plan)) /\ \A c \in Range(plan) : c.role \in Roles
  /\ \A fp \in FilePlans : fp # <<>> /\ fp \in Seq(Range(fp))

VARIABLES
  job, step,     \* the job and where its goroutine is
  stopped,       \* the run's context is done
  report,        \* its last event: none, done or error
  tabs, permits, \* mock: screens planned, free places of the semaphore
  screen,        \* mock: the worker of each screen
  page,          \* mock: the views as assembled
  files, pos,    \* code: the plan and the file at hand
  drafts, disk,  \* code: generated and written contents
  named, missed, \* code: files the summary names; files a write failed for
  fixes,         \* code: correction rounds begun
  first, doc     \* vision: the draft's sections, and the current ones

mockVars == <<tabs, permits, screen, page>>
codeVars == <<files, pos, drafts, disk, named, missed, fixes>>
visionVars == <<first, doc>>
genVars == <<job, step, stopped, report, mockVars, codeVars, visionVars>>

Writers == {"blank", "drafted", "revised", "repaired"}
NoScreen == [at |-> "idle", plan |-> <<>>, made |-> <<>>, tries |-> 0, view |-> <<>>]

GenTypeOK ==
  /\ job \in {"mock", "code", "vision"} /\ stopped \in BOOLEAN
  /\ step \in {"plan", "screens", "generate", "write", "validate", "fix",
               "critique", "repair", "finish", "end"}
  /\ report \in {"none", "done", "error"}
  /\ tabs \in 0 .. MaxScreens /\ permits \in 0 .. Permits
  /\ \A s \in 1 .. MaxScreens :
       /\ screen[s].at \in {"idle", "queued", "planning", "making", "over"}
       /\ screen[s].tries \in 0 .. MaxMockRetries
       /\ Len(screen[s].made) <= Len(screen[s].plan)
  /\ pos \in 1 .. Len(files) + 1 /\ fixes \in 0 .. MaxBuildFixes - 1
  /\ drafts \in [Paths -> Nat] /\ disk \in [Paths -> Nat]
  /\ Range(named) \cup missed \subseteq Paths
  /\ first \in [Sections -> Writers] /\ doc \in [Sections -> Writers]

GenInit ==
  /\ job \in {"mock", "code", "vision"} /\ step = "plan"
  /\ stopped = FALSE /\ report = "none"
  /\ tabs = 0 /\ permits = Permits /\ page = <<>>
  /\ screen = [s \in 1 .. MaxScreens |-> NoScreen]
  /\ files = <<>> /\ pos = 1 /\ named = <<>> /\ missed = {} /\ fixes = 0
  /\ drafts = [p \in Paths |-> 0] /\ disk = [p \in Paths |-> 0]
  /\ first = [s \in Sections |-> "blank"] /\ doc = [s \in Sections |-> "blank"]

At(j, where) == job = j /\ step = where /\ UNCHANGED <<job, stopped>>
Goto(where) == step' = where /\ UNCHANGED report
Ends(event) == step' = "end" /\ report' = event

StopGeneration ==
  /\ ~stopped /\ step # "end"
  /\ stopped' = TRUE
  /\ UNCHANGED <<job, step, report, mockVars, codeVars, visionVars>>

-----------------------------------------------------------------------------
(* mock *)

MockPlanFails ==
  /\ At("mock", "plan") /\ Ends("error")
  /\ UNCHANGED <<mockVars, codeVars, visionVars>>

(* The screens, from JSON or from a plain list; one goroutine for each. *)
MockPlanned(n) ==
  /\ At("mock", "plan") /\ Goto("screens")
  /\ tabs' = n
  /\ screen' = [s \in 1 .. MaxScreens |->
                  IF s <= n THEN [NoScreen EXCEPT !.at = "queued"] ELSE NoScreen]
  /\ UNCHANGED <<permits, page, codeVars, visionVars>>

Worker(s, where) ==
  /\ At("mock", "screens") /\ screen[s].at = where
  /\ UNCHANGED <<step, report, tabs, page, codeVars, visionVars>>

TakePermit(s) ==
  /\ Worker(s, "queued") /\ permits > 0
  /\ permits' = permits - 1
  /\ screen' = [screen EXCEPT ![s].at = "planning"]

PlanScreen(s, plan) ==
  /\ Worker(s, "planning")
  /\ screen' = [screen EXCEPT ![s].at = "making", ![s].plan = plan]
  /\ UNCHANGED permits

(* A failed plan is replaced by one component of full width. *)
Fallback == <<[id |-> "fallback", role |-> "full"]>>

Makes(s) == Worker(s, "making") /\ Len(screen[s].made) < Len(screen[s].plan) /\ UNCHANGED permits

(* The next component's call: its fragment, or after an error, the stop or *)
(* the last attempt without HTML, a placeholder.                           *)
MakePart(s, ok) ==
  /\ Makes(s) /\ (ok => ~stopped)
  /\ LET fragment == [screen |-> s, part |-> Len(screen[s].made) + 1, ok |-> ok]
     IN screen' = [screen EXCEPT ![s].made = Append(@, fragment), ![s].tries = 0]

(* An answer without HTML is asked again. *)
RetryPart(s) ==
  /\ Makes(s) /\ ~stopped /\ screen[s].tries < MaxMockRetries
  /\ screen' = [screen EXCEPT ![s].tries = @ + 1]

(* htmlFragments: keyed by id, so of components with one id the last stays.*)
FragmentOf(s, id) ==
  LET at == CHOOSE i \in DOMAIN screen[s].plan :
              /\ screen[s].plan[i].id = id
              /\ \A j \in DOMAIN screen[s].plan : screen[s].plan[j].id = id => j <= i
  IN screen[s].made[at]

(* The positions from the first one on. *)
InOrder(at) ==
  CHOOSE p \in [1 .. Cardinality(at) -> at] : \A m, n \in DOMAIN p : m < n => p[m] < p[n]

(* The components of a role, in the order of the plan. *)
Places(plan, role) == {i \in DOMAIN plan : plan[i].role = role}
InRole(plan, role) ==
  LET at == InOrder(Places(plan, role)) IN [n \in DOMAIN at |-> plan[at[n]]]

(* Slip: beside a sidebar, only the first main component is placed. *)
LayoutFirstMain(plan) ==
  LET main == InRole(plan, "main")
      sides == InRole(plan, "left") \o InRole(plan, "right")
      middle == IF sides # <<>> /\ main # <<>>
                THEN InRole(plan, "left") \o <<main[1]>> \o InRole(plan, "right")
                ELSE main \o sides
  IN InRole(plan, "top") \o middle \o InRole(plan, "full") \o InRole(plan, "bottom")

(* Top, a row of the first main component between its sidebars and the     *)
(* other main ones below it, then full width, then bottom.                 *)
Layout(plan) ==
  LET main == InRole(plan, "main")
      sides == InRole(plan, "left") \o InRole(plan, "right")
      middle == IF sides # <<>> /\ main # <<>>
                THEN InRole(plan, "left") \o <<main[1]>> \o InRole(plan, "right") \o Tail(main)
                ELSE main \o sides
  IN InRole(plan, "top") \o middle \o InRole(plan, "full") \o InRole(plan, "bottom")

AssembleScreen(s) ==
  /\ Worker(s, "making") /\ Len(screen[s].made) = Len(screen[s].plan)
  /\ LET order == Layout(screen[s].plan)
     IN screen' = [screen EXCEPT ![s].at = "over",
                     ![s].view = [i \in DOMAIN order |-> FragmentOf(s, order[i].id)]]
  /\ permits' = permits + 1

(* All workers are over: AssembleMockHTML, sanitize, write, done. *)
AssemblePage ==
  /\ At("mock", "screens") /\ \A s \in 1 .. tabs : screen[s].at = "over"
  /\ page' = [s \in 1 .. tabs |-> screen[s].view]
  /\ Ends("done")
  /\ UNCHANGED <<tabs, permits, screen, codeVars, visionVars>>

Mock ==
  \/ MockPlanFails
  \/ \E n \in 1 .. MaxScreens : MockPlanned(n)
  \/ \E s \in 1 .. MaxScreens :
       \/ TakePermit(s)
       \/ \E plan \in PagePlans \cup {Fallback} : PlanScreen(s, plan)
       \/ \E ok \in BOOLEAN : MakePart(s, ok)
       \/ RetryPart(s)
       \/ AssembleScreen(s)
  \/ AssemblePage

-----------------------------------------------------------------------------
(* code *)

Coding(where) == At("code", where) /\ UNCHANGED <<mockVars, visionVars>>

(* No answer, or no file in it and no target files to fall back on.  An    *)
(* event may be dropped once the context is done.                          *)
Dropped(event) == event \/ (stopped /\ step' = "end" /\ UNCHANGED report)

CodePlanFails ==
  /\ Coding("plan") /\ Dropped(Ends("error"))
  /\ UNCHANGED codeVars

CodePlanned(fp) ==
  /\ Coding("plan") /\ Goto("generate")
  /\ files' = fp
  /\ UNCHANGED <<pos, drafts, disk, named, missed, fixes>>

(* To the next file, or past the last one to the next stage. *)
NextFile(stage) ==
  IF pos < Len(files) THEN pos' = pos + 1 /\ Goto(step) ELSE pos' = 1 /\ Goto(stage)

StopsGenerating ==
  /\ Coding("generate") /\ stopped
  /\ step' = "end" /\ UNCHANGED <<report, codeVars>>

(* A failed or empty answer skips the file. *)
GenerateFile(ok) ==
  /\ Coding("generate") /\ ~stopped
  /\ drafts' = IF ok THEN [drafts EXCEPT ![files[pos]] = @ + 1] ELSE drafts
  /\ NextFile("write")
  /\ UNCHANGED <<files, disk, named, missed, fixes>>

WriteFile(ok) ==
  /\ Coding("write")
  /\ LET p == files[pos]
         writes == drafts[p] > 0
     IN /\ disk' = IF writes /\ ok THEN [disk EXCEPT ![p] = drafts[p]] ELSE disk
        /\ named' = IF writes /\ ok THEN Append(named, p) ELSE named
        /\ missed' = IF writes /\ ~ok THEN missed \cup {p} ELSE missed
  /\ NextFile("validate")
  /\ UNCHANGED <<files, drafts, fixes>>

(* No build commands, the stop, a build that passes, or no fix left. *)
CodeDone ==
  /\ Coding("validate") /\ Dropped(Ends("done"))
  /\ UNCHANGED codeVars

BuildFails ==
  /\ Coding("validate") /\ ~stopped /\ fixes < MaxBuildFixes - 1
  /\ fixes' = fixes + 1 /\ Goto("fix")
  /\ UNCHANGED <<files, pos, drafts, disk, named, missed>>

(* Every generated file is generated again; a failed rewrite is ignored. *)
FixFile(ok, writes) ==
  /\ Coding("fix")
  /\ LET p == files[pos]
         fixed == drafts[p] > 0 /\ ok
     IN /\ drafts' = IF fixed THEN [drafts EXCEPT ![p] = @ + 1] ELSE drafts
        /\ disk' = IF fixed /\ writes THEN [disk EXCEPT ![p] = drafts[p] + 1] ELSE disk
        /\ missed' = IF fixed /\ ~writes THEN missed \cup {p} ELSE missed
  /\ NextFile("validate")
  /\ UNCHANGED <<files, named, fixes>>

Code ==
  \/ CodePlanFails \/ StopsGenerating \/ CodeDone \/ BuildFails
  \/ \E fp \in FilePlans : CodePlanned(fp)
  \/ \E ok \in BOOLEAN : GenerateFile(ok) \/ WriteFile(ok)
  \/ \E ok \in BOOLEAN : \E writes \in BOOLEAN : FixFile(ok, writes)

-----------------------------------------------------------------------------
(* vision *)

Turn(where) == At("vision", where) /\ UNCHANGED <<mockVars, codeVars>>
Filled(sections, by) == [s \in Sections |-> IF s \in sections THEN by ELSE "blank"]

(* mergeVisionSections: the first one's text, where it has any. *)
MergeSections(a, b) == [s \in Sections |-> IF a[s] # "blank" THEN a[s] ELSE b[s]]

DraftFails == Turn("plan") /\ Ends("error") /\ UNCHANGED visionVars

(* A question, or an answer that is no JSON: the discussion only. *)
DraftTalks == Turn("plan") /\ Ends("done") /\ UNCHANGED visionVars

DraftWritten(sections) ==
  /\ Turn("plan") /\ Goto("critique")
  /\ first' = Filled(sections, "drafted") /\ doc' = first'

(* Approved, failed, or rejected with neither issues nor a whole revision. *)
CritiqueAccepts == Turn("critique") /\ Goto("finish") /\ UNCHANGED visionVars

CritiqueRevises ==
  /\ Turn("critique") /\ Goto("finish")
  /\ doc' = Filled(Sections, "revised") /\ UNCHANGED first

CritiqueObjects == Turn("critique") /\ Goto("repair") /\ UNCHANGED visionVars

(* A failed repair, or one without sections, repairs nothing. *)
Repair(sections) ==
  /\ Turn("repair") /\ Goto("finish")
  /\ doc' = MergeSections(Filled(sections, "repaired"), doc) /\ UNCHANGED first

VisionDone ==
  /\ Turn("finish") /\ Ends("done")
  /\ doc' = MergeSections(doc, first) /\ UNCHANGED first

Vision ==
  \/ DraftFails \/ DraftTalks \/ CritiqueAccepts \/ CritiqueRevises \/ CritiqueObjects
  \/ \E sections \in SUBSET Sections : DraftWritten(sections) \/ Repair(sections)
  \/ VisionDone

GenNext == StopGeneration \/ Mock \/ Code \/ Vision

-----------------------------------------------------------------------------
(* Whatever fails on the way, a result that is reported is whole.  The page*)
(* shows each component of a screen once, on that screen, when its plan    *)
(* gave them different ids; each file the summary names holds its last     *)
(* generated content, unless a write failed; the vision keeps a text for   *)
(* every section the draft had one for.                                    *)
ResultIsComplete ==
  report = "done" =>
    CASE job = "mock" ->
           \A s \in 1 .. tabs :
             LET plan == screen[s].plan
             IN IsInjective([i \in DOMAIN plan |-> plan[i].id]) =>
                  /\ {<<f.screen, f.part>> : f \in Range(page[s])} = {s} \X DOMAIN plan
                  /\ Len(page[s]) = Len(plan)
      [] job = "code" -> \A p \in Range(named) \ missed : disk[p] = drafts[p]
      [] job = "vision" -> \A s \in Sections : first[s] # "blank" => doc[s] # "blank"

(* The job's goroutine has returned, and with it its workers. *)
GenerationOver == step = "end"
=============================================================================
