------------------------------ MODULE MCModelWork ------------------------------
(***************************************************************************)
(* Everything about a call of a model, seven modules side by side: which     *)
(* connection it uses, the call itself, what becomes of its answer, the    *)
(* jobs that are made of several, the repository their work is committed   *)
(* to, the commands that check it, and what a run learns from it.  A       *)
(* behaviour is one of one of them; the others are at rest, which is where *)
(* they can do nothing.                                                    *)
(***************************************************************************)
EXTENDS ModelCalls, Generations, Connections, MCEnvelope, Repository, Observer, Validation

C(id, role) == [id |-> id, role |-> role]

(* A row with an extra main component, everything but a row, sidebars      *)
(* without a main component, and two components of one id.                 *)
MCPagePlans == {
  <<C("c1", "main"), C("c2", "left"), C("c3", "main")>>,
  <<C("c1", "bottom"), C("c2", "full"), C("c3", "top")>>,
  <<C("c1", "right"), C("c2", "left")>>,
  <<C("c1", "main"), C("c1", "right")>>}

MCCheckPlans == {<<>>, <<"dev", "build", "run">>, <<"build", "build">>, <<"dev", "dev">>}

MCFilePlans == {<<"f1">>, <<"f1", "f2">>, <<"f1", "f1">>}

(* The connection that is there at the start. *)
FirstConnection == CHOOSE c \in Connection : TRUE

CallAtRest ==
  /\ wire = "cli" /\ reader = "strict" /\ pc = "closed" /\ outcome = "ok"
  /\ tries = 0 /\ lines = 0 /\ rounds = 0
  /\ said = <<>> /\ out = <<>> /\ chan = <<>> /\ got = <<>> /\ todo = <<>> /\ msgs = <<>>
  /\ cancelled = FALSE /\ cut = FALSE /\ fault = FALSE

JobAtRest ==
  /\ job = "vision" /\ step = "end" /\ report = "none" /\ stopped = FALSE
  /\ tabs = 0 /\ permits = Permits /\ page = <<>>
  /\ screen = [s \in 1 .. MaxScreens |-> NoScreen]
  /\ files = <<>> /\ pos = 1 /\ named = <<>> /\ missed = {} /\ fixes = 0
  /\ drafts = [p \in Paths |-> 0] /\ disk = [p \in Paths |-> 0]
  /\ first = [s \in Sections |-> "blank"] /\ doc = [s \in Sections |-> "blank"]

SettingsAtRest ==
  /\ known = {} /\ issued = {} /\ late = {}
  /\ assigned = [f \in Files |-> [k \in Keys |-> None]]
  /\ storeLock = None /\ fileLock = None
  /\ ask = [r \in Asker |-> [NoAsk EXCEPT !.pc = "over"]]

Nothing == [tag |-> "none", text |-> <<>>, shut |-> TRUE]
FilterAtRest ==
  /\ answer = <<Nothing, Nothing>> /\ fed = Len(Text(answer))
  /\ LET all == Feed(Text(answer), "before")
     IN at = all.at /\ hold = all.hold /\ shown = all.out

RepoAtRest ==
  /\ tree = {} /\ index = {} /\ log = <<{}>> /\ left = <<>> /\ spoiled = {}
  /\ turn = [a \in Actor |-> "over"] /\ requests = MaxRequests
  /\ post = [w \in Bead |-> Bead]

ObserverAtRest ==
  /\ recorded = {} /\ buffer = {} /\ running = "over"
  /\ analysis = [a \in Analyst |-> NoAnalysis]
  /\ skills = {} /\ shape = "whole"
  /\ queue = <<>> /\ sessions = <<>> /\ spent = {} /\ down = FALSE

(* A project without commands has none to check; a model may say nothing. *)
ASSUME RestIsLegitimate == <<>> \in CheckPlans /\ <<Nothing, Nothing>> \in ModelAnswers

ValidationAtRest == checks = <<>> /\ verdicts = <<>> /\ proc = <<>> /\ aborted = FALSE

WorkInit ==
  \/ /\ Init /\ JobAtRest /\ SettingsAtRest /\ FilterAtRest
     /\ RepoAtRest /\ ObserverAtRest /\ ValidationAtRest
  \/ /\ CallAtRest /\ GenInit /\ SettingsAtRest /\ FilterAtRest
     /\ RepoAtRest /\ ObserverAtRest /\ ValidationAtRest
  \/ /\ CallAtRest /\ JobAtRest /\ SettingsInit /\ known = {FirstConnection}
     /\ FilterAtRest /\ RepoAtRest /\ ObserverAtRest /\ ValidationAtRest
  \/ /\ CallAtRest /\ JobAtRest /\ SettingsAtRest /\ FilterInit
     /\ RepoAtRest /\ ObserverAtRest /\ ValidationAtRest
  \/ /\ CallAtRest /\ JobAtRest /\ SettingsAtRest /\ FilterAtRest
     /\ RepoInit /\ ObserverAtRest /\ ValidationAtRest
  \/ /\ CallAtRest /\ JobAtRest /\ SettingsAtRest /\ FilterAtRest
     /\ RepoAtRest /\ ObserverInit /\ ValidationAtRest
  \/ /\ CallAtRest /\ JobAtRest /\ SettingsAtRest /\ FilterAtRest
     /\ RepoAtRest /\ ObserverAtRest /\ ValidationInit

WorkNext ==
  \/ Next /\ UNCHANGED <<genVars, settingsVars, filterVars, repoVars, observerVars, validationVars>>
  \/ GenNext /\ UNCHANGED <<vars, settingsVars, filterVars, repoVars, observerVars, validationVars>>
  \/ SettingsNext /\ UNCHANGED <<vars, genVars, filterVars, repoVars, observerVars, validationVars>>
  \/ FilterNext /\ UNCHANGED <<vars, genVars, settingsVars, repoVars, observerVars, validationVars>>
  \/ RepoNext /\ UNCHANGED <<vars, genVars, settingsVars, filterVars, observerVars, validationVars>>
  \/ ValidationNext /\ UNCHANGED <<vars, genVars, settingsVars, filterVars, repoVars, observerVars>>
  \/ ObserverNext /\ UNCHANGED <<vars, genVars, settingsVars, filterVars, repoVars, validationVars>>

workVars == <<vars, genVars, settingsVars, filterVars, repoVars, observerVars, validationVars>>

(* As in ModelCalls; every goroutine of a job is scheduled and its calls   *)
(* return; the handler of every request is scheduled; git commands end.    *)
(* Steps of different modules share a condition: in one behaviour only the *)
(* steps of one module are ever enabled.                                   *)
WorkFairness ==
  /\ WF_workVars(\/ Provider /\ UNCHANGED <<genVars, settingsVars, filterVars, repoVars, observerVars, validationVars>>
                 \/ (Mock \/ Code \/ Vision) /\ UNCHANGED <<vars, settingsVars, filterVars, repoVars, observerVars, validationVars>>
                 \/ (\E w \in Bead : Method(w) \/ Work(w)) /\ UNCHANGED <<vars, genVars, settingsVars, filterVars, observerVars, validationVars>>
                 \/ Gate /\ UNCHANGED <<vars, genVars, settingsVars, filterVars, repoVars, observerVars>>
                 \/ Observing /\ UNCHANGED <<vars, genVars, settingsVars, filterVars, repoVars, validationVars>>)
  /\ WF_workVars(\/ Reader /\ UNCHANGED <<genVars, settingsVars, filterVars, repoVars, observerVars, validationVars>>
                 \/ Cleanup /\ UNCHANGED <<vars, genVars, settingsVars, filterVars, repoVars, observerVars>>
                 \/ (\E a \in {Approval, User} : Method(a)) /\ UNCHANGED <<vars, genVars, settingsVars, filterVars, observerVars, validationVars>>)
  /\ WF_workVars(Approve /\ UNCHANGED <<vars, genVars, settingsVars, filterVars, observerVars, validationVars>>)
  /\ \A r \in Asker : WF_workVars(Serve(r) /\ UNCHANGED <<vars, genVars, filterVars, repoVars, observerVars, validationVars>>)

WorkSpec == WorkInit /\ [][WorkNext]_workVars /\ WorkFairness

(* The types of the seven modules' variables. *)
WorkTypeOK ==
  /\ TypeOK /\ GenTypeOK /\ SettingsTypeOK /\ FilterTypeOK /\ RepoTypeOK /\ ObserverTypeOK
  /\ ValidationTypeOK

(* Whatever is begun here ends: a call, whatever the service sends, however*)
(* often it asks to wait and whenever the caller is cancelled; a job, also *)
(* when screens outnumber the places of the semaphore and when the run is  *)
(* stopped in the middle; the requests about connections and settings,     *)
(* although a deletion takes the locks of both stores; what a worker and   *)
(* an approval do in the repository, although each waits for a lock; the   *)
(* analyses of closed beads and the log of what they cost; the commands of *)
(* the gate, their process groups with them, except where a child of a     *)
(* build command holds its output.                                         *)
WorkEnds ==
  <>[](CallOver /\ GenerationOver /\ RequestsAnswered /\ RepositoryOver
      /\ ObserverOver /\ ValidationOver)
=============================================================================
