# Paulette in TLA+

Paulette is a Go server with a React front end. It takes a software project
through a pipeline of stages (vision, requirements, architecture, ..., build,
complete). Each stage runs an AI agent whose answer becomes a document of the
project; a person, or an *autopilot* goroutine, approves the document and the
project moves on. This directory holds TLA+ modules of its back end, the TLC
configurations that check them, and proofs checked by TLAPS.

Paths below are relative to `src/backend/internal/` unless they start with `src/`.

## 1. The system

### 1.1 How the parts meet

* An HTTP handler starts a *run* (`stream`): a goroutine that calls a provider
  and emits events. Any number of clients subscribe to it, come back after a
  disconnect, and read what they missed.
* The *autopilot* (`autopilot`) is one goroutine per autonomous project. It
  calls the same handlers in-process, waits for their runs by subscribing to
  them, and approves stages.
* The vision stage can run the *refinement loop* (`refinement`), a controller
  that asks questions, takes in answers and writes the document.
* The *bead executor* (`handler/bead*.go`) works through the issues ("beads")
  of the build stage in parallel, limited by a semaphore or by the *build pool*
  (`provider/build_pool.go`); its workers commit to the project's repository.
* Every agent is a *provider* (`provider`): an HTTP client or a process whose
  answer comes as events through a bounded channel. Which provider, is looked
  up in the *stage settings* at each call. Answers keep an envelope format that
  a filter shows while it streams and a parser takes apart at the end (`agent`).
* All of them read and write the *project record* (`registry.json`, through
  `repository/fs/registry.go`) and files: histories, activities, run logs,
  sessions, artifacts in a data directory, promoted to `docs/` when approved.
* `main.go` starts the orchestrator, and on a signal cancels the drivers and then
  the runs.

Nothing is shared through a database transaction. The registry and the stores
have a mutex around each call, so a read followed by a write in a handler is not
atomic; many files have no lock at all. That, the locks and channels of the run
manager, of the pool and of the providers, the map of drivers, and what a
restart finds on disk are where the hard behaviours of this code are.

### 1.2 Inventory

| Component | State | Operations | What is hard | What makes it correct |
|---|---|---|---|---|
| Run manager `stream/manager.go` | runs by key and by id; per run: events, subscriber channels, done flag; watcher channels; grace timers | Start, Emit, Finish, Subscribe, Unsubscribe, Get, Active, CancelAll, Watch | two locks taken one after the other; a timer that outlives its run; non-blocking sends to bounded channels | one live run per key, reachable; readers get the log in order and its end; wake-ups not lost; shutdown reaches every run |
| Watch endpoint `handler/pipeline.go` | the last state sent | send, register, wait, rebuild | a change between building a state and waiting | the client's view catches up |
| Build pool `provider/build_pool.go` | slots, their semaphores, degraded flags, counters | Acquire, Release, MarkDegraded, Reconfigure | a wait under a read lock; slots replaced under leases | tokens equal leases; nobody waits for ever |
| Bead executor `handler/bead*.go`, bead storage (`bd`) | status and dependencies of beads; slots, workers, review iterations | generate, execute, claim, review, correct, close, validate, stale reset, single bead, pause | claims of several actors, failures half-way, resets beside runs, crashes | one agent per bead; slots returned; nothing in progress unseen; the run ends |
| Autopilot `autopilot/orchestrator.go` | map project -> cancel function | StartAll, Ensure, Cancel, CancelAll, runProject | races of requests, start-up, shutdown and a driver's own exit | at most one driver; off means off; on means driven |
| Project requests `handler/project.go` | none of their own | Create, Get (heals), Patch, Delete | read-modify-write without a lock | no update lost |
| Stage pipeline `handler/pipeline.go`, `enhance.go`, `reset.go` | stage, version and summary flags of the record; files | Approve, RegenerateSummary, ApproveSummary, Enhance, Reset | stale copies written minutes later; files and flags changed in separate steps | flags name files that exist; no stage passed without its artifact |
| Registry, artifact files `repository/fs` | `registry.json`; files | Get, Update, UpdateFunc; Read, Write, ReadWithFallback | whole-record and whole-file writes | as above |
| Chat and mock runs `handler/chat.go`, `mock.go`; import, instruct, refine | histories, activity entry, run logs | send, resume, generate, retry | two operations share one activity entry; errors after partial answers; restarts | entry, log and client agree; no badge for ever |
| Activity records `handler/activity*.go`, `repository/fs/activity.go` | one entry per stage, queued messages | set, clear, mark failed, resume at start-up | a copy read before a crash's leftovers are dealt with | an entry that says "running" has a run |
| Orchestrated generation `handler/mock.go`, `bead_orchestrated.go`, `agent/vision_turn.go` | plans, fragments, files, sections | plan, generate in parallel, assemble, build, fix | parts that fail alone, permits, stops in the middle | what is reported is whole |
| Refinement loop `refinement/` | loop state in memory and on disk, answer channel | start, answer, finish, review, reset, stop | answers that meet no reader; stale saves; a second start | an answer reaches its question and the document; loops end |
| Providers `provider/*.go`, `agent/helpers.go` | an event channel, the conversation of a tool loop | Chat, ExecuteAgent for seven services | errors inside streams, retries, readers that leave, slow readers | cut answers are not taken for whole ones; calls answered |
| Envelope `agent/parse.go` | the filter's state and held-back text | Feed, ParseResponse | tags cut by chunk boundaries | shown is what is saved |
| Provider configuration `provider/connection_store.go`, `stage_config.go`, `handler/connection.go`, `config_handler.go` | connections, stage and operation settings | create, update, delete, set, reset, resolve | deletion across two locked stores; check-then-set | settings name connections that exist |
| Git service `git/` | lock per directory; index, work tree | add, commit, reset, discard, push | two services with locks of their own; a command that fails in a sequence | a bead's commit has its work; an approval is committed |
| Skill observer `handler/skill_observer.go`, sessions `repository/fs/sessions.go` | buffer of beads, observed-skills file, session channel | record, flush, analyse, append | overlapping analyses; a file without a lock | each bead analysed once, each cost logged once |
| Validation gate `pipeline/validation*.go` | process groups | run to completion, run and watch, kill | timeouts that kill a shell and not its children; servers that outlive their verdict | the gate ends; a signalled group goes |
| Knowledge base `rag/` | none of its own | ingest, search, rank, merge | external service | not in scope |
| Authentication | sessions | login, check | - | not in scope |
| Server, configuration, CLI | routes, settings | start, shutdown | order of start-up and shutdown | covered with the run manager, the autopilot and the stage runs |
| Front end `src/frontend` | UI state | requests | - | used only for which requests it offers |

`PROJECT.json` lists the components with their status, and under `hazards` each
place where the code can go wrong in a way a test would hardly reach, with the
property that would notice, or the reason why none does.

## 2. Modules

| Module | Models | Role |
|---|---|---|
| `StreamPromise` | what the run manager owes a reader | abstract specification |
| `StreamRuns` | `stream/manager.go`, the watch endpoint, `activity.go` Stream | detailed specification, refines `StreamPromise` |
| `StreamRunsProofs` | | theorems about `StreamRuns` |
| `BuildPool` | `provider/build_pool.go` and how the bead executor leases | component |
| `BuildPoolProofs` | | theorems about `BuildPool` |
| `Autopilot` | `autopilot/orchestrator.go` with PATCH, GET, DELETE and main.go | component |
| `AutopilotProofs` | | theorems about `Autopilot` |
| `Pipeline` | one project's record and files under the operations that move stages, versions and summaries | component |
| `PipelineProofs` | | theorems about `Pipeline` |
| `BeadExec` | `handler/bead.go` with the bd tool | component, with its environment |
| `BeadExecProofs` | | theorems about `BeadExec` |
| `Refinement` | `refinement/controller.go`, `handler.go`, `state.go`, `steps.go` | component |
| `RefinementProofs` | | theorems about `Refinement` |
| `StageRuns` | `handler/chat.go`, `mock.go`, `instruct.go`, `refine.go` runs; activity entry, run logs, restart | composition of runs that share files |
| `StageRunsProofs` | | theorems about `StageRuns` |
| `ModelCalls` | streams and tool loops of the providers, the Claude process, and the six ways callers read them | component |
| `Generations` | the three jobs made of several calls | component |
| `Connections` | the two settings stores and their requests | composition of two stores |
| `Envelope` | `StreamFilter` and `ParseResponse` | algorithm, one checked against the other |
| `Repository` | `git/git.go` under workers, an approval and user requests | composition |
| `Observer` | `handler/skill_observer.go` and the session writer | component |
| `Validation` | `pipeline/validation.go`: the commands of the gate and their process groups | component |
| `MC*` | | finite sets and bounds for TLC; `MCModelWork` puts the last seven side by side |
| `ModelWorkProofs` | | theorems about those seven modules, side by side |

### 2.1 StreamRuns

A critical section under `Manager.mu` or `Run.mu` is one action. `Finish` takes
the two locks one after the other and then arms a timer: `FinishClose` (mark
done, close and forget the channels), `FinishNotify` (wake watchers, arm the
timer), `Cleanup` (the timer). `Lookup` and `Subscribe` are separate because
handlers obtain a `*Run` first and subscribe later; the run may finish, and be
dropped, in between. An event is its position in the buffer. A channel is a
sequence with a capacity, which `Subscribe` makes large enough for the replay plus
256 (`Headroom`). Clients end a session by reading the end (`Eof`), by
disconnecting, or, like `waitForRunDone` of the orchestrator, by returning without
unsubscribing (`Abandon`). A watcher follows the program counter of
`WatchPipeline`; its channel of capacity one is the set `signal`.

`StreamPromise` has no channels, tables or locks: a run is a log that grows and
ends once; a reader is owed a set of positions and receives them in order. The
refinement mapping in `StreamRuns` takes the owed positions to be the contents of
the reader's channel.

### 2.2 BuildPool

`Acquire` holds the read lock while it waits in its select over the slots
(`EnterAcquire`, then `Grant` or `GiveUp`), `Release` holds it while it receives
its token back (`EnterRelease`, `Drain`). `Reconfigure` first waits for the write
lock (`AskReconfigure`), and from then on no reader enters, as Go's `RWMutex`
prescribes. A lease remembers a slot index; the model adds the generation of slots
it was taken from, which the code does not have, so that properties can tell
an old lease from a new one. `MarkDegraded` has no caller in the repository; it is
modelled because its recovery goroutine acts on a slot index much later.

### 2.3 Autopilot

Of the record only `autonomous` and whether the pipeline is complete are kept.
`PATCH` is three steps (read; `Ensure` or `Cancel`; write the copy), `GET` two
(read; heal). A driver's program counter follows `runProject`: context check, read
of the record, a stage's work, approval, waiting for a plan limit or for the
summary, enhancement, the deferred removal from the map. A stage's work is one
step that may take forever.

### 2.4 Pipeline

One project. `record` is its entry in `registry.json` (stage, version,
`summaryReady`, `summaryApproved`). Every operation holds the copy it has read and
writes all of it back; only the approval uses `UpdateFunc`. Artifacts and
summaries are present or absent, in the data directory (`working`, `summaries`)
and under `docs/` (`docs`, `published`). The summary run keeps the copy of whoever
started it. Any step of an operation may be its last, with an error (`Fail`).
Versions are counted: the driver and the enhancement bump one component of the
version, and the directory of a version starts empty. Fields that are only carried
along in the copies (the flag, token counts, commands) are left out; what counts
is the rest of the copy they are written with. Whether the old file is removed
when an artifact moves to `docs/` is left out: nothing removes it from there,
and it is read from either place.

Requests are those the handlers accept, whatever a browser tab offers: a reset to
any stage but the complete one, chats and edits of any stage, the publication of a
ready summary at any stage. A reset to a *later* stage moves the project past
stages without an artifact. The history variable `skipped` holds those stages,
until a reset to an earlier stage or an enhancement; `PassedStagesHaveArtifacts`
says that they are the only ones.

### 2.5 BeadExec

The bd tool is external: each of its commands is one step on `status` and `deps`,
and may fail. Around it run the generation of the plan (`CreatePlanned` bead by
bead, `LinkPlanned` afterwards), the execution loop (`PickReady`, `TakeSlot`,
`ClaimAndStart`), its workers (execute, review, then close, or close and create,
link and claim a correction), the validation gate with its fix beads, a run of a
single bead, and the requests that set stale beads open (`Arrive`, `ResetList`,
`ResetOne`, `StartExecuteRun` separately, because other actors run in between).
`Crash` keeps what bd has and drops the rest. Two history variables make the
properties sayable: `reopened` (set open under an agent) and `lost` (given up on in
progress).

### 2.6 Refinement

`mem` is the state of the running loop, `disk` the file, `artifact` the document. A
program counter follows `RunLoop` phase by phase; questions, answers and facts
are one abstract text each. The answer channel is a sequence with a
capacity, found through the map `answerCh` that a start replaces before it asks
the run manager. A start request loads the state, enters its channel, and only
then is refused or becomes the loop, so two can overlap, and one that loaded
before another's loop ran writes its old state over the progress of that loop;
`alone` records of a start or a review that nothing crossed it since it loaded.
Review requests load, change and save the state in separate steps. Stops, crashes,
failed calls, resets and overlapping starts share a bound.

### 2.7 StageRuns

One stage on which chats and mock runs share an activity entry, with side runs
(instruct, section rewrite, import, bead chat) that keep logs only. A request is
its handler and then its run's goroutine; `ChatStarts`, `ChatAnnounces`,
`ChatRefused`, ... are its steps in the order of the code, with the deferred
functions (`Outcome`, `ChatCloses`, `ChatFinishes`) at the end. `Crash` leaves the
files; `ReadActivity`, `RestartsMock`, `ClearsChat`, `MarksFailed` are what `StartAll`
does with the entry it read, while requests already come in.

### 2.8 ModelCalls

A *wire* is one way of talking to a model (four streamed bodies, four tool loops, the
Claude process), a *reader* one way of consuming events; Init chooses one pair
that occurs in the code. The provider's goroutine produces events into `out` and sends
them one by one to `chan`; the two sides interleave freely. Text is a sequence of
fragments that differ in what a review makes of them.

### 2.9 Generations, Connections, Envelope, Repository, Observer, Validation

* `Generations`: workers of screens with a semaphore, the layout of a page by
  roles, files that are generated, written and fixed, the vision turn. A model
  call is one step that fails or not.
* `Connections`: deletion as the code does it, under the store's lock: take the
  settings' lock, clear file after file (each through a rename that may fail), remove.
  `late` remembers the entries a request wrote after they were cleared, or that
  belong to projects the deletion could not list.
* `Envelope`: `Feed` reads the characters of a chunk and the tail held back before it,
  with the state of the Go code; `ParseResponse` works on the whole text, from which
  `StripThinkBlocks` first takes one think block after the other.
* `Repository`: a file is there or not, a commit is a set of files. Methods of the
  git service are sequences of commands under one of two locks, each command may
  fail.
* `Observer`: the buffer under its lock, analyses that overlap, the file that is
  truncated and then written, the channel to the goroutine that owns the log. An
  analysis that reads a truncated file panics (`down`). The log writer ignores errors
  of the disk and of a corrupt file (`repository/fs/sessions.go:69`): left out, the
  log is one that can be read and written.
* `Validation`: one process group per command: its shell, a child that holds its
  output, the signal the group was sent. `BuildKilled` takes the shell alone, as
  `exec.CommandContext` does; `WatchTimesOut` signals the group, `KillLate` follows.
  `ValidationOver` names the one way the gate never ends (`HeldByChild`) and says
  that a signalled group is gone in the end. `BeadExec` takes the verdict as input.

## 3. Runs

| Run | Configuration | Question | Result |
|---|---|---|---|
| `streams` | `MCStreamRuns.cfg` | what do Subscribe, Emit, Finish, the timer, CancelAll and Watch promise? | channel capacities; live runs reachable; no closed channel registered; no missed wake-up; refinement of `StreamPromise`; `CancelAll` complete; cancelled streams end |
| `build_pool` | `MCBuildPool.cfg` | do tokens and counters match leases, and does everyone waiting get on? | yes, as long as no slot is replaced under a lease; waiting ends if configurations stop changing |
| `pool_stuck` | `MCBuildPoolStuck.cfg` | does Acquire get a slot when one is released, as the comment says? | violated, see 4 |
| `autopilot` | `MCAutopilot.cfg` | how many drive a project, what do off, on and shutdown lead to? | one until the first cancel; off starts no stage any more; on is driven; shutdown ends every driver |
| `autopilot_drivers` | `MCAutopilotDrivers.cfg` | one goroutine per project, as the comment says? | violated, see 4 |
| `pipeline` | `MCPipeline.cfg` | what can stale copies of the record break? | not that ready summaries exist, that approved ones are published, that passed stages have artifacts, but for those a reset to a later stage skipped |
| `pipeline_toggle` | `MCPipelineToggle.cfg` | does a toggle racing with an approval lose nothing, as the comment says? | violated, see 4 |
| `bead_exec` | `MCBeadExec.cfg` | do claims, slots and resets hold under failures, commands and crashes? | slots have owners; one agent per bead unless it was set open under it; nothing in progress unseen; the run ends |
| `refinement` | `MCRefinement.cfg` | where do answers and settled items end up, do loops end? | whole rounds reach the document; answers fit; settled items stay settled unless a stale copy is saved; loops end |
| `stage_runs` | `MCStageRuns.cfg` | do entry, logs and runs agree, also after a restart? | a "running" entry has a run once start-up is over; logs say what the client saw; the badge goes out |
| `model_work` | `MCModelWork.cfg` | what can go wrong with a model call and what is made of it? | cut bodies are noticed; tool calls answered; results whole; settings resolve; shown is saved; bead commits complete; beads analysed once; everything ends |
| `approval_uncommitted` | `MCRepository.cfg` | is an approved summary committed? | violated, see 4 |

`MCModelWork` runs seven modules side by side: a behaviour is one of one of them, the
others are at rest. It is seven models that share a run, not a product: nothing
couples them but that each takes the results of the one before as choices.

### 3.1 Bounds

* `streams`: two keys of one project. Either one reader and two runs with two
  events each, headroom 1 instead of 256, or one watcher and three runs without
  events (events wake nobody). Two runs are the fewest for which a timer meets a
  successor under its key; two events with headroom 1 let a reader lag and be
  skipped; three runs let a start or a finish fall before, while and after a
  state is built. Readers and watchers share nothing but the runs.
* `build_pool`: three beads of two execution runs; configurations with one usable
  slot, one unusable slot and both; one reconfiguration and one degraded slot.
  The first usable slot has `MaxParallel` 0, so the clamp to one is used. Two leases
  compete for a slot of capacity one while a third is released.
* `autopilot`: two clients, one of which only loads the page; two drivers of one
  project, enough for a successor. The violated comment needs three.
* `pipeline`: two operations in flight beside the summary run, two versions, three
  stages, five requests besides approvals: the shortest sequence in which an
  approved summary is followed by an enhancement that a stale copy undoes. The
  operations are interchangeable and TLC uses the symmetry (invariants only).
* `bead_exec`: a plan of an epic and a task that depends on it, one spare id for a
  correction or a fix, two workers and slots, two reviews (3 in the code), two
  attempts of the gate (3), one request at a time and two in all, and two events
  out of failures, user commands, single-bead runs, cancellations and crashes.
  While the plan is generated, the only events are failures of the generation
  before the first request; otherwise generation and execution overlap freely.
* `refinement`: two questions, one review item, two loops, two times that the model
  asks, two iterations (10 in the code), one event. There are two start requests,
  the second only while the first is on its way or runs, and that is an event. A
  review request loads its copy while no loop runs and may save it while one does.
* `stage_runs`: three requests, crashes and deletions together, one side run, one
  log kept (10), one mock retry (2). The third event is the first that can follow
  a crash and an operation restarted from it.
* `model_work`: two lines per answer with a channel of one place (32 or 64), so that
  it fills; one retry after 429 (5); two rounds of a tool loop (20) with two
  calls; two screens for one permit (3), four plans with the layouts that differ;
  three file plans, two build rounds as in the code; three vision sections (7);
  two connections, one project, two requests; answers of two sections, chunks
  of up to three characters, which cut every tag and marker; two beads in one
  repository and one request of the user (two in `approval_uncommitted`); three
  closed beads in batches of two with one place in the log's channel; up to three
  commands of the gate, every category, each with one child.

Deadlock is checked in `pipeline`. The other models may stop legitimately: all
runs over, or a bound reached.

The type invariants of `BuildPool`, `Autopilot` and `StageRuns` are not among the
properties of a run: they are theorems (section 5).

### 3.2 Fairness

* `StreamRuns`: a reader goes on reading; `Finish`, once entered, and its timer
  run to their end; the goroutine of a *cancelled* run finishes, because the
  provider's process is started with the run's context and `Finish` is
  deferred. An uncancelled run may go on for ever.
* `BuildPool`: goroutines run on and an agent's work on a bead ends (weak). Go's
  channels serve waiting senders and receivers in order of arrival, hence strong
  fairness for `Grant` and `Drain`, the two steps that wait on a semaphore.
  Nobody has to ask for a lease, to reconfigure or to cancel.
* `Autopilot`: requests and the straight-line parts of a driver run to their
  end, and a cancelled context is noticed by a select. Agent runs, plan limits
  and the wait for a summary may last for ever; no request has to be made.
* `BeadExec`: the loop and each worker go on: bd commands return and agents end
  (their processes are killed with the context), and the gate gives a verdict
  (`Validation` names when it does not). Users and requests need not act.
* `Refinement`: the controller goes on (`LoopStep`); an answer need not come, an
  event need not happen. A model call returns, since its context is the run's.
* `StageRuns`: the goroutines of chats and mock runs and the start-up go on. No
  request and no crash has to happen.
* `MCModelWork`: the goroutines of providers, readers, jobs, requests, workers,
  analyses and the gate are scheduled, and timers fire; the gate's commands need not
  end nor their children go. HTTP clients have a timeout of ten minutes; a model's
  process and a git command are assumed to end. Cancelling is never required.
* `Pipeline`: none, only safety is stated.

`OnIsDriven` has preconditions, all explicit: the project stays autonomous and
incomplete, its page goes on being loaded (the only thing that restarts a driver
that read an old flag), and the bound on drivers is not reached.
`AutonomousLoopEnds` holds because the model comes up with questions a bounded
number of times; a regeneration without end is not counted by the code.

### 3.3 Mutants

Each module defines, beside an operator, the form it would have with a plausible
bug (`StartUnchecked`, `CleanupUnchecked`, `ClaimFailsKeepsSlot`, `BrokenUnseen`,
`AddTracked`, ...). They are used by no specification. `PROJECT.json` pairs each
property with a mutant that violates it, so every property is known to depend on
the code it speaks of.

## 4. Where the code and its comments differ

1. `pool_stuck`. `Acquire` (`provider/build_pool.go:92`) says that it blocks until a
   slot is available. It waits under the read lock, `Reconfigure` waits for it, and
   `Release` waits behind `Reconfigure`: no token comes back and nobody moves,
   until the context of the waiting run is cancelled.
2. `autopilot_drivers`. The type's comment (`autopilot/orchestrator.go:34`) says one
   goroutine per project. A cancelled driver removes the project's entry when it
   leaves (`:187`), also when the entry names its successor; the next `Ensure` then
   starts one beside the successor.
3. `pipeline_toggle`. `ApproveInternal` (`handler/pipeline.go:213`) uses `UpdateFunc` so
   that a toggle racing with it clobbers nothing, as the interface promises
   (`repository/interfaces.go:17`). `Patch` (`handler/project.go:228`) still writes the
   whole record it read: the toggle takes the stage back.
4. `approval_uncommitted`. `ApproveSummary` (`handler/pipeline.go:571`) lists the paths to
   commit, among them `build/beads-graph.json` (`:581`), which no code writes. `git add`
   refuses a path that does not exist, `AddAndCommit` (`git/git.go:96`) returns before the
   commit, and the request answers success: what it archived is not committed.

Not runs, but found while modelling and described at their hazard: an answer of
the Claude process that is cut is taken for whole, also by a review
(`agent/beads.go:388`); analyses of the skill observer can panic on a file
another has truncated (`handler/skill_observer.go:148`); follow-up messages are queued
in one directory and read from another (`handler/activity.go:81`); a lease of a
replaced slot takes a token of its successor (`provider/build_pool.go:157`); a child
that holds the output of a build command outlives its timeout and keeps the gate
waiting (`pipeline/validation.go:141`); `StartLoop` enters its answer channel in the
map (`refinement/handler.go:131`) before the run manager may refuse it, and its
deferred delete (`:171`) removes whichever entry is there, so with two overlapping
starts an answer does not reach "the running loop" that `AnswerQuestion` speaks of
(`:212`); a reset is said to roll the pipeline *back* (`handler/reset.go:26`), and stores
a later stage as readily (`:78`); `extractBetween` is said to fall back to the end of
the answer if the closing tag is absent (`agent/parse.go:202`), and does so too when
it follows the opening one at once (`:212`): of an empty section it saves the
closing tag with all that follows.

## 5. Proofs

### 5.1 The run manager

`StreamRunsProofs` proves, for any sets of keys, projects, clients and watchers,
any headroom and any number of runs and events:

| Theorem | Property | Says |
|---|---|---|
| `TypeCorrect` | `TypeOK` | types; a channel never outgrows its capacity, so the replay in `Subscribe` cannot block under the lock |
| `LiveRunsReachable` | `LiveRunReachable` | a live run is the one its key names and is found by id |
| `ShutdownReachesEveryRun` | `CancelAllReachesEveryRun` | `CancelAll` leaves no live run uncancelled |
| `ChannelsOpen` | `SubscribersOpen` | a registered channel is open and belongs to a session on a live run |
| `WakeupsKept` | `NoLostWakeup` | a watcher with an outdated view has a token or is about to look |
| `PromiseKept` | `KeepsPromise` | the manager implements `StreamPromise`: order, no gap below the headroom, no early end |

Assumptions: those named in `StreamRuns` (there is a project, every key belongs to
one, `NoKey` is no key, the headroom is positive, the bounds are naturals).

The argument. Types come first. Reachability of live runs is not inductive by
itself, because of the timer and of ids: `RunInv` adds that the ids in use are
those up to `nextID` (`RunsOrdered`), so a new run cannot be one that a pending
timer is going to drop, and that the run a key names has that key
(`KeysNameRuns`), so a timer that compares ids removes only its own entry.
`SubscribersOpen` needs `HeldRunsStarted`: a client holds only runs that were
started, so a subscription never waits on a run that does not exist yet.
`NoLostWakeup` needs `WatchInv`: only registered watchers count as having built a
state, and each of those is informed or about to look; each action that changes the active keys either notifies the project's watchers, or is the
`FinishClose` whose `FinishNotify` is still to come. The shutdown theorem is an
action property: it follows from reachability, since `CancelAll` goes through the
runs that keys name.

The refinement needs `StreamInv`, which says of every open session that its
channel is in log order, beyond what was received and within the log (`Ordered`),
that it has room for the headroom, that the session is registered until the run is
done, and that the channel is closed exactly from then on. With it each step maps:
`Emit` to `PAppend`, where the readers skipped are those whose channel is full
(`OrderedCount`: an ordered channel of that length holds as many different events, so the
promise lets them be skipped), `FinishClose` to `PEnd`, `Subscribe` to `POpen`
(`ReplayIsRest`: what is replayed is what is owed), `Receive` to `PDeliver`
(`HeadIsFirst`), `Eof` to `PEof`, `Disconnect` and `Abandon` to `PLeave`; all other
steps stutter.

### 5.2 The project record

`PipelineProofs` proves, for any order of at least two distinct stages, any set of
operations and any bounds on versions and requests:

| Theorem | Property | Says |
|---|---|---|
| `TypeCorrect` | `TypeOK` | stages and versions of the record and of every copy are the project's |
| `ReadySummariesExist` | `ReadySummaryExists` | `summaryReady` never speaks of a version without a summary |
| `ApprovedSummariesPublished` | `ApprovedSummaryIsPublished` | `summaryApproved` never speaks of a version without a published summary |
| `PassedStagesKeepArtifacts` | `PassedStagesHaveArtifacts` | while resets and enhancements run alone, no stage is passed without its artifact, except by a reset to a later stage |

Assumptions: `StagesAssumption` and `BoundsAssumption` of `Pipeline`.

The argument. Types need `StagesHeld`: an approval that passed its check is of a
stage that has a next one, so `NextStage` is defined when the record is stored
much later. The flags need `FlagsInv`: not only the record tells the truth, every
copy held by an operation and by the summary run does, and the two operations that
set a flag have their file by then; since summaries are never removed, a copy that
was true when read is true when written back, however stale. Artifacts *are*
removed, by a reset, and versions change, by an enhancement; hence the condition
in `PassedStagesHaveArtifacts`, and hence `ArtifactInv`: unless something has
crossed, every copy is of the record's version and of a stage whose predecessors
have artifacts or were skipped, an approval past its check has the artifact of its
own stage, and a reset or an enhancement is alone with an up-to-date copy. A reset
that has removed files is about to store a stage whose predecessors have artifacts,
were skipped, or lie ahead of the record (`PassedOrAhead`) and are skipped then. That an approval
stores the successor of the stage it *checked*, not of the stage it finds, is what
the induction rests on.

### 5.3 The build pool

`BuildPoolProofs`, for any set of workers (finite or not), any configurations and
any number of reconfigurations and degradations:

| Theorem | Property | Says |
|---|---|---|
| `TypeCorrect` | `TypeOK` | types; no semaphore holds more than its slot allows |
| `TokensMatchLeases` | `AccountsExact` | until a slot is replaced under a lease, tokens are leases and counters those still serving |
| `CapacityRespected` | `WithinCapacity` | until then, a slot serves no more beads than its clamped `max_parallel` |

Assumptions: `LoopOfAssumption`, `ConfigAssumption`, `PoolBoundsAssumption`. Inductive
are `Accounts`: the types (with `WriterHasTurn`: a waiting `Reconfigure` is within the
bound), that a lease is of a slot in force (`LeasesCurrent`), and that the holders
of a slot are finitely many (`HoldersFinite`), without which counting them proves
nothing. `WithinCapacity` is the consequence the pool exists for; the run checks the
equation it follows from.

### 5.4 The autopilot

`AutopilotProofs`, for any sets of clients and projects and any number of drivers:

| Theorem | Property | Says |
|---|---|---|
| `TypeCorrect` | `TypeOK` | types; a driver about to enhance has a record |
| `OneDriverCorrect` | `OneDriverUntilCancel` | until a cancel has found a driver of a project, it has at most one |
| `NoneEscapes` | `NoneEscapesShutdown` | once shutdown has begun every driver that runs, however late it was started, has a cancelled context |

Assumptions: `ProjectAssumption`, `DriversAssumption`. `Known` is inductive: drivers are
numbered in the order they are spawned (`Fresh`), an entry names a driver of its own
project (`EntryDrives`), a cancelled driver was cancelled with all or for its
project (`CancelledKnown`), and unless a project was cancelled the entry names
*each* of its drivers (`EntryNamesDriver`), so there is one. The comment of the type
promises this without the condition, and `autopilot_drivers` shows why it is
needed. `NoneEscapes` is the safety half of `ShutdownStopsDrivers`.

### 5.5 The bead executor

`BeadExecProofs`, for any plan, any set of workers and of requests, any number of
arrivals and events:

| Theorem | Property | Says |
|---|---|---|
| `TypeCorrect` | `TypeOK` | types, and no counter passes its limit |
| `SlotsAccounted` | `SlotsHaveOwners` | the semaphore counts the workers and the claim under way, on every path of failure |
| `ClaimsExclude` | `OneAgentUnlessReopened` | two agents never work on a bead that nobody set open under the first |
| `NoBeadStuckUnseen` | `InProgressIsKnown` | while a run is alive, every bead in progress has an agent or was given up on |

Assumptions: `PlanAssumption`, `SlotsAssumption`, `ReviewsAssumption`,
`RetriesAssumption`, `BoundsAssumption`. Slots need that workers at work are finitely
many (`Slots`). Exclusion needs `Claimed`: a bead with an agent that was not set open
is in progress or closed, so no claim of it can succeed. The last theorem needs
`Accounted`: a request that resets what it *listed* has on its list every bead that is
unaccounted for, however long it takes, and starts the run only at the end. Both follow
from what any single step may do to the agents of one bead (`Fine`): take agents
away, or give the first one to an open bead.

### 5.6 The refinement loop

`RefinementProofs`, for any sets of questions, review items and start requests, any
number of loops, generations, iterations and events:

| Theorem | Property | Says |
|---|---|---|
| `TypeCorrect` | `TypeOK` | types; iterations stay within the limit in every copy of the state |
| `SettledKept` | `SettledItemsStaySettled` | what an uncrossed review settled stays settled on disk until a reset |
| `AnswersReach` | `AnswersReachDocument` | a merged round is in the state, the file and in the end the document |
| `AnswersFit` | `AnswersFitTheirQuestion` | with a channel of one place, an answer is never taken for another question |

Assumptions: `IterationsAssumption`, `BufferAssumption`, `BoundsAssumption`,
`NoStateAssumption`; `AnswersFit` has the hypothesis `AnswerBuffer = 1`, the capacity in
the code, and is false with two. The state exists in many copies, so each invariant
speaks of all of them: `SettledEverywhere` of the file, the loop, every start on its
way and a review's copy; `AnswersKept` likewise, and counts the round that is not yet
merged; both rest on what a loop's steps do to the state (`Grows`, `Within`). `AnswersFit`
needs that every loop has a channel of its own (`ChannelsApart`), also when starts
overlap, and `AnswersAtHome`: an answer is alone in the channel of its own loop and
outlives its question only until the channel is forgotten.

Proving `AnswersReach` is what brought up overlapping starts: with one start at a time
assumed, the induction had nothing to say of a start that loads while another's loop is
coming up. The model has them now, and the properties hold with the condition
(`alone`) that the code leaves open: a start that was overtaken loses
the progress of the other loop.

### 5.7 Stage runs

`StageRunsProofs`, for any number of requests, crashes and deletions, any number of
logs kept and retries:

| Theorem | Property | Says |
|---|---|---|
| `TypeCorrect` | `TypeOK` | types |
| `RunningRecordCorrect` | `RunningRecordHasRun` | once start-up is through, an entry that says "running" has a live run of its operation |
| `LogsCorrect` | `LogsTellOutcome` | the log of a finished chat or mock run says "failed" exactly if its client saw an error |

Assumptions: `EventsAssumption`, `KeepAssumption`, `RetriesAssumption`. The entry needs
`RunsMatch` (the manager and the requests agree on who has which run), `EntryCleared`
(an entry is cleared before the run it speaks of is given up, and while start-up is
under way the only other one is that which it has read) and `StaleKnown`. The log
needs `LogsFollow`: a run shows nothing before its log begins, and remembers
afterwards whether it has shown an error.

### 5.8 Model calls and what is made of them

`ModelWorkProofs` proves of `WorkSpec`, the specification of the `model_work` run:

| Theorem | Property | Says |
|---|---|---|
| `SettingsCorrect` | `AssignmentsResolve` | a setting names a connection that exists, but for entries written after a deletion had cleared them |
| `DiffsCorrect` | `BeadDiffHasItsWork` | a closed bead's commit has its work, unless git failed or the user threw it away |
| `BeadsAnalysed` | `EveryBeadIsAnalysed` | each closed bead is in one batch, each batch's tokens in the log once |
| `AnswersWhole` | `AnswerIsWhole` | an HTTP answer whose transport broke is never taken for whole by a reader that minds errors |
| `CallsAreAnswered` | `CallsAnswered` | before every request of a tool loop, each call is followed by its results in the order of the calls |
| `ResultsComplete` | `ResultIsComplete` | the page of a mock-up shows each component of a screen once; files a coding job names have their last content unless a write failed; the vision keeps a text for every section of its draft |
| `SavedAsShown` | `ShownIsSaved` | of an answer that keeps the format, the user has seen the texts of the visible sections; those that are not empty are saved as shown, of an empty one its closing tag and what follows |
| `ChunksDoNotMatter` | `FedAsWhole` (no run) | wherever chunks are cut, the filter is as after all of it in one piece |
| `WorkTypes` | `WorkTypeOK` | types; bounds of channels, semaphores, verdicts and of the filter's tail |

for any sets of connections, projects, requests and beads, any plans and answers of models,
and any lengths and capacities. Assumptions: `SettingsAreTold`, `RepositoryNames`,
`ObserverBounds`, `GenerationBounds`, `CallBounds`, `CheckCategories`,
`ModelAnswersAreSections`, `ChunkBound`, and `RestIsLegitimate` of `MCModelWork`: a module
at rest is in a state its own constants allow. `WorkInvariant` has at least one invariant
per module.

* `SettingsInv`: one deletion at a time gets past the store's lock (`OneDeletion`), and once
  it has cleared the references, what still refers to its connection is late
  (`ClearedAreLate`).
* `RepoInv`: what a bead wrote is in the work tree, then in the index, then in the last
  commit, whoever staged or committed it in between (`WorkIsThere`).
* `ObserverInv`: a closed bead is in the buffer or in one batch (`OneBatch`), who is not
  called yet has no batch and the run's end leaves nothing in the buffer (`CallsInOrder`),
  and the tokens of an analysis are in its hands, in the channel or in the log, once (`Costs`).
* `ErrorArrives`: once a body is cut, its error is on the way to the reader or has been seen
  by it. `CallTyped` and `TextFits` bound what is on the way.
* `MessagesInv`: outside a round the conversation is `Settled`; within one (`InRound`) it is a
  settled conversation, the calls of the round and the results of those that are no longer to
  do, which `todo` continues.
* `GenInv` for files: what is named is on disk as last generated at every moment, not only
  in the end (`DiskFollows`), which needs that nothing is named before writing begins and
  that the job is at a file of its plan (`AtFile`).
* `MockInv` for pages: permits and screens at work add up; the fragments of a screen are those
  of its plan, in its order (`MadeInOrder`); the view of a screen that is over shows each
  component once (`ViewWhole`). The last rests on `LayoutPlacesAll`: the layout, which picks
  the components role by role, is a permutation of the plan. The library defines the filters
  by recursion, so that they keep order and lose nothing is proved first, by induction over
  the length of what is filtered.
* `FilterInv`: the filter is as after one piece. `Feed` is a function defined by recursion
  on another, so its equations (`FeedStops`, `FeedTag`, `FeedText`) come first: no induction
  theorem of the library can be used, and the functions that satisfy the recursion on a
  final part of the input are shown to exist by taking the least part where there is none
  (`Least`). `FeedInPieces` then says that feeding two pieces one after the other is feeding
  them joined, whatever is held back in between.

`ShownIsSaved` compares that with the parser. Three things are proved about a text made of
sections: where a tag can be in it (a tag that begins in one part ends in it, or begins
with its last characters, `Meets`, `PositionsJoin`; with no tag in the texts, each tag is found at
its own section only, `SectionFound`); that taking out a think block gives the text of
the answer without it (`StripsOne`), which no further round changes (`Rounds`, `Stripped`); and what the parser
saves of each section, empty (`ExtractedEmpty`) or not (`Extracted`, `SavedIs`). On the other side, the filter goes through marks with a
change of state (`FedMark`), through texts without showing anything but them (`FedText`),
and so section by section (`FedSection`, `Shows`).

### 5.9 What the proofs changed

* `BeadExec`: an empty plan was outside the constants of the model, though the code
  generates from one without complaint; it is inside now.
* `Refinement`: overlapping starts, as described above.
* Names that a run kept apart by itself and the proofs could not: `SettingsAreTold`,
  `NoStateAssumption` and parts of `RepositoryNames` and `ObserverBounds` say that a
  connection is not the absence of one, and so on.
* `GenerationBounds` says that a plan is a sequence, which TLC took from its instance, and
  `CheckCategories`, `CallBounds` and `ModelAnswersAreSections` were added for the same reason.
* Seven modules side by side: one that rests has values its own type invariant must allow.
  `RestIsLegitimate` and the definition of `FilterAtRest` say so.
* `ModelCalls`: `CallsAnswered` was stated over two flattened sequences. It now says where in
  the conversation each round begins, which is what the proof has to know, and what the
  services reject.
* `Envelope`: `ShownIsSaved` was false for some constants. An answer with a tag of the format
  inside a text (a document that quotes `<artifact>`) is cut in different places by the filter
  and by the parser, though no answer of the instance showed it: `WellFormed` excludes it
  now. And it did not speak of answers with an empty section at all: it now says what is shown
  and saved of every section, the empty one included, where the two differ (section 4).
* `Envelope`: think blocks are taken out in as many rounds as the text has characters, where the
  code loops until there are none: each round that changes anything shortens the text.

### 5.10 Only model-checked

* Liveness (`CancelEndsStreams`, `AcquireReturns`, `OffStartsNothing`, `OnIsDriven`,
  `ShutdownStopsDrivers`, `RunEnds`, `StopEndsInteractiveLoop`, `AutonomousLoopEnds`,
  `BadgeGoesOut`, `WorkEnds`): the proof system does not handle liveness under
  fairness.
* `ApprovalIsCommitted` and the other properties of the violated runs do not hold.

## 6. Not modelled

* Text: prompts, their templates and defaults, context building, the JSON repair of
  `llmparse`, the extraction of what an import finds. No property speaks of it.
* The knowledge base client, authentication, routing, the front end: input and
  output without protocol state of their own, or outside the purpose.
* Branches, tags, merges and remotes of the git service; the list of skills;
  settings of prompts; listings that only read.
* What a tool of the tool loop does to files; `Repository` takes an agent's writes
  as one step.
* The queue of follow-up messages and the driver's `/btw` bursts: as the code is,
  a message never reaches the driver.
* Processes of the validation gate beyond their group: ports a server of an earlier
  command still holds, children that leave the group.
* Within the modelled parts: contents of artifacts, token counts (except that a
  batch's cost is logged), file writes cut short by a crash (except of the
  settings, which are renamed, and the observed skills).
* Compositions: `BeadExec` takes slots of its own semaphore, not leases of
  `BuildPool`; `Autopilot` takes a stage as one step, not as a run of `StreamRuns`.
  Both products are beyond TLC with instances that show anything.

## 7. Plan

Done: the modules above, and a theorem for every safety property of the passing runs. Next:

1. Safety halves of liveness properties, in the manner of `NoneEscapes`: what remains true
   until the awaited event, so that fairness is the only thing left to TLC.
2. `ModelWorkProofs` has grown longest; the text of answers deserves a module of its own.
