----------------------------- MODULE StageRuns -----------------------------
(***************************************************************************)
(* What the requests of one project leave behind when they run an agent:   *)
(* the chat history, the stage's entry in activity.json (the badge the     *)
(* user sees), and the run logs; and what a restarted server does about    *)
(* the entry that a crash left "running".                                  *)
(*                                                                         *)
(* The stage is UX, where chats and mock-ups share the one entry.  The     *)
(* other operations of the project (instructions, section rewrites, bead   *)
(* chats, imports) run beside them; they keep no entry, some keep a log.   *)
(* A request is one call of a handler and, once it has started a run, the  *)
(* goroutine of that run.  Contents of messages and of logs are left out:  *)
(* a message is named by the request that sent it.                         *)
(***************************************************************************)
EXTENDS Integers, FiniteSets, Sequences

CONSTANTS
    MaxEvents,       \* bound: requests, crashes, logs that users delete
    MaxSide,         \* bound: requests for the side operations
    Keep,            \* logs kept per project, 10 in the code
    MaxMockRetries   \* 2 in the code

ASSUME EventsAssumption == MaxEvents \in Nat
ASSUME KeepAssumption == Keep \in Nat \ {0}
ASSUME RetriesAssumption == MaxMockRetries \in Nat

Request == 1..MaxEvents
\* "plain": a chat about one bead, or an import.
SideOp == {"instruct", "refine", "plain"}
Op == {"chat", "resume", "mock"} \union SideOp
None == 0

\* The slot of the stream manager that an operation's run takes: at most one
\* run is live under a key.  Refine starts no run.
Keys == {"chat", "mock", "instruct", "plain"}
Key(op) == IF op = "resume" THEN "chat" ELSE op

VARIABLES
    req,      \* the requests: where each is and what it holds
    live,     \* the live run of each key
    history,  \* chat-history.json: messages [from, to]
    record,   \* the stage's entry in activity.json
    log,      \* the run log of each request
    started,  \* requests in the order in which their logs began
    boot,     \* what StartAll is doing since the last start of the server
    stale,    \* the entry StartAll read
    events,   \* how much of the bound is used up
    failed    \* history: chats and mock-ups whose client saw an error

vars == <<req, live, history, record, log, started, boot, stale, events,
          failed>>
files == <<history, record, log, started>>
server == <<boot, stale>>

NoRecord == [op |-> "none", status |-> "none"]
Idle == [pc |-> "idle", op |-> "none", to |-> None, copy |-> <<>>,
         err |-> FALSE, tries |-> 0]

Init ==
    /\ req = [r \in Request |-> Idle]
    /\ live = [k \in Keys |-> None]
    /\ history = <<>> /\ record = NoRecord
    /\ log = [r \in Request |-> "none"] /\ started = <<>>
    /\ boot = "done" /\ stale = NoRecord /\ events = 0
    /\ failed = {}

-----------------------------------------------------------------------------
(* The helpers of the handlers.                                            *)

At(r, op, pc) == req[r].op = op /\ req[r].pc = pc
Ended(r, pc) == [Idle EXCEPT !.op = req[r].op, !.pc = pc]
Goto(r, pc) == req' = [req EXCEPT ![r].pc = pc]

\* writeActivity and clearActivity: one entry per stage, whoever wrote it.
WriteActivity(op) == record' = [op |-> op, status |-> "running"]
ClearActivity == record' = NoRecord

\* ReadProjectRuns, newest first; a log is beyond the first `keep` when as
\* many began after it, and goes, that of a live run too.
Logged(l) == {r \in Request : l[r] \notin {"none", "deleted"}}
Later(order, r) ==
    {x \in Request : \E i, j \in 1..Len(order) : i < j /\ order[i] = r /\ order[j] = x}
Prune(l, order) ==
    [r \in Request |->
        IF r \in Logged(l) /\ Cardinality(Logged(l) \intersect Later(order, r)) >= Keep
        THEN "deleted" ELSE l[r]]

StartRunLog(r) ==
    /\ started' = Append(started, r)
    /\ log' = Prune([log EXCEPT ![r] = "running"], started')

\* successRunLog and failRunLog read the log first: nothing to settle when it
\* has been pruned.
SettleLog(r, status) ==
    log' = IF log[r] = "deleted" THEN log ELSE [log EXCEPT ![r] = status]

ShowError(r) == failed' = failed \union {r}
Over(r) == req' = [req EXCEPT ![r] = Ended(r, "over")]
Takes(r, k) == live' = [live EXCEPT ![k] = r]
Finish(r) == live' = [k \in Keys |-> IF live[k] = r THEN None ELSE live[k]]

\* runs.Start: the key's run, or nil when another request has it.
StartRun(r, k, pc) ==
    IF live[k] = None THEN Takes(r, k) /\ Goto(r, pc)
                      ELSE live' = live /\ Over(r)

\* A user removes a log (DeleteRun); nothing asks whether its run is live.
DeleteLog(r) ==
    /\ log[r] \notin {"none", "deleted"}
    /\ events < MaxEvents /\ events' = events + 1
    /\ log' = [log EXCEPT ![r] = "deleted"]
    /\ UNCHANGED <<req, live, history, record, started, server, failed>>

-----------------------------------------------------------------------------
(* Requests come in.                                                       *)

Arrived == {r \in Request : req[r].pc # "idle"}
Newest == Cardinality(Arrived) + 1
SideRequests == {r \in Arrived : req[r].op \in SideOp}

CanArrive(r) ==
    /\ boot # "off" /\ r = Newest
    /\ events < MaxEvents /\ events' = events + 1

Arrive(r, op, pc, to) ==
    /\ CanArrive(r)
    /\ req' = [req EXCEPT ![r] = [Idle EXCEPT !.pc = pc, !.op = op,
                                              !.to = to]]

\* Send: no live chat.  (With one, the request joins it and changes nothing.)
\* AppendMessage reads the file, adds the message, and writes the file back.
Send(r) ==
    /\ live["chat"] = None
    /\ CanArrive(r)
    /\ req' = [req EXCEPT ![r] = [Idle EXCEPT !.pc = "asked", !.op = "chat",
                                              !.to = r, !.copy = history]]
    /\ UNCHANGED <<live, files, server, failed>>

SaveQuestion(r) ==
    /\ At(r, "chat", "asked")
    /\ history' = Append(req[r].copy, [from |-> "user", to |-> r])
    /\ req' = [req EXCEPT ![r].pc = "prompted", ![r].copy = <<>>]
    /\ UNCHANGED <<live, record, log, started, server, events, failed>>

\* Resume: the last message is the user's; the prompt is built from it, then
\* the run is started.
Resume(r) ==
    /\ live["chat"] = None
    /\ history # <<>>
    /\ LET last == history[Len(history)]
       IN  last.from = "user" /\ Arrive(r, "resume", "prompted", last.to)
    /\ UNCHANGED <<live, files, server, failed>>

\* Generate: one call for a mock-up (provider and artifact are looked up).
Generate(r) ==
    /\ live["mock"] = None
    /\ Arrive(r, "mock", "prompted", None)
    /\ UNCHANGED <<live, files, server, failed>>

AskSide(r) ==
    /\ Cardinality(SideRequests) < MaxSide
    /\ \E op \in SideOp :
        /\ op \in Keys => live[op] = None
        /\ Arrive(r, op, "prompted", None)
    /\ UNCHANGED <<live, files, server, failed>>

-----------------------------------------------------------------------------
(* Chats: StartChatRun, resumeChatRun.                                     *)

IsChat(r) == req[r].op \in {"chat", "resume"}

\* Between the question (or the history that Resume read) and this step lie
\* the synthesis of the earlier documents and the context from the knowledge
\* base: seconds to minutes.
ChatStarts(r) ==
    /\ IsChat(r) /\ req[r].pc = "prompted"
    /\ StartRun(r, "chat", "started")
    /\ UNCHANGED <<files, server, events, failed>>

\* A resumed chat keeps no log.
ChatAnnounces(r) ==
    /\ IsChat(r) /\ req[r].pc = "started"
    /\ WriteActivity("chat")
    /\ IF req[r].op = "chat" THEN StartRunLog(r) ELSE UNCHANGED <<log, started>>
    /\ Goto(r, "streaming")
    /\ UNCHANGED <<live, history, server, events, failed>>

\* No provider, or its Chat returned an error.
ChatRefused(r) ==
    /\ IsChat(r) /\ req[r].pc = "streaming"
    /\ IF req[r].op = "chat" THEN SettleLog(r, "failed") ELSE log' = log
    /\ ShowError(r)
    /\ ClearActivity
    /\ req' = [req EXCEPT ![r] = Ended(r, "closed")]
    /\ UNCHANGED <<live, history, started, server, events>>

\* An error event does not end the stream: most providers send "done" after
\* it, and what came before it is then taken for the answer.
ChatError(r) ==
    /\ IsChat(r) /\ req[r].pc = "streaming" /\ ~req[r].err
    /\ req' = [req EXCEPT ![r].err = TRUE]
    /\ ShowError(r)
    /\ UNCHANGED <<live, files, server, events>>

ChatDoneQuiet(r) ==
    /\ IsChat(r) /\ req[r].pc = "streaming"
    /\ \E saved \in BOOLEAN :
        /\ req' = [req EXCEPT ![r].pc = "answering", ![r].copy = history]
        /\ IF saved THEN failed' = failed ELSE ShowError(r)
    /\ UNCHANGED <<live, files, server, events>>

\* The answer: its document is written (or cannot be: an error, but the
\* answer is kept), then the message is appended, in two steps again.
ChatDone(r) ==
    /\ IsChat(r) /\ req[r].pc = "streaming"
    /\ \E saved \in BOOLEAN :
        /\ req' = [req EXCEPT ![r].pc = "answering", ![r].copy = history,
                              ![r].err = @ \/ ~saved]
        /\ IF saved THEN failed' = failed ELSE ShowError(r)
    /\ UNCHANGED <<live, files, server, events>>

SaveAnswer(r) ==
    /\ IsChat(r) /\ req[r].pc = "answering"
    /\ history' = Append(req[r].copy, [from |-> "agent", to |-> req[r].to])
    /\ req' = [req EXCEPT ![r].pc = "ended", ![r].copy = <<>>]
    /\ UNCHANGED <<live, record, log, started, server, events, failed>>

\* The provider closed its channel without a word (a cancelled call).
ChatSilent(r) ==
    /\ IsChat(r) /\ req[r].pc = "streaming"
    /\ Goto(r, "ended")
    /\ UNCHANGED <<live, files, server, events, failed>>

\* The deferred calls, in their order: tokens, log, entry; the run last.
Outcome(r) == IF req[r].err THEN "failed" ELSE "success"

ChatCloses(r) ==
    /\ IsChat(r) /\ req[r].pc = "ended"
    /\ IF req[r].op = "chat" THEN SettleLog(r, Outcome(r)) ELSE log' = log
    /\ ClearActivity
    /\ req' = [req EXCEPT ![r] = Ended(r, "closed")]
    /\ UNCHANGED <<live, history, started, server, events, failed>>

ChatFinishes(r) ==
    /\ IsChat(r) /\ req[r].pc = "closed"
    /\ Finish(r)
    /\ Over(r)
    /\ UNCHANGED <<files, server, events, failed>>

-----------------------------------------------------------------------------
(* Mock-ups: StartMockRun.                                                 *)

MockStarts(r) ==
    /\ At(r, "mock", "prompted")
    /\ StartRun(r, "mock", "started")
    /\ UNCHANGED <<files, server, events, failed>>

MockAnnounces(r) ==
    /\ At(r, "mock", "started")
    /\ WriteActivity("mock")
    /\ StartRunLog(r)
    /\ Goto(r, "streaming")
    /\ UNCHANGED <<live, history, server, events, failed>>

MockRefusedKeepsEntry(r) ==
    /\ At(r, "mock", "streaming")
    /\ SettleLog(r, "failed")
    /\ ShowError(r)
    /\ req' = [req EXCEPT ![r] = Ended(r, "closed")]
    /\ UNCHANGED <<live, history, record, started, server, events>>

MockRefused(r) ==
    /\ At(r, "mock", "streaming")
    /\ SettleLog(r, "failed")
    /\ ShowError(r)
    /\ ClearActivity
    /\ req' = [req EXCEPT ![r] = Ended(r, "closed")]
    /\ UNCHANGED <<live, history, started, server, events>>

\* The call fails, or an error event arrives.
MockError(r) ==
    /\ At(r, "mock", "streaming")
    /\ req' = [req EXCEPT ![r].pc = "ended", ![r].err = TRUE]
    /\ ShowError(r)
    /\ UNCHANGED <<live, files, server, events>>

\* HTML, or the last answer whatever it is; or the run was stopped, which the
\* loop notices before an attempt and tells nobody.
MockDone(r) ==
    /\ At(r, "mock", "streaming")
    /\ Goto(r, "ended")
    /\ UNCHANGED <<live, files, server, events, failed>>

MockRetries(r) ==
    /\ At(r, "mock", "streaming")
    /\ req[r].tries < MaxMockRetries
    /\ req' = [req EXCEPT ![r].tries = @ + 1]
    /\ UNCHANGED <<live, files, server, events, failed>>

MockCloses(r) ==
    /\ At(r, "mock", "ended")
    /\ SettleLog(r, Outcome(r))
    /\ ClearActivity
    /\ req' = [req EXCEPT ![r] = Ended(r, "closed")]
    /\ UNCHANGED <<live, history, started, server, events, failed>>

MockFinishes(r) ==
    /\ At(r, "mock", "closed")
    /\ Finish(r)
    /\ Over(r)
    /\ UNCHANGED <<files, server, events, failed>>

-----------------------------------------------------------------------------
(* The operations beside them.  What their clients saw is not recorded.     *)

\* Plan starts the run, then looks for a provider: without one it gives the
\* run up before a log exists.
InstructStarts(r) ==
    /\ At(r, "instruct", "prompted")
    /\ StartRun(r, "instruct", "started")
    /\ UNCHANGED <<files, server, events, failed>>

InstructRefused(r) ==
    /\ At(r, "instruct", "started")
    /\ Finish(r) /\ Over(r)
    /\ UNCHANGED <<files, server, events, failed>>

InstructLogs(r) ==
    /\ At(r, "instruct", "started")
    /\ StartRunLog(r)
    /\ Goto(r, "streaming")
    /\ UNCHANGED <<live, history, record, server, events, failed>>

\* The call fails: the log says so.  An error event is passed on, and the
\* log says success all the same.
InstructCloses(r) ==
    /\ At(r, "instruct", "streaming")
    /\ \E status \in {"success", "failed"} : SettleLog(r, status)
    /\ req' = [req EXCEPT ![r] = Ended(r, "closed")]
    /\ UNCHANGED <<live, history, record, started, server, events, failed>>

\* Refine has no run: its stream is the request's, and so is its context.
RefineLogs(r) ==
    /\ At(r, "refine", "prompted")
    /\ StartRunLog(r)
    /\ Goto(r, "streaming")
    /\ UNCHANGED <<live, history, record, server, events, failed>>

\* A client that leaves closes the stream without an event: nobody settles
\* the log.
RefineEnds(r) ==
    /\ At(r, "refine", "streaming")
    /\ \E status \in {"success", "failed", "running"} : SettleLog(r, status)
    /\ Over(r)
    /\ UNCHANGED <<live, history, record, started, server, events, failed>>

\* A chat about one bead, kept in the bead's own history; or an import.
\* Neither keeps an entry or a log.
PlainStarts(r) ==
    /\ At(r, "plain", "prompted")
    /\ StartRun(r, "plain", "streaming")
    /\ UNCHANGED <<files, server, events, failed>>

PlainEnds(r) ==
    /\ At(r, "plain", "streaming")
    /\ req' = [req EXCEPT ![r] = Ended(r, "closed")]
    /\ UNCHANGED <<live, files, server, events, failed>>

SideFinishes(r) ==
    /\ req[r].op \in SideOp /\ req[r].pc = "closed"
    /\ Finish(r)
    /\ Over(r)
    /\ UNCHANGED <<files, server, events, failed>>

-----------------------------------------------------------------------------
(* A crash, and the start of the server.                                   *)

\* The runs and the requests are gone; the files are as they were.
Crash ==
    /\ events < MaxEvents /\ events' = events + 1
    /\ boot # "off"
    /\ boot' = "off"
    /\ live' = [k \in Keys |-> None]
    /\ req' = [r \in Request |-> IF req[r].pc \in {"idle", "over"} THEN req[r]
                                 ELSE Ended(r, "lost")]
    /\ stale' = NoRecord
    /\ UNCHANGED <<files, failed>>

\* The server listens first; StartAll runs beside the requests.
Restart ==
    /\ boot = "off"
    /\ boot' = "listening"
    /\ UNCHANGED <<req, live, files, stale, events, failed>>

ReadMockActivity ==
    /\ boot = "listening"
    /\ stale' = record
    /\ boot' = IF record = [op |-> "mock", status |-> "running"]
               THEN "settling" ELSE "done"
    /\ UNCHANGED <<req, live, files, events, failed>>

ReadActivity ==
    /\ boot = "listening"
    /\ stale' = record
    /\ boot' = IF record.status = "running" THEN "settling" ELSE "done"
    /\ UNCHANGED <<req, live, files, events, failed>>

\* A mock-up is started again, unless somebody has done so meanwhile.
RestartsMock(r) ==
    /\ boot = "settling" /\ stale.op = "mock"
    /\ r = Newest
    /\ IF live["mock"] = None
       THEN /\ Takes(r, "mock")
            /\ req' = [req EXCEPT ![r] = [Idle EXCEPT !.pc = "started",
                                                      !.op = "mock"]]
       ELSE UNCHANGED <<req, live>>
    /\ boot' = "done" /\ stale' = NoRecord
    /\ UNCHANGED <<files, events, failed>>

\* A chat of an autonomous project: the driver will ask again if need be.
ClearsChat ==
    /\ boot = "settling" /\ stale.op = "chat"
    /\ ClearActivity
    /\ boot' = "done" /\ stale' = NoRecord
    /\ UNCHANGED <<req, live, history, log, started, events, failed>>

\* Any other chat, and a mock-up whose document is missing: the entry that
\* was read is written back as failed.
MarksFailed ==
    /\ boot = "settling"
    /\ record' = [stale EXCEPT !.status = "failed"]
    /\ boot' = "done" /\ stale' = NoRecord
    /\ UNCHANGED <<req, live, history, log, started, events, failed>>

-----------------------------------------------------------------------------
ChatStep(r) ==
    \/ SaveQuestion(r) \/ ChatStarts(r) \/ ChatAnnounces(r)
    \/ ChatRefused(r) \/ ChatError(r) \/ ChatDone(r) \/ SaveAnswer(r) \/ ChatSilent(r)
    \/ ChatCloses(r) \/ ChatFinishes(r)

MockStep(r) ==
    \/ MockStarts(r) \/ MockAnnounces(r) \/ MockRefused(r)
    \/ MockError(r) \/ MockDone(r) \/ MockRetries(r)
    \/ MockCloses(r) \/ MockFinishes(r)

SideStep(r) ==
    \/ InstructStarts(r) \/ InstructRefused(r) \/ InstructLogs(r)
    \/ InstructCloses(r) \/ RefineLogs(r) \/ RefineEnds(r)
    \/ PlainStarts(r) \/ PlainEnds(r) \/ SideFinishes(r)

Ask(r) ==
    Send(r) \/ Resume(r) \/ Generate(r) \/ AskSide(r) \/ DeleteLog(r)

Boot ==
    \/ Restart \/ ReadActivity \/ ClearsChat \/ MarksFailed
    \/ \E r \in Request : RestartsMock(r)

Next ==
    \/ \E r \in Request : Ask(r) \/ ChatStep(r) \/ MockStep(r) \/ SideStep(r)
    \/ Boot \/ Crash

\* Goroutines are scheduled, agents end their streams (every provider closes
\* its channel), a crashed server is started again and StartAll runs through.
\* Nobody has to ask for anything.
Fairness ==
    /\ \A r \in Request : WF_vars(ChatStep(r)) /\ WF_vars(MockStep(r))
    /\ WF_vars(Boot)

Spec == Init /\ [][Next]_vars /\ Fairness

-----------------------------------------------------------------------------
(* Properties.                                                             *)

Pcs == {"idle", "asked", "prompted", "started", "streaming",
        "answering", "ended", "closed", "over", "lost"}
Status == {"none", "running", "failed"}
RecordOp == {"none", "chat", "mock"}
Message == [from : {"user", "agent"}, to : Request]

\* The variables keep their types.
TypeOK ==
    /\ req \in [Request -> [pc : Pcs, op : Op \union {"none"},
                            to : Request \union {None}, copy : Seq(Message),
                            err : BOOLEAN, tries : 0..MaxMockRetries]]
    /\ live \in [Keys -> Request \union {None}]
    /\ history \in Seq(Message)
    /\ record \in [op : RecordOp, status : Status]
    /\ stale \in [op : RecordOp, status : Status]
    /\ log \in [Request -> {"none", "running", "success", "failed", "deleted"}]
    /\ started \in Seq(Request)
    /\ boot \in {"off", "listening", "settling", "done"}
    /\ events \in 0..MaxEvents
    /\ failed \subseteq Request

\* mergeActivities: what the user is shown, live runs before the entry.
Shown ==
    IF live["mock"] # None THEN [op |-> "mock", status |-> "running"]
    ELSE IF live["chat"] # None THEN [op |-> "chat", status |-> "running"]
    ELSE record

\* Once the start-up of the server has dealt with the entry it found, an entry
\* that says "running" has a live run of its operation behind it: two
\* operations overwrite and clear each other's entry, and start-up writes an
\* entry it read earlier, but no entry outlives the run it speaks of.
RunningRecordHasRun ==
    boot = "done" /\ record.status = "running" => live[record.op] # None

\* The badge does not stay on for ever: whatever crashed or was restarted, the
\* stage is shown as running only until the runs end.
BadgeGoesOut == Shown.status = "running" ~> Shown.status # "running"

\* The log of a chat or of a mock-up tells what its client saw: when the
\* request is over the log is settled, and it says "failed" exactly when an
\* error was shown, the failure to save the document included.
LogsTellOutcome ==
    \A r \in Request :
        /\ req[r].op \in {"chat", "mock"}
        /\ req[r].pc \in {"closed", "over"}
        /\ log[r] \notin {"none", "deleted"}
        => log[r] = IF r \in failed THEN "failed" ELSE "success"

=============================================================================
