-------------------------- MODULE StageRunsProofs --------------------------
(***************************************************************************)
(* What holds of the requests, the activity entry and the run logs of a    *)
(* stage for any number of requests, crashes and deletions: types, that no *)
(* "running" entry outlives its run, and that logs tell what was shown.    *)
(***************************************************************************)
EXTENDS StageRuns, FiniteSetTheorems, SequenceTheorems, TLAPS

USE KeepAssumption, RetriesAssumption, EventsAssumption

-----------------------------------------------------------------------------
(* The inductive invariants.                                               *)

\* Where a request has a run, from runs.Start to its Finish.
Region == {"started", "streaming", "answering", "ended", "closed"}
HasRun(x) == x.op \notin {"none", "refine"} /\ x.pc \in Region

\* Requests arrive one after another, and only the new have no operation.
Numbered ==
    /\ \E n \in 0..MaxEvents : Arrived = 1..n
    /\ \A r \in Request : req[r].op = "none" <=> req[r].pc = "idle"

\* A chat that goes on knows which question it answers.
ChatsKnow ==
    \A r \in Request :
      IsChat(r) /\ req[r].pc \in {"asked", "prompted", "started", "streaming", "answering"}
        => req[r].to \in Request

Typed == TypeOK /\ Numbered /\ ChatsKnow

\* The stream manager and the requests agree on who has which run.
RunsMatch ==
    /\ \A r \in Request : HasRun(req[r]) => live[Key(req[r].op)] = r
    /\ \A k \in Keys : live[k] # None =>
         HasRun(req[live[k]]) /\ Key(req[live[k]].op) = k

\* An entry that says "running" is cleared before the run it speaks of is given
\* up; while start-up is under way the only other one is that which it has read.
EntryCleared ==
    record.status = "running" =>
        /\ record.op \in {"chat", "mock"}
        /\ live[record.op] # None => req[live[record.op]].pc # "closed"
        /\ boot = "settling" /\ live[record.op] = None => record = stale
        /\ boot = "done" => live[record.op] # None

StaleKnown == boot = "settling" => stale.status = "running" /\ stale.op \in {"chat", "mock"}

\* Before its log begins a chat or a mock-up has shown nothing, while it has one
\* it remembers whether it has shown an error.
LogsFollow ==
    \A r \in Request : req[r].op \in {"none", "chat", "mock"} =>
        /\ req[r].pc \in {"idle", "asked", "prompted", "started"} =>
             log[r] = "none" /\ r \notin failed /\ ~req[r].err
        /\ req[r].pc \in {"streaming", "answering", "ended"} =>
             log[r] \in {"running", "deleted"} /\ (req[r].err <=> r \in failed)
-----------------------------------------------------------------------------
(* Types.                                                                  *)

RequestRecord == [pc : Pcs, op : Op \union {"none"},
                  to : Request \union {None}, copy : Seq(Message),
                  err : BOOLEAN, tries : 0..MaxMockRetries]

Entry == [op : RecordOp, status : Status]
LogStatus == {"none", "running", "success", "failed", "deleted"}

RequestStep(r) == Ask(r) \/ ChatStep(r) \/ MockStep(r) \/ SideStep(r)

LEMMA StepCases ==
  ASSUME [Next]_vars
  PROVE  \/ \E r \in Request : RequestStep(r)
         \/ Restart \/ ReadActivity \/ ClearsChat \/ MarksFailed
         \/ \E r \in Request : RestartsMock(r)
         \/ Crash
         \/ UNCHANGED vars
  BY DEF Next, RequestStep, Boot

LEMMA IdleTyped == Idle \in RequestRecord
<1>1. <<>> \in Seq(Message) /\ 0 \in 0..MaxMockRetries
  OBVIOUS
<1> QED
  BY <1>1 DEF Idle, RequestRecord, Pcs, None

LEMMA EndedTyped ==
  ASSUME TypeOK, NEW r \in Request, NEW pc \in Pcs
  PROVE  Ended(r, pc) \in RequestRecord
<1>1. req[r].op \in Op \union {"none"}
  BY DEF TypeOK
<1> QED
  BY <1>1, IdleTyped DEF Ended, RequestRecord

\* The records that requests pass through.
LEMMA AskTyped ==
  ASSUME TypeOK, NEW r \in Request, Ask(r)
  PROVE  req' = req \/ \E new \in RequestRecord : req' = [req EXCEPT ![r] = new]
<1>1. history \in Seq(Message)
  BY DEF TypeOK
<1>3. ASSUME NEW op \in Op, NEW to \in Request \union {None}
      PROVE  [Idle EXCEPT !.pc = "prompted", !.op = op, !.to = to] \in RequestRecord
  BY IdleTyped DEF RequestRecord, Pcs
<1>4. CASE Send(r)
  <2>1. [Idle EXCEPT !.pc = "asked", !.op = "chat", !.to = r, !.copy = history] \in RequestRecord
    BY <1>1, IdleTyped DEF RequestRecord, Pcs, Op
  <2> QED
    BY <1>4, <2>1 DEF Send
<1>5. CASE Resume(r)
  <2>1. history[Len(history)].to \in Request
    <3>1. history # <<>>
      BY <1>5 DEF Resume
    <3>2. Len(history) \in 1..Len(history)
      BY <1>1, <3>1, EmptySeq
    <3>3. history[Len(history)] \in Message
      BY <1>1, <3>2
    <3> QED
      BY <3>3 DEF Message
  <2>2. [Idle EXCEPT !.pc = "prompted", !.op = "resume", !.to = history[Len(history)].to]
          \in RequestRecord
    BY <1>3, <2>1 DEF Op
  <2> QED
    BY <1>5, <2>2 DEF Resume, Arrive
<1>6. CASE Generate(r)
  BY <1>3, <1>6 DEF Generate, Arrive, Op, None
<1>7. CASE AskSide(r)
  BY <1>3, <1>7 DEF AskSide, Arrive, Op, SideOp, None
<1>8. CASE DeleteLog(r)
  BY <1>8 DEF DeleteLog
<1> QED
  BY <1>4, <1>5, <1>6, <1>7, <1>8 DEF Ask

LEMMA GotoTyped ==
  ASSUME TypeOK, NEW r \in Request, NEW pc \in Pcs
  PROVE  [req EXCEPT ![r].pc = pc] = [req EXCEPT ![r] = [req[r] EXCEPT !.pc = pc]]
         /\ [req[r] EXCEPT !.pc = pc] \in RequestRecord
<1>1. req \in [Request -> RequestRecord]
  BY DEF TypeOK, RequestRecord
<1>2. [req EXCEPT ![r].pc = pc] = [req EXCEPT ![r] = [req[r] EXCEPT !.pc = pc]]
  BY <1>1
<1>3. req[r] \in RequestRecord
  BY <1>1
<1>4. [req[r] EXCEPT !.pc = pc] \in RequestRecord
  BY <1>3 DEF RequestRecord
<1> QED
  BY <1>2, <1>4

LEMMA ChatTyped ==
  ASSUME TypeOK, NEW r \in Request, ChatStep(r)
  PROVE  \E new \in RequestRecord : req' = [req EXCEPT ![r] = new]
<1>1. <<>> \in Seq(Message) /\ history \in Seq(Message)
  BY DEF TypeOK
<1>r. req \in [Request -> RequestRecord]
  BY DEF TypeOK, RequestRecord
<1>2. CASE SaveQuestion(r)
  <2>1. [req[r] EXCEPT !.pc = "prompted", !.copy = <<>>] \in RequestRecord
    BY <1>1, <1>r DEF RequestRecord, Pcs
  <2> QED
    BY <1>2, <1>r, <2>1 DEF SaveQuestion
<1>3. CASE ChatStarts(r)
  BY <1>3, GotoTyped, EndedTyped DEF ChatStarts, StartRun, Goto, Over, Pcs
<1>4. CASE ChatAnnounces(r)
  BY <1>4, GotoTyped DEF ChatAnnounces, Goto, Pcs
<1>5. CASE ChatRefused(r)
  BY <1>5, EndedTyped DEF ChatRefused, Pcs
<1>6. CASE ChatError(r)
  <2>1. [req[r] EXCEPT !.err = TRUE] \in RequestRecord
    BY <1>r DEF RequestRecord
  <2> QED
    BY <1>6, <1>r, <2>1 DEF ChatError
<1>7. CASE ChatDone(r)
  <2>1. PICK saved \in BOOLEAN :
          req' = [req EXCEPT ![r].pc = "answering", ![r].copy = history, ![r].err = @ \/ ~saved]
    BY <1>7 DEF ChatDone
  <2>2. [req[r] EXCEPT !.pc = "answering", !.copy = history, !.err = @ \/ ~saved] \in RequestRecord
    BY <1>1, <1>r DEF RequestRecord, Pcs
  <2> QED
    BY <1>r, <2>1, <2>2
<1>8. CASE SaveAnswer(r)
  <2>1. [req[r] EXCEPT !.pc = "ended", !.copy = <<>>] \in RequestRecord
    BY <1>1, <1>r DEF RequestRecord, Pcs
  <2> QED
    BY <1>8, <1>r, <2>1 DEF SaveAnswer
<1>9. CASE ChatSilent(r)
  BY <1>9, GotoTyped DEF ChatSilent, Goto, Pcs
<1>10. CASE ChatCloses(r)
  BY <1>10, EndedTyped DEF ChatCloses, Pcs
<1>11. CASE ChatFinishes(r)
  BY <1>11, EndedTyped DEF ChatFinishes, Over, Pcs
<1> QED
  BY <1>2, <1>3, <1>4, <1>5, <1>6, <1>7, <1>8, <1>9, <1>10, <1>11 DEF ChatStep

LEMMA MockTyped ==
  ASSUME TypeOK, NEW r \in Request, MockStep(r)
  PROVE  \E new \in RequestRecord : req' = [req EXCEPT ![r] = new]
<1>r. req \in [Request -> RequestRecord]
  BY DEF TypeOK, RequestRecord
<1>1. CASE MockStarts(r)
  BY <1>1, GotoTyped, EndedTyped DEF MockStarts, StartRun, Goto, Over, Pcs
<1>2. CASE MockAnnounces(r)
  BY <1>2, GotoTyped DEF MockAnnounces, Goto, Pcs
<1>3. CASE MockError(r)
  <2>1. [req[r] EXCEPT !.pc = "ended", !.err = TRUE] \in RequestRecord
    BY <1>r DEF RequestRecord, Pcs
  <2> QED
    BY <1>3, <1>r, <2>1 DEF MockError
<1>4. CASE MockDone(r)
  BY <1>4, GotoTyped DEF MockDone, Goto, Pcs
<1>5. CASE MockRetries(r)
  <2>1. req[r].tries \in 0..MaxMockRetries /\ req[r].tries < MaxMockRetries
    BY <1>5, <1>r DEF MockRetries, RequestRecord
  <2>2. req[r].tries + 1 \in 0..MaxMockRetries
    BY <2>1
  <2>3. [req[r] EXCEPT !.tries = @ + 1] \in RequestRecord
    BY <1>r, <2>2 DEF RequestRecord
  <2> QED
    BY <1>5, <1>r, <2>3 DEF MockRetries
<1>6. CASE MockRefused(r) \/ MockCloses(r)
  BY <1>6, EndedTyped DEF MockRefused, MockCloses, Pcs
<1>7. CASE MockFinishes(r)
  BY <1>7, EndedTyped DEF MockFinishes, Over, Pcs
<1> QED
  BY <1>1, <1>2, <1>3, <1>4, <1>5, <1>6, <1>7 DEF MockStep

LEMMA SideTyped ==
  ASSUME TypeOK, NEW r \in Request, SideStep(r)
  PROVE  \E new \in RequestRecord : req' = [req EXCEPT ![r] = new]
<1>1. CASE InstructStarts(r) \/ PlainStarts(r)
  BY <1>1, GotoTyped, EndedTyped DEF InstructStarts, PlainStarts, StartRun, Goto, Over, Pcs
<1>2. CASE InstructLogs(r) \/ RefineLogs(r)
  BY <1>2, GotoTyped DEF InstructLogs, RefineLogs, Goto, Pcs
<1>3. CASE InstructRefused(r) \/ RefineEnds(r) \/ SideFinishes(r)
  BY <1>3, EndedTyped DEF InstructRefused, RefineEnds, SideFinishes, Over, Pcs
<1>4. CASE InstructCloses(r) \/ PlainEnds(r)
  BY <1>4, EndedTyped DEF InstructCloses, PlainEnds, Pcs
<1> QED
  BY <1>1, <1>2, <1>3, <1>4 DEF SideStep
\* The other variables, one lemma for each file and the rest.
LEMMA PruneGoes ==
  ASSUME NEW l \in [Request -> LogStatus], NEW order
  PROVE  /\ Prune(l, order) \in [Request -> LogStatus]
         /\ \A x \in Request : \/ Prune(l, order)[x] = l[x]
                               \/ /\ Prune(l, order)[x] = "deleted"
                                  /\ l[x] \notin {"none", "deleted"}
  BY DEF Prune, Logged, LogStatus

LEMMA LogTyped ==
  ASSUME TypeOK, NEW r \in Request,
         \/ log' = log
         \/ StartRunLog(r)
         \/ \E status \in LogStatus : SettleLog(r, status)
         \/ DeleteLog(r)
  PROVE  log' \in [Request -> LogStatus]
<1>1. log \in [Request -> LogStatus]
  BY DEF TypeOK, LogStatus
<1>2. CASE StartRunLog(r)
  <2>1. [log EXCEPT ![r] = "running"] \in [Request -> LogStatus]
    BY <1>1 DEF LogStatus
  <2> QED
    BY <1>2, <2>1, PruneGoes DEF StartRunLog
<1>3. CASE \E status \in LogStatus : SettleLog(r, status)
  BY <1>1, <1>3 DEF SettleLog
<1>4. CASE DeleteLog(r)
  BY <1>1, <1>4 DEF DeleteLog, LogStatus
<1> QED
  BY <1>1, <1>2, <1>3, <1>4

\* What a step of a request does to each of the other variables.
LEMMA RequestEffects ==
  ASSUME NEW r \in Request, RequestStep(r)
  PROVE  /\ \/ live' = live \/ Finish(r)
            \/ \E k \in Keys : Takes(r, k)
         /\ \/ history' = history
            \/ history' = Append(req[r].copy, [from |-> "user", to |-> r])
            \/ IsChat(r) /\ req[r].pc = "answering"
                 /\ history' = Append(req[r].copy, [from |-> "agent", to |-> req[r].to])
         /\ record' = record \/ ClearActivity \/ \E op \in {"chat", "mock"} : WriteActivity(op)
         /\ \/ log' = log \/ StartRunLog(r) \/ DeleteLog(r)
            \/ \E status \in LogStatus : SettleLog(r, status)
         /\ started' = started \/ started' = Append(started, r)
         /\ UNCHANGED server
         /\ events' = events \/ (events < MaxEvents /\ events' = events + 1)
         /\ failed' = failed \/ ShowError(r)
<1>1. CASE Ask(r)
  BY <1>1 DEF Ask, Send, Resume, Generate, AskSide, DeleteLog, Arrive, CanArrive, files
<1>2. CASE ChatStep(r)
  <2>1. CASE SaveQuestion(r) \/ SaveAnswer(r)
    BY <2>1 DEF SaveQuestion, SaveAnswer, server
  <2>2. CASE ChatStarts(r)
    BY <2>2 DEF ChatStarts, StartRun, files, Keys
  <2>3. CASE ChatAnnounces(r)
    BY <2>3 DEF ChatAnnounces, StartRunLog
  <2>4. CASE ChatRefused(r)
    BY <2>4 DEF ChatRefused, LogStatus
  <2>5. CASE ChatError(r) \/ ChatDone(r) \/ ChatSilent(r) \/ ChatFinishes(r)
    BY <2>5 DEF ChatError, ChatDone, ChatSilent, ChatFinishes, files
  <2>6. CASE ChatCloses(r)
    BY <2>6 DEF ChatCloses, LogStatus, Outcome
  <2> QED
    BY <1>2, <2>1, <2>2, <2>3, <2>4, <2>5, <2>6 DEF ChatStep
<1>3. CASE MockStep(r)
  <2>1. CASE MockStarts(r)
    BY <2>1 DEF MockStarts, StartRun, files, Keys
  <2>2. CASE MockAnnounces(r)
    BY <2>2 DEF MockAnnounces, StartRunLog
  <2>3. CASE MockRefused(r)
    BY <2>3 DEF MockRefused, LogStatus
  <2>4. CASE MockError(r) \/ MockDone(r) \/ MockRetries(r) \/ MockFinishes(r)
    BY <2>4 DEF MockError, MockDone, MockRetries, MockFinishes, files
  <2>5. CASE MockCloses(r)
    BY <2>5 DEF MockCloses, LogStatus, Outcome
  <2> QED
    BY <1>3, <2>1, <2>2, <2>3, <2>4, <2>5 DEF MockStep
<1>4. CASE SideStep(r)
  <2>1. CASE InstructStarts(r) \/ PlainStarts(r)
    BY <2>1 DEF InstructStarts, PlainStarts, StartRun, files, Keys
  <2>2. CASE InstructRefused(r) \/ PlainEnds(r) \/ SideFinishes(r)
    BY <2>2 DEF InstructRefused, PlainEnds, SideFinishes, files
  <2>3. CASE InstructLogs(r) \/ RefineLogs(r)
    BY <2>3 DEF InstructLogs, RefineLogs, StartRunLog
  <2>4. CASE InstructCloses(r) \/ RefineEnds(r)
    BY <2>4 DEF InstructCloses, RefineEnds, LogStatus
  <2> QED
    BY <1>4, <2>1, <2>2, <2>3, <2>4 DEF SideStep
<1> QED
  BY <1>1, <1>2, <1>3, <1>4 DEF RequestStep

LEMMA RequestStepTyped ==
  ASSUME TypeOK, ChatsKnow, NEW r \in Request, RequestStep(r)
  PROVE  TypeOK'
<1>1. req' \in [Request -> RequestRecord]
  <2>1. req' = req \/ \E new \in RequestRecord : req' = [req EXCEPT ![r] = new]
    BY AskTyped, ChatTyped, MockTyped, SideTyped DEF RequestStep
  <2>2. req \in [Request -> RequestRecord]
    BY DEF TypeOK, RequestRecord
  <2> QED
    BY <2>1, <2>2
<1>2. live' \in [Keys -> Request \union {None}]
  <2>1. live' = live \/ Finish(r) \/ \E k \in Keys : Takes(r, k)
    BY RequestEffects
  <2>2. live \in [Keys -> Request \union {None}]
    BY DEF TypeOK
  <2> QED
    BY <2>1, <2>2 DEF Finish, Takes
<1>3. history' \in Seq(Message)
  <2>1. /\ req[r].copy \in Seq(Message) /\ req[r].to \in Request \union {None}
        /\ history \in Seq(Message)
    BY DEF TypeOK
  <2>2. CASE history' = Append(req[r].copy, [from |-> "user", to |-> r])
    <3>1. [from |-> "user", to |-> r] \in Message
      BY DEF Message
    <3> QED
      BY <2>1, <2>2, <3>1
  <2>3. CASE IsChat(r) /\ req[r].pc = "answering"
               /\ history' = Append(req[r].copy, [from |-> "agent", to |-> req[r].to])
    <3>1. [from |-> "agent", to |-> req[r].to] \in Message
      BY <2>3 DEF Message, ChatsKnow
    <3> QED
      BY <2>1, <2>3, <3>1
  <2> QED
    BY <2>1, <2>2, <2>3, RequestEffects
<1>4. record' \in Entry
  <2>1. record' = record \/ ClearActivity \/ \E op \in {"chat", "mock"} : WriteActivity(op)
    BY RequestEffects
  <2> QED
    BY <2>1 DEF TypeOK, ClearActivity, WriteActivity, NoRecord, Entry, RecordOp, Status
<1>5. log' \in [Request -> LogStatus]
  BY RequestEffects, LogTyped
<1>6. started' \in Seq(Request)
  <2>1. started' = started \/ started' = Append(started, r)
    BY RequestEffects
  <2>2. started \in Seq(Request)
    BY DEF TypeOK
  <2> HIDE DEF Request
  <2> QED
    BY <2>1, <2>2
<1>7. events' \in 0..MaxEvents
  <2>1. events' = events \/ (events < MaxEvents /\ events' = events + 1)
    BY RequestEffects
  <2>2. events \in 0..MaxEvents
    BY DEF TypeOK
  <2> QED
    BY <2>1, <2>2
<1>8. failed' \subseteq Request
  BY RequestEffects DEF TypeOK, ShowError
<1>9. UNCHANGED <<boot, stale>>
  BY RequestEffects DEF server
<1> QED
  BY <1>1, <1>2, <1>3, <1>4, <1>5, <1>6, <1>7, <1>8, <1>9
     DEF TypeOK, RequestRecord, Entry, LogStatus
-----------------------------------------------------------------------------
(* How a request moves.                                                    *)

Untouched(r) == \A x \in Request \ {r} : req'[x] = req[x]

\* A new request.
Arrives(r) ==
    /\ r = Newest /\ live' = live
    /\ req'[r].pc \in {"asked", "prompted"} /\ req'[r].op \in Op /\ ~req'[r].err
    /\ req'[r].op \in {"chat", "resume"} => req'[r].to \in Request

\* One that goes on; it keeps its question as long as it needs it.
GoesOn(r) ==
    /\ req[r].pc # "idle" /\ req'[r].pc # "idle"
    /\ req'[r].op = req[r].op
    /\ IsChat(r) => \/ req'[r].pc \in {"ended", "closed", "over"}
                    \/ req'[r].to = req[r].to /\ req[r].pc \notin {"ended", "closed", "over", "lost"}
    /\ \/ HasRun(req[r]) /\ HasRun(req'[r]) /\ live' = live
       \/ ~HasRun(req[r]) /\ ~HasRun(req'[r]) /\ live' = live
       \/ /\ ~HasRun(req[r]) /\ HasRun(req'[r]) /\ req'[r].pc \in {"started", "streaming"}
          /\ live[Key(req[r].op)] = None /\ Takes(r, Key(req[r].op)) /\ Key(req[r].op) \in Keys
       \/ req[r].pc \in {"closed", "started"} /\ ~HasRun(req'[r]) /\ Finish(r)

LEMMA OverMoves ==
  ASSUME TypeOK, NEW r \in Request, req[r].pc = "prompted", req[r].op # "none",
         Over(r), live' = live
  PROVE  Untouched(r) /\ GoesOn(r)
<1>1. req \in [Request -> RequestRecord]
  BY DEF TypeOK, RequestRecord
<1>2. req'[r] = Ended(r, "over") /\ Untouched(r)
  BY <1>1 DEF Over, Untouched
<1>3. Ended(r, "over").pc = "over" /\ Ended(r, "over").op = req[r].op
  BY DEF Ended, Idle
<1> QED
  BY <1>2, <1>3 DEF GoesOn, HasRun, Region

LEMMA AskMoves ==
  ASSUME TypeOK, NEW r \in Request, Ask(r)
  PROVE  Untouched(r) /\ ((UNCHANGED <<req, live>>) \/ Arrives(r))
<1>r. req \in [Request -> RequestRecord] /\ Idle \in RequestRecord
  BY IdleTyped DEF TypeOK, RequestRecord
<1>1. CASE Send(r)
  BY <1>r, <1>1 DEF Send, CanArrive, Arrives, Untouched, Idle, Op
<1>2. CASE Resume(r)
  <2>1. /\ req' = [req EXCEPT ![r] = [Idle EXCEPT !.pc = "prompted", !.op = "resume",
                                                   !.to = history[Len(history)].to]]
        /\ r = Newest /\ live' = live /\ history # <<>>
    BY <1>2 DEF Resume, Arrive, CanArrive
  <2>2. history[Len(history)] \in Message
    <3>1. history \in Seq(Message)
      BY DEF TypeOK
    <3>2. Len(history) \in 1..Len(history)
      BY <2>1, <3>1, EmptySeq
    <3> QED
      BY <3>1, <3>2
  <2>3. history[Len(history)].to \in Request
    BY <2>2 DEF Message
  <2> QED
    BY <1>r, <2>1, <2>3 DEF Arrives, Untouched, Idle, Op
<1>3. CASE Generate(r)
  BY <1>r, <1>3 DEF Generate, Arrive, CanArrive, Arrives, Untouched, Idle, Op
<1>4. CASE AskSide(r)
  BY <1>r, <1>4 DEF AskSide, Arrive, CanArrive, Arrives, Untouched, Idle, Op, SideOp
<1>5. CASE DeleteLog(r)
  BY <1>5 DEF DeleteLog, Untouched
<1> QED
  BY <1>1, <1>2, <1>3, <1>4, <1>5 DEF Ask

LEMMA ChatMoves ==
  ASSUME TypeOK, NEW r \in Request, ChatStep(r)
  PROVE  Untouched(r) /\ GoesOn(r)
<1>r. req \in [Request -> RequestRecord]
  BY DEF TypeOK, RequestRecord
<1> USE DEF Untouched, GoesOn, HasRun, Region
<1>1. CASE SaveQuestion(r)
  BY <1>r, <1>1 DEF SaveQuestion, At, RequestRecord
<1>2. CASE ChatStarts(r)
  <2>1. IsChat(r) /\ req[r].pc = "prompted" /\ StartRun(r, "chat", "started")
    BY <1>2 DEF ChatStarts
  <2>2. Key(req[r].op) = "chat"
    BY <2>1 DEF IsChat, Key
  <2>3. CASE live["chat"] = None
    BY <1>r, <2>1, <2>2, <2>3 DEF StartRun, Goto, IsChat, Keys, RequestRecord
  <2>4. CASE live["chat"] # None
    <3>1. Over(r) /\ live' = live /\ req[r].op # "none"
      BY <2>1, <2>4 DEF StartRun, IsChat
    <3> QED
      BY <2>1, <3>1, OverMoves
  <2> QED
    BY <2>3, <2>4
<1>3. CASE ChatAnnounces(r)
  BY <1>r, <1>3 DEF ChatAnnounces, Goto, IsChat, RequestRecord
<1>4. CASE ChatRefused(r)
  BY <1>r, <1>4 DEF ChatRefused, Ended, Idle, IsChat, RequestRecord
<1>5. CASE ChatError(r)
  BY <1>r, <1>5 DEF ChatError, IsChat, RequestRecord
<1>6. CASE ChatDone(r)
  <2>1. PICK saved \in BOOLEAN :
          req' = [req EXCEPT ![r].pc = "answering", ![r].copy = history, ![r].err = @ \/ ~saved]
    BY <1>6 DEF ChatDone
  <2>2. /\ req'[r].pc = "answering" /\ req'[r].op = req[r].op /\ req'[r].to = req[r].to
        /\ \A x \in Request \ {r} : req'[x] = req[x]
    BY <1>r, <2>1 DEF RequestRecord
  <2> QED
    BY <1>6, <2>2 DEF ChatDone, IsChat
<1>7. CASE SaveAnswer(r)
  BY <1>r, <1>7 DEF SaveAnswer, IsChat, RequestRecord
<1>8. CASE ChatSilent(r)
  BY <1>r, <1>8 DEF ChatSilent, Goto, IsChat, RequestRecord
<1>9. CASE ChatCloses(r)
  BY <1>r, <1>9 DEF ChatCloses, Ended, Idle, IsChat, RequestRecord
<1>10. CASE ChatFinishes(r)
  BY <1>r, <1>10 DEF ChatFinishes, Over, Ended, Idle, IsChat, RequestRecord
<1> QED
  BY <1>1, <1>2, <1>3, <1>4, <1>5, <1>6, <1>7, <1>8, <1>9, <1>10 DEF ChatStep

LEMMA MockMoves ==
  ASSUME TypeOK, NEW r \in Request, MockStep(r)
  PROVE  Untouched(r) /\ GoesOn(r)
<1>r. req \in [Request -> RequestRecord]
  BY DEF TypeOK, RequestRecord
<1> USE DEF Untouched, GoesOn, HasRun, Region, At, IsChat
<1>1. CASE MockStarts(r)
  <2>1. req[r].op = "mock" /\ req[r].pc = "prompted" /\ StartRun(r, "mock", "started")
    BY <1>1 DEF MockStarts
  <2>2. Key(req[r].op) = "mock"
    BY <2>1 DEF Key
  <2>3. CASE live["mock"] = None
    BY <1>r, <2>1, <2>2, <2>3 DEF StartRun, Goto, Keys, RequestRecord
  <2>4. CASE live["mock"] # None
    BY ZenonT(40), <1>r, <2>1, <2>4 DEF StartRun, Over, Ended, Idle, RequestRecord
  <2> QED
    BY <2>3, <2>4
<1>2. CASE MockAnnounces(r)
  BY <1>r, <1>2 DEF MockAnnounces, Goto, RequestRecord
<1>3. CASE MockRefused(r) \/ MockCloses(r)
  BY <1>r, <1>3 DEF MockRefused, MockCloses, Ended, Idle, RequestRecord
<1>4. CASE MockError(r) \/ MockRetries(r)
  BY <1>r, <1>4 DEF MockError, MockRetries, RequestRecord
<1>5. CASE MockDone(r)
  BY <1>r, <1>5 DEF MockDone, Goto, RequestRecord
<1>6. CASE MockFinishes(r)
  BY <1>r, <1>6 DEF MockFinishes, Over, Ended, Idle, RequestRecord
<1> QED
  BY <1>1, <1>2, <1>3, <1>4, <1>5, <1>6 DEF MockStep

LEMMA SideMoves ==
  ASSUME TypeOK, NEW r \in Request, SideStep(r)
  PROVE  Untouched(r) /\ GoesOn(r) /\ req[r].op \in SideOp
<1>r. req \in [Request -> RequestRecord]
  BY DEF TypeOK, RequestRecord
<1> USE DEF Untouched, GoesOn, HasRun, Region, At, IsChat, SideOp
<1>1. CASE InstructStarts(r) \/ PlainStarts(r)
  <2>1. PICK k \in {"instruct", "plain"}, pc \in {"started", "streaming"} :
          req[r].op = k /\ req[r].pc = "prompted" /\ StartRun(r, k, pc)
    BY <1>1 DEF InstructStarts, PlainStarts
  <2>2. Key(req[r].op) = k
    BY <2>1 DEF Key
  <2>3. CASE live[k] = None
    BY <1>r, <2>1, <2>2, <2>3 DEF StartRun, Goto, Keys, RequestRecord
  <2>4. CASE live[k] # None
    <3>1. Over(r) /\ live' = live /\ req[r].op # "none"
      BY <2>1, <2>4 DEF StartRun
    <3> QED
      BY <2>1, <3>1, OverMoves
  <2> QED
    BY <2>3, <2>4
<1>2. CASE InstructRefused(r) \/ SideFinishes(r)
  BY ZenonT(40), <1>r, <1>2 DEF InstructRefused, SideFinishes, Over, Ended, Idle, RequestRecord
<1>3. CASE InstructLogs(r) \/ RefineLogs(r)
  BY <1>r, <1>3 DEF InstructLogs, RefineLogs, Goto, RequestRecord
<1>4. CASE InstructCloses(r) \/ PlainEnds(r)
  BY <1>r, <1>4 DEF InstructCloses, PlainEnds, Ended, Idle, RequestRecord
<1>5. CASE RefineEnds(r)
  BY <1>r, <1>5 DEF RefineEnds, Over, Ended, Idle, RequestRecord
<1> QED
  BY <1>1, <1>2, <1>3, <1>4, <1>5 DEF SideStep
LEMMA NewestIsNew ==
  ASSUME Numbered
  PROVE  /\ Newest \notin Arrived
         /\ \A r \in Request : r = Newest => \E n \in 0..MaxEvents : Arrived \union {r} = 1..n
<1>1. PICK n \in 0..MaxEvents : Arrived = 1..n
  BY DEF Numbered
<1>2. Cardinality(1..n) = n
  BY FS_Interval
<1>3. Newest = n + 1
  BY <1>1, <1>2 DEF Newest
<1>4. Newest \notin Arrived
  BY <1>1, <1>3
<1>5. ASSUME NEW r \in Request, r = Newest
      PROVE  \E m \in 0..MaxEvents : Arrived \union {r} = 1..m
  <2>1. n + 1 \in 0..MaxEvents
    BY <1>3, <1>5 DEF Request
  <2>2. Arrived \union {r} = 1..(n + 1)
    BY <1>1, <1>3, <1>5
  <2> QED
    BY <2>1, <2>2
<1> QED
  BY <1>4, <1>5

LEMMA RequestStepNumbered ==
  ASSUME TypeOK, Numbered, ChatsKnow, NEW r \in Request,
         Untouched(r), (UNCHANGED <<req, live>>) \/ Arrives(r) \/ GoesOn(r)
  PROVE  Numbered' /\ ChatsKnow'
<1>1. CASE UNCHANGED <<req, live>>
  BY <1>1 DEF Numbered, ChatsKnow, Arrived, IsChat
<1>2. CASE Arrives(r)
  <2>1. Arrived' = Arrived \union {r}
    BY <1>2 DEF Arrived, Arrives, Untouched
  <2>2. \E n \in 0..MaxEvents : Arrived' = 1..n
    BY <1>2, <2>1, NewestIsNew DEF Arrives
  <2>3. req'[r].op # "none" /\ req'[r].pc # "idle"
    BY <1>2 DEF Arrives, Op, SideOp
  <2> QED
    BY <1>2, <2>2, <2>3 DEF Arrives, Numbered, ChatsKnow, IsChat, Untouched
<1>3. CASE GoesOn(r)
  <2>1. Arrived' = Arrived
    BY <1>3 DEF Arrived, GoesOn, Untouched
  <2>2. \A x \in Request : req'[x].op = req[x].op /\ (req'[x].pc = "idle" <=> req[x].pc = "idle")
    BY <1>3 DEF GoesOn, Untouched
  <2>3. Numbered'
    BY <2>1, <2>2 DEF Numbered
  <2>4. ASSUME NEW x \in Request, IsChat(x)',
               req'[x].pc \in {"asked", "prompted", "started", "streaming", "answering"}
        PROVE  req'[x].to \in Request
    <3>1. CASE x = r
      <4>1. IsChat(r)
        BY <1>3, <2>4, <3>1 DEF IsChat, GoesOn
      <4>2. /\ req'[r].to = req[r].to /\ req[r].pc # "idle"
            /\ req[r].pc \notin {"ended", "closed", "over", "lost"}
        BY <1>3, <2>4, <3>1, <4>1 DEF GoesOn
      <4> QED
        BY <3>1, <4>1, <4>2 DEF ChatsKnow, TypeOK, Pcs
    <3>2. CASE x # r
      BY <2>4, <3>2 DEF ChatsKnow, IsChat, Untouched
    <3> QED
      BY <3>1, <3>2
  <2> QED
    BY <2>3, <2>4 DEF ChatsKnow
<1> QED
  BY <1>1, <1>2, <1>3
LEMMA RequestMoves ==
  ASSUME TypeOK, NEW r \in Request, RequestStep(r)
  PROVE  Untouched(r) /\ ((UNCHANGED <<req, live>>) \/ Arrives(r) \/ GoesOn(r))
  BY AskMoves, ChatMoves, MockMoves, SideMoves DEF RequestStep

\* A crash, and what start-up does.
LEMMA CrashKeeps ==
  ASSUME Typed, Crash
  PROVE  /\ Typed'
         /\ \A r \in Request : req'[r] = req[r] \/ req'[r] = Ended(r, "lost")
<1>r. /\ req \in [Request -> RequestRecord] /\ events \in 0..MaxEvents
      /\ stale \in Entry /\ NoRecord \in Entry
  BY DEF Typed, TypeOK, RequestRecord, Entry, NoRecord, RecordOp, Status
<1>1. \A r \in Request : req'[r] = IF req[r].pc \in {"idle", "over"} THEN req[r]
                                   ELSE Ended(r, "lost")
  BY DEF Crash
<1>2. \A r \in Request : Ended(r, "lost").pc = "lost" /\ Ended(r, "lost").op = req[r].op
  BY DEF Ended, Idle
<1>3. TypeOK'
  <2>1. \A r \in Request : Ended(r, "lost") \in RequestRecord
    BY EndedTyped DEF Pcs, Typed
  <2>2. req' \in [Request -> RequestRecord]
    BY <1>r, <2>1 DEF Crash
  <2>3. live' \in [Keys -> Request \union {None}] /\ boot' = "off" /\ stale' \in Entry
    BY <1>r DEF Crash
  <2>4. events' \in 0..MaxEvents
    BY <1>r DEF Crash
  <2>5. UNCHANGED <<history, record, log, started, failed>>
    BY DEF Crash, files
  <2> QED
    BY <2>2, <2>3, <2>4, <2>5 DEF Typed, TypeOK, RequestRecord, Entry
<1>4. Arrived' = Arrived
  BY <1>1, <1>2 DEF Arrived
<1>5. \A r \in Request : (req'[r].op = "none" <=> req'[r].pc = "idle")
  BY <1>1, <1>2 DEF Typed, Numbered
<1>6. ChatsKnow'
  BY <1>1, <1>2 DEF Typed, ChatsKnow, IsChat
<1> QED
  BY <1>1, <1>3, <1>4, <1>5, <1>6 DEF Typed, Numbered

LEMMA RestartTyped ==
  ASSUME Typed, NEW r \in Request, RestartsMock(r)
  PROVE  Typed'
<1>r. req \in [Request -> RequestRecord] /\ live \in [Keys -> Request \union {None}]
  BY DEF Typed, TypeOK, RequestRecord
<1>1. UNCHANGED <<history, record, log, started, events, failed>>
      /\ boot' = "done" /\ stale' = NoRecord
  BY DEF RestartsMock, files
<1>2. NoRecord \in Entry
  BY DEF NoRecord, Entry, RecordOp, Status
<1>3. CASE UNCHANGED <<req, live>>
  BY <1>1, <1>2, <1>3 DEF Typed, TypeOK, Numbered, ChatsKnow, Arrived, IsChat, Entry
<1>4. CASE Takes(r, "mock")
           /\ req' = [req EXCEPT ![r] = [Idle EXCEPT !.pc = "started", !.op = "mock"]]
  <2> DEFINE new == [Idle EXCEPT !.pc = "started", !.op = "mock"]
  <2>1. new \in RequestRecord
    BY IdleTyped DEF RequestRecord, Pcs, Op
  <2>2. new.pc = "started" /\ new.op = "mock"
    BY DEF Idle
  <2>3. /\ req' \in [Request -> RequestRecord] /\ req'[r] = new
        /\ \A x \in Request \ {r} : req'[x] = req[x]
    BY <1>r, <1>4, <2>1
  <2> HIDE DEF new
  <2>4. live' \in [Keys -> Request \union {None}]
    BY <1>r, <1>4 DEF Takes
  <2>5. TypeOK'
    BY <1>1, <1>2, <2>3, <2>4 DEF Typed, TypeOK, RequestRecord, Entry
  <2>6. Arrived' = Arrived \union {r}
    BY <2>2, <2>3 DEF Arrived
  <2>7. \E n \in 0..MaxEvents : Arrived' = 1..n
    BY <2>6, NewestIsNew DEF Typed, RestartsMock
  <2>8. \A x \in Request : req'[x].op = "none" <=> req'[x].pc = "idle"
    BY <2>2, <2>3 DEF Typed, Numbered
  <2>9. ChatsKnow'
    BY <2>2, <2>3 DEF Typed, ChatsKnow, IsChat
  <2> QED
    BY <2>5, <2>7, <2>8, <2>9 DEF Typed, Numbered
<1> QED
  BY <1>3, <1>4 DEF RestartsMock

LEMMA NextTyped ==
  ASSUME Typed, [Next]_vars
  PROVE  Typed'
<1>1. ASSUME NEW r \in Request, RequestStep(r)
      PROVE  Typed'
  <2>1. TypeOK'
    BY <1>1, RequestStepTyped DEF Typed
  <2>2. Untouched(r) /\ ((UNCHANGED <<req, live>>) \/ Arrives(r) \/ GoesOn(r))
    BY <1>1, RequestMoves DEF Typed
  <2>3. Numbered' /\ ChatsKnow'
    BY <2>2, RequestStepNumbered DEF Typed
  <2> QED
    BY <2>1, <2>3 DEF Typed
<1>2. CASE Restart \/ ReadActivity \/ ClearsChat \/ MarksFailed
  <2>1. req' = req /\ UNCHANGED <<live, history, log, started, events, failed>>
    BY <1>2 DEF Restart, ReadActivity, ClearsChat, MarksFailed, files
  <2>2. boot' \in {"off", "listening", "settling", "done"}
    BY <1>2 DEF Restart, ReadActivity, ClearsChat, MarksFailed
  <2>3. NoRecord \in Entry /\ record \in Entry /\ stale \in Entry
    BY DEF Typed, TypeOK, NoRecord, Entry, RecordOp, Status
  <2>4. record' \in Entry /\ stale' \in Entry
    <3>1. [stale EXCEPT !.status = "failed"] \in Entry
      BY <2>3 DEF Entry, Status
    <3> QED
      BY <1>2, <2>3, <3>1
         DEF Restart, ReadActivity, ClearsChat, MarksFailed, ClearActivity, files
  <2>5. TypeOK'
    BY <2>1, <2>2, <2>4 DEF Typed, TypeOK, Entry
  <2> QED
    BY <2>1, <2>5 DEF Typed, Numbered, ChatsKnow, Arrived, IsChat
<1>3. CASE UNCHANGED vars
  BY <1>3 DEF Typed, TypeOK, Numbered, ChatsKnow, Arrived, IsChat, vars
<1> QED
  BY <1>1, <1>2, <1>3, StepCases, CrashKeeps, RestartTyped

LEMMA InitTyped ==
  ASSUME Init
  PROVE  Typed
<1>1. TypeOK
  <2>1. <<>> \in Seq(Message) /\ <<>> \in Seq(Request)
    OBVIOUS
  <2>2. 0 \in 0..MaxEvents
    OBVIOUS
  <2>3. req \in [Request -> RequestRecord]
    BY IdleTyped DEF Init
  <2> QED
    BY <2>1, <2>2, <2>3 DEF Init, TypeOK, RequestRecord, NoRecord, RecordOp, Status, None
<1>2. Numbered
  <2>1. Arrived = 1..0 /\ 0 \in 0..MaxEvents
    BY DEF Init, Arrived, Idle
  <2> QED
    BY <2>1 DEF Init, Numbered, Idle
<1>3. ChatsKnow
  BY DEF Init, ChatsKnow, IsChat, Idle
<1> QED
  BY <1>1, <1>2, <1>3 DEF Typed

\* The requests, their runs, the files and the boot of the server keep their
\* types, whatever is asked, deleted, and in whatever order the server crashes.
THEOREM TypeCorrect == Spec => []TypeOK
<1>1. Init => Typed
  BY InitTyped
<1>2. Typed /\ [Next]_vars => Typed'
  BY NextTyped
<1>3. Typed => TypeOK
  BY DEF Typed
<1> QED
  BY <1>1, <1>2, <1>3, PTL DEF Spec
-----------------------------------------------------------------------------
(* Runs and the entry that speaks of them.                                 *)

LEMMA KeyFacts ==
  /\ \A op \in {"chat", "resume"} : Key(op) = "chat"
  /\ \A op \in Op \ {"resume"} : Key(op) = op
  /\ \A r \in Request : HasRun(req[r]) /\ req[r].op \in Op => Key(req[r].op) \in Keys
  BY DEF Key, HasRun, Keys, Op, SideOp

\* A request's step keeps the runs and the requests in agreement.
LEMMA RequestRunsMatch ==
  ASSUME Typed, RunsMatch, NEW r \in Request, Untouched(r),
         (UNCHANGED <<req, live>>) \/ Arrives(r) \/ GoesOn(r)
  PROVE  RunsMatch'
<1>t. /\ live \in [Keys -> Request \union {None}] /\ None \notin Request
      /\ \A x \in Request : req[x].op \in Op \union {"none"}
  BY DEF Typed, TypeOK, None, Request
<1>1. CASE UNCHANGED <<req, live>>
  BY <1>1 DEF RunsMatch, HasRun
<1>2. CASE Arrives(r)
  <2>1. req[r].pc = "idle"
    BY <1>2, NewestIsNew DEF Typed, Arrives, Arrived
  <2>2. ~HasRun(req[r]) /\ ~HasRun(req'[r]) /\ live' = live
    BY <1>2, <2>1 DEF HasRun, Region, Arrives
  <2>3. \A x \in Request : HasRun(req'[x]) => x # r /\ HasRun(req[x]) /\ req'[x] = req[x]
    BY <2>2 DEF Untouched
  <2>4. \A k \in Keys : live[k] # r
    BY <2>2, <1>t DEF RunsMatch
  <2> QED
    BY <1>t, <2>2, <2>3, <2>4 DEF RunsMatch, Untouched
<1>3. CASE GoesOn(r)
  <2>0. req'[r].op = req[r].op /\ \A x \in Request : req'[x].op = req[x].op
    BY <1>3 DEF GoesOn, Untouched
  <2>1. CASE HasRun(req[r]) /\ HasRun(req'[r]) /\ live' = live
    <3>1. \A x \in Request : HasRun(req'[x]) <=> HasRun(req[x])
      BY <2>1 DEF Untouched
    <3> QED
      BY <1>t, <2>0, <2>1, <3>1 DEF RunsMatch
  <2>2. CASE ~HasRun(req[r]) /\ ~HasRun(req'[r]) /\ live' = live
    <3>1. \A x \in Request : HasRun(req'[x]) <=> HasRun(req[x])
      BY <2>2 DEF Untouched
    <3> QED
      BY <1>t, <2>0, <2>2, <3>1 DEF RunsMatch
  <2>3. CASE /\ ~HasRun(req[r]) /\ HasRun(req'[r])
             /\ live[Key(req[r].op)] = None /\ Takes(r, Key(req[r].op))
             /\ Key(req[r].op) \in Keys
    <3>1. PICK key \in Keys : key = Key(req[r].op)
      BY <2>3
    <3>2. live' = [live EXCEPT ![key] = r] /\ live[key] = None
      BY <2>3, <3>1 DEF Takes
    <3>3. /\ live'[key] = r
          /\ \A k \in Keys \ {key} : live'[k] = live[k]
      BY <1>t, <3>2
    <3>4. ASSUME NEW x \in Request, HasRun(req'[x])
          PROVE  live'[Key(req'[x].op)] = x
      <4>1. CASE x = r
        BY <2>0, <3>1, <3>3, <4>1
      <4>2. CASE x # r
        <5>1. HasRun(req[x]) /\ live[Key(req[x].op)] = x
          BY <3>4, <4>2 DEF Untouched, RunsMatch
        <5>2. Key(req[x].op) \in Keys
          BY <1>t, <5>1, KeyFacts DEF HasRun
        <5>3. Key(req[x].op) # key
          BY <1>t, <3>2, <5>1
        <5> QED
          BY <2>0, <3>3, <5>1, <5>2, <5>3
      <4> QED
        BY <4>1, <4>2
    <3>5. ASSUME NEW k \in Keys, live'[k] # None
          PROVE  HasRun(req'[live'[k]]) /\ Key(req'[live'[k]].op) = k
      <4>1. CASE k = key
        BY <2>0, <2>3, <3>1, <3>3, <4>1
      <4>2. CASE k # key
        <5>1. live[k] # None /\ live'[k] = live[k] /\ live[k] \in Request
          BY <1>t, <3>3, <3>5, <4>2
        <5>2. HasRun(req[live[k]]) /\ Key(req[live[k]].op) = k
          BY <5>1 DEF RunsMatch
        <5>3. live[k] # r
          BY <2>3, <5>2
        <5> QED
          BY <5>1, <5>2, <5>3 DEF Untouched
      <4> QED
        BY <4>1, <4>2
    <3> QED
      BY <3>4, <3>5 DEF RunsMatch
  <2>4. CASE ~HasRun(req'[r]) /\ Finish(r)
    <3>1. \A k \in Keys : live'[k] = IF live[k] = r THEN None ELSE live[k]
      BY <2>4 DEF Finish
    <3>2. ASSUME NEW x \in Request, HasRun(req'[x])
          PROVE  live'[Key(req'[x].op)] = x
      <4>1. x # r /\ HasRun(req[x]) /\ live[Key(req[x].op)] = x
        BY <2>4, <3>2 DEF Untouched, RunsMatch
      <4>2. Key(req[x].op) \in Keys
        BY <1>t, <4>1, KeyFacts DEF HasRun
      <4> QED
        BY <2>0, <3>1, <4>1, <4>2
    <3>3. ASSUME NEW k \in Keys, live'[k] # None
          PROVE  HasRun(req'[live'[k]]) /\ Key(req'[live'[k]].op) = k
      <4>1. live[k] # r /\ live'[k] = live[k] /\ live[k] # None /\ live[k] \in Request
        BY <1>t, <3>1, <3>3
      <4> QED
        BY <4>1 DEF RunsMatch, Untouched
    <3> QED
      BY <3>2, <3>3 DEF RunsMatch
  <2> QED
    BY <1>3, <2>1, <2>2, <2>3, <2>4 DEF GoesOn
<1> QED
  BY <1>1, <1>2, <1>3

LEMMA NextRunsMatch ==
  ASSUME Typed, RunsMatch, [Next]_vars
  PROVE  RunsMatch'
<1>t. /\ live \in [Keys -> Request \union {None}] /\ None \notin Request
      /\ req \in [Request -> RequestRecord]
  BY DEF Typed, TypeOK, None, Request, RequestRecord
<1>1. ASSUME NEW r \in Request, RequestStep(r)
      PROVE  RunsMatch'
  BY <1>1, RequestMoves, RequestRunsMatch DEF Typed
<1>2. CASE Restart \/ ReadActivity \/ ClearsChat \/ MarksFailed \/ UNCHANGED vars
  <2>1. UNCHANGED <<req, live>>
    BY <1>2 DEF Restart, ReadActivity, ClearsChat, MarksFailed, vars
  <2> QED
    BY <2>1 DEF RunsMatch, HasRun
<1>3. ASSUME NEW r \in Request, RestartsMock(r)
      PROVE  RunsMatch'
  <2>1. CASE UNCHANGED <<req, live>>
    BY <2>1 DEF RunsMatch, HasRun
  <2>2. CASE /\ live["mock"] = None /\ Takes(r, "mock")
             /\ req' = [req EXCEPT ![r] = [Idle EXCEPT !.pc = "started", !.op = "mock"]]
    <3>1. /\ req'[r].pc = "started" /\ req'[r].op = "mock"
          /\ \A x \in Request \ {r} : req'[x] = req[x]
      BY <1>t, <2>2 DEF Idle
    <3>2. live'["mock"] = r /\ \A k \in Keys \ {"mock"} : live'[k] = live[k]
      BY <1>t, <2>2 DEF Takes, Keys
    <3>3. HasRun(req'[r]) /\ Key(req'[r].op) = "mock"
      BY <3>1 DEF HasRun, Region, Key
    <3>4. req[r].pc = "idle"
      BY <1>3, NewestIsNew DEF RestartsMock, Typed, Arrived
    <3>5. ~HasRun(req[r]) /\ \A k \in Keys : live[k] # r
      BY <1>t, <3>4 DEF HasRun, Region, RunsMatch
    <3>6. ASSUME NEW x \in Request, x # r, HasRun(req'[x])
          PROVE  live'[Key(req'[x].op)] = x
      <4>1. HasRun(req[x]) /\ live[Key(req[x].op)] = x
        BY <3>1, <3>6 DEF RunsMatch
      <4>2. Key(req[x].op) \in Keys
        BY <1>t, <4>1, KeyFacts DEF HasRun, RequestRecord
      <4>3. Key(req[x].op) # "mock"
        BY <1>t, <2>2, <4>1
      <4> QED
        BY <3>1, <3>2, <3>6, <4>1, <4>2, <4>3
    <3>7. ASSUME NEW k \in Keys, live'[k] # None
          PROVE  HasRun(req'[live'[k]]) /\ Key(req'[live'[k]].op) = k
      <4>1. CASE k = "mock"
        BY <3>2, <3>3, <4>1
      <4>2. CASE k # "mock"
        <5>1. live'[k] = live[k] /\ live[k] \in Request \ {r} /\ live[k] # None
          BY <1>t, <3>2, <3>5, <3>7, <4>2
        <5> QED
          BY <3>1, <5>1 DEF RunsMatch
      <4> QED
        BY <4>1, <4>2
    <3> QED
      BY <3>2, <3>3, <3>6, <3>7 DEF RunsMatch
  <2> QED
    BY <1>3, <2>1, <2>2 DEF RestartsMock
<1>4. CASE Crash
  <2>1. \A k \in Keys : live'[k] = None
    BY <1>4 DEF Crash
  <2>2. \A x \in Request : req'[x].pc \in {"idle", "over", "lost"}
    <3>1. \A x \in Request : Ended(x, "lost").pc = "lost"
      BY DEF Ended, Idle
    <3> QED
      BY <1>4, <3>1 DEF Crash
  <2>3. \A x \in Request : ~HasRun(req'[x])
    BY <2>2 DEF HasRun, Region
  <2> QED
    BY <2>1, <2>3 DEF RunsMatch
<1> QED
  BY <1>1, <1>2, <1>3, <1>4, StepCases
\* What a step of a request does to the entry: it announces its own operation,
\* it clears the entry when its run closes, or it leaves both as they are.
Announces(r) ==
    /\ HasRun(req[r]) /\ Key(req[r].op) \in {"chat", "mock"}
    /\ req'[r].pc = "streaming" /\ live' = live
    /\ WriteActivity(Key(req[r].op))

LeavesEntry(r) ==
    /\ record' = record
    /\ Key(req[r].op) \in {"chat", "mock"} /\ req'[r].pc = "closed" => req[r].pc = "closed"
    /\ Finish(r) /\ Key(req[r].op) \in {"chat", "mock"} => req[r].pc = "closed" \/ live' = live

LEMMA EntryMoves ==
  ASSUME TypeOK, Numbered, NEW r \in Request, RequestStep(r)
  PROVE  ClearActivity \/ Announces(r) \/ LeavesEntry(r)
<1>r. req \in [Request -> RequestRecord]
  BY DEF TypeOK, RequestRecord
<1>1. CASE Ask(r)
  <2>1. record' = record /\ live' = live
    BY <1>1 DEF Ask, Send, Resume, Generate, AskSide, DeleteLog, Arrive, files
  <2>2. (UNCHANGED <<req, live>>) \/ Arrives(r)
    BY <1>1, AskMoves
  <2> QED
    BY <2>1, <2>2 DEF LeavesEntry, Arrives
<1>2. CASE ChatStep(r)
  <2>1. CASE ChatAnnounces(r)
    <3>1. HasRun(req[r]) /\ Key(req[r].op) = "chat"
      BY <2>1 DEF ChatAnnounces, IsChat, HasRun, Region, Key
    <3> QED
      BY <1>r, <2>1, <3>1 DEF ChatAnnounces, Announces, Goto, RequestRecord
  <2>2. CASE ChatRefused(r) \/ ChatCloses(r)
    BY <2>2 DEF ChatRefused, ChatCloses
  <2>3. CASE SaveQuestion(r) \/ ChatError(r) \/ SaveAnswer(r) \/ ChatSilent(r)
    BY <1>r, <2>3 DEF SaveQuestion, ChatError, SaveAnswer, ChatSilent, Goto, LeavesEntry,
       RequestRecord, files
  <2>4. CASE ChatDone(r)
    <3>1. req'[r].pc = "answering" /\ UNCHANGED <<record, live>>
      BY <1>r, <2>4 DEF ChatDone, RequestRecord, files
    <3> QED
      BY <3>1 DEF LeavesEntry
  <2>5. CASE ChatStarts(r)
    <3>1. req'[r].pc # "closed" /\ record' = record
      BY <1>r, <2>5 DEF ChatStarts, StartRun, Goto, Over, Ended, Idle, RequestRecord, files
    <3>2. (\E k \in Keys : live[k] = None /\ Takes(r, k)) \/ live' = live
      BY <2>5 DEF ChatStarts, StartRun, Keys
    <3>3. Finish(r) => live' = live
      <4>1. ASSUME NEW k \in Keys, Takes(r, k)
            PROVE  ~Finish(r)
        <5>1. live \in [Keys -> Request \union {None}] /\ r # None
          BY DEF TypeOK, None, Request
        <5>2. live'[k] = r
          BY <4>1, <5>1 DEF Takes
        <5>3. Finish(r) => live'[k] # r
          BY <5>1 DEF Finish
        <5> QED
          BY <5>2, <5>3
      <4> QED
        BY <3>2, <4>1
    <3> QED
      BY <3>1, <3>3 DEF LeavesEntry
  <2>6. CASE ChatFinishes(r)
    BY <2>6 DEF ChatFinishes, LeavesEntry, files
  <2> QED
    BY <1>2, <2>1, <2>2, <2>3, <2>4, <2>5, <2>6 DEF ChatStep
<1>3. CASE MockStep(r)
  <2>1. CASE MockAnnounces(r)
    <3>1. HasRun(req[r]) /\ Key(req[r].op) = "mock"
      BY <2>1 DEF MockAnnounces, At, HasRun, Region, Key
    <3> QED
      BY <1>r, <2>1, <3>1 DEF MockAnnounces, Announces, Goto, RequestRecord
  <2>2. CASE MockRefused(r) \/ MockCloses(r)
    BY <2>2 DEF MockRefused, MockCloses
  <2>3. CASE MockError(r) \/ MockDone(r) \/ MockRetries(r)
    BY <1>r, <2>3 DEF MockError, MockDone, MockRetries, At, Goto, LeavesEntry,
       RequestRecord, files
  <2>4. CASE MockStarts(r)
    <3>1. req'[r].pc # "closed" /\ record' = record
      BY <1>r, <2>4 DEF MockStarts, StartRun, Goto, Over, Ended, Idle, RequestRecord, files
    <3>2. (\E k \in Keys : live[k] = None /\ Takes(r, k)) \/ live' = live
      BY <2>4 DEF MockStarts, StartRun, Keys
    <3>3. Finish(r) => live' = live
      <4>1. ASSUME NEW k \in Keys, Takes(r, k)
            PROVE  ~Finish(r)
        <5>1. live \in [Keys -> Request \union {None}] /\ r # None
          BY DEF TypeOK, None, Request
        <5>2. live'[k] = r
          BY <4>1, <5>1 DEF Takes
        <5>3. Finish(r) => live'[k] # r
          BY <5>1 DEF Finish
        <5> QED
          BY <5>2, <5>3
      <4> QED
        BY <3>2, <4>1
    <3> QED
      BY <3>1, <3>3 DEF LeavesEntry
  <2>5. CASE MockFinishes(r)
    BY <2>5 DEF MockFinishes, At, LeavesEntry, files
  <2> QED
    BY <1>3, <2>1, <2>2, <2>3, <2>4, <2>5 DEF MockStep
<1>4. CASE SideStep(r)
  <2>1. record' = record
    BY <1>4 DEF SideStep, InstructStarts, PlainStarts, InstructRefused, InstructLogs,
       InstructCloses, RefineLogs, RefineEnds, PlainEnds, SideFinishes, files
  <2>2. Key(req[r].op) \notin {"chat", "mock"}
    BY <1>4, SideMoves DEF SideOp, Key
  <2> QED
    BY <2>1, <2>2 DEF LeavesEntry
<1> QED
  BY <1>1, <1>2, <1>3, <1>4 DEF RequestStep

\* How the run under a key changes.
LEMMA LiveMoves ==
  ASSUME Typed, RunsMatch, NEW r \in Request,
         (UNCHANGED <<req, live>>) \/ Arrives(r) \/ GoesOn(r), NEW k \in Keys
  PROVE  \/ live'[k] = live[k]
         \/ live[k] = None /\ live'[k] = r /\ req'[r].pc # "closed"
         \/ live[k] = r /\ Finish(r)
<1>1. live \in [Keys -> Request \union {None}]
  BY DEF Typed, TypeOK
<1>2. CASE (UNCHANGED <<req, live>>) \/ Arrives(r)
  BY <1>2 DEF Arrives
<1>3. CASE GoesOn(r)
  <2>1. CASE live' = live
    BY <2>1
  <2>2. CASE /\ req'[r].pc \in {"started", "streaming"}
             /\ live[Key(req[r].op)] = None /\ Takes(r, Key(req[r].op))
    BY <1>1, <2>2 DEF Takes
  <2>3. CASE Finish(r)
    BY <1>1, <2>3 DEF Finish
  <2> QED
    BY <1>3, <2>1, <2>2, <2>3 DEF GoesOn
<1> QED
  BY <1>2, <1>3

LEMMA NextEntryCleared ==
  ASSUME Typed, RunsMatch, StaleKnown, EntryCleared, [Next]_vars
  PROVE  EntryCleared' /\ StaleKnown'
<1>t. /\ live \in [Keys -> Request \union {None}] /\ None \notin Request
      /\ record \in Entry /\ {"chat", "mock"} \subseteq Keys
      /\ req \in [Request -> RequestRecord]
  BY DEF Typed, TypeOK, None, Request, Entry, Keys, RequestRecord
<1>1. ASSUME NEW r \in Request, RequestStep(r)
      PROVE  EntryCleared' /\ StaleKnown'
  <2>1. UNCHANGED <<boot, stale>>
    BY <1>1, RequestEffects DEF server
  <2>2. Untouched(r) /\ ((UNCHANGED <<req, live>>) \/ Arrives(r) \/ GoesOn(r))
    BY <1>1, RequestMoves DEF Typed
  <2>3. CASE ClearActivity
    BY <2>1, <2>3 DEF ClearActivity, NoRecord, EntryCleared, StaleKnown
  <2>4. CASE Announces(r)
    <3>1. PICK key \in {"chat", "mock"} : key = Key(req[r].op)
      BY <2>4 DEF Announces
    <3>2. record' = [op |-> key, status |-> "running"]
      BY <2>4, <3>1 DEF Announces, WriteActivity
    <3>3. live'[key] = r /\ req'[r].pc # "closed"
      BY <2>4, <3>1 DEF Announces, RunsMatch
    <3> QED
      BY <1>t, <2>1, <3>2, <3>3 DEF EntryCleared, StaleKnown
  <2>5. CASE LeavesEntry(r)
    <3>1. SUFFICES ASSUME record.status = "running"
                   PROVE  EntryCleared'
      BY <2>1, <2>5 DEF LeavesEntry, EntryCleared, StaleKnown
    <3>2. PICK key \in {"chat", "mock"} : key = record.op
      BY <3>1 DEF EntryCleared
    <3>3. /\ live[key] # None => req[live[key]].pc # "closed"
          /\ boot = "settling" /\ live[key] = None => record = stale
          /\ boot = "done" => live[key] # None
      BY <3>1, <3>2 DEF EntryCleared
    <3>4. ASSUME live[key] = r
          PROVE  live'[key] = r /\ req'[r].pc # "closed"
      <4>1. Key(req[r].op) = key /\ req[r].pc # "closed"
        BY <1>t, <3>3, <3>4 DEF RunsMatch
      <4>2. ~Finish(r) \/ live' = live
        BY <2>5, <4>1 DEF LeavesEntry
      <4>3. live'[key] = live[key]
        BY <1>t, <2>2, <3>4, <4>2, LiveMoves
      <4> QED
        BY <2>5, <3>4, <4>1, <4>3 DEF LeavesEntry
    <3>5. ASSUME live[key] # None
          PROVE  live'[key] = live[key] /\ req'[live[key]].pc # "closed"
      <4>1. CASE live[key] = r
        BY <3>4, <4>1
      <4>2. CASE live[key] # r
        BY <1>t, <2>2, <3>3, <3>5, <4>2, LiveMoves DEF Untouched
      <4> QED
        BY <4>1, <4>2
    <3>6. ASSUME live[key] = None, live'[key] # None
          PROVE  req'[live'[key]].pc # "closed"
      BY <1>t, <2>2, <3>6, LiveMoves
    <3> QED
      BY <1>t, <2>1, <2>5, <3>2, <3>3, <3>5, <3>6 DEF EntryCleared, LeavesEntry
  <2> QED
    BY <1>1, <2>3, <2>4, <2>5, EntryMoves DEF Typed
<1>2. CASE Restart
  BY <1>2 DEF Restart, EntryCleared, StaleKnown, files
<1>3. CASE ReadActivity
  <2>1. /\ UNCHANGED <<req, live, record>> /\ stale' = record
        /\ boot' = IF record.status = "running" THEN "settling" ELSE "done"
    BY <1>3 DEF ReadActivity, files
  <2>2. CASE record.status = "running"
    BY <2>1, <2>2 DEF EntryCleared, StaleKnown
  <2>3. CASE record.status # "running"
    BY <2>1, <2>3 DEF EntryCleared, StaleKnown
  <2> QED
    BY <2>2, <2>3
<1>4. CASE ClearsChat
  BY <1>4 DEF ClearsChat, ClearActivity, NoRecord, EntryCleared, StaleKnown
<1>5. CASE MarksFailed
  <2>1. stale \in Entry
    BY DEF Typed, TypeOK, Entry
  <2>2. record'.status = "failed" /\ boot' = "done"
    BY <1>5, <2>1 DEF MarksFailed, Entry
  <2> QED
    BY <2>2 DEF EntryCleared, StaleKnown
<1>6. ASSUME NEW r \in Request, RestartsMock(r)
      PROVE  EntryCleared' /\ StaleKnown'
  <2>1. boot = "settling" /\ stale.op = "mock" /\ boot' = "done" /\ record' = record
    BY <1>6 DEF RestartsMock, files
  <2>2. \/ live'["mock"] # None /\ req'[live'["mock"]].pc # "closed"
        \/ (UNCHANGED <<req, live>>) /\ live["mock"] # None
    <3>1. CASE live["mock"] = None
      <4>1. /\ live' = [live EXCEPT !["mock"] = r]
            /\ req' = [req EXCEPT ![r] = [Idle EXCEPT !.pc = "started", !.op = "mock"]]
        BY <1>6, <3>1 DEF RestartsMock, Takes
      <4>2. live'["mock"] = r
        BY <1>t, <4>1
      <4>3. req'[r].pc = "started"
        BY <1>t, <4>1 DEF Idle
      <4> QED
        BY <1>t, <4>2, <4>3
    <3>2. CASE live["mock"] # None
      BY <1>6, <3>2 DEF RestartsMock
    <3> QED
      BY <3>1, <3>2
  <2>3. \A k \in Keys \ {"mock"} : live'[k] = live[k]
    BY <1>6, <1>t DEF RestartsMock, Takes
  <2>4. req[r].pc = "idle" /\ \A x \in Request \ {r} : req'[x] = req[x]
    BY <1>6, <1>t, NewestIsNew DEF RestartsMock, Typed, Arrived
  <2>5. live["chat"] # r
    BY <2>4, <1>t DEF RunsMatch, HasRun, Region
  <2>6. StaleKnown'
    BY <2>1 DEF StaleKnown
  <2>7. SUFFICES ASSUME record.status = "running"
                 PROVE  EntryCleared'
    BY <2>1, <2>6 DEF EntryCleared
  <2>8. CASE record.op = "mock"
    BY <2>1, <2>2, <2>7, <2>8 DEF EntryCleared
  <2>9. CASE record.op = "chat"
    <3>1. live["chat"] # None
      BY <2>1, <2>7, <2>9 DEF EntryCleared
    <3>2. live'["chat"] = live["chat"] /\ live["chat"] \in Request \ {r}
      BY <1>t, <2>3, <2>5, <3>1
    <3>3. req'[live["chat"]] = req[live["chat"]]
      BY <2>4, <3>2
    <3> QED
      BY <2>1, <2>7, <2>9, <3>1, <3>2, <3>3 DEF EntryCleared
  <2> QED
    BY <2>7, <2>8, <2>9 DEF EntryCleared
<1>7. CASE Crash
  BY <1>t, <1>7 DEF Crash, EntryCleared, StaleKnown, files
<1>8. CASE UNCHANGED vars
  BY <1>8 DEF vars, EntryCleared, StaleKnown
<1> QED
  BY <1>1, <1>2, <1>3, <1>4, <1>5, <1>6, <1>7, <1>8, StepCases

\* However requests, crashes and the start-up of the server interleave, an
\* entry that says "running" once start-up is through has a live run of its
\* operation behind it.
THEOREM RunningRecordCorrect == Spec => []RunningRecordHasRun
<1> DEFINE IInv == Typed /\ RunsMatch /\ EntryCleared /\ StaleKnown
<1>1. Init => IInv
  <2>1. ASSUME Init PROVE RunsMatch /\ EntryCleared /\ StaleKnown
    BY <2>1 DEF Init, RunsMatch, EntryCleared, StaleKnown, Idle, NoRecord, HasRun
  <2> QED
    BY <2>1, InitTyped
<1>2. IInv /\ [Next]_vars => IInv'
  BY NextTyped, NextRunsMatch, NextEntryCleared
<1>3. IInv => RunningRecordHasRun
  BY DEF EntryCleared, RunningRecordHasRun
<1> HIDE DEF IInv
<1> QED
  BY <1>1, <1>2, <1>3, PTL DEF Spec
-----------------------------------------------------------------------------
(* Logs.                                                                   *)

\* What LogsFollow and LogsTellOutcome say of one request.
Follows(q, l, shown) ==
    /\ q.op \in {"none", "chat", "mock"} =>
        /\ q.pc \in {"idle", "asked", "prompted", "started"} =>
             l = "none" /\ ~shown /\ ~q.err
        /\ q.pc \in {"streaming", "answering", "ended"} =>
             l \in {"running", "deleted"} /\ (q.err <=> shown)
    /\ /\ q.op \in {"chat", "mock"}
       /\ q.pc \in {"closed", "over"}
       /\ l \notin {"none", "deleted"}
       => l = IF shown THEN "failed" ELSE "success"

LEMMA FollowsAll ==
  LogsFollow /\ LogsTellOutcome <=>
    \A r \in Request : Follows(req[r], log[r], r \in failed)
  BY DEF LogsFollow, LogsTellOutcome, Follows

\* A log that goes, pruned or deleted, leaves nothing to tell.
LEMMA FollowsDeleted ==
  ASSUME NEW q, NEW l, NEW shown, Follows(q, l, shown), l # "none"
  PROVE  Follows(q, "deleted", shown)
  BY DEF Follows

\* The logs of the others: at most one of them is pruned.
LEMMA OthersFollow ==
  ASSUME TypeOK, NEW r \in Request, RequestStep(r), Untouched(r),
         NEW x \in Request \ {r}, Follows(req[x], log[x], x \in failed)
  PROVE  Follows(req[x], log[x], x \in failed)'
<1>1. req'[x] = req[x]
  BY DEF Untouched
<1>2. x \in failed' <=> x \in failed
  BY RequestEffects DEF ShowError
<1>3. log \in [Request -> LogStatus]
  BY DEF TypeOK, LogStatus
<1>4. log'[x] = log[x] \/ (log'[x] = "deleted" /\ log[x] # "none")
  <2>1. CASE log' = log
    BY <2>1
  <2>2. CASE StartRunLog(r)
    <3>1. [log EXCEPT ![r] = "running"] \in [Request -> LogStatus]
      BY <1>3 DEF LogStatus
    <3>2. [log EXCEPT ![r] = "running"][x] = log[x]
      BY <1>3
    <3> QED
      BY <2>2, <3>1, <3>2, PruneGoes DEF StartRunLog
  <2>3. CASE DeleteLog(r)
    BY <1>3, <2>3 DEF DeleteLog
  <2>4. CASE \E status \in LogStatus : SettleLog(r, status)
    BY <1>3, <2>4 DEF SettleLog
  <2> QED
    BY <2>1, <2>2, <2>3, <2>4, RequestEffects
<1>5. Follows(req[x], log'[x], x \in failed)
  BY <1>4, FollowsDeleted
<1> QED
  BY <1>1, <1>2, <1>5 DEF Follows

\* A log that begins says "running", unless it is pruned at once.
LEMMA LogBegins ==
  ASSUME TypeOK, NEW r \in Request, StartRunLog(r)
  PROVE  log'[r] \in {"running", "deleted"}
<1>1. log \in [Request -> LogStatus]
  BY DEF TypeOK, LogStatus
<1>2. [log EXCEPT ![r] = "running"] \in [Request -> LogStatus]
  BY <1>1 DEF LogStatus
<1>3. [log EXCEPT ![r] = "running"][r] = "running"
  BY <1>1
<1> QED
  BY <1>2, <1>3, PruneGoes DEF StartRunLog

LEMMA LogSettles ==
  ASSUME TypeOK, NEW r \in Request, NEW status, SettleLog(r, status)
  PROVE  log'[r] = IF log[r] = "deleted" THEN "deleted" ELSE status
<1>1. log \in [Request -> LogStatus]
  BY DEF TypeOK, LogStatus
<1> QED
  BY <1>1 DEF SettleLog

\* The request that steps.
LEMMA ChatFollows ==
  ASSUME TypeOK, NEW r \in Request, ChatStep(r), Follows(req[r], log[r], r \in failed)
  PROVE  Follows(req[r], log[r], r \in failed)'
<1>r. /\ req \in [Request -> RequestRecord]
      /\ \A pc \in Pcs : Ended(r, pc).pc = pc /\ Ended(r, pc).op = req[r].op
  BY DEF TypeOK, RequestRecord, Ended, Idle
<1> USE DEF Follows, IsChat
<1>1. CASE SaveQuestion(r)
  <2>1. /\ req'[r].pc = "prompted" /\ req'[r].op = req[r].op /\ req'[r].err = req[r].err
        /\ UNCHANGED <<log, failed>> /\ req[r].pc = "asked" /\ req[r].op = "chat"
    BY <1>r, <1>1 DEF SaveQuestion, At, RequestRecord
  <2> QED
    BY <2>1
<1>2. CASE ChatStarts(r)
  <2>1. UNCHANGED <<log, failed>> /\ req[r].pc = "prompted"
    BY <1>2 DEF ChatStarts, files
  <2>2. /\ req'[r].op = req[r].op
        /\ \/ req'[r].pc = "over"
           \/ req'[r].pc = "started" /\ req'[r].err = req[r].err
    BY <1>r, <1>2 DEF ChatStarts, StartRun, Goto, Over, Pcs, RequestRecord
  <2> QED
    BY <2>1, <2>2
<1>3. CASE ChatAnnounces(r)
  <2>1. /\ req[r].pc = "started" /\ req'[r].pc = "streaming" /\ req'[r].op = req[r].op
        /\ req'[r].err = req[r].err /\ failed' = failed
    BY <1>r, <1>3 DEF ChatAnnounces, Goto, RequestRecord
  <2>2. req[r].op = "chat" => StartRunLog(r)
    BY <1>3 DEF ChatAnnounces
  <2>3. req[r].op = "chat" => log'[r] \in {"running", "deleted"}
    BY <2>2, LogBegins
  <2>4. req[r].op \in {"chat", "resume"}
    BY <1>3 DEF ChatAnnounces
  <2> QED
    BY <2>1, <2>3, <2>4
<1>4. CASE ChatRefused(r)
  <2>1. req'[r].pc = "closed" /\ req'[r].op = req[r].op /\ r \in failed'
    BY <1>r, <1>4 DEF ChatRefused, ShowError, Pcs
  <2>2. req[r].op = "chat" => SettleLog(r, "failed")
    BY <1>4 DEF ChatRefused
  <2>3. req[r].op = "chat" => log'[r] \in {"deleted", "failed"}
    BY <2>2, LogSettles
  <2>4. req[r].op \in {"chat", "resume"}
    BY <1>4 DEF ChatRefused
  <2> QED
    BY <2>1, <2>3, <2>4
<1>5. CASE ChatError(r)
  <2>1. /\ req[r].pc = "streaming" /\ req'[r].pc = "streaming" /\ req'[r].op = req[r].op
        /\ req'[r].err = TRUE /\ r \in failed' /\ log' = log
    BY <1>r, <1>5 DEF ChatError, ShowError, RequestRecord, files
  <2> QED
    BY <2>1
<1>6. CASE ChatDone(r)
  <2>1. PICK saved \in BOOLEAN :
          /\ req' = [req EXCEPT ![r].pc = "answering", ![r].copy = history, ![r].err = @ \/ ~saved]
          /\ IF saved THEN failed' = failed ELSE ShowError(r)
    BY <1>6 DEF ChatDone
  <2>2. req[r].pc = "streaming" /\ log' = log /\ req[r].op \in {"chat", "resume"}
    BY <1>6 DEF ChatDone, files
  <2>3. /\ req'[r].pc = "answering" /\ req'[r].op = req[r].op
        /\ req'[r].err = (req[r].err \/ ~saved) /\ req[r].err \in BOOLEAN
    BY <1>r, <2>1 DEF RequestRecord
  <2>4. CASE saved
    BY <2>1, <2>2, <2>3, <2>4
  <2>5. CASE ~saved
    <3>1. req'[r].err = TRUE /\ r \in failed'
      BY <2>1, <2>3, <2>5 DEF ShowError
    <3> QED
      BY <2>2, <2>3, <3>1
  <2> QED
    BY <2>4, <2>5
<1>7. CASE SaveAnswer(r) \/ ChatSilent(r)
  <2>1. /\ req[r].pc \in {"streaming", "answering"} /\ req'[r].pc = "ended"
        /\ req'[r].op = req[r].op /\ req'[r].err = req[r].err /\ UNCHANGED <<log, failed>>
    BY <1>r, <1>7 DEF SaveAnswer, ChatSilent, Goto, RequestRecord, files
  <2> QED
    BY <2>1
<1>8. CASE ChatCloses(r)
  <2>1. /\ req[r].pc = "ended" /\ req'[r].pc = "closed" /\ req'[r].op = req[r].op
        /\ failed' = failed
    BY <1>r, <1>8 DEF ChatCloses, Pcs
  <2>2. req[r].op = "chat" => SettleLog(r, Outcome(r))
    BY <1>8 DEF ChatCloses
  <2>3. req[r].op = "chat" => log'[r] \in {"deleted", Outcome(r)}
    BY <2>2, LogSettles
  <2>4. req[r].op \in {"chat", "resume"}
    BY <1>8 DEF ChatCloses
  <2> QED
    BY <2>1, <2>3, <2>4 DEF Outcome
<1>9. CASE ChatFinishes(r)
  <2>1. /\ req[r].pc = "closed" /\ req'[r].pc = "over" /\ req'[r].op = req[r].op
        /\ UNCHANGED <<log, failed>>
    BY <1>r, <1>9 DEF ChatFinishes, Over, Pcs, files
  <2> QED
    BY <2>1
<1> QED
  BY <1>1, <1>2, <1>3, <1>4, <1>5, <1>6, <1>7, <1>8, <1>9 DEF ChatStep

LEMMA MockFollows ==
  ASSUME TypeOK, NEW r \in Request, MockStep(r), Follows(req[r], log[r], r \in failed)
  PROVE  Follows(req[r], log[r], r \in failed)'
<1>r. /\ req \in [Request -> RequestRecord]
      /\ \A pc \in Pcs : Ended(r, pc).pc = pc /\ Ended(r, pc).op = req[r].op
  BY DEF TypeOK, RequestRecord, Ended, Idle
<1> USE DEF Follows, At
<1>1. CASE MockStarts(r)
  <2>1. UNCHANGED <<log, failed>> /\ req[r].pc = "prompted" /\ req[r].op = "mock"
    BY <1>1 DEF MockStarts, files
  <2>2. /\ req'[r].op = req[r].op
        /\ \/ req'[r].pc = "over"
           \/ req'[r].pc = "started" /\ req'[r].err = req[r].err
    BY <1>r, <1>1 DEF MockStarts, StartRun, Goto, Over, Pcs, RequestRecord
  <2> QED
    BY <2>1, <2>2
<1>2. CASE MockAnnounces(r)
  <2>1. /\ req[r].pc = "started" /\ req'[r].pc = "streaming" /\ req'[r].op = req[r].op
        /\ req'[r].err = req[r].err /\ failed' = failed /\ req[r].op = "mock"
    BY <1>r, <1>2 DEF MockAnnounces, Goto, RequestRecord
  <2>2. log'[r] \in {"running", "deleted"}
    BY <1>2, LogBegins DEF MockAnnounces
  <2> QED
    BY <2>1, <2>2
<1>3. CASE MockRefused(r)
  <2>1. req'[r].pc = "closed" /\ req'[r].op = req[r].op /\ r \in failed'
    BY <1>r, <1>3 DEF MockRefused, ShowError, Pcs
  <2>2. log'[r] \in {"deleted", "failed"}
    BY <1>3, LogSettles DEF MockRefused
  <2> QED
    BY <2>1, <2>2
<1>4. CASE MockError(r)
  <2>1. /\ req[r].pc = "streaming" /\ req'[r].pc = "ended" /\ req'[r].op = req[r].op
        /\ req'[r].err = TRUE /\ r \in failed' /\ log' = log
    BY <1>r, <1>4 DEF MockError, ShowError, RequestRecord, files
  <2> QED
    BY <2>1
<1>5. CASE MockDone(r) \/ MockRetries(r)
  <2>1. /\ req[r].pc = "streaming" /\ req'[r].pc \in {"streaming", "ended"}
        /\ req'[r].op = req[r].op /\ req'[r].err = req[r].err /\ UNCHANGED <<log, failed>>
    BY <1>r, <1>5 DEF MockDone, MockRetries, Goto, RequestRecord, files
  <2> QED
    BY <2>1
<1>6. CASE MockCloses(r)
  <2>1. /\ req[r].pc = "ended" /\ req'[r].pc = "closed" /\ req'[r].op = req[r].op
        /\ failed' = failed /\ req[r].op = "mock"
    BY <1>r, <1>6 DEF MockCloses, Pcs
  <2>2. log'[r] \in {"deleted", Outcome(r)}
    BY <1>6, LogSettles DEF MockCloses
  <2> QED
    BY <2>1, <2>2 DEF Outcome
<1>7. CASE MockFinishes(r)
  <2>1. /\ req[r].pc = "closed" /\ req'[r].pc = "over" /\ req'[r].op = req[r].op
        /\ UNCHANGED <<log, failed>>
    BY <1>r, <1>7 DEF MockFinishes, Over, Pcs, files
  <2> QED
    BY <2>1
<1> QED
  BY <1>1, <1>2, <1>3, <1>4, <1>5, <1>6, <1>7 DEF MockStep

LEMMA AskFollows ==
  ASSUME Typed, NEW r \in Request, Ask(r), Follows(req[r], log[r], r \in failed)
  PROVE  Follows(req[r], log[r], r \in failed)'
<1>1. CASE DeleteLog(r)
  <2>1. req' = req /\ failed' = failed /\ log'[r] = "deleted" /\ log[r] # "none"
    BY <1>1 DEF DeleteLog, Typed, TypeOK
  <2>2. Follows(req[r], "deleted", r \in failed)
    BY <2>1, FollowsDeleted
  <2> QED
    BY <2>1, <2>2 DEF Follows
<1>2. CASE ~DeleteLog(r)
  <2>1. UNCHANGED <<log, failed>>
    BY <1>2 DEF Ask, Send, Resume, Generate, AskSide, Arrive, files
  <2>2. CASE UNCHANGED <<req, live>>
    BY <2>1, <2>2 DEF Follows
  <2>3. CASE Arrives(r)
    <3>1. req[r].pc = "idle" /\ req[r].op = "none"
      BY <2>3, NewestIsNew DEF Arrives, Arrived, Typed, Numbered
    <3>2. log[r] = "none" /\ r \notin failed
      BY <3>1 DEF Follows
    <3> QED
      BY <2>1, <2>3, <3>2 DEF Follows, Arrives
  <2> QED
    BY <2>2, <2>3, AskMoves DEF Typed
<1> QED
  BY <1>1, <1>2

LEMMA NextLogs ==
  ASSUME Typed, LogsFollow, LogsTellOutcome, [Next]_vars
  PROVE  LogsFollow' /\ LogsTellOutcome'
<1>r. /\ req \in [Request -> RequestRecord]
      /\ \A r \in Request : Follows(req[r], log[r], r \in failed)
  BY FollowsAll DEF Typed, TypeOK, RequestRecord
<1>s. SUFFICES \A r \in Request : Follows(req[r], log[r], r \in failed)'
  BY DEF LogsFollow, LogsTellOutcome, Follows
<1>1. ASSUME NEW r \in Request, RequestStep(r)
      PROVE  \A x \in Request : Follows(req[x], log[x], x \in failed)'
  <2>1. Untouched(r)
    BY <1>1, RequestMoves DEF Typed
  <2>2. ASSUME NEW x \in Request, x # r
        PROVE  Follows(req[x], log[x], x \in failed)'
    <3>1. x \in Request \ {r} /\ TypeOK /\ Follows(req[x], log[x], x \in failed)
      BY <1>r, <2>2 DEF Typed
    <3> QED
      BY <1>1, <2>1, <3>1, OthersFollow
  <2>3. Follows(req[r], log[r], r \in failed)'
    <3>1. Follows(req[r], log[r], r \in failed) /\ TypeOK
      BY <1>r DEF Typed
    <3>2. CASE Ask(r)
      BY <3>1, <3>2, AskFollows
    <3>3. CASE ChatStep(r)
      BY <3>1, <3>3, ChatFollows
    <3>4. CASE MockStep(r)
      BY <3>1, <3>4, MockFollows
    <3>5. CASE SideStep(r)
      <4>1. req'[r].op = req[r].op /\ req[r].op \in SideOp
        BY <3>1, <3>5, SideMoves DEF GoesOn
      <4> QED
        BY <4>1 DEF Follows, SideOp
    <3> QED
      BY <1>1, <3>2, <3>3, <3>4, <3>5 DEF RequestStep
  <2> QED
    BY <2>2, <2>3
<1>2. CASE Restart \/ ReadActivity \/ ClearsChat \/ MarksFailed \/ UNCHANGED vars
  <2>1. UNCHANGED <<req, log, failed>>
    BY <1>2 DEF Restart, ReadActivity, ClearsChat, MarksFailed, files, vars
  <2> QED
    BY <1>r, <2>1 DEF Follows
<1>3. ASSUME NEW r \in Request, RestartsMock(r)
      PROVE  \A x \in Request : Follows(req[x], log[x], x \in failed)'
  <2>1. UNCHANGED <<log, failed>>
    BY <1>3 DEF RestartsMock, files
  <2>2. req[r].pc = "idle" /\ req[r].op = "none"
    BY <1>3, NewestIsNew DEF RestartsMock, Typed, Numbered, Arrived
  <2>3. log[r] = "none" /\ r \notin failed
    BY <1>r, <2>2 DEF Follows
  <2>4. CASE req' = req
    BY <1>r, <2>1, <2>4 DEF Follows
  <2>5. CASE req' = [req EXCEPT ![r] = [Idle EXCEPT !.pc = "started", !.op = "mock"]]
    <3>1. /\ req'[r].pc = "started" /\ req'[r].op = "mock" /\ req'[r].err = FALSE
          /\ \A x \in Request \ {r} : req'[x] = req[x]
      BY <1>r, <2>5 DEF Idle
    <3>2. Follows(req[r], log[r], r \in failed)'
      BY <2>1, <2>3, <3>1 DEF Follows
    <3>3. \A x \in Request \ {r} : Follows(req[x], log[x], x \in failed)'
      BY <1>r, <2>1, <3>1 DEF Follows
    <3> QED
      BY <3>2, <3>3
  <2> QED
    BY <1>3, <2>4, <2>5 DEF RestartsMock
<1>4. CASE Crash
  <2>1. UNCHANGED <<log, failed>>
    BY <1>4 DEF Crash, files
  <2>2. \A x \in Request : req'[x] = req[x] \/ req'[x].pc = "lost"
    <3>1. \A x \in Request : Ended(x, "lost").pc = "lost"
      BY DEF Ended, Idle
    <3> QED
      BY <1>4, <3>1, CrashKeeps
  <2> QED
    BY <1>r, <2>1, <2>2 DEF Follows
<1> QED
  BY <1>1, <1>2, <1>3, <1>4, StepCases

\* However many logs are pruned or deleted while their runs are live, the log
\* of a chat or of a mock-up that is over says "failed" exactly when its client
\* was shown an error.
THEOREM LogsCorrect == Spec => []LogsTellOutcome
<1> DEFINE IInv == Typed /\ LogsFollow /\ LogsTellOutcome
<1>1. Init => IInv
  <2>1. ASSUME Init PROVE LogsFollow /\ LogsTellOutcome
    BY <2>1 DEF Init, LogsFollow, LogsTellOutcome, Idle
  <2> QED
    BY <2>1, InitTyped
<1>2. IInv /\ [Next]_vars => IInv'
  BY NextTyped, NextLogs
<1>3. IInv => LogsTellOutcome
  OBVIOUS
<1> HIDE DEF IInv
<1> QED
  BY <1>1, <1>2, <1>3, PTL DEF Spec
=============================================================================
