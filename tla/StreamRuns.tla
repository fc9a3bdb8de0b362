----------------------------- MODULE StreamRuns -----------------------------
(***************************************************************************)
(* The run manager (backend/internal/stream/manager.go): runs registered   *)
(* under a key and an id, their event buffers, the channels of their       *)
(* subscribers, the wake-up channels of pipeline watchers, cancellation,   *)
(* and the two-minute grace period after which a finished run is dropped.  *)
(*                                                                         *)
(* A section under Manager.mu or Run.mu is one action.  Finish takes the   *)
(* two locks one after the other and then arms a timer, so it is three     *)
(* actions with a fourth for the timer; a client obtains a run by id and   *)
(* subscribes to it later.  An event is its position in the run's buffer.  *)
(***************************************************************************)
EXTENDS Naturals, Sequences, FiniteSets

CONSTANTS Key,       \* projectID:stage:operation
          Project,
          ProjectOf, \* the project a key belongs to
          Client,    \* reading sessions: StreamTo handlers, orchestrator waits
          Watcher,   \* WatchPipeline handlers
          NoKey,     \* the key of a run that was never started
          Headroom,  \* channel room beyond the replayed events (256)
          MaxRuns,   \* bound: runs started
          MaxEvents  \* bound: events emitted per run

ASSUME ProjectAssumption == Project # {}
ASSUME ProjectOfAssumption == ProjectOf \in [Key -> Project]
ASSUME NoKeyAssumption == NoKey \notin Key
ASSUME BoundsAssumption ==
  /\ Headroom \in Nat \ {0}
  /\ MaxRuns \in Nat
  /\ MaxEvents \in Nat

RunID == 1 .. MaxRuns
NoRun == 0

VARIABLES
  runs,      \* Manager.runs: key -> run, NoRun when absent
  byID,      \* Manager.byID: the ids that Get still finds
  nextID,    \* Manager.nextID
  keyOf,     \* Run's key
  events,    \* len(Run.events)
  phase,     \* where the run's life stands, see Phases
  cancelled, \* runs whose context was cancelled
  subs,      \* Run.subs: clients whose channel is registered
  conn,      \* the client's session
  target,    \* the *Run the client holds
  chan,      \* the client's channel: undelivered events
  room,      \* its capacity
  closed,    \* whether it was closed
  last,      \* the last event the client received
  from,      \* the index it asked to start from
  wphase,    \* program counter of a WatchPipeline handler
  wproj,     \* the project it watches
  signal,    \* watchers whose channel of capacity one holds a token
  view,      \* the active keys in the state the watcher last built
  fresh      \* watchers that have built one since they registered

runVars    == <<runs, byID, nextID, keyOf, events, phase, cancelled>>
clientVars == <<subs, conn, target, chan, room, closed, last, from>>
watchVars  == <<wphase, wproj, signal, view, fresh>>
vars       == <<runVars, clientVars, watchVars>>

\* running; done with channels closed; watchers told and timer armed; dropped.
Phases == {"none", "running", "closed", "told", "dropped"}

Done(r) == phase[r] \in {"closed", "told", "dropped"}
Live(r) == phase[r] = "running"

\* Manager.Active: the key holds a run that is not done.
HasActive(k) == runs[k] # NoRun /\ ~Done(runs[k])

\* Manager.ActiveForProject.
ActiveKeys(p) == {k \in Key : ProjectOf[k] = p /\ HasActive(k)}

Registered(w) == wphase[w] \in {"loop", "read", "send"}

\* Mutant: an unbuffered channel; only a watcher waiting in its select hears.
NotifyUnbuffered(p) ==
  signal' = signal \cup {w \in Watcher : wphase[w] = "loop" /\ wproj[w] = p}

\* Manager.notify: a non-blocking send on every registered watcher of p.
Notify(p) ==
  signal' = signal \cup {w \in Watcher : Registered(w) /\ wproj[w] = p}

Init ==
  /\ runs = [k \in Key |-> NoRun]
  /\ byID = {}
  /\ nextID = 0
  /\ keyOf = [r \in RunID |-> NoKey]
  /\ events = [r \in RunID |-> 0]
  /\ phase = [r \in RunID |-> "none"]
  /\ cancelled = {}
  /\ subs = [r \in RunID |-> {}]
  /\ conn = [c \in Client |-> "idle"]
  /\ target = [c \in Client |-> NoRun]
  /\ chan = [c \in Client |-> <<>>]
  /\ room = [c \in Client |-> 0]
  /\ closed = [c \in Client |-> FALSE]
  /\ last = [c \in Client |-> 0]
  /\ from = [c \in Client |-> 0]
  /\ wphase = [w \in Watcher |-> "off"]
  /\ wproj = [w \in Watcher |-> CHOOSE p \in Project : TRUE]
  /\ signal = {}
  /\ view = [w \in Watcher |-> {}]
  /\ fresh = {}

-----------------------------------------------------------------------------
(* Runs *)

\* Mutant: the key is not looked up first.
StartUnchecked(k) ==
  LET r == nextID + 1 IN
  /\ nextID < MaxRuns
  /\ nextID' = r
  /\ keyOf' = [keyOf EXCEPT ![r] = k]
  /\ phase' = [phase EXCEPT ![r] = "running"]
  /\ runs' = [runs EXCEPT ![k] = r]
  /\ byID' = byID \cup {r}
  /\ Notify(ProjectOf[k])
  /\ UNCHANGED <<events, cancelled, clientVars, wphase, wproj, view, fresh>>

\* A key with a live run refuses a second one; a finished run is replaced.
Start(k) ==
  LET r == nextID + 1 IN
  /\ nextID < MaxRuns
  /\ ~HasActive(k)
  /\ nextID' = r
  /\ keyOf' = [keyOf EXCEPT ![r] = k]
  /\ phase' = [phase EXCEPT ![r] = "running"]
  /\ runs' = [runs EXCEPT ![k] = r]
  /\ byID' = byID \cup {r}
  /\ Notify(ProjectOf[k])
  /\ UNCHANGED <<events, cancelled, clientVars, wphase, wproj, view, fresh>>

\* Mutant: a full channel is taken for roomy.
OfferUnbounded(queue, capacity, event) == Append(queue, event)

\* What a channel of the given capacity holds after a non-blocking send.
Offer(queue, capacity, event) ==
  IF Len(queue) < capacity THEN Append(queue, event) ELSE queue

\* The owner of a run may emit late: a detached skill analysis does.
Emit(r) ==
  /\ phase[r] # "none"
  /\ events[r] < MaxEvents
  /\ events' = [events EXCEPT ![r] = @ + 1]
  /\ chan' = [c \in Client |-> IF c \in subs[r]
                                 THEN Offer(chan[c], room[c], events[r] + 1)
                                 ELSE chan[c]]
  /\ UNCHANGED <<runs, byID, nextID, keyOf, phase, cancelled,
                 subs, conn, target, room, closed, last, from, watchVars>>

\* Mutant: the closed channels stay registered.
FinishKeepingSubs(r) ==
  /\ Live(r)
  /\ phase' = [phase EXCEPT ![r] = "closed"]
  /\ closed' = [c \in Client |-> closed[c] \/ c \in subs[r]]
  /\ UNCHANGED <<runs, byID, nextID, keyOf, events, cancelled,
                 subs, conn, target, chan, room, last, from, watchVars>>

\* Mutant: the subscribers are forgotten but never told.
FinishWithoutClose(r) ==
  /\ Live(r)
  /\ phase' = [phase EXCEPT ![r] = "closed"]
  /\ subs' = [subs EXCEPT ![r] = {}]
  /\ UNCHANGED <<runs, byID, nextID, keyOf, events, cancelled,
                 conn, target, chan, room, closed, last, from, watchVars>>

\* Finish, under Run.mu: mark done, close and forget every channel.
FinishClose(r) ==
  /\ Live(r)
  /\ phase' = [phase EXCEPT ![r] = "closed"]
  /\ closed' = [c \in Client |-> closed[c] \/ c \in subs[r]]
  /\ subs' = [subs EXCEPT ![r] = {}]
  /\ UNCHANGED <<runs, byID, nextID, keyOf, events, cancelled,
                 conn, target, chan, room, last, from, watchVars>>

\* Finish, under Manager.mu: wake the watchers; then arm the timer.
FinishNotify(r) ==
  /\ phase[r] = "closed"
  /\ phase' = [phase EXCEPT ![r] = "told"]
  /\ Notify(ProjectOf[keyOf[r]])
  /\ UNCHANGED <<runs, byID, nextID, keyOf, events, cancelled,
                 clientVars, wphase, wproj, view, fresh>>

\* Mutant: the timer drops whatever run the key holds.
CleanupUnchecked(r) ==
  /\ phase[r] = "told"
  /\ phase' = [phase EXCEPT ![r] = "dropped"]
  /\ runs' = [runs EXCEPT ![keyOf[r]] = NoRun]
  /\ byID' = byID \ {r}
  /\ UNCHANGED <<nextID, keyOf, events, cancelled, clientVars, watchVars>>

\* The timer fires.  The key may belong to a newer run by now.
Cleanup(r) ==
  /\ phase[r] = "told"
  /\ phase' = [phase EXCEPT ![r] = "dropped"]
  /\ runs' = [k \in Key |-> IF k = keyOf[r] /\ runs[k] = r
                              THEN NoRun ELSE runs[k]]
  /\ byID' = byID \ {r}
  /\ UNCHANGED <<nextID, keyOf, events, cancelled, clientVars, watchVars>>

\* Shutdown: every run the manager has under a key and that is not done.
CancelAll ==
  /\ cancelled' = cancelled \cup {runs[k] : k \in {j \in Key : HasActive(j)}}
  /\ UNCHANGED <<runs, byID, nextID, keyOf, events, phase,
                 clientVars, watchVars>>

-----------------------------------------------------------------------------
(* Subscribers *)

\* Manager.Get: the client now holds the run, whatever becomes of it.
Lookup(c, r) ==
  /\ conn[c] = "idle"
  /\ target[c] = NoRun
  /\ r \in byID
  /\ target' = [target EXCEPT ![c] = r]
  /\ UNCHANGED <<runVars, subs, conn, chan, room, closed, last, from,
                 watchVars>>

\* Mutant: the replay starts one event late.
ReplayLate(r, i) ==
  [n \in 1 .. (IF i + 1 < events[r] THEN events[r] - i - 1 ELSE 0) |-> i + 1 + n]

\* The events of run r that a channel opened at index i starts with.
Replay(r, i) == [n \in 1 .. (IF i < events[r] THEN events[r] - i ELSE 0) |-> i + n]

\* A finished run's channel is closed at once and never registered.
Subscribe(c, i) ==
  LET r == target[c] IN
  /\ conn[c] = "idle"
  /\ r # NoRun
  /\ conn' = [conn EXCEPT ![c] = "open"]
  /\ from' = [from EXCEPT ![c] = i]
  /\ chan' = [chan EXCEPT ![c] = Replay(r, i)]
  /\ room' = [room EXCEPT ![c] = Len(Replay(r, i)) + Headroom]
  /\ closed' = [closed EXCEPT ![c] = Done(r)]
  /\ subs' = IF Done(r) THEN subs ELSE [subs EXCEPT ![r] = @ \cup {c}]
  /\ UNCHANGED <<runVars, target, last, watchVars>>

Receive(c) ==
  /\ conn[c] = "open"
  /\ chan[c] # <<>>
  /\ last' = [last EXCEPT ![c] = Head(chan[c])]
  /\ chan' = [chan EXCEPT ![c] = Tail(chan[c])]
  /\ UNCHANGED <<runVars, subs, conn, target, room, closed, from, watchVars>>

\* The session is over: the deferred Unsubscribe drops the channel.
EndSession(c, how) ==
  /\ conn' = [conn EXCEPT ![c] = how]
  /\ target' = [target EXCEPT ![c] = NoRun]
  /\ subs' = [subs EXCEPT ![target[c]] = @ \ {c}]
  /\ chan' = [chan EXCEPT ![c] = <<>>]
  /\ room' = [room EXCEPT ![c] = 0]
  /\ closed' = [closed EXCEPT ![c] = FALSE]
  /\ last' = [last EXCEPT ![c] = 0]
  /\ from' = [from EXCEPT ![c] = 0]
  /\ UNCHANGED <<runVars, watchVars>>

\* The channel is drained and closed: the run has finished.
Eof(c) ==
  /\ conn[c] = "open"
  /\ chan[c] = <<>>
  /\ closed[c]
  /\ EndSession(c, "eof")

\* The HTTP client goes away.
Disconnect(c) ==
  /\ conn[c] = "open"
  /\ EndSession(c, "left")

\* waitForRunDone returns early and never unsubscribes: the channel stays
\* registered and fills up.
Abandon(c) ==
  /\ conn[c] = "open"
  /\ conn' = [conn EXCEPT ![c] = "abandoned"]
  /\ UNCHANGED <<runVars, subs, target, chan, room, closed, last, from,
                 watchVars>>

-----------------------------------------------------------------------------
(* Watchers: WatchPipeline sends a state, registers, then waits in a loop. *)

WatchOpen(w, p) ==
  /\ wphase[w] = "off"
  /\ wphase' = [wphase EXCEPT ![w] = "first"]
  /\ wproj' = [wproj EXCEPT ![w] = p]
  /\ UNCHANGED <<runVars, clientVars, signal, view, fresh>>

WatchFirst(w) ==
  /\ wphase[w] = "first"
  /\ wphase' = [wphase EXCEPT ![w] = "register"]
  /\ view' = [view EXCEPT ![w] = ActiveKeys(wproj[w])]
  /\ UNCHANGED <<runVars, clientVars, wproj, signal, fresh>>

WatchRegister(w) ==
  /\ wphase[w] = "register"
  /\ wphase' = [wphase EXCEPT ![w] = "loop"]
  /\ signal' = signal \ {w}
  /\ fresh' = fresh \ {w}
  /\ UNCHANGED <<runVars, clientVars, wproj, view>>

\* The select takes the token, or the two-second ticker.
WatchWake(w) ==
  /\ wphase[w] = "loop"
  /\ wphase' = [wphase EXCEPT ![w] = "read"]
  /\ \/ w \in signal /\ signal' = signal \ {w}
     \/ UNCHANGED signal
  /\ UNCHANGED <<runVars, clientVars, wproj, view, fresh>>

\* The state is built, and written to the client after that.
WatchRead(w) ==
  /\ wphase[w] = "read"
  /\ wphase' = [wphase EXCEPT ![w] = "send"]
  /\ view' = [view EXCEPT ![w] = ActiveKeys(wproj[w])]
  /\ fresh' = fresh \cup {w}
  /\ UNCHANGED <<runVars, clientVars, wproj, signal>>

WatchSent(w) ==
  /\ wphase[w] = "send"
  /\ wphase' = [wphase EXCEPT ![w] = "loop"]
  /\ UNCHANGED <<runVars, clientVars, wproj, signal, view, fresh>>

Unwatch(w) ==
  /\ wphase[w] = "loop"
  /\ wphase' = [wphase EXCEPT ![w] = "off"]
  /\ signal' = signal \ {w}
  /\ fresh' = fresh \ {w}
  /\ UNCHANGED <<runVars, clientVars, wproj, view>>

-----------------------------------------------------------------------------

RunNext ==
  \/ \E k \in Key : Start(k)
  \/ \E r \in RunID : Emit(r) \/ FinishClose(r) \/ FinishNotify(r) \/ Cleanup(r)
  \/ CancelAll

ClientNext ==
  \/ \E c \in Client, r \in RunID : Lookup(c, r)
  \/ \E c \in Client, i \in 0 .. MaxEvents : Subscribe(c, i)
  \/ \E c \in Client : Receive(c) \/ Eof(c) \/ Disconnect(c) \/ Abandon(c)

WatchNext ==
  \/ \E w \in Watcher, p \in Project : WatchOpen(w, p)
  \/ \E w \in Watcher : WatchFirst(w) \/ WatchRegister(w) \/ WatchWake(w)
                        \/ WatchRead(w) \/ WatchSent(w) \/ Unwatch(w)

Next == RunNext \/ ClientNext \/ WatchNext

(***************************************************************************)
(* A reader keeps reading; Finish and its timer run to their end; the      *)
(* goroutine of a cancelled run finishes, since its agent process is       *)
(* killed and Finish is deferred.  Nothing makes an uncancelled run end.   *)
(***************************************************************************)
Fairness ==
  /\ \A c \in Client : WF_vars(Receive(c)) /\ WF_vars(Eof(c))
  /\ \A r \in RunID : /\ WF_vars(r \in cancelled /\ FinishClose(r))
                      /\ WF_vars(FinishNotify(r))
                      /\ WF_vars(Cleanup(r))

Spec == Init /\ [][Next]_vars /\ Fairness

-----------------------------------------------------------------------------
(* Properties *)

\* Every variable keeps its type, and a channel never outgrows its capacity
\* (the replay loop of Subscribe would block under Run.mu).
TypeOK ==
  /\ runs \in [Key -> RunID \cup {NoRun}]
  /\ byID \in SUBSET RunID
  /\ nextID \in 0 .. MaxRuns
  /\ keyOf \in [RunID -> Key \cup {NoKey}]
  /\ events \in [RunID -> 0 .. MaxEvents]
  /\ phase \in [RunID -> Phases]
  /\ cancelled \in SUBSET RunID
  /\ subs \in [RunID -> SUBSET Client]
  /\ conn \in [Client -> {"idle", "open", "eof", "left", "abandoned"}]
  /\ target \in [Client -> RunID \cup {NoRun}]
  /\ chan \in [Client -> Seq(1 .. MaxEvents)]
  /\ room \in [Client -> Nat]
  /\ \A c \in Client : Len(chan[c]) <= room[c]
  /\ closed \in [Client -> BOOLEAN]
  /\ last \in [Client -> 0 .. MaxEvents]
  /\ from \in [Client -> 0 .. MaxEvents]
  /\ wphase \in [Watcher -> {"off", "first", "register", "loop", "read", "send"}]
  /\ wproj \in [Watcher -> Project]
  /\ signal \in SUBSET Watcher
  /\ view \in [Watcher -> SUBSET Key]
  /\ fresh \in SUBSET Watcher

\* A live run is the one its key names and can be found by id: no key ever
\* has two live runs, and neither the timer of a finished predecessor nor a
\* replacement can make a live run unreachable for Active, Get or CancelAll.
LiveRunReachable ==
  \A r \in RunID : Live(r) => runs[keyOf[r]] = r /\ r \in byID

\* A registered channel is open and belongs to a session on that run: Emit
\* never sends on a closed channel and Finish never closes one twice, either
\* of which would panic the server, however late the emitter or the client.
SubscribersOpen ==
  \A r \in RunID : \A c \in subs[r] :
    Live(r) /\ ~closed[c] /\ target[c] = r /\ conn[c] \in {"open", "abandoned"}

\* A watcher that has built a state since it registered and has no wake-up
\* pending has built it from the current runs, unless a Finish stands between marking
\* its run done and telling the watchers: a token channel of capacity one is
\* enough, no start or finish goes unnoticed.
NoLostWakeup ==
  \A w \in fresh :
    \/ wphase[w] = "read"
    \/ w \in signal
    \/ view[w] = ActiveKeys(wproj[w])
    \/ \E r \in RunID : phase[r] = "closed" /\ ProjectOf[keyOf[r]] = wproj[w]

\* After CancelAll no live run is left uncancelled, so shutdown does not leave
\* an agent process behind.
CancelAllReachesEveryRun ==
  [][CancelAll => \A r \in RunID : Live(r) => r \in cancelled']_vars

\* Whoever follows a run when it is cancelled sees its stream end.
CancelEndsStreams ==
  \A c \in Client, r \in RunID :
    (conn[c] = "open" /\ target[c] = r /\ r \in cancelled)
      ~> (conn[c] # "open" \/ target[c] # r)

\* The manager keeps its promise to readers: see StreamPromise.
Elements(s) == {s[i] : i \in DOMAIN s}

Promise == INSTANCE StreamPromise WITH
  MaxFrom <- MaxEvents,
  log    <- events,
  ended  <- {r \in RunID : Done(r)},
  status <- [c \in Client |->
               IF conn[c] = "abandoned" THEN "left" ELSE conn[c]],
  follow <- [c \in Client |-> IF conn[c] = "open" THEN target[c] ELSE NoRun],
  owed   <- [c \in Client |->
               IF conn[c] = "open" THEN Elements(chan[c]) ELSE {}],
  last   <- [c \in Client |-> IF conn[c] = "open" THEN last[c] ELSE 0],
  start  <- [c \in Client |-> IF conn[c] = "open" THEN from[c] ELSE 0]

KeepsPromise == Promise!PSpec
=============================================================================
