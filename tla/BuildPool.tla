----------------------------- MODULE BuildPool ------------------------------
(***************************************************************************)
(* The pool of connection slots that parallel beads lease                  *)
(* (backend/internal/provider/build_pool.go) and the way the bead executor *)
(* uses it: the loop of a beads-execute run acquires one lease after the   *)
(* other, and the goroutine of the bead releases it.                       *)
(*                                                                         *)
(* Acquire holds the read lock while it waits in its select, and Release   *)
(* holds it while it takes its token back; Reconfigure takes the write     *)
(* lock.  As with Go's RWMutex, a waiting writer keeps new readers out.    *)
(***************************************************************************)
EXTENDS Integers, Sequences, FiniteSets

CONSTANTS Worker,       \* a bead's turn: one Acquire and its Release
          Loop,         \* beads-execute runs, one per project
          LoopOf,       \* the run a worker belongs to
          Config,       \* configurations: sequences of [max, resolves]
          MaxReconfigs, \* bound: calls of Reconfigure
          MaxDegrades   \* bound: calls of MarkDegraded

ASSUME LoopOfAssumption == LoopOf \in [Worker -> Loop]
ASSUME ConfigAssumption ==
  /\ Config # {}
  /\ Config \subseteq Seq([max : Nat, resolves : BOOLEAN])
ASSUME PoolBoundsAssumption == MaxReconfigs \in Nat /\ MaxDegrades \in Nat

VARIABLES
  slots,      \* the configuration in force
  sem,        \* tokens in each slot's semaphore channel
  degraded,   \* degraded slots
  active,     \* each slot's active counter
  generation, \* how many times the slots were replaced
  writer,     \* a Reconfigure waiting for the write lock: its configuration
  phase,      \* where a worker stands
  offered,    \* the slots in its select
  lease,      \* its lease: slot index, and the generation it is from
  cancelled,  \* runs whose context was cancelled
  sleepers,   \* MarkDegraded's goroutines
  degrades,   \* calls of MarkDegraded
  settled     \* history: no slot was replaced while leased

pool    == <<slots, sem, degraded, active, generation>>
workers == <<phase, offered, lease>>
vars    == <<pool, writer, workers, cancelled, sleepers, degrades, settled>>

NoWriter == <<>>
NoLease  == [slot |-> 0, generation |-> 0]

\* configure: MaxParallel is clamped to 1..10.
Capacity(slot) == IF slot.max < 1 THEN 1 ELSE IF slot.max > 10 THEN 10 ELSE slot.max

\* The slots whose connection could not be resolved start degraded.
Unresolved(config) == {s \in DOMAIN config : ~config[s].resolves}

\* Active: what Acquire puts in its select.
Usable == {s \in DOMAIN slots : s \notin degraded /\ slots[s].resolves}

Reading(w) == phase[w] \in {"selecting", "draining"}

\* RLock: nobody holds or waits for the write lock.
CanRead == writer = NoWriter

Leased(w) == phase[w] \in {"working", "releasing", "draining"}

\* Who holds a lease on slot s of the configuration in force.
Holders(s) == {w \in Worker : Leased(w)
                 /\ lease[w] = [slot |-> s, generation |-> generation]}

Init ==
  /\ slots \in Config
  /\ sem = [s \in DOMAIN slots |-> 0]
  /\ degraded = Unresolved(slots)
  /\ active = [s \in DOMAIN slots |-> 0]
  /\ generation = 0
  /\ writer = NoWriter
  /\ phase = [w \in Worker |-> "idle"]
  /\ offered = [w \in Worker |-> {}]
  /\ lease = [w \in Worker |-> NoLease]
  /\ cancelled = {}
  /\ sleepers = {}
  /\ degrades = 0
  /\ settled = TRUE

-----------------------------------------------------------------------------
(* Acquire *)

\* The loop of a run looks at its context, then asks for one lease at a time.
AskLease(w) ==
  /\ phase[w] = "idle"
  /\ LoopOf[w] \notin cancelled
  /\ \A v \in Worker : LoopOf[v] = LoopOf[w] => phase[v] \notin {"asking", "selecting"}
  /\ phase' = [phase EXCEPT ![w] = "asking"]
  /\ UNCHANGED <<pool, writer, offered, lease, cancelled, sleepers, degrades, settled>>

\* Under the read lock: the select is built from the slots usable now.
EnterAcquire(w) ==
  /\ phase[w] = "asking"
  /\ CanRead
  /\ Usable # {}
  /\ phase' = [phase EXCEPT ![w] = "selecting"]
  /\ offered' = [offered EXCEPT ![w] = Usable]
  /\ UNCHANGED <<pool, writer, lease, cancelled, sleepers, degrades, settled>>

\* No slots, or all of them degraded: an error that ends the run's loop.
RefuseAcquire(w) ==
  /\ phase[w] = "asking"
  /\ CanRead
  /\ Usable = {}
  /\ phase' = [phase EXCEPT ![w] = "idle"]
  /\ UNCHANGED <<pool, writer, offered, lease, cancelled, sleepers, degrades, settled>>

\* The select sends into a slot with room; the read lock is dropped.
Grant(w, s) ==
  /\ phase[w] = "selecting"
  /\ s \in offered[w]
  /\ sem[s] < Capacity(slots[s])
  /\ sem' = [sem EXCEPT ![s] = @ + 1]
  /\ active' = [active EXCEPT ![s] = @ + 1]
  /\ lease' = [lease EXCEPT ![w] = [slot |-> s, generation |-> generation]]
  /\ offered' = [offered EXCEPT ![w] = {}]
  /\ phase' = [phase EXCEPT ![w] = "working"]
  /\ UNCHANGED <<slots, degraded, generation, writer, cancelled, sleepers, degrades, settled>>

\* The select finds the run's context done.
GiveUp(w) ==
  /\ phase[w] = "selecting"
  /\ LoopOf[w] \in cancelled
  /\ offered' = [offered EXCEPT ![w] = {}]
  /\ phase' = [phase EXCEPT ![w] = "idle"]
  /\ UNCHANGED <<pool, writer, lease, cancelled, sleepers, degrades, settled>>

-----------------------------------------------------------------------------
(* Release *)

\* The bead is finished, or could not be claimed.
AskRelease(w) ==
  /\ phase[w] = "working"
  /\ phase' = [phase EXCEPT ![w] = "releasing"]
  /\ UNCHANGED <<pool, writer, offered, lease, cancelled, sleepers, degrades, settled>>

\* Under the read lock: the counter of the slot that has the lease's index now.
EnterRelease(w) ==
  LET s == lease[w].slot IN
  /\ phase[w] = "releasing"
  /\ CanRead
  /\ s \in DOMAIN slots
  /\ active' = [active EXCEPT ![s] = @ - 1]
  /\ phase' = [phase EXCEPT ![w] = "draining"]
  /\ UNCHANGED <<slots, sem, degraded, generation, writer, offered, lease,
                 cancelled, sleepers, degrades, settled>>

\* The configuration in force has no slot with that index.
SkipRelease(w) ==
  /\ phase[w] = "releasing"
  /\ CanRead
  /\ lease[w].slot \notin DOMAIN slots
  /\ phase' = [phase EXCEPT ![w] = "idle"]
  /\ lease' = [lease EXCEPT ![w] = NoLease]
  /\ UNCHANGED <<pool, writer, offered, cancelled, sleepers, degrades, settled>>

\* Mutant: the token stays in the channel.
DrainNothing(w) ==
  /\ phase[w] = "draining"
  /\ phase' = [phase EXCEPT ![w] = "idle"]
  /\ lease' = [lease EXCEPT ![w] = NoLease]
  /\ UNCHANGED <<pool, writer, offered, cancelled, sleepers, degrades, settled>>

\* The receive takes a token of that slot, anyone's; it blocks on an empty one.
Drain(w) ==
  LET s == lease[w].slot IN
  /\ phase[w] = "draining"
  /\ sem[s] > 0
  /\ sem' = [sem EXCEPT ![s] = @ - 1]
  /\ phase' = [phase EXCEPT ![w] = "idle"]
  /\ lease' = [lease EXCEPT ![w] = NoLease]
  /\ UNCHANGED <<slots, degraded, active, generation, writer, offered,
                 cancelled, sleepers, degrades, settled>>

-----------------------------------------------------------------------------
(* Reconfigure, MarkDegraded, shutdown *)

AskReconfigure(config) ==
  /\ writer = NoWriter
  /\ generation < MaxReconfigs
  /\ config # <<>>
  /\ writer' = config
  /\ UNCHANGED <<pool, workers, cancelled, sleepers, degrades, settled>>

\* Once the readers are gone: new slots with new, empty channels.
Reconfigure ==
  /\ writer # NoWriter
  /\ \A w \in Worker : ~Reading(w)
  /\ slots' = writer
  /\ sem' = [s \in DOMAIN writer |-> 0]
  /\ active' = [s \in DOMAIN writer |-> 0]
  /\ degraded' = Unresolved(writer)
  /\ generation' = generation + 1
  /\ writer' = NoWriter
  /\ settled' = (settled /\ \A w \in Worker : ~Leased(w))
  /\ UNCHANGED <<workers, cancelled, sleepers, degrades>>

\* Nothing in the repository calls this yet.
MarkDegraded(s) ==
  /\ CanRead
  /\ degrades < MaxDegrades
  /\ s \in DOMAIN slots
  /\ degraded' = degraded \cup {s}
  /\ degrades' = degrades + 1
  /\ sleepers' = sleepers \cup {[id |-> degrades, slot |-> s]}
  /\ UNCHANGED <<slots, sem, active, generation, writer, workers, cancelled, settled>>

\* The sleep is over: the slot that has the index now is usable again.
Recover(sleeper) ==
  /\ sleeper \in sleepers
  /\ CanRead
  /\ degraded' = degraded \ {sleeper.slot}
  /\ sleepers' = sleepers \ {sleeper}
  /\ UNCHANGED <<slots, sem, active, generation, writer, workers, cancelled,
                 degrades, settled>>

\* Manager.CancelAll reaches the run.
CancelRun(l) ==
  /\ l \notin cancelled
  /\ cancelled' = cancelled \cup {l}
  /\ UNCHANGED <<pool, writer, workers, sleepers, degrades, settled>>

Next ==
  \/ \E w \in Worker : \/ AskLease(w) \/ EnterAcquire(w) \/ RefuseAcquire(w)
                       \/ GiveUp(w) \/ AskRelease(w) \/ EnterRelease(w)
                       \/ SkipRelease(w) \/ Drain(w)
                       \/ \E s \in DOMAIN slots : Grant(w, s)
  \/ \E config \in Config : AskReconfigure(config)
  \/ Reconfigure
  \/ \E s \in DOMAIN slots : MarkDegraded(s)
  \/ \E sleeper \in sleepers : Recover(sleeper)
  \/ \E l \in Loop : CancelRun(l)

(***************************************************************************)
(* Goroutines run on, and a bead's agent ends.  Senders and receivers of a *)
(* channel are served in the order they arrive, hence strong fairness for  *)
(* the two steps that wait on a semaphore.  No run has to ask for a lease, *)
(* no configuration has to change and no run has to be cancelled.          *)
(***************************************************************************)
Fairness ==
  /\ \A w \in Worker :
       /\ WF_vars(EnterAcquire(w)) /\ WF_vars(RefuseAcquire(w))
       /\ SF_vars(\E s \in DOMAIN slots : Grant(w, s))
       /\ WF_vars(GiveUp(w))
       /\ WF_vars(AskRelease(w)) /\ WF_vars(EnterRelease(w))
       /\ WF_vars(SkipRelease(w)) /\ SF_vars(Drain(w))
  /\ WF_vars(Reconfigure)

Spec == Init /\ [][Next]_vars /\ Fairness

-----------------------------------------------------------------------------
(* Properties *)

\* Every variable keeps its type, and a semaphore never holds more tokens
\* than its slot allows.
TypeOK ==
  /\ slots \in Config
  /\ sem \in [DOMAIN slots -> Nat]
  /\ \A s \in DOMAIN slots : sem[s] <= Capacity(slots[s])
  /\ degraded \subseteq DOMAIN slots
  /\ active \in [DOMAIN slots -> Int]
  /\ generation \in 0 .. MaxReconfigs
  /\ writer \in Config \cup {NoWriter}
  /\ phase \in [Worker -> {"idle", "asking", "selecting", "working",
                           "releasing", "draining"}]
  /\ offered \in [Worker -> SUBSET Nat]
  /\ lease \in [Worker -> [slot : Nat, generation : 0 .. MaxReconfigs]]
  /\ cancelled \subseteq Loop
  /\ sleepers \subseteq [id : 0 .. MaxDegrades, slot : Nat]
  /\ degrades \in 0 .. MaxDegrades
  /\ settled \in BOOLEAN

\* As long as no slot was replaced under a lease, every token stands for one
\* lease of that slot and the active counter for the leases not yet given
\* back: no slot leaks capacity, none admits more beads than it should.
AccountsExact ==
  settled =>
    \A s \in DOMAIN slots :
      /\ sem[s] = Cardinality(Holders(s))
      /\ active[s] = Cardinality({w \in Holders(s) : phase[w] # "draining"})

\* If configurations stop changing, whoever waits for a slot gets one or gives
\* up: beads that end give their tokens back and no token is lost, whatever
\* was replaced before.
AcquireReturns ==
  (<>[](writer = NoWriter)) =>
    \A w \in Worker : (phase[w] = "selecting") ~> (phase[w] # "selecting")

\* What the comment of Acquire says: it blocks until a slot is available.
\* Beads end, so a slot is.
AcquireGetsASlot ==
  \A w \in Worker : (phase[w] = "selecting") ~> (phase[w] # "selecting")
=============================================================================
