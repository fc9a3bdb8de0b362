-------------------------- MODULE BuildPoolProofs ---------------------------
(***************************************************************************)
(* What holds of the build pool for every number of workers, runs,         *)
(* configurations, reconfigurations and degradations: types, the accounts  *)
(* of tokens and leases, and that no slot serves more beads than its       *)
(* configuration allows.                                                   *)
(***************************************************************************)
EXTENDS BuildPool, FiniteSetTheorems, SequenceTheorems, TLAPS

USE ConfigAssumption, PoolBoundsAssumption

(***************************************************************************)
(* The actions of Next, one by one.                                        *)
(***************************************************************************)
LEMMA StepCases ==
  ASSUME [Next]_vars
  PROVE  \/ \E w \in Worker : AskLease(w) \/ EnterAcquire(w) \/ RefuseAcquire(w)
         \/ \E w \in Worker, s \in DOMAIN slots : Grant(w, s)
         \/ \E w \in Worker : GiveUp(w) \/ AskRelease(w)
         \/ \E w \in Worker : EnterRelease(w)
         \/ \E w \in Worker : SkipRelease(w)
         \/ \E w \in Worker : Drain(w)
         \/ \E config \in Config : AskReconfigure(config)
         \/ Reconfigure
         \/ \E s \in DOMAIN slots : MarkDegraded(s)
         \/ \E sleeper \in sleepers : Recover(sleeper)
         \/ \E l \in Loop : CancelRun(l)
         \/ UNCHANGED vars
  BY DEF Next

\* A configuration is a sequence, so a slot's index is a number, and its
\* capacity is at least one.
LEMMA SlotType ==
  \A config \in Config : \A s \in DOMAIN config :
    s \in Nat /\ Capacity(config[s]) \in Nat /\ 0 <= Capacity(config[s])
<1> SUFFICES ASSUME NEW config \in Config, NEW s \in DOMAIN config
             PROVE  s \in Nat /\ Capacity(config[s]) \in Nat /\ 0 <= Capacity(config[s])
  OBVIOUS
<1> DEFINE Slot == [max : Nat, resolves : BOOLEAN]
<1>1. config \in Seq(Slot)
  BY DEF ConfigAssumption
<1>2. \A x \in Slot : x.max \in Nat
  OBVIOUS
<1> HIDE DEF Slot
<1>3. DOMAIN config = 1 .. Len(config) /\ Len(config) \in Nat
  BY <1>1, LenProperties
<1>4. s \in 1 .. Len(config) /\ s \in Nat
  BY <1>3
<1>5. config[s] \in Slot
  BY <1>1, <1>4, ElementOfSeq
<1>6. config[s].max \in Nat
  BY <1>2, <1>5
<1> QED
  BY <1>4, <1>6 DEF Capacity

\* A Reconfigure that waits for the lock is counted only when it has it, and
\* asks for at least one slot.
WriterHasTurn == writer # NoWriter => generation < MaxReconfigs

Typed == TypeOK /\ WriterHasTurn

-----------------------------------------------------------------------------
(* Types *)

LEMMA InitTyped == Init => Typed
<1> SUFFICES ASSUME Init PROVE Typed
  OBVIOUS
<1>1. \A s \in DOMAIN slots : sem[s] <= Capacity(slots[s])
  BY SlotType DEF Init
<1>2. 0 \in 0 .. MaxReconfigs /\ 0 \in 0 .. MaxDegrades
  BY DEF PoolBoundsAssumption
<1>3. lease \in [Worker -> [slot : Nat, generation : 0 .. MaxReconfigs]]
  BY <1>2 DEF Init, NoLease
<1> QED
  BY <1>1, <1>2, <1>3 DEF Init, Typed, TypeOK, WriterHasTurn, Unresolved, NoWriter

\* Requests for a lease, and the end of a bead, move one worker.
LEMMA MovesTyped ==
  ASSUME Typed, NEW w \in Worker,
         \/ AskLease(w) \/ EnterAcquire(w) \/ RefuseAcquire(w)
         \/ GiveUp(w) \/ AskRelease(w) \/ SkipRelease(w)
  PROVE  Typed'
<1>1. UNCHANGED <<pool, writer, cancelled, sleepers, degrades, settled>>
  BY DEF AskLease, EnterAcquire, RefuseAcquire, GiveUp, AskRelease, SkipRelease
<1>2. phase' \in [Worker -> {"idle", "asking", "selecting", "working",
                             "releasing", "draining"}]
  BY DEF Typed, TypeOK, AskLease, EnterAcquire, RefuseAcquire, GiveUp, AskRelease, SkipRelease
<1>3. offered' \in [Worker -> SUBSET Nat]
  <2>1. Usable \subseteq Nat
    BY SlotType DEF Usable, Typed, TypeOK
  <2> QED
    BY <2>1 DEF Typed, TypeOK, AskLease, EnterAcquire, RefuseAcquire, GiveUp, AskRelease, SkipRelease
<1>4. lease' \in [Worker -> [slot : Nat, generation : 0 .. MaxReconfigs]]
  <2>1. NoLease \in [slot : Nat, generation : 0 .. MaxReconfigs]
    BY DEF NoLease, PoolBoundsAssumption
  <2> QED
    BY <2>1 DEF Typed, TypeOK, AskLease, EnterAcquire, RefuseAcquire, GiveUp, AskRelease, SkipRelease
<1> QED
  BY <1>1, <1>2, <1>3, <1>4 DEF Typed, TypeOK, WriterHasTurn, pool

LEMMA GrantTyped ==
  ASSUME Typed, NEW w \in Worker, NEW s \in DOMAIN slots, Grant(w, s)
  PROVE  Typed'
<1>1. s \in Nat /\ Capacity(slots[s]) \in Nat
  BY SlotType DEF Typed, TypeOK
<1>2. sem' \in [DOMAIN slots -> Nat] /\ active' \in [DOMAIN slots -> Int]
  BY DEF Typed, TypeOK, Grant
<1>3. \A t \in DOMAIN slots : sem'[t] <= Capacity(slots[t])
  <2> SUFFICES ASSUME NEW t \in DOMAIN slots PROVE sem'[t] <= Capacity(slots[t])
    OBVIOUS
  <2>1. CASE t = s
    BY <1>1, <2>1 DEF Typed, TypeOK, Grant
  <2>2. CASE t # s
    BY <2>2 DEF Typed, TypeOK, Grant
  <2> QED
    BY <2>1, <2>2
<1>4. lease' \in [Worker -> [slot : Nat, generation : 0 .. MaxReconfigs]]
  BY <1>1 DEF Typed, TypeOK, Grant
<1>5. offered' \in [Worker -> SUBSET Nat]
  BY DEF Typed, TypeOK, Grant
<1>6. phase' \in [Worker -> {"idle", "asking", "selecting", "working",
                             "releasing", "draining"}]
  BY DEF Typed, TypeOK, Grant
<1> QED
  BY <1>2, <1>3, <1>4, <1>5, <1>6 DEF Typed, TypeOK, WriterHasTurn, Grant

LEMMA ReleaseTyped ==
  ASSUME Typed, NEW w \in Worker, EnterRelease(w) \/ Drain(w)
  PROVE  Typed'
<1> DEFINE s == lease[w].slot
<1>1. s \in Nat
  BY DEF Typed, TypeOK
<1>2. sem' \in [DOMAIN slots -> Nat] /\ \A t \in DOMAIN slots : sem'[t] <= sem[t]
  <2>1. CASE EnterRelease(w)
    BY <2>1 DEF Typed, TypeOK, EnterRelease
  <2>2. CASE Drain(w)
    <3>1. sem' = [sem EXCEPT ![s] = @ - 1] /\ sem[s] > 0
      BY <2>2 DEF Drain
    <3>2. sem \in [DOMAIN slots -> Nat]
      BY DEF Typed, TypeOK
    <3> HIDE DEF s
    <3>3. ASSUME NEW t \in DOMAIN slots
          PROVE  sem'[t] \in Nat /\ sem'[t] <= sem[t]
      <4>1. CASE t = s
        BY <3>1, <3>2, <4>1
      <4>2. CASE t # s
        BY <3>1, <3>2, <4>2
      <4> QED
        BY <4>1, <4>2
    <3> QED
      BY <3>1, <3>2, <3>3
  <2> QED
    BY <2>1, <2>2
<1>3. \A t \in DOMAIN slots : sem'[t] <= Capacity(slots[t])
  BY <1>2, SlotType DEF Typed, TypeOK
<1>4. active' \in [DOMAIN slots -> Int]
  BY DEF Typed, TypeOK, EnterRelease, Drain
<1>5. lease' \in [Worker -> [slot : Nat, generation : 0 .. MaxReconfigs]]
  <2>1. NoLease \in [slot : Nat, generation : 0 .. MaxReconfigs]
    BY DEF NoLease, PoolBoundsAssumption
  <2> QED
    BY <2>1 DEF Typed, TypeOK, EnterRelease, Drain
<1>6. phase' \in [Worker -> {"idle", "asking", "selecting", "working",
                             "releasing", "draining"}]
  BY DEF Typed, TypeOK, EnterRelease, Drain
<1> QED
  BY <1>2, <1>3, <1>4, <1>5, <1>6 DEF Typed, TypeOK, WriterHasTurn, EnterRelease, Drain

LEMMA ReconfigureTyped ==
  ASSUME Typed, Reconfigure
  PROVE  Typed'
<1>1. writer \in Config /\ generation + 1 \in 0 .. MaxReconfigs
  BY DEF Typed, TypeOK, WriterHasTurn, Reconfigure, PoolBoundsAssumption
<1>2. sem' \in [DOMAIN slots' -> Nat] /\ active' \in [DOMAIN slots' -> Int]
  BY DEF Reconfigure
<1>3. \A s \in DOMAIN slots' : sem'[s] <= Capacity(slots'[s])
  BY <1>1, SlotType DEF Reconfigure
<1>4. degraded' \subseteq DOMAIN slots'
  BY DEF Reconfigure, Unresolved
<1> QED
  BY <1>1, <1>2, <1>3, <1>4 DEF Typed, TypeOK, WriterHasTurn, Reconfigure, workers

LEMMA RestTyped ==
  ASSUME Typed,
         \/ \E config \in Config : AskReconfigure(config)
         \/ \E s \in DOMAIN slots : MarkDegraded(s)
         \/ \E sleeper \in sleepers : Recover(sleeper)
         \/ \E l \in Loop : CancelRun(l)
  PROVE  Typed'
<1>1. ASSUME NEW config \in Config, AskReconfigure(config) PROVE Typed'
  BY <1>1 DEF Typed, TypeOK, WriterHasTurn, AskReconfigure, pool, workers
<1>2. ASSUME NEW s \in DOMAIN slots, MarkDegraded(s) PROVE Typed'
  <2>1. slots \in Config /\ degrades \in 0 .. MaxDegrades /\ degrades < MaxDegrades
    BY <1>2 DEF Typed, TypeOK, MarkDegraded
  <2>2. s \in Nat /\ degrades + 1 \in 0 .. MaxDegrades
    BY <2>1, SlotType DEF PoolBoundsAssumption
  <2>3. sleepers' \subseteq [id : 0 .. MaxDegrades, slot : Nat]
    BY SMTT(20), <1>2, <2>1, <2>2 DEF Typed, TypeOK, MarkDegraded
  <2> QED
    BY <1>2, <2>1, <2>2, <2>3 DEF Typed, TypeOK, WriterHasTurn, MarkDegraded, workers
<1>3. ASSUME NEW sleeper \in sleepers, Recover(sleeper) PROVE Typed'
  BY <1>3 DEF Typed, TypeOK, WriterHasTurn, Recover, workers
<1>4. ASSUME NEW l \in Loop, CancelRun(l) PROVE Typed'
  BY <1>4 DEF Typed, TypeOK, WriterHasTurn, CancelRun, pool, workers
<1> QED
  BY <1>1, <1>2, <1>3, <1>4

LEMMA StepTyped == Typed /\ [Next]_vars => Typed'
<1> SUFFICES ASSUME Typed, [Next]_vars PROVE Typed'
  OBVIOUS
<1>1. CASE UNCHANGED vars
  BY <1>1 DEF Typed, TypeOK, WriterHasTurn, vars, pool, workers
<1> QED
  BY <1>1, StepCases, MovesTyped, GrantTyped, ReleaseTyped, ReconfigureTyped, RestTyped

LEMMA AlwaysTyped == Spec => []Typed
  BY InitTyped, StepTyped, PTL DEF Spec

\* Every variable keeps its type whatever is acquired, released, reconfigured
\* and degraded, and no semaphore holds more tokens than its slot allows.
THEOREM TypeCorrect == Spec => []TypeOK
<1>1. Typed => TypeOK
  BY DEF Typed
<1> QED
  BY <1>1, AlwaysTyped, PTL

-----------------------------------------------------------------------------
(* Accounts of tokens and leases *)

\* The holders of a slot that have not given their share of the counter back.
Serving(s) == {w \in Holders(s) : phase[w] # "draining"}

\* Until a slot is replaced under a lease, every lease is of a slot in force.
LeasesCurrent ==
  settled => \A w \in Worker : Leased(w) => /\ lease[w].slot \in DOMAIN slots
                                            /\ lease[w].generation = generation

\* Workers need not be finitely many: those that hold a slot are.
HoldersFinite == settled => \A s \in DOMAIN slots : IsFiniteSet(Holders(s))

Accounts == Typed /\ LeasesCurrent /\ HoldersFinite /\ AccountsExact

LEMMA InitAccounts == Init => Accounts
<1> SUFFICES ASSUME Init PROVE Accounts
  OBVIOUS
<1>1. \A w \in Worker : ~Leased(w)
  BY DEF Init, Leased
<1>2. \A s \in DOMAIN slots : Holders(s) = {} /\ Serving(s) = {}
  BY <1>1 DEF Holders, Serving
<1>3. \A s \in DOMAIN slots : sem[s] = 0 /\ active[s] = 0
  BY DEF Init
<1> QED
  BY <1>1, <1>2, <1>3, InitTyped, FS_EmptySet
     DEF Accounts, LeasesCurrent, HoldersFinite, AccountsExact, Serving

\* A step that moves no lease, no token and no counter.
LEMMA AccountsFrame ==
  ASSUME Accounts, Typed',
         UNCHANGED <<slots, sem, active, generation, settled>>,
         \A v \in Worker : /\ Leased(v)' <=> Leased(v)
                           /\ Leased(v) => lease'[v] = lease[v]
                           /\ phase'[v] = "draining" <=> phase[v] = "draining"
  PROVE  Accounts'
<1>1. \A s : Holders(s)' = Holders(s)
  BY DEF Holders
<1>2. \A s : Serving(s)' = Serving(s)
  BY <1>1 DEF Serving, Holders
<1>3. LeasesCurrent'
  BY DEF LeasesCurrent, Accounts
<1>4. HoldersFinite'
  BY <1>1 DEF HoldersFinite, Accounts
<1>5. AccountsExact'
  BY <1>1, <1>2 DEF AccountsExact, Accounts, Serving
<1> QED
  BY <1>3, <1>4, <1>5 DEF Accounts

LEMMA MovesKeepAccounts ==
  ASSUME Accounts, Typed', NEW w \in Worker,
         \/ AskLease(w) \/ EnterAcquire(w) \/ RefuseAcquire(w)
         \/ GiveUp(w) \/ AskRelease(w)
  PROVE  Accounts'
<1>1. UNCHANGED <<slots, sem, active, generation, settled, lease>>
  BY DEF AskLease, EnterAcquire, RefuseAcquire, GiveUp, AskRelease, pool
<1>2. phase \in [Worker -> {"idle", "asking", "selecting", "working",
                            "releasing", "draining"}]
  BY DEF Accounts, Typed, TypeOK
<1>3. \E p \in {"idle", "asking", "selecting", "releasing"} :
        /\ phase' = [phase EXCEPT ![w] = p]
        /\ p = "releasing" <=> phase[w] = "working"
        /\ phase[w] \in {"idle", "asking", "selecting", "working"}
  BY DEF AskLease, EnterAcquire, RefuseAcquire, GiveUp, AskRelease
<1>4. \A v \in Worker : /\ Leased(v)' <=> Leased(v)
                        /\ phase'[v] = "draining" <=> phase[v] = "draining"
  BY <1>2, <1>3 DEF Leased
<1> QED
  BY <1>1, <1>4, AccountsFrame

LEMMA RestKeepsAccounts ==
  ASSUME Accounts, Typed',
         \/ \E config \in Config : AskReconfigure(config)
         \/ \E s \in DOMAIN slots : MarkDegraded(s)
         \/ \E sleeper \in sleepers : Recover(sleeper)
         \/ \E l \in Loop : CancelRun(l)
         \/ UNCHANGED vars
  PROVE  Accounts'
<1>1. UNCHANGED <<slots, sem, active, generation, settled, lease, phase>>
  BY DEF AskReconfigure, MarkDegraded, Recover, CancelRun, vars, pool, workers
<1> QED
  BY <1>1, AccountsFrame DEF Leased

LEMMA GrantKeepsAccounts ==
  ASSUME Accounts, Typed', NEW w \in Worker, NEW s \in DOMAIN slots, Grant(w, s)
  PROVE  Accounts'
<1> SUFFICES ASSUME settled
             PROVE  LeasesCurrent' /\ HoldersFinite' /\ AccountsExact'
  BY DEF Accounts, LeasesCurrent, HoldersFinite, AccountsExact, Grant
<1>1. /\ phase[w] = "selecting"
      /\ phase' = [phase EXCEPT ![w] = "working"]
      /\ lease' = [lease EXCEPT ![w] = [slot |-> s, generation |-> generation]]
      /\ sem' = [sem EXCEPT ![s] = @ + 1]
      /\ active' = [active EXCEPT ![s] = @ + 1]
      /\ UNCHANGED <<slots, generation, settled>>
  BY DEF Grant
<1>2. /\ sem \in [DOMAIN slots -> Nat] /\ active \in [DOMAIN slots -> Int]
      /\ DOMAIN phase = Worker /\ DOMAIN lease = Worker
  BY DEF Accounts, Typed, TypeOK
<1>3. \A v \in Worker : v # w => /\ Leased(v)' <=> Leased(v)
                                 /\ lease'[v] = lease[v]
                                 /\ phase'[v] = phase[v]
  BY <1>1, <1>2 DEF Leased
<1>4. /\ Leased(w)' /\ ~Leased(w) /\ phase'[w] = "working"
      /\ lease'[w] = [slot |-> s, generation |-> generation]
  BY <1>1, <1>2 DEF Leased
<1>5. w \notin Holders(s) /\ w \notin Serving(s)
  BY <1>4 DEF Holders, Serving
<1>6. Holders(s)' = Holders(s) \cup {w} /\ Serving(s)' = Serving(s) \cup {w}
  BY <1>1, <1>3, <1>4 DEF Holders, Serving
<1>7. \A t \in DOMAIN slots : t # s => Holders(t)' = Holders(t) /\ Serving(t)' = Serving(t)
  BY <1>1, <1>3, <1>4 DEF Holders, Serving
<1>8. \A t \in DOMAIN slots : IsFiniteSet(Holders(t)) /\ IsFiniteSet(Serving(t))
  BY FS_Subset DEF Accounts, HoldersFinite, Serving
<1>9. \A t \in DOMAIN slots : /\ sem[t] = Cardinality(Holders(t))
                              /\ active[t] = Cardinality(Serving(t))
  BY DEF Accounts, AccountsExact, Serving
<1>10. /\ IsFiniteSet(Holders(s)') /\ Cardinality(Holders(s)') = sem[s] + 1
       /\ Cardinality(Serving(s)') = active[s] + 1
  <2>1. /\ IsFiniteSet(Holders(s) \cup {w})
        /\ Cardinality(Holders(s) \cup {w}) = Cardinality(Holders(s)) + 1
    BY <1>5, <1>8, FS_AddElement
  <2>2. Cardinality(Serving(s) \cup {w}) = Cardinality(Serving(s)) + 1
    BY <1>5, <1>8, FS_AddElement
  <2> QED
    BY <1>6, <1>9, <2>1, <2>2
<1>11. HoldersFinite'
  BY <1>1, <1>7, <1>8, <1>10 DEF HoldersFinite
<1>12. AccountsExact'
  <2>1. \A t \in DOMAIN slots : /\ sem'[t] = Cardinality(Holders(t)')
                                /\ active'[t] = Cardinality(Serving(t)')
    BY <1>1, <1>2, <1>7, <1>9, <1>10
  <2> QED
    BY <1>1, <2>1 DEF AccountsExact, Serving
<1>13. LeasesCurrent'
  BY <1>1, <1>3, <1>4 DEF LeasesCurrent, Accounts
<1> QED
  BY <1>11, <1>12, <1>13

LEMMA EnterReleaseKeepsAccounts ==
  ASSUME Accounts, Typed', NEW w \in Worker, EnterRelease(w)
  PROVE  Accounts'
<1> SUFFICES ASSUME settled
             PROVE  LeasesCurrent' /\ HoldersFinite' /\ AccountsExact'
  BY DEF Accounts, LeasesCurrent, HoldersFinite, AccountsExact, EnterRelease
<1>0. PICK s : s = lease[w].slot
  OBVIOUS
<1>1. /\ phase[w] = "releasing" /\ s \in DOMAIN slots
      /\ phase' = [phase EXCEPT ![w] = "draining"]
      /\ active' = [active EXCEPT ![s] = @ - 1]
      /\ UNCHANGED <<slots, sem, generation, settled, lease>>
  BY <1>0 DEF EnterRelease
<1>2. /\ active \in [DOMAIN slots -> Int] /\ DOMAIN phase = Worker
      /\ lease[w] \in [slot : Nat, generation : 0 .. MaxReconfigs]
  BY DEF Accounts, Typed, TypeOK
<1>3. \A v \in Worker : /\ Leased(v)' <=> Leased(v)
                        /\ v # w => phase'[v] = phase[v]
  BY <1>1, <1>2 DEF Leased
<1>4. phase'[w] = "draining" /\ Leased(w) /\ lease[w] = [slot |-> s, generation |-> generation]
  BY <1>0, <1>1, <1>2 DEF Leased, Accounts, LeasesCurrent
<1>5. \A t : Holders(t)' = Holders(t)
  BY <1>1, <1>3 DEF Holders
<1>6. w \in Serving(s)
  BY <1>1, <1>4 DEF Holders, Serving
<1>7. Serving(s)' = Serving(s) \ {w}
  BY <1>1, <1>3, <1>4, <1>5 DEF Holders, Serving
<1>8. \A t : t # s => Serving(t)' = Serving(t)
  BY <1>1, <1>3, <1>4, <1>5 DEF Holders, Serving
<1>9. \A t \in DOMAIN slots : IsFiniteSet(Holders(t)) /\ IsFiniteSet(Serving(t))
  BY FS_Subset DEF Accounts, HoldersFinite, Serving
<1>10. \A t \in DOMAIN slots : /\ sem[t] = Cardinality(Holders(t))
                               /\ active[t] = Cardinality(Serving(t))
  BY DEF Accounts, AccountsExact, Serving
<1>11. Cardinality(Serving(s)') = active[s] - 1
  <2>1. Cardinality(Serving(s) \ {w}) = Cardinality(Serving(s)) - 1
    BY <1>1, <1>6, <1>9, FS_RemoveElement
  <2> QED
    BY <1>1, <1>7, <1>10, <2>1
<1>12. AccountsExact'
  <2>1. \A t \in DOMAIN slots : /\ sem'[t] = Cardinality(Holders(t)')
                                /\ active'[t] = Cardinality(Serving(t)')
    BY <1>1, <1>2, <1>5, <1>8, <1>10, <1>11
  <2> QED
    BY <1>1, <2>1 DEF AccountsExact, Serving
<1>13. HoldersFinite' /\ LeasesCurrent'
  BY <1>1, <1>3, <1>5 DEF Accounts, HoldersFinite, LeasesCurrent
<1> QED
  BY <1>12, <1>13

LEMMA DrainKeepsAccounts ==
  ASSUME Accounts, Typed', NEW w \in Worker, Drain(w)
  PROVE  Accounts'
<1> SUFFICES ASSUME settled
             PROVE  LeasesCurrent' /\ HoldersFinite' /\ AccountsExact'
  BY DEF Accounts, LeasesCurrent, HoldersFinite, AccountsExact, Drain
<1>0. PICK s : s = lease[w].slot
  OBVIOUS
<1>1. /\ phase[w] = "draining"
      /\ phase' = [phase EXCEPT ![w] = "idle"]
      /\ lease' = [lease EXCEPT ![w] = NoLease]
      /\ sem' = [sem EXCEPT ![s] = @ - 1]
      /\ UNCHANGED <<slots, active, generation, settled>>
  BY <1>0 DEF Drain
<1>2. /\ sem \in [DOMAIN slots -> Nat]
      /\ DOMAIN phase = Worker /\ DOMAIN lease = Worker
      /\ lease[w] \in [slot : Nat, generation : 0 .. MaxReconfigs]
  BY DEF Accounts, Typed, TypeOK
<1>3. \A v \in Worker : v # w => /\ Leased(v)' <=> Leased(v)
                                 /\ lease'[v] = lease[v]
                                 /\ phase'[v] = phase[v]
  BY <1>1, <1>2 DEF Leased
<1>4. /\ Leased(w) /\ ~Leased(w)' /\ s \in DOMAIN slots
      /\ lease[w] = [slot |-> s, generation |-> generation]
  BY <1>0, <1>1, <1>2 DEF Leased, Accounts, LeasesCurrent
<1>5. w \in Holders(s) /\ w \notin Serving(s) /\ \A t : t # s => w \notin Holders(t)
  BY <1>1, <1>4 DEF Holders, Serving
<1>6. Holders(s)' = Holders(s) \ {w}
  BY <1>1, <1>3, <1>4 DEF Holders
<1>7. \A t : t # s => Holders(t)' = Holders(t)
  BY <1>1, <1>3, <1>4, <1>5 DEF Holders
<1>8. \A t : Serving(t)' = Serving(t)
  BY <1>1, <1>3, <1>4 DEF Holders, Serving
<1>9. \A t \in DOMAIN slots : IsFiniteSet(Holders(t))
  BY DEF Accounts, HoldersFinite
<1>10. \A t \in DOMAIN slots : /\ sem[t] = Cardinality(Holders(t))
                               /\ active[t] = Cardinality(Serving(t))
  BY DEF Accounts, AccountsExact, Serving
<1>11. IsFiniteSet(Holders(s)') /\ Cardinality(Holders(s)') = sem[s] - 1
  <2>1. /\ IsFiniteSet(Holders(s) \ {w})
        /\ Cardinality(Holders(s) \ {w}) = Cardinality(Holders(s)) - 1
    BY <1>4, <1>5, <1>9, FS_RemoveElement
  <2> QED
    BY <1>4, <1>6, <1>10, <2>1
<1>12. AccountsExact' /\ HoldersFinite'
  <2>1. \A t \in DOMAIN slots : /\ sem'[t] = Cardinality(Holders(t)')
                                /\ active'[t] = Cardinality(Serving(t)')
                                /\ IsFiniteSet(Holders(t)')
    BY <1>1, <1>2, <1>7, <1>8, <1>9, <1>10, <1>11
  <2> QED
    BY <1>1, <2>1 DEF AccountsExact, HoldersFinite, Serving
<1>13. LeasesCurrent'
  BY <1>1, <1>3, <1>4 DEF Accounts, LeasesCurrent
<1> QED
  BY <1>12, <1>13

\* A lease of the configuration in force names one of its slots, so its release
\* is not skipped; after a replacement under lease nothing is promised.
LEMMA SkipKeepsAccounts ==
  ASSUME Accounts, Typed', NEW w \in Worker, SkipRelease(w)
  PROVE  Accounts'
<1>1. ~settled /\ settled' = settled
  BY DEF SkipRelease, Leased, Accounts, LeasesCurrent
<1> QED
  BY <1>1 DEF Accounts, LeasesCurrent, HoldersFinite, AccountsExact

LEMMA ReconfigureKeepsAccounts ==
  ASSUME Accounts, Typed', Reconfigure
  PROVE  Accounts'
<1> SUFFICES ASSUME settled'
             PROVE  LeasesCurrent' /\ HoldersFinite' /\ AccountsExact'
  BY DEF Accounts, LeasesCurrent, HoldersFinite, AccountsExact
<1>1. \A w \in Worker : ~Leased(w)'
  BY DEF Reconfigure, Leased, workers
<1>2. \A s : Holders(s)' = {} /\ Serving(s)' = {}
  BY <1>1 DEF Holders, Serving
<1>3. \A s \in DOMAIN slots' : sem'[s] = 0 /\ active'[s] = 0
  BY DEF Reconfigure
<1> QED
  BY <1>1, <1>2, <1>3, FS_EmptySet DEF LeasesCurrent, HoldersFinite, AccountsExact, Serving

LEMMA AlwaysAccounts == Spec => []Accounts
<1>1. Accounts /\ [Next]_vars => Accounts'
  <2> SUFFICES ASSUME Accounts, [Next]_vars PROVE Accounts'
    OBVIOUS
  <2>1. Typed'
    BY StepTyped DEF Accounts
  <2> QED
    BY <2>1, StepCases, MovesKeepAccounts, RestKeepsAccounts, GrantKeepsAccounts,
       EnterReleaseKeepsAccounts, DrainKeepsAccounts, SkipKeepsAccounts,
       ReconfigureKeepsAccounts
<1> QED
  BY <1>1, InitAccounts, PTL DEF Spec

\* As long as no slot is replaced under a lease, the tokens of a slot are its
\* leases and its active counter those not yet given back, for every number of
\* beads and every configuration: Acquire and Release (build_pool.go) balance.
THEOREM TokensMatchLeases == Spec => []AccountsExact
<1>1. Accounts => AccountsExact
  BY DEF Accounts
<1> QED
  BY <1>1, AlwaysAccounts, PTL

\* A slot never serves more beads at a time than its clamped max_parallel.
WithinCapacity ==
  settled => \A s \in DOMAIN slots : Cardinality(Holders(s)) <= Capacity(slots[s])

\* What the pool is for: the beads that hold a slot are never more than the
\* capacity configured for it, as long as no slot is replaced under a lease.
THEOREM CapacityRespected == Spec => []WithinCapacity
<1>1. Accounts => WithinCapacity
  BY DEF Accounts, AccountsExact, Typed, TypeOK, WithinCapacity
<1> QED
  BY <1>1, AlwaysAccounts, PTL

=============================================================================
