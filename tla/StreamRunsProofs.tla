-------------------------- MODULE StreamRunsProofs --------------------------
(***************************************************************************)
(* What holds of the run manager for every number of keys, clients,        *)
(* watchers, runs and events: types, reachability of live runs, the        *)
(* discipline of subscriber channels, the absence of lost wake-ups, and    *)
(* that the manager implements StreamPromise.                              *)
(***************************************************************************)
EXTENDS StreamRuns, FiniteSetTheorems, SequenceTheorems, TLAPS

USE ProjectAssumption, ProjectOfAssumption, NoKeyAssumption, BoundsAssumption DEF RunID, NoRun

(***************************************************************************)
(* The actions of Next, one by one: a step of the specification is one of  *)
(* these, or leaves the variables alone.                                   *)
(***************************************************************************)
LEMMA StepCases ==
  ASSUME [Next]_vars
  PROVE  \/ \E k \in Key : Start(k)
         \/ \E r \in RunID : Emit(r)
         \/ \E r \in RunID : FinishClose(r)
         \/ \E r \in RunID : FinishNotify(r)
         \/ \E r \in RunID : Cleanup(r)
         \/ CancelAll
         \/ \E c \in Client, r \in RunID : Lookup(c, r)
         \/ \E c \in Client, i \in 0 .. MaxEvents : Subscribe(c, i)
         \/ \E c \in Client : Receive(c)
         \/ \E c \in Client : Eof(c) \/ Disconnect(c)
         \/ \E c \in Client : Abandon(c)
         \/ WatchNext
         \/ UNCHANGED vars
  BY DEF Next, RunNext, ClientNext

\* A watcher's step touches none of the runs and none of the clients.
LEMMA WatchersOnlyWatch ==
  ASSUME WatchNext
  PROVE  UNCHANGED runVars /\ UNCHANGED clientVars
  BY DEF WatchNext, WatchOpen, WatchFirst, WatchRegister, WatchWake,
         WatchRead, WatchSent, Unwatch

-----------------------------------------------------------------------------
(* Types *)

LEMMA ReplayType ==
  ASSUME TypeOK, NEW r \in RunID, NEW i \in 0 .. MaxEvents
  PROVE  /\ Replay(r, i) \in Seq(1 .. MaxEvents)
         /\ Len(Replay(r, i)) \in Nat
<1> DEFINE n == IF i < events[r] THEN events[r] - i ELSE 0
           S == 1 .. MaxEvents
           f == [j \in 1 .. n |-> i + j]
<1>1. events[r] \in 0 .. MaxEvents /\ i \in Nat
  BY DEF TypeOK
<1>2. n \in Nat /\ \A j \in 1 .. n : i + j \in S
  BY <1>1
<1>3. Replay(r, i) = f
  BY DEF Replay
<1> HIDE DEF n, S
<1>4. f \in [1 .. n -> S]
  BY <1>2
<1> HIDE DEF f
<1>5. f \in Seq(S)
  BY <1>2, <1>4, SeqDef
<1>6. Len(f) \in Nat
  BY <1>5, LenProperties
<1> QED
  BY <1>3, <1>5, <1>6 DEF S

LEMMA OfferType ==
  ASSUME NEW q \in Seq(1 .. MaxEvents), NEW capacity \in Nat,
         Len(q) <= capacity, NEW e \in 1 .. MaxEvents
  PROVE  /\ Offer(q, capacity, e) \in Seq(1 .. MaxEvents)
         /\ Len(Offer(q, capacity, e)) <= capacity
<1> DEFINE S == 1 .. MaxEvents
<1>1. q \in Seq(S) /\ e \in S
  OBVIOUS
<1> HIDE DEF S
<1>2. Append(q, e) \in Seq(S) /\ Len(Append(q, e)) = Len(q) + 1
  BY <1>1
<1>3. Len(q) \in Nat
  BY <1>1
<1>4. Offer(q, capacity, e) \in Seq(S) /\ Len(Offer(q, capacity, e)) <= capacity
  BY <1>1, <1>2, <1>3 DEF Offer
<1> QED
  BY <1>4 DEF S

LEMMA EndSessionType ==
  ASSUME TypeOK, NEW c \in Client, NEW how \in {"eof", "left"},
         EndSession(c, how)
  PROVE  TypeOK'
<1>1. /\ <<>> \in Seq(1 .. MaxEvents)
      /\ Len(<<>>) = 0
  BY EmptySeq
<1>2. chan' \in [Client -> Seq(1 .. MaxEvents)]
  <2>1. chan \in [Client -> Seq(1 .. MaxEvents)]
    BY DEF TypeOK
  <2> QED
    BY <2>1, <1>1 DEF EndSession
<1>3. \A d \in Client : Len(chan'[d]) <= room'[d]
  <2>1. /\ DOMAIN chan = Client /\ DOMAIN room = Client
        /\ \A d \in Client : Len(chan[d]) <= room[d]
    BY DEF TypeOK
  <2>2. /\ \A d \in Client \ {c} : chan'[d] = chan[d] /\ room'[d] = room[d]
        /\ chan'[c] = <<>> /\ room'[c] = 0
    BY <2>1 DEF EndSession
  <2> QED
    BY <2>1, <2>2, <1>1
<1>4. subs' \in [RunID -> SUBSET Client]
  BY DEF TypeOK, EndSession
<1>5. room' \in [Client -> Nat]
  BY DEF TypeOK, EndSession
<1>6. closed' \in [Client -> BOOLEAN]
  BY DEF TypeOK, EndSession
<1>7. /\ last' \in [Client -> 0 .. MaxEvents]
      /\ from' \in [Client -> 0 .. MaxEvents]
  BY DEF TypeOK, EndSession
<1>8. /\ target' \in [Client -> RunID \cup {NoRun}]
      /\ conn' \in [Client -> {"idle", "open", "eof", "left", "abandoned"}]
  BY DEF TypeOK, EndSession
<1>9. UNCHANGED runVars /\ UNCHANGED watchVars
  BY DEF EndSession
<1> QED
  BY <1>2, <1>3, <1>4, <1>5, <1>6, <1>7, <1>8, <1>9
     DEF TypeOK, runVars, watchVars

\* Every variable keeps its type and no channel outgrows its capacity, so no
\* send of Subscribe's replay or of Emit can block under Run.mu.
THEOREM TypeCorrect == Spec => []TypeOK
<1>1. Init => TypeOK
  BY DEF Init, TypeOK, Phases
<1>2. TypeOK /\ [Next]_vars => TypeOK'
  <2> SUFFICES ASSUME TypeOK, [Next]_vars PROVE TypeOK'
    OBVIOUS
  <2>1. ASSUME NEW k \in Key, Start(k) PROVE TypeOK'
    BY <2>1 DEF TypeOK, Start, Notify, Phases, clientVars
  <2>2. ASSUME NEW r \in RunID, Emit(r) PROVE TypeOK'
    <3>1. events[r] + 1 \in 1 .. MaxEvents
      BY <2>2 DEF TypeOK, Emit
    <3>2. /\ chan' \in [Client -> Seq(1 .. MaxEvents)]
          /\ \A c \in Client : Len(chan'[c]) <= room[c]
      BY <2>2, <3>1, OfferType DEF TypeOK, Emit
    <3>3. events' \in [RunID -> 0 .. MaxEvents]
      BY <2>2, <3>1 DEF TypeOK, Emit
    <3> QED
      BY <2>2, <3>2, <3>3 DEF TypeOK, Emit, watchVars
  <2>3. ASSUME NEW r \in RunID, FinishClose(r) PROVE TypeOK'
    BY <2>3 DEF TypeOK, FinishClose, Phases, watchVars
  <2>4. ASSUME NEW r \in RunID, FinishNotify(r) PROVE TypeOK'
    BY <2>4 DEF TypeOK, FinishNotify, Notify, Phases, clientVars
  <2>5. ASSUME NEW r \in RunID, Cleanup(r) PROVE TypeOK'
    BY <2>5 DEF TypeOK, Cleanup, Phases, clientVars, watchVars
  <2>6. ASSUME CancelAll PROVE TypeOK'
    <3>1. \A k \in Key : HasActive(k) => runs[k] \in RunID
      BY DEF TypeOK, HasActive
    <3>2. {runs[k] : k \in {j \in Key : HasActive(j)}} \in SUBSET RunID
      BY <3>1
    <3>3. cancelled' \in SUBSET RunID
      BY <2>6, <3>2 DEF TypeOK, CancelAll
    <3> QED
      BY <2>6, <3>3 DEF TypeOK, CancelAll, clientVars, watchVars
  <2>7. ASSUME NEW c \in Client, NEW r \in RunID, Lookup(c, r) PROVE TypeOK'
    BY <2>7 DEF TypeOK, Lookup, runVars, watchVars
  <2>8. ASSUME NEW c \in Client, NEW i \in 0 .. MaxEvents, Subscribe(c, i)
        PROVE TypeOK'
    <3>1. target[c] \in RunID
      BY <2>8 DEF TypeOK, Subscribe
    <3>2. /\ Replay(target[c], i) \in Seq(1 .. MaxEvents)
          /\ Len(Replay(target[c], i)) \in Nat
      BY <3>1, ReplayType
    <3>3. /\ chan' \in [Client -> Seq(1 .. MaxEvents)]
          /\ room' \in [Client -> Nat]
          /\ \A d \in Client : Len(chan'[d]) <= room'[d]
      BY <2>8, <3>2 DEF TypeOK, Subscribe
    <3>4. subs' \in [RunID -> SUBSET Client]
      BY <2>8, <3>1 DEF TypeOK, Subscribe
    <3>5. closed' \in [Client -> BOOLEAN]
      BY <2>8 DEF TypeOK, Subscribe, Done
    <3> QED
      BY <2>8, <3>3, <3>4, <3>5 DEF TypeOK, Subscribe, runVars, watchVars
  <2>9. ASSUME NEW c \in Client, Receive(c) PROVE TypeOK'
    <3>1. /\ Head(chan[c]) \in 1 .. MaxEvents
          /\ Tail(chan[c]) \in Seq(1 .. MaxEvents)
          /\ Len(Tail(chan[c])) <= Len(chan[c])
      BY <2>9 DEF TypeOK, Receive
    <3>2. /\ chan' \in [Client -> Seq(1 .. MaxEvents)]
          /\ \A d \in Client : Len(chan'[d]) <= room[d]
      BY <2>9, <3>1 DEF TypeOK, Receive
    <3>3. last' \in [Client -> 0 .. MaxEvents]
      BY <2>9, <3>1 DEF TypeOK, Receive
    <3> QED
      BY <2>9, <3>2, <3>3 DEF TypeOK, Receive, runVars, watchVars
  <2>10. ASSUME NEW c \in Client, Eof(c) \/ Disconnect(c) PROVE TypeOK'
    BY <2>10, EndSessionType DEF Eof, Disconnect
  <2>11. ASSUME NEW c \in Client, Abandon(c) PROVE TypeOK'
    BY <2>11 DEF TypeOK, Abandon, runVars, watchVars
  <2>12. ASSUME WatchNext PROVE TypeOK'
    <3> DEFINE WatchTypes ==
          /\ wphase \in [Watcher ->
                {"off", "first", "register", "loop", "read", "send"}]
          /\ wproj \in [Watcher -> Project]
          /\ signal \in SUBSET Watcher
          /\ view \in [Watcher -> SUBSET Key]
          /\ fresh \in SUBSET Watcher
    <3>1. UNCHANGED runVars /\ UNCHANGED clientVars
      BY <2>12, WatchersOnlyWatch
    <3>2. \A p \in Project : ActiveKeys(p) \in SUBSET Key
      BY DEF ActiveKeys
    <3>3. WatchTypes'
      <4>1. ASSUME NEW w \in Watcher, NEW p \in Project, WatchOpen(w, p)
            PROVE WatchTypes'
        BY <4>1 DEF TypeOK, WatchOpen
      <4>2. ASSUME NEW w \in Watcher, WatchFirst(w) PROVE WatchTypes'
        BY <4>2, <3>2 DEF TypeOK, WatchFirst
      <4>3. ASSUME NEW w \in Watcher, WatchRegister(w) PROVE WatchTypes'
        BY <4>3 DEF TypeOK, WatchRegister
      <4>4. ASSUME NEW w \in Watcher, WatchWake(w) PROVE WatchTypes'
        BY <4>4 DEF TypeOK, WatchWake
      <4>5. ASSUME NEW w \in Watcher, WatchRead(w) PROVE WatchTypes'
        BY <4>5, <3>2 DEF TypeOK, WatchRead
      <4>6. ASSUME NEW w \in Watcher, WatchSent(w) \/ Unwatch(w)
            PROVE WatchTypes'
        BY <4>6 DEF TypeOK, WatchSent, Unwatch
      <4> QED
        BY <2>12, <4>1, <4>2, <4>3, <4>4, <4>5, <4>6 DEF WatchNext
    <3> QED
      BY <3>1, <3>3 DEF TypeOK, runVars, clientVars, Phases
  <2>13. ASSUME UNCHANGED vars PROVE TypeOK'
    BY <2>13 DEF TypeOK, vars, runVars, clientVars, watchVars
  <2> QED
    BY <2>1, <2>2, <2>3, <2>4, <2>5, <2>6, <2>7, <2>8, <2>9, <2>10, <2>11,
       <2>12, <2>13, StepCases
<1> QED
  BY <1>1, <1>2, PTL DEF Spec
-----------------------------------------------------------------------------
(* Runs *)

\* A session's step changes no run.
LEMMA ClientsOnlyRead ==
  ASSUME ClientNext
  PROVE  UNCHANGED runVars
  BY DEF ClientNext, Lookup, Subscribe, Receive, Eof, Disconnect, EndSession,
         Abandon

\* Ids are given out in order, and a run that was started has a key.
RunsOrdered ==
  \A r \in RunID : /\ phase[r] = "none" <=> r > nextID
                   /\ phase[r] # "none" => keyOf[r] \in Key

\* A key names a started run of its own.
KeysNameRuns ==
  \A k \in Key : runs[k] # NoRun => /\ keyOf[runs[k]] = k
                                    /\ phase[runs[k]] # "none"

\* Inductive: reachability of live runs survives Start because a live run of
\* the same key would have been found, and Cleanup because a key that names
\* another run by then is left alone.
RunInv == RunsOrdered /\ KeysNameRuns /\ LiveRunReachable

LEMMA RunStart ==
  ASSUME TypeOK, RunInv, NEW k \in Key, Start(k)
  PROVE  RunInv'
<1> DEFINE r == nextID + 1
<1>1. /\ r \in RunID /\ nextID \in Nat /\ nextID < r
      /\ phase[r] = "none"
  BY DEF TypeOK, Start, RunInv, RunsOrdered
<1>2. /\ nextID' = r
      /\ phase' = [phase EXCEPT ![r] = "running"]
      /\ keyOf' = [keyOf EXCEPT ![r] = k]
      /\ runs' = [runs EXCEPT ![k] = r]
      /\ byID' = byID \cup {r}
      /\ ~HasActive(k)
  BY DEF Start
<1> HIDE DEF r
<1>3. RunsOrdered'
  BY <1>1, <1>2 DEF TypeOK, RunInv, RunsOrdered, r
<1>4. KeysNameRuns'
  BY <1>1, <1>2 DEF TypeOK, RunInv, KeysNameRuns
<1>5. ASSUME NEW q \in RunID, Live(q)'
      PROVE  runs'[keyOf'[q]] = q /\ q \in byID'
  <2>1. CASE q = r
    BY <2>1, <1>1, <1>2 DEF TypeOK
  <2>2. CASE q # r
    <3>1. Live(q) /\ keyOf'[q] = keyOf[q]
      BY <2>2, <1>1, <1>2, <1>5 DEF TypeOK, Live
    <3>2. runs[keyOf[q]] = q /\ q \in byID /\ keyOf[q] \in Key
      BY <3>1 DEF RunInv, LiveRunReachable, RunsOrdered, Live
    <3>3. HasActive(keyOf[q])
      BY <3>1, <3>2 DEF HasActive, Live, Done
    <3> QED
      BY <3>1, <3>2, <3>3, <1>2 DEF TypeOK
  <2> QED
    BY <2>1, <2>2
<1> QED
  BY <1>3, <1>4, <1>5 DEF RunInv, LiveRunReachable

LEMMA RunStep ==
  ASSUME TypeOK, RunInv, [Next]_vars
  PROVE  RunInv'
<1>1. ASSUME UNCHANGED runVars PROVE RunInv'
  BY <1>1 DEF RunInv, RunsOrdered, KeysNameRuns, LiveRunReachable, Live, runVars
<1>2. ASSUME NEW r \in RunID, Emit(r) PROVE RunInv'
  BY <1>2 DEF RunInv, RunsOrdered, KeysNameRuns, LiveRunReachable, Live, Emit
<1>3. ASSUME NEW r \in RunID, FinishClose(r) PROVE RunInv'
  BY <1>3 DEF TypeOK, RunInv, RunsOrdered, KeysNameRuns, LiveRunReachable,
              Live, FinishClose
<1>4. ASSUME NEW r \in RunID, FinishNotify(r) PROVE RunInv'
  BY <1>4 DEF TypeOK, RunInv, RunsOrdered, KeysNameRuns, LiveRunReachable,
              Live, FinishNotify
<1>5. ASSUME NEW r \in RunID, Cleanup(r) PROVE RunInv'
  BY <1>5 DEF TypeOK, RunInv, RunsOrdered, KeysNameRuns, LiveRunReachable,
              Live, Cleanup
<1>6. ASSUME CancelAll PROVE RunInv'
  BY <1>6 DEF RunInv, RunsOrdered, KeysNameRuns, LiveRunReachable, Live,
              CancelAll
<1>7. UNCHANGED vars => UNCHANGED runVars
  BY DEF vars
<1> QED
  BY <1>1, <1>2, <1>3, <1>4, <1>5, <1>6, <1>7, RunStart, ClientsOnlyRead,
     WatchersOnlyWatch DEF Next, RunNext

LEMMA RunsInvariant == Spec => []RunInv
<1>1. Init => RunInv
  BY DEF Init, RunInv, RunsOrdered, KeysNameRuns, LiveRunReachable, Live
<1>2. TypeOK /\ RunInv /\ [Next]_vars => RunInv'
  BY RunStep
<1> QED
  BY <1>1, <1>2, TypeCorrect, PTL DEF Spec

\* No key has two live runs, and a live run is always found by key and by id,
\* whatever timers of its predecessors are still to fire.
THEOREM LiveRunsReachable == Spec => []LiveRunReachable
<1>1. RunInv => LiveRunReachable
  BY DEF RunInv
<1> QED
  BY <1>1, RunsInvariant, PTL

\* Shutdown's CancelAll leaves no live run uncancelled.
THEOREM ShutdownReachesEveryRun == Spec => CancelAllReachesEveryRun
<1>1. TypeOK /\ RunInv /\ [Next]_vars
        => [CancelAll => \A r \in RunID : Live(r) => r \in cancelled']_vars
  <2> SUFFICES ASSUME TypeOK, RunInv, CancelAll, NEW r \in RunID, Live(r)
               PROVE  r \in cancelled'
    OBVIOUS
  <2>1. keyOf[r] \in Key /\ runs[keyOf[r]] = r
    BY DEF RunInv, RunsOrdered, LiveRunReachable, Live
  <2>2. HasActive(keyOf[r])
    BY <2>1 DEF HasActive, Live, Done
  <2> QED
    BY <2>1, <2>2 DEF CancelAll
<1> QED
  BY <1>1, TypeCorrect, RunsInvariant, PTL DEF Spec, CancelAllReachesEveryRun
-----------------------------------------------------------------------------
(* Subscriber channels *)

\* Whatever Get finds, and whatever a client holds, was started.
HeldRunsStarted ==
  /\ \A r \in byID : phase[r] # "none"
  /\ \A c \in Client : target[c] # NoRun => phase[target[c]] # "none"

\* Inductive: a run that was started and is not done is live, so Subscribe
\* registers with live runs only; a client is registered with at most the run
\* it holds, so Finish of another run cannot close its channel.
SubInv == HeldRunsStarted /\ SubscribersOpen

LEMMA SubStart ==
  ASSUME TypeOK, RunInv, SubInv, NEW k \in Key, Start(k)
  PROVE  SubInv'
<1>1. /\ UNCHANGED <<subs, closed, target, conn>>
      /\ phase' = [phase EXCEPT ![nextID + 1] = "running"]
      /\ byID' = byID \cup {nextID + 1}
      /\ nextID + 1 \in RunID
  BY DEF Start, clientVars, TypeOK
<1>2. \A r \in RunID : phase[r] # "none" => phase'[r] # "none" /\ r # 0
  BY <1>1 DEF TypeOK
<1>3. HeldRunsStarted'
  BY <1>1, <1>2 DEF TypeOK, SubInv, HeldRunsStarted
<1>4. \A r \in RunID : Live(r) => Live(r)'
  BY <1>1 DEF TypeOK, Live
<1> QED
  BY <1>1, <1>3, <1>4 DEF SubInv, SubscribersOpen

LEMMA SubFinish ==
  ASSUME TypeOK, SubInv, NEW r \in RunID, FinishClose(r)
  PROVE  SubInv'
<1>1. HeldRunsStarted'
  BY DEF TypeOK, SubInv, HeldRunsStarted, FinishClose
<1>2. ASSUME NEW q \in RunID, NEW c \in subs'[q]
      PROVE  /\ Live(q)' /\ ~closed'[c] /\ target'[c] = q
             /\ conn'[c] \in {"open", "abandoned"}
  <2>1. q # r /\ c \in subs[q] /\ c \in Client
    BY <1>2 DEF TypeOK, FinishClose
  <2>2. /\ Live(q) /\ ~closed[c] /\ target[c] = q
        /\ conn[c] \in {"open", "abandoned"}
    BY <2>1 DEF SubInv, SubscribersOpen
  <2>3. c \notin subs[r]
    BY <2>1, <2>2 DEF SubInv, SubscribersOpen
  <2>4. ~closed'[c]
    BY <2>1, <2>2, <2>3 DEF FinishClose
  <2>5. Live(q)' /\ UNCHANGED <<target, conn>>
    BY <2>1, <2>2 DEF TypeOK, FinishClose, Live
  <2> QED
    BY <2>2, <2>4, <2>5
<1> QED
  BY <1>1, <1>2 DEF SubInv, SubscribersOpen

LEMMA SubSubscribe ==
  ASSUME TypeOK, SubInv, NEW c \in Client, NEW i \in 0 .. MaxEvents,
         Subscribe(c, i)
  PROVE  SubInv'
<1>1. /\ target[c] \in RunID /\ phase[target[c]] # "none"
      /\ UNCHANGED runVars /\ UNCHANGED target
  BY DEF TypeOK, SubInv, HeldRunsStarted, Subscribe
<1>2. HeldRunsStarted'
  BY <1>1 DEF SubInv, HeldRunsStarted, runVars
<1>3. \A q \in RunID : c \notin subs[q]
  BY DEF SubInv, SubscribersOpen, Subscribe
<1>4. ASSUME NEW q \in RunID, NEW d \in subs'[q]
      PROVE  /\ Live(q)' /\ ~closed'[d] /\ target'[d] = q
             /\ conn'[d] \in {"open", "abandoned"}
  <2>1. CASE d = c
    <3>1. q = target[c] /\ ~Done(q)
      BY <1>1, <1>3, <1>4, <2>1 DEF TypeOK, Subscribe
    <3>2. Live(q)
      BY <1>1, <3>1 DEF TypeOK, Live, Done, Phases
    <3>3. ~closed'[c] /\ conn'[c] = "open"
      BY <3>1 DEF TypeOK, Subscribe
    <3> QED
      BY <1>1, <2>1, <3>1, <3>2, <3>3 DEF Live, runVars
  <2>2. CASE d # c
    <3>1. d \in subs[q] /\ d \in Client
      BY <1>1, <1>4, <2>2 DEF TypeOK, Subscribe
    <3>2. closed'[d] = closed[d] /\ conn'[d] = conn[d]
      BY <2>2, <3>1 DEF TypeOK, Subscribe
    <3> QED
      BY <1>1, <3>1, <3>2 DEF SubInv, SubscribersOpen, Live, runVars
  <2> QED
    BY <2>1, <2>2
<1> QED
  BY <1>2, <1>4 DEF SubInv, SubscribersOpen

LEMMA SubEnd ==
  ASSUME TypeOK, SubInv, NEW c \in Client, NEW how, EndSession(c, how)
  PROVE  SubInv'
<1>1. UNCHANGED runVars
  BY DEF EndSession
<1>2. HeldRunsStarted'
  BY <1>1 DEF TypeOK, SubInv, HeldRunsStarted, EndSession, runVars
<1>3. ASSUME NEW q \in RunID, NEW d \in subs'[q]
      PROVE  /\ Live(q)' /\ ~closed'[d] /\ target'[d] = q
             /\ conn'[d] \in {"open", "abandoned"}
  <2>1. d \in subs[q] /\ d \in Client /\ (q = target[c] => d # c)
    BY <1>3 DEF TypeOK, EndSession
  <2>2. target[d] = q /\ d # c
    BY <2>1 DEF SubInv, SubscribersOpen
  <2>3. /\ closed'[d] = closed[d] /\ conn'[d] = conn[d]
        /\ target'[d] = target[d]
    BY <2>1, <2>2 DEF TypeOK, EndSession
  <2> QED
    BY <1>1, <2>1, <2>3 DEF SubInv, SubscribersOpen, Live, runVars
<1> QED
  BY <1>2, <1>3 DEF SubInv, SubscribersOpen

LEMMA SubStep ==
  ASSUME TypeOK, RunInv, SubInv, [Next]_vars
  PROVE  SubInv'
<1> USE DEF SubInv, HeldRunsStarted, SubscribersOpen, Live
<1>1. ASSUME NEW r \in RunID, Emit(r) PROVE SubInv'
  BY <1>1 DEF Emit
<1>2. ASSUME NEW r \in RunID, FinishNotify(r) PROVE SubInv'
  BY <1>2 DEF TypeOK, FinishNotify, clientVars
<1>3. ASSUME NEW r \in RunID, Cleanup(r) PROVE SubInv'
  BY <1>3 DEF TypeOK, Cleanup, clientVars
<1>4. ASSUME CancelAll PROVE SubInv'
  BY <1>4 DEF CancelAll, clientVars
<1>5. ASSUME NEW c \in Client, NEW r \in RunID, Lookup(c, r) PROVE SubInv'
  <2>1. /\ UNCHANGED runVars /\ UNCHANGED <<subs, closed, conn>>
        /\ conn[c] = "idle" /\ r \in byID
        /\ target' = [target EXCEPT ![c] = r]
    BY <1>5 DEF Lookup
  <2>2. \A q \in RunID : c \notin subs[q]
    BY <2>1
  <2> QED
    BY <2>1, <2>2 DEF TypeOK, runVars
<1>6. ASSUME NEW c \in Client, Receive(c) PROVE SubInv'
  BY <1>6 DEF Receive, runVars
<1>7. ASSUME NEW c \in Client, Abandon(c) PROVE SubInv'
  BY <1>7 DEF TypeOK, Abandon, runVars
<1>8. ASSUME UNCHANGED runVars, UNCHANGED clientVars PROVE SubInv'
  BY <1>8 DEF runVars, clientVars
<1>9. UNCHANGED vars => UNCHANGED runVars /\ UNCHANGED clientVars
  BY DEF vars
<1>10. ASSUME NEW c \in Client, Eof(c) \/ Disconnect(c) PROVE SubInv'
  BY <1>10, SubEnd DEF Eof, Disconnect
<1> HIDE DEF SubInv
<1> QED
  BY <1>1, <1>2, <1>3, <1>4, <1>5, <1>6, <1>7, <1>8, <1>9, <1>10, StepCases,
     SubStart, SubFinish, SubSubscribe, WatchersOnlyWatch

\* A registered channel is open, and belongs to a session on a live run: no
\* send on a closed channel and no second close, in any interleaving of late
\* emitters, Finish, and sessions that come and go.
THEOREM ChannelsOpen == Spec => []SubscribersOpen
<1>1. Init => SubInv
  BY DEF Init, SubInv, HeldRunsStarted, SubscribersOpen
<1>2. TypeOK /\ RunInv /\ SubInv /\ [Next]_vars => SubInv'
  BY SubStep
<1>3. SubInv => SubscribersOpen
  BY DEF SubInv
<1> QED
  BY <1>1, <1>2, <1>3, TypeCorrect, RunsInvariant, PTL DEF Spec
-----------------------------------------------------------------------------
(* Watchers *)

\* What NoLostWakeup says of one watcher.
Informed(w) ==
  \/ wphase[w] = "read"
  \/ w \in signal
  \/ view[w] = ActiveKeys(wproj[w])
  \/ \E r \in RunID : phase[r] = "closed" /\ ProjectOf[keyOf[r]] = wproj[w]

\* Inductive: only registered watchers are fresh, so every Notify of their
\* project leaves them a token.
WatchInv ==
  /\ \A w \in fresh : Registered(w)
  /\ \A w \in fresh : Informed(w)

\* A step on the runs disturbs the active keys of a project only if it tells
\* that project's watchers or leaves a run waiting for its FinishNotify.
LEMMA WatchRunStep ==
  ASSUME TypeOK, RunInv, WatchInv, RunNext
  PROVE  WatchInv'
<1>1. UNCHANGED <<wphase, wproj, view, fresh>>
  BY DEF RunNext, Start, Emit, FinishClose, FinishNotify, Cleanup, CancelAll,
         watchVars
<1>2. \A w \in fresh' : Registered(w)'
  BY <1>1 DEF WatchInv, Registered
<1>3. ASSUME NEW w \in fresh' PROVE Informed(w)'
  <2>1. w \in fresh /\ w \in Watcher /\ Registered(w) /\ Informed(w)
    BY <1>1, <1>3 DEF TypeOK, WatchInv
  <2>2. ASSUME NEW k \in Key, Start(k) PROVE Informed(w)'
    <3> DEFINE r == nextID + 1
    <3>1. /\ r \in RunID /\ phase[r] = "none"
          /\ phase' = [phase EXCEPT ![r] = "running"]
          /\ keyOf' = [keyOf EXCEPT ![r] = k]
          /\ runs' = [runs EXCEPT ![k] = r]
          /\ Notify(ProjectOf[k])
      BY <2>2 DEF TypeOK, Start, RunInv, RunsOrdered
    <3> HIDE DEF r
    <3>2. CASE wproj[w] = ProjectOf[k]
      BY <2>1, <3>1, <3>2 DEF Notify, Informed
    <3>3. CASE wproj[w] # ProjectOf[k]
      <4>1. \A j \in Key : ProjectOf[j] = wproj[w] =>
               (HasActive(j)' <=> HasActive(j))
        BY <3>1, <3>3 DEF TypeOK, HasActive, Done, RunInv, KeysNameRuns
      <4>2. ActiveKeys(wproj[w])' = ActiveKeys(wproj[w])
        BY <4>1, <1>1 DEF ActiveKeys
      <4>3. signal \subseteq signal'
        BY <3>1 DEF Notify
      <4>4. \A q \in RunID : phase[q] = "closed" =>
               phase'[q] = "closed" /\ keyOf'[q] = keyOf[q]
        BY <3>1 DEF TypeOK
      <4> QED
        BY <1>1, <2>1, <4>2, <4>3, <4>4 DEF Informed
    <3> QED
      BY <3>2, <3>3
  <2>3. ASSUME NEW r \in RunID, FinishClose(r) PROVE Informed(w)'
    <3>1. /\ phase[r] = "running"
          /\ phase' = [phase EXCEPT ![r] = "closed"]
          /\ UNCHANGED <<runs, keyOf, signal>>
      BY <2>3 DEF FinishClose, Live, watchVars
    <3>2. CASE ProjectOf[keyOf[r]] = wproj[w]
      BY <1>1, <3>1, <3>2 DEF TypeOK, Informed
    <3>3. CASE ProjectOf[keyOf[r]] # wproj[w]
      <4>1. \A j \in Key : ProjectOf[j] = wproj[w] =>
               (HasActive(j)' <=> HasActive(j))
        BY <3>1, <3>3 DEF TypeOK, HasActive, Done, RunInv, KeysNameRuns
      <4>2. ActiveKeys(wproj[w])' = ActiveKeys(wproj[w])
        BY <4>1, <1>1 DEF ActiveKeys
      <4>3. \A q \in RunID : phase[q] = "closed" => phase'[q] = "closed"
        BY <3>1 DEF TypeOK
      <4> QED
        BY <1>1, <2>1, <3>1, <4>2, <4>3 DEF Informed
    <3> QED
      BY <3>2, <3>3
  <2>4. ASSUME NEW r \in RunID, FinishNotify(r) PROVE Informed(w)'
    <3>1. /\ phase[r] = "closed"
          /\ phase' = [phase EXCEPT ![r] = "told"]
          /\ UNCHANGED <<runs, keyOf>>
          /\ Notify(ProjectOf[keyOf[r]])
      BY <2>4 DEF FinishNotify
    <3>2. CASE ProjectOf[keyOf[r]] = wproj[w]
      BY <2>1, <3>1, <3>2 DEF Notify, Informed
    <3>3. CASE ProjectOf[keyOf[r]] # wproj[w]
      <4>1. \A j \in Key : HasActive(j)' <=> HasActive(j)
        BY <3>1 DEF TypeOK, HasActive, Done
      <4>2. ActiveKeys(wproj[w])' = ActiveKeys(wproj[w])
        BY <4>1, <1>1 DEF ActiveKeys
      <4>3. \A q \in RunID \ {r} : phase'[q] = phase[q]
        BY <3>1 DEF TypeOK
      <4>4. signal \subseteq signal'
        BY <3>1 DEF Notify
      <4> QED
        BY <1>1, <2>1, <3>1, <3>3, <4>2, <4>3, <4>4 DEF Informed
    <3> QED
      BY <3>2, <3>3
  <2>5. ASSUME NEW r \in RunID, Cleanup(r) PROVE Informed(w)'
    <3>1. /\ phase[r] = "told"
          /\ phase' = [phase EXCEPT ![r] = "dropped"]
          /\ UNCHANGED <<keyOf, signal>>
          /\ \A j \in Key : runs'[j] = runs[j] \/ (runs[j] = r /\ runs'[j] = NoRun)
      BY <2>5 DEF Cleanup, watchVars
    <3>2. \A j \in Key : HasActive(j)' <=> HasActive(j)
      BY <3>1 DEF TypeOK, HasActive, Done
    <3>3. ActiveKeys(wproj[w])' = ActiveKeys(wproj[w])
      BY <3>2, <1>1 DEF ActiveKeys
    <3>4. \A q \in RunID : phase[q] = "closed" => phase'[q] = "closed"
      BY <3>1 DEF TypeOK
    <3> QED
      BY <1>1, <2>1, <3>1, <3>3, <3>4 DEF Informed
  <2>6. ASSUME UNCHANGED <<runs, phase, keyOf, signal>> PROVE Informed(w)'
    BY <1>1, <2>1, <2>6 DEF Informed, ActiveKeys, HasActive, Done
  <2> QED
    BY <2>2, <2>3, <2>4, <2>5, <2>6 DEF RunNext, Emit, CancelAll, watchVars
<1> QED
  BY <1>2, <1>3 DEF WatchInv

LEMMA WatcherStep ==
  ASSUME TypeOK, WatchInv, WatchNext
  PROVE  WatchInv'
<1>1. UNCHANGED <<runs, phase, keyOf>>
  BY WatchersOnlyWatch DEF runVars
<1>2. \A p \in Project : ActiveKeys(p)' = ActiveKeys(p)
  BY <1>1 DEF ActiveKeys, HasActive, Done
<1>3. ASSUME NEW u \in fresh,
             UNCHANGED <<wphase[u], view[u], wproj[u]>>,
             u \in signal => u \in signal'
      PROVE  Registered(u)' /\ Informed(u)'
  <2>1. Registered(u) /\ Informed(u) /\ wproj[u] \in Project
    BY DEF TypeOK, WatchInv
  <2>2. ActiveKeys(wproj[u])' = ActiveKeys(wproj[u])
    BY <1>2, <1>3, <2>1
  <2> QED
    BY <1>1, <1>3, <2>1, <2>2 DEF Registered, Informed
<1>4. ASSUME NEW u \in fresh', NEW w \in Watcher,
             \/ \E p \in Project : WatchOpen(w, p)
             \/ WatchFirst(w) \/ WatchRegister(w) \/ Unwatch(w)
      PROVE  Registered(u)' /\ Informed(u)'
  <2>1. u # w /\ u \in fresh
    BY <1>4 DEF WatchInv, Registered, WatchOpen, WatchFirst, WatchRegister,
                Unwatch
  <2>2. UNCHANGED <<wphase[u], view[u], wproj[u]>>
    BY <1>4, <2>1 DEF TypeOK, WatchOpen, WatchFirst, WatchRegister, Unwatch
  <2>3. u \in signal => u \in signal'
    BY <1>4, <2>1 DEF WatchOpen, WatchFirst, WatchRegister, Unwatch
  <2> QED
    BY <1>3, <2>1, <2>2, <2>3
<1>5. ASSUME NEW u \in fresh', NEW w \in Watcher,
             WatchWake(w) \/ WatchRead(w) \/ WatchSent(w)
      PROVE  Registered(u)' /\ Informed(u)'
  <2>1. CASE u # w
    <3>1. u \in fresh /\ (u \in signal => u \in signal')
      BY <1>5, <2>1 DEF WatchWake, WatchRead, WatchSent
    <3>2. UNCHANGED <<wphase[u], view[u], wproj[u]>>
      BY <1>5, <2>1, <3>1 DEF TypeOK, WatchWake, WatchRead, WatchSent
    <3> QED
      BY <1>3, <3>1, <3>2
  <2>2. CASE u = w /\ WatchWake(w)
    BY <2>2 DEF TypeOK, WatchWake, Registered, Informed
  <2>3. CASE u = w /\ WatchRead(w)
    <3>1. view'[w] = ActiveKeys(wproj[w]) /\ wphase'[w] = "send"
      BY <2>3 DEF TypeOK, WatchRead
    <3>2. ActiveKeys(wproj[w])' = ActiveKeys(wproj[w]) /\ wproj' = wproj
      BY <1>2, <2>3 DEF TypeOK, WatchRead
    <3> QED
      BY <2>3, <3>1, <3>2 DEF Registered, Informed
  <2>4. CASE u = w /\ WatchSent(w)
    <3>1. /\ wphase[w] = "send" /\ wphase'[w] = "loop" /\ w \in fresh
          /\ UNCHANGED <<view, wproj, signal>>
      BY <1>5, <2>4 DEF TypeOK, WatchSent
    <3>2. ActiveKeys(wproj[w])' = ActiveKeys(wproj[w])
      BY <1>2, <3>1 DEF TypeOK
    <3> QED
      BY <1>1, <2>4, <3>1, <3>2 DEF WatchInv, Registered, Informed
  <2> QED
    BY <1>5, <2>1, <2>2, <2>3, <2>4
<1> QED
  BY <1>4, <1>5 DEF WatchNext, WatchInv

\* No start or finish of a run goes unnoticed by a registered watcher that has
\* built a state, although its wake-up channel holds a single token.
THEOREM WakeupsKept == Spec => []NoLostWakeup
<1>1. Init => WatchInv
  BY DEF Init, WatchInv
<1>2. ASSUME TypeOK, RunInv, WatchInv, [Next]_vars PROVE WatchInv'
  <2>1. CASE ClientNext
    <3>1. UNCHANGED runVars /\ UNCHANGED watchVars
      BY <2>1 DEF ClientNext, Lookup, Subscribe, Receive, Eof, Disconnect,
                  EndSession, Abandon
    <3> QED
      BY <1>2, <3>1 DEF WatchInv, Registered, Informed, ActiveKeys, HasActive,
                        Done, runVars, watchVars
  <2>2. CASE UNCHANGED vars
    BY <1>2, <2>2 DEF WatchInv, Registered, Informed, ActiveKeys, HasActive,
                      Done, vars, runVars, watchVars
  <2> QED
    BY <1>2, <2>1, <2>2, WatchRunStep, WatcherStep DEF Next
<1>3. WatchInv => NoLostWakeup
  BY DEF WatchInv, Informed, NoLostWakeup
<1> QED
  BY <1>1, <1>2, <1>3, TypeCorrect, RunsInvariant, PTL DEF Spec
-----------------------------------------------------------------------------
(* The promise to readers *)

Ordered(q) == \A i, j \in DOMAIN q : i < j => q[i] < q[j]

\* What waits in the channel of an open session is in log order, beyond what the
\* client has received and in the log; the session is registered with its run
\* until the run is over, and then its channel is closed.
Session(c) ==
  /\ conn[c] = "idle" => last[c] = 0
  /\ conn[c] = "open" =>
       /\ target[c] \in RunID
       /\ closed[c] = Done(target[c])
       /\ ~Done(target[c]) => c \in subs[target[c]]
       /\ room[c] >= Headroom
       /\ last[c] <= events[target[c]]
       /\ Ordered(chan[c])
       /\ \A i \in DOMAIN chan[c] :
            last[c] < chan[c][i] /\ chan[c][i] <= events[target[c]]

\* Inductive, with SubInv.
StreamInv == \A c \in Client : Session(c)

\* The elements of an ordered channel are as many as it is long.
LEMMA OrderedCount ==
  ASSUME NEW q \in Seq(1 .. MaxEvents), Ordered(q)
  PROVE  Cardinality(Elements(q)) = Len(q)
<1>1. /\ DOMAIN q = 1 .. Len(q) /\ Len(q) \in Nat
      /\ \A i \in 1 .. Len(q) : q[i] \in Nat
  OBVIOUS
<1>2. \A i, j \in 1 .. Len(q) : i # j => q[i] # q[j]
  BY <1>1 DEF Ordered
<1>3. [i \in 1 .. Len(q) |-> q[i]] \in Bijection(1 .. Len(q), Elements(q))
  BY <1>1, <1>2 DEF Bijection, Injection, Surjection, IsInjective, Elements
<1>4. ExistsBijection(1 .. Len(q), Elements(q))
  BY <1>3 DEF ExistsBijection
<1> QED
  BY <1>1, <1>4, FS_CountingElements

LEMMA OfferAdds ==
  ASSUME NEW q \in Seq(1 .. MaxEvents), NEW e \in 1 .. MaxEvents
  PROVE  /\ Elements(Append(q, e)) = Elements(q) \cup {e}
         /\ Ordered(q) /\ (\A i \in DOMAIN q : q[i] < e) => Ordered(Append(q, e))
         /\ DOMAIN Append(q, e) = DOMAIN q \cup {Len(q) + 1}
         /\ Append(q, e)[Len(q) + 1] = e /\ \A i \in DOMAIN q : Append(q, e)[i] = q[i]
<1> DEFINE S == 1 .. MaxEvents
           more == Append(q, e)
<1>0. q \in Seq(S) /\ e \in S /\ \A x \in S : x \in Nat
  OBVIOUS
<1> HIDE DEF S
<1>1. /\ DOMAIN q = 1 .. Len(q) /\ Len(q) \in Nat /\ DOMAIN more = 1 .. Len(q) + 1
      /\ more[Len(q) + 1] = e /\ \A i \in 1 .. Len(q) : more[i] = q[i] /\ q[i] \in Nat
  BY <1>0
<1> HIDE DEF more
<1>2. DOMAIN more = DOMAIN q \cup {Len(q) + 1} /\ Len(q) + 1 \notin DOMAIN q
  BY <1>1
<1>3. Elements(more) = Elements(q) \cup {e}
  BY <1>1, <1>2 DEF Elements
<1>4. ASSUME Ordered(q), \A i \in DOMAIN q : q[i] < e, NEW i \in DOMAIN more, NEW j \in DOMAIN more,
             i < j
      PROVE  more[i] < more[j]
  <2>1. i \in DOMAIN q /\ more[i] = q[i]
    BY <1>1, <1>4
  <2>2. CASE j = Len(q) + 1
    BY <1>1, <1>4, <2>1, <2>2
  <2>3. CASE j \in DOMAIN q
    BY <1>1, <1>4, <2>1, <2>3 DEF Ordered
  <2> QED
    BY <1>2, <2>2, <2>3
<1> QED
  BY <1>1, <1>2, <1>3, <1>4 DEF Ordered, more

LEMMA HeadIsFirst ==
  ASSUME NEW q \in Seq(1 .. MaxEvents), q # <<>>, Ordered(q)
  PROVE  /\ Head(q) \in Elements(q) /\ \A j \in Elements(q) : Head(q) <= j
         /\ Elements(Tail(q)) = Elements(q) \ {Head(q)}
         /\ Ordered(Tail(q))
         /\ \A i \in DOMAIN Tail(q) : /\ Head(q) < Tail(q)[i]
                                      /\ \E j \in DOMAIN q : Tail(q)[i] = q[j]
<1> DEFINE S == 1 .. MaxEvents
           rest == Tail(q)
<1>0. q \in Seq(S) /\ \A x \in S : x \in Nat
  OBVIOUS
<1> HIDE DEF S
<1>1. /\ DOMAIN q = 1 .. Len(q) /\ Len(q) \in Nat /\ Len(q) # 0 /\ Head(q) = q[1]
      /\ DOMAIN rest = 1 .. Len(q) - 1
      /\ \A i \in 1 .. Len(q) - 1 : rest[i] = q[i + 1]
      /\ \A i \in 1 .. Len(q) : q[i] \in Nat
  BY <1>0
<1> HIDE DEF rest
<1>2. 1 \in DOMAIN q /\ \A i \in DOMAIN q : i # 1 => q[1] < q[i]
  <2>1. 1 \in DOMAIN q /\ \A i \in DOMAIN q : i # 1 => 1 < i
    BY <1>1
  <2> QED
    BY <2>1 DEF Ordered
<1>3. \A i \in DOMAIN rest : i + 1 \in DOMAIN q /\ i + 1 # 1 /\ rest[i] = q[i + 1]
  BY <1>1
<1>4. ASSUME NEW j \in DOMAIN q, j # 1 PROVE j - 1 \in DOMAIN rest /\ rest[j - 1] = q[j]
  <2>1. j - 1 \in 1 .. Len(q) - 1 /\ (j - 1) + 1 = j
    BY <1>1, <1>4
  <2> QED
    BY <1>1, <2>1
<1>5. Head(q) \in Elements(q) /\ \A j \in Elements(q) : Head(q) <= j
  <2>1. Head(q) \in Elements(q)
    BY <1>1, <1>2 DEF Elements
  <2>2. ASSUME NEW i \in DOMAIN q PROVE Head(q) <= q[i]
    <3>1. q[1] \in Nat /\ q[i] \in Nat /\ Head(q) = q[1]
      BY <1>1
    <3>2. CASE i = 1
      BY <3>1, <3>2
    <3>3. CASE i # 1
      BY <1>2, <3>1, <3>3
    <3> QED
      BY <3>2, <3>3
  <2> QED
    BY <2>1, <2>2 DEF Elements
<1>6. Elements(rest) = Elements(q) \ {Head(q)}
  <2>1. Elements(rest) \subseteq Elements(q) \ {Head(q)}
    BY <1>1, <1>2, <1>3 DEF Elements
  <2>2. ASSUME NEW j \in DOMAIN q, q[j] # Head(q) PROVE q[j] \in Elements(rest)
    BY <1>1, <1>4, <2>2 DEF Elements
  <2> QED
    BY <2>1, <2>2 DEF Elements
<1>7. Ordered(rest)
  BY <1>1, <1>3 DEF Ordered
<1>8. \A i \in DOMAIN rest : Head(q) < rest[i] /\ \E j \in DOMAIN q : rest[i] = q[j]
  BY <1>1, <1>2, <1>3
<1> QED
  BY <1>5, <1>6, <1>7, <1>8 DEF rest

LEMMA ReplayIsRest ==
  ASSUME TypeOK, NEW r \in RunID, NEW i \in 0 .. MaxEvents
  PROVE  /\ Elements(Replay(r, i)) = (i + 1) .. events[r]
         /\ Ordered(Replay(r, i))
         /\ \A n \in DOMAIN Replay(r, i) : Replay(r, i)[n] > 0 /\ Replay(r, i)[n] <= events[r]
<1>1. events[r] \in 0 .. MaxEvents /\ i \in Nat
  BY DEF TypeOK
<1> DEFINE n == IF i < events[r] THEN events[r] - i ELSE 0
<1>2. n \in Nat /\ (i < events[r] => n = events[r] - i) /\ (~(i < events[r]) => n = 0)
  BY <1>1
<1> HIDE DEF n
<1>3. /\ DOMAIN Replay(r, i) = 1 .. n /\ \A m \in 1 .. n : Replay(r, i)[m] = i + m
  BY DEF Replay, n
<1>4. \A m \in 1 .. n : i + m \in (i + 1) .. events[r]
  BY <1>1, <1>2
<1>5. \A x \in (i + 1) .. events[r] : x - i \in 1 .. n /\ i + (x - i) = x
  BY <1>1, <1>2
<1>6. Elements(Replay(r, i)) = (i + 1) .. events[r]
  BY <1>3, <1>4, <1>5 DEF Elements
<1>7. Ordered(Replay(r, i))
  BY <1>1, <1>2, <1>3 DEF Ordered
<1>8. \A m \in DOMAIN Replay(r, i) : Replay(r, i)[m] > 0 /\ Replay(r, i)[m] <= events[r]
  BY <1>1, <1>2, <1>3, <1>4
<1> QED
  BY <1>6, <1>7, <1>8

\* A step that leaves a session, its run's end and its place alone.
LEMMA SessionStays ==
  ASSUME NEW c \in Client, Session(c),
         UNCHANGED <<conn[c], last[c], target[c], closed[c], room[c], chan[c]>>,
         \A r \in RunID : (Done(r)' <=> Done(r)) /\ events[r] <= events'[r]
                          /\ (c \in subs[r] => c \in subs'[r]),
         TypeOK, TypeOK'
  PROVE  Session(c)'
<1>1. /\ conn'[c] = conn[c] /\ last'[c] = last[c] /\ target'[c] = target[c]
      /\ closed'[c] = closed[c] /\ room'[c] = room[c] /\ chan'[c] = chan[c]
  OBVIOUS
<1>2. CASE conn[c] = "open"
  <2>1. /\ target[c] \in RunID /\ closed[c] = Done(target[c])
        /\ ~Done(target[c]) => c \in subs[target[c]]
        /\ room[c] >= Headroom /\ Ordered(chan[c])
        /\ \A i \in DOMAIN chan[c] : last[c] < chan[c][i] /\ chan[c][i] <= events[target[c]]
    BY <1>2 DEF Session
  <2>9. last[c] <= events[target[c]]
    BY <1>2 DEF Session
  <2>2. (Done(target[c])' <=> Done(target[c])) /\ Done(target[c]) \in BOOLEAN
        /\ Done(target[c])' \in BOOLEAN
    BY <1>1, <2>1 DEF Done
  <2>3. /\ events[target[c]] \in Nat /\ events'[target[c]] \in Nat
        /\ events[target[c]] <= events'[target[c]]
    BY <2>1 DEF TypeOK
  <2>4. \A i \in DOMAIN chan[c] : chan[c][i] \in Nat
    BY DEF TypeOK
  <2>5. \A i \in DOMAIN chan[c] : chan[c][i] <= events'[target[c]]
    BY <2>1, <2>3, <2>4
  <2>10. last'[c] <= events'[target'[c]]
    <3>1. last[c] \in Nat
      BY DEF TypeOK
    <3> QED
      BY <1>1, <2>3, <2>9, <3>1
  <2>6. Ordered(chan[c])' /\ conn'[c] = "open"
    BY <1>1, <1>2, <2>1 DEF Ordered
  <2>7. closed'[c] = Done(target[c])'
    BY <1>1, <2>1, <2>2
  <2>8. ~Done(target[c])' => c \in subs'[target'[c]]
    BY <1>1, <2>1, <2>2
  <2> QED
    BY <1>1, <2>1, <2>5, <2>6, <2>7, <2>8, <2>10 DEF Session
<1>3. CASE conn[c] # "open"
  BY <1>1, <1>3 DEF Session
<1> QED
  BY <1>2, <1>3

\* A session is offered the event that its run emits, and still is one.
LEMMA EmitKeepsSessions ==
  ASSUME TypeOK, TypeOK', SubInv, StreamInv, NEW r \in RunID, Emit(r), NEW c \in Client
  PROVE  Session(c)'
<1>1. UNCHANGED <<phase, conn, last, target, closed, room, subs>>
  BY DEF Emit
<1>2. /\ events' = [events EXCEPT ![r] = events[r] + 1] /\ events[r] < MaxEvents
      /\ events \in [RunID -> 0 .. MaxEvents] /\ MaxEvents \in Nat
  BY BoundsAssumption DEF Emit, TypeOK
<1>3. events[r] \in Nat /\ events[r] + 1 \in 1 .. MaxEvents /\ events'[r] = events[r] + 1
  BY <1>2
<1>4. \A q \in RunID : (Done(q)' <=> Done(q)) /\ events[q] <= events'[q]
  <2>1. \A q \in RunID : Done(q)' <=> Done(q)
    BY <1>1 DEF Done
  <2>2. ASSUME NEW q \in RunID PROVE events[q] <= events'[q]
    BY <1>2, <1>3
  <2> QED
    BY <2>1, <2>2
<1>5. Session(c)
  BY DEF StreamInv
<1>6. CASE chan'[c] = chan[c]
  BY <1>1, <1>4, <1>5, <1>6, SessionStays
<1>7. CASE chan'[c] # chan[c]
  <2>1. chan'[c] = Append(chan[c], events[r] + 1) /\ c \in subs[r]
    BY <1>7 DEF Emit, Offer
  <2>2. target[c] = r /\ conn[c] # "idle"
    BY <2>1 DEF SubInv, SubscribersOpen
  <2>3. CASE conn[c] = "open"
    <3>1. /\ closed[c] = Done(r)
          /\ room[c] >= Headroom /\ Ordered(chan[c]) /\ last[c] <= events[r]
          /\ \A i \in DOMAIN chan[c] : last[c] < chan[c][i] /\ chan[c][i] <= events[r]
      BY <1>5, <2>2, <2>3 DEF Session
    <3>2. chan[c] \in Seq(1 .. MaxEvents) /\ last[c] \in Nat
      BY DEF TypeOK
    <3>3. \A i \in DOMAIN chan[c] : chan[c][i] \in Nat
      BY <3>2
    <3>4. \A i \in DOMAIN chan[c] : chan[c][i] < events[r] + 1
      BY <1>3, <3>1, <3>3
    <3>5. /\ Ordered(Append(chan[c], events[r] + 1))
          /\ DOMAIN chan'[c] = DOMAIN chan[c] \cup {Len(chan[c]) + 1}
          /\ chan'[c][Len(chan[c]) + 1] = events[r] + 1
          /\ \A i \in DOMAIN chan[c] : chan'[c][i] = chan[c][i]
      <4>1. events[r] + 1 \in 1 .. MaxEvents /\ chan[c] \in Seq(1 .. MaxEvents)
            /\ Ordered(chan[c])
        BY <1>3, <3>1, <3>2
      <4> QED
        BY <2>1, <3>4, <4>1, OfferAdds
    <3>6. last[c] < events[r] + 1 /\ last[c] <= events[r] + 1
      BY <1>3, <3>1, <3>2
    <3>7. ASSUME NEW i \in DOMAIN chan'[c]
          PROVE  last[c] < chan'[c][i] /\ chan'[c][i] <= events'[r]
      BY <1>3, <3>1, <3>3, <3>4, <3>5, <3>6
    <3>8. Ordered(chan[c])'
      BY <2>1, <3>5 DEF Ordered
    <3>9. Done(r)' <=> Done(r)
      BY <1>4
    <3>10. closed'[c] = Done(r)'
      BY <1>1, <3>1, <3>9 DEF Done
    <3>11. /\ conn'[c] = "open" /\ target'[c] = r /\ c \in subs'[r]
           /\ room'[c] >= Headroom /\ last'[c] = last[c]
      BY <1>1, <2>1, <2>2, <2>3, <3>1
    <3> QED
      BY <1>3, <3>6, <3>7, <3>8, <3>10, <3>11 DEF Session
  <2>4. CASE conn[c] # "open"
    BY <1>1, <2>2, <2>4 DEF Session
  <2> QED
    BY <2>3, <2>4
<1> QED
  BY <1>6, <1>7
\* The steps that neither end a run nor concern a client.
LEMMA QuietSteps ==
  ASSUME TypeOK, RunInv,
         \/ \E k \in Key : Start(k)
         \/ \E r \in RunID : FinishNotify(r) \/ Cleanup(r)
         \/ CancelAll \/ WatchNext \/ UNCHANGED vars
  PROVE  UNCHANGED <<events, clientVars>> /\ \A q \in RunID : Done(q)' <=> Done(q)
<1>1. UNCHANGED <<events, clientVars>>
  BY WatchersOnlyWatch DEF Start, FinishNotify, Cleanup, CancelAll, vars, runVars
<1>2. \A q \in RunID : Done(q)' <=> Done(q)
  <2>1. ASSUME NEW k \in Key, Start(k) PROVE \A q \in RunID : Done(q)' <=> Done(q)
    <3>1. /\ phase' = [phase EXCEPT ![nextID + 1] = "running"]
          /\ nextID + 1 \in RunID /\ phase[nextID + 1] = "none"
      BY <2>1 DEF Start, TypeOK, RunInv, RunsOrdered
    <3> QED
      BY <3>1 DEF TypeOK, Done
  <2>2. ASSUME NEW r \in RunID, FinishNotify(r) \/ Cleanup(r)
        PROVE  \A q \in RunID : Done(q)' <=> Done(q)
    BY <2>2 DEF FinishNotify, Cleanup, TypeOK, Done
  <2>3. ASSUME CancelAll \/ WatchNext \/ UNCHANGED vars
        PROVE  \A q \in RunID : Done(q)' <=> Done(q)
    BY <2>3, WatchersOnlyWatch DEF CancelAll, vars, runVars, Done
  <2> QED
    BY <2>1, <2>2, <2>3
<1> QED
  BY <1>1, <1>2

\* They leave the sessions as they are.
LEMMA RunsKeepSessions ==
  ASSUME TypeOK, TypeOK', RunInv, StreamInv,
         \/ \E k \in Key : Start(k)
         \/ \E r \in RunID : FinishNotify(r) \/ Cleanup(r)
         \/ CancelAll \/ WatchNext \/ UNCHANGED vars
  PROVE  StreamInv'
<1>1. UNCHANGED <<events, clientVars>>
  BY QuietSteps
<1>2. \A q \in RunID : Done(q)' <=> Done(q)
  BY QuietSteps
<1>3. ASSUME NEW c \in Client PROVE Session(c)'
  <2>1. UNCHANGED <<conn[c], last[c], target[c], closed[c], room[c], chan[c]>>
    BY <1>1 DEF clientVars
  <2>2. \A q \in RunID : events[q] <= events'[q] /\ (c \in subs[q] => c \in subs'[q])
    BY <1>1 DEF clientVars, TypeOK
  <2>3. Session(c)
    BY DEF StreamInv
  <2> QED
    BY <1>2, <2>1, <2>2, <2>3, SessionStays
<1> QED
  BY <1>3 DEF StreamInv

\* Finish closes the channel of every session on its run.
LEMMA FinishKeepsSessions ==
  ASSUME TypeOK, TypeOK', SubInv, StreamInv, NEW r \in RunID, FinishClose(r), NEW c \in Client
  PROVE  Session(c)'
<1>1. /\ UNCHANGED <<conn, last, target, room, chan, events>>
      /\ phase' = [phase EXCEPT ![r] = "closed"]
      /\ subs' = [subs EXCEPT ![r] = {}]
      /\ closed'[c] = (closed[c] \/ c \in subs[r])
      /\ ~Done(r)
  BY DEF FinishClose, Live, Done
<1>2. Session(c)
  BY DEF StreamInv
<1>3. Done(r)' /\ \A q \in RunID \ {r} : /\ Done(q)' <=> Done(q)
                                         /\ subs'[q] = subs[q]
  BY <1>1 DEF TypeOK, Done
<1>4. CASE conn[c] = "open" /\ target[c] = r
  <2>1. closed[c] = Done(r) /\ (~Done(r) => c \in subs[r])
    BY <1>2, <1>4 DEF Session
  <2>2. closed'[c] = TRUE
    BY <1>1, <2>1
  <2>3. closed'[c] = Done(target[c])'
    BY <1>1, <1>3, <1>4, <2>2 DEF Done
  <2>4. ~Done(target[c])' => c \in subs'[target'[c]]
    BY <1>1, <1>3, <1>4
  <2> QED
    BY <1>1, <1>2, <1>4, <2>3, <2>4 DEF Session, Ordered
<1>5. CASE conn[c] = "open" /\ target[c] # r
  <2>1. /\ closed[c] = Done(target[c]) /\ target[c] \in RunID \ {r}
        /\ ~Done(target[c]) => c \in subs[target[c]]
    BY <1>2, <1>5 DEF Session
  <2>2. c \notin subs[r]
    BY <1>5 DEF SubInv, SubscribersOpen
  <2>3. closed'[c] = closed[c]
    BY <1>1, <2>2 DEF TypeOK
  <2>4. closed'[c] = Done(target[c])'
    BY <1>1, <1>3, <2>1, <2>3 DEF Done
  <2>5. ~Done(target[c])' => c \in subs'[target'[c]]
    BY <1>1, <1>3, <2>1
  <2> QED
    BY <1>1, <1>2, <1>5, <2>4, <2>5 DEF Session, Ordered
<1>6. CASE conn[c] # "open"
  BY <1>1, <1>2, <1>6 DEF Session
<1> QED
  BY <1>4, <1>5, <1>6

\* A session opens with the rest of its run's events.
LEMMA SubscribeOpensSession ==
  ASSUME TypeOK, TypeOK', StreamInv, NEW c \in Client, NEW i \in 0 .. MaxEvents,
         Subscribe(c, i)
  PROVE  Session(c)'
<1> DEFINE r == target[c]
<1>1. r \in RunID /\ last[c] = 0
  BY DEF Subscribe, TypeOK, StreamInv, Session
<1>2. /\ UNCHANGED <<runVars, target, last>>
      /\ conn'[c] = "open" /\ chan'[c] = Replay(r, i)
      /\ room'[c] = Len(Replay(r, i)) + Headroom /\ closed'[c] = Done(r)
      /\ subs' = IF Done(r) THEN subs ELSE [subs EXCEPT ![r] = @ \cup {c}]
  BY DEF Subscribe, TypeOK
<1>3. Done(r)' = Done(r) /\ events'[r] = events[r] /\ target'[c] = r /\ last'[c] = 0
  BY <1>1, <1>2 DEF runVars, Done
<1>4. ~Done(r) => c \in subs'[r]
  BY <1>1, <1>2 DEF TypeOK
<1>5. Len(Replay(r, i)) \in Nat
  BY <1>1, ReplayType
<1>6. room'[c] >= Headroom
  BY <1>2, <1>5
<1>7. events[r] \in Nat
  BY <1>1 DEF TypeOK
<1>8. /\ Ordered(Replay(r, i))
      /\ \A n \in DOMAIN Replay(r, i) : Replay(r, i)[n] > 0 /\ Replay(r, i)[n] <= events[r]
  BY <1>1, ReplayIsRest
<1>9. Ordered(chan[c])'
  BY <1>2, <1>8 DEF Ordered
<1>10. \A n \in DOMAIN chan'[c] : 0 < chan'[c][n] /\ chan'[c][n] <= events[r]
  <2>0. Replay(r, i) \in Seq(1 .. MaxEvents)
    BY <1>1, ReplayType
  <2>1. \A n \in DOMAIN Replay(r, i) : Replay(r, i)[n] \in Nat
    BY <2>0
  <2> QED
    BY <1>2, <1>8, <2>1
<1>11. 0 <= events[r]
  BY <1>7
<1>12. closed'[c] = Done(target[c])'
  BY <1>2, <1>3 DEF Done
<1>13. ~Done(target[c])' => c \in subs'[target'[c]]
  BY <1>3, <1>4 DEF Done
<1>14. /\ target'[c] \in RunID /\ last'[c] <= events'[target'[c]]
       /\ \A n \in DOMAIN chan'[c] :
            last'[c] < chan'[c][n] /\ chan'[c][n] <= events'[target'[c]]
  BY <1>1, <1>3, <1>10, <1>11
<1> QED
  BY <1>2, <1>6, <1>9, <1>12, <1>13, <1>14 DEF Session
\* The oldest event that waits leaves the channel.
LEMMA ReceiveKeepsSession ==
  ASSUME TypeOK, TypeOK', StreamInv, NEW c \in Client, Receive(c)
  PROVE  Session(c)'
<1>1. /\ UNCHANGED <<runVars, subs, conn, target, room, closed>>
      /\ last'[c] = Head(chan[c]) /\ chan'[c] = Tail(chan[c])
      /\ conn[c] = "open" /\ chan[c] # <<>>
  BY DEF Receive, TypeOK
<1>2. /\ target[c] \in RunID /\ closed[c] = Done(target[c])
      /\ ~Done(target[c]) => c \in subs[target[c]]
      /\ room[c] >= Headroom /\ Ordered(chan[c])
      /\ \A i \in DOMAIN chan[c] : chan[c][i] <= events[target[c]]
  BY <1>1 DEF StreamInv, Session
<1>3. chan[c] \in Seq(1 .. MaxEvents)
  BY DEF TypeOK
<1>4. /\ Head(chan[c]) \in Elements(chan[c]) /\ Ordered(Tail(chan[c]))
      /\ \A i \in DOMAIN Tail(chan[c]) :
           /\ Head(chan[c]) < Tail(chan[c])[i]
           /\ \E j \in DOMAIN chan[c] : Tail(chan[c])[i] = chan[c][j]
  BY <1>1, <1>2, <1>3, HeadIsFirst
<1>5. Head(chan[c]) <= events[target[c]]
  BY <1>2, <1>4 DEF Elements
<1>6. \A i \in DOMAIN Tail(chan[c]) : Tail(chan[c])[i] <= events[target[c]]
  BY <1>2, <1>4
<1>7. closed'[c] = Done(target[c])'
  BY <1>1, <1>2 DEF Done, runVars
<1>8. ~Done(target[c])' => c \in subs'[target'[c]]
  BY <1>1, <1>2 DEF Done, runVars
<1>9. Ordered(chan[c])'
  BY <1>1, <1>4 DEF Ordered
<1>10. /\ conn'[c] = "open" /\ target'[c] \in RunID /\ room'[c] >= Headroom
       /\ last'[c] <= events'[target'[c]]
  BY <1>1, <1>2, <1>5 DEF runVars
<1>11. \A i \in DOMAIN chan'[c] :
         last'[c] < chan'[c][i] /\ chan'[c][i] <= events'[target'[c]]
  BY <1>1, <1>4, <1>6 DEF runVars
<1> QED
  BY <1>7, <1>8, <1>9, <1>10, <1>11 DEF Session

\* A client that is not the one that steps keeps its session.
LEMMA OthersKeepSessions ==
  ASSUME TypeOK, TypeOK', SubInv, StreamInv, NEW c \in Client, NEW d \in Client \ {c},
         \/ \E r \in RunID : Lookup(c, r)
         \/ \E i \in 0 .. MaxEvents : Subscribe(c, i)
         \/ Receive(c) \/ Eof(c) \/ Disconnect(c) \/ Abandon(c)
  PROVE  Session(d)'
<1>1. UNCHANGED runVars
  BY ClientsOnlyRead DEF ClientNext
<1>2. UNCHANGED <<conn[d], last[d], target[d], closed[d], room[d], chan[d]>>
  <2>1. ASSUME NEW r \in RunID, Lookup(c, r)
        PROVE  UNCHANGED <<conn[d], last[d], target[d], closed[d], room[d], chan[d]>>
    BY <2>1 DEF Lookup, TypeOK
  <2>2. ASSUME NEW i \in 0 .. MaxEvents, Subscribe(c, i)
        PROVE  UNCHANGED <<conn[d], last[d], target[d], closed[d], room[d], chan[d]>>
    BY <2>2 DEF Subscribe, TypeOK
  <2>3. ASSUME Receive(c) \/ Abandon(c)
        PROVE  UNCHANGED <<conn[d], last[d], target[d], closed[d], room[d], chan[d]>>
    BY <2>3 DEF Receive, Abandon, TypeOK
  <2>4. ASSUME NEW how, EndSession(c, how)
        PROVE  UNCHANGED <<conn[d], last[d], target[d], closed[d], room[d], chan[d]>>
    BY <2>4 DEF EndSession, TypeOK
  <2> QED
    BY <2>1, <2>2, <2>3, <2>4 DEF Eof, Disconnect
<1>3. \A q \in RunID : d \in subs[q] => d \in subs'[q]
  <2>1. ASSUME NEW i \in 0 .. MaxEvents, Subscribe(c, i), NEW q \in RunID, d \in subs[q]
        PROVE  d \in subs'[q]
    BY <2>1 DEF Subscribe, TypeOK
  <2>2. ASSUME NEW how, EndSession(c, how), NEW q \in RunID, d \in subs[q]
        PROVE  d \in subs'[q]
    BY <2>2 DEF EndSession, TypeOK
  <2> QED
    BY <2>1, <2>2 DEF Lookup, Receive, Eof, Disconnect, Abandon
<1>4. \A q \in RunID : (Done(q)' <=> Done(q)) /\ events[q] <= events'[q]
  BY <1>1 DEF runVars, Done, TypeOK
<1>5. Session(d)
  BY DEF StreamInv
<1> QED
  BY <1>2, <1>3, <1>4, <1>5, SessionStays

LEMMA SessionStep ==
  ASSUME TypeOK, TypeOK', RunInv, SubInv, StreamInv, [Next]_vars
  PROVE  StreamInv'
<1>1. ASSUME NEW r \in RunID, Emit(r) \/ FinishClose(r) PROVE StreamInv'
  BY <1>1, EmitKeepsSessions, FinishKeepsSessions DEF StreamInv
<1>2. ASSUME NEW c \in Client, NEW r \in RunID, Lookup(c, r) PROVE StreamInv'
  <2>1. conn[c] = "idle" /\ UNCHANGED <<conn, last>>
    BY <1>2 DEF Lookup
  <2>2. Session(c)'
    BY <2>1 DEF StreamInv, Session
  <2> QED
    BY <1>2, <2>2, OthersKeepSessions DEF StreamInv
<1>3. ASSUME NEW c \in Client, NEW i \in 0 .. MaxEvents, Subscribe(c, i) PROVE StreamInv'
  BY <1>3, SubscribeOpensSession, OthersKeepSessions DEF StreamInv
<1>4. ASSUME NEW c \in Client, Receive(c) PROVE StreamInv'
  BY <1>4, ReceiveKeepsSession, OthersKeepSessions DEF StreamInv
<1>5. ASSUME NEW c \in Client, Eof(c) \/ Disconnect(c) \/ Abandon(c) PROVE StreamInv'
  <2>1. conn'[c] \in {"eof", "left", "abandoned"}
    BY <1>5 DEF Eof, Disconnect, EndSession, Abandon, TypeOK
  <2>2. Session(c)'
    BY <2>1 DEF Session
  <2> QED
    BY <1>5, <2>2, OthersKeepSessions DEF StreamInv
<1> QED
  BY <1>1, <1>2, <1>3, <1>4, <1>5, RunsKeepSessions, StepCases
LEMMA SessionsInvariant == Spec => [](SubInv /\ StreamInv)
<1>1. Init => SubInv /\ StreamInv
  BY DEF Init, SubInv, HeldRunsStarted, SubscribersOpen, StreamInv, Session
<1>2. ASSUME TypeOK, TypeOK', RunInv, SubInv, StreamInv, [Next]_vars
      PROVE  SubInv' /\ StreamInv'
  BY <1>2, SubStep, SessionStep
<1> QED
  BY <1>1, <1>2, TypeCorrect, RunsInvariant, PTL DEF Spec

(***************************************************************************)
(* The steps of the manager as steps of the promise.                       *)
(***************************************************************************)

\* What the promise calls owed.
Owed(c) == IF conn[c] = "open" THEN Elements(chan[c]) ELSE {}

\* What it calls status.
Shown(c) == IF conn[c] = "abandoned" THEN "left" ELSE conn[c]

\* The promise's instance of FiniteSets counts as this one does.
LEMMA SameCount == \A S : Promise!Cardinality(S) = Cardinality(S)
BY DEF Cardinality, Promise!Cardinality

\* Emit owes its event to the followers of the run, except those whose channel
\* is full; and a full channel has Headroom events or more.
LEMMA EmitAppends ==
  ASSUME TypeOK, SubInv, StreamInv, NEW r \in RunID, Emit(r)
  PROVE  Promise!PAppend(r)
<1> DEFINE full == {c \in Client : /\ conn[c] = "open" /\ target[c] = r
                                   /\ Len(chan[c]) >= room[c]}
           n == events[r] + 1
<1>1. /\ UNCHANGED <<phase, conn, last, target, from>>
      /\ events' = [events EXCEPT ![r] = n]
      /\ n \in 1 .. MaxEvents
      /\ chan' = [c \in Client |-> IF c \in subs[r] THEN Offer(chan[c], room[c], n)
                                                    ELSE chan[c]]
  BY DEF Emit, TypeOK
<1>2. \A q \in RunID : Done(q)' <=> Done(q)
  BY <1>1 DEF Done
<1>3. ASSUME NEW c \in full PROVE Cardinality(Owed(c)) >= Headroom
  <2>1. /\ Ordered(chan[c]) /\ room[c] >= Headroom
        /\ conn[c] = "open" /\ Len(chan[c]) >= room[c]
    BY <1>3 DEF StreamInv, Session
  <2>2. chan[c] \in Seq(1 .. MaxEvents) /\ room[c] \in Nat
    BY <1>3 DEF TypeOK
  <2>3. Len(chan[c]) \in Nat /\ Cardinality(Owed(c)) = Len(chan[c])
    BY <2>1, <2>2, OrderedCount DEF Owed
  <2> QED
    BY <2>1, <2>2, <2>3
<1>4. ASSUME NEW c \in Client
      PROVE  Owed(c)' = IF ~Done(r) /\ conn[c] = "open" /\ target[c] = r /\ c \notin full
                          THEN Owed(c) \cup {n} ELSE Owed(c)
  <2>1. CASE conn[c] # "open"
    BY <1>1, <2>1 DEF Owed
  <2>2. CASE conn[c] = "open" /\ c \notin subs[r]
    <3>1. chan'[c] = chan[c] /\ conn'[c] = "open"
      BY <1>1, <2>2
    <3>2. target[c] # r \/ Done(r)
      BY <2>2 DEF StreamInv, Session
    <3> QED
      BY <2>2, <3>1, <3>2 DEF Owed, Elements
  <2>3. CASE conn[c] = "open" /\ c \in subs[r]
    <3>1. target[c] = r /\ ~Done(r)
      BY <2>3 DEF SubInv, SubscribersOpen, Live, Done
    <3>2. /\ chan[c] \in Seq(1 .. MaxEvents) /\ room[c] \in Nat /\ conn'[c] = "open"
          /\ chan'[c] = Offer(chan[c], room[c], n)
      BY <1>1, <2>3 DEF TypeOK
    <3>3. Len(chan[c]) \in Nat
      BY <3>2
    <3>4. CASE Len(chan[c]) < room[c]
      <4>1. c \notin full
        BY <3>2, <3>3, <3>4
      <4>2. Elements(Append(chan[c], n)) = Elements(chan[c]) \cup {n}
        BY <1>1, <3>2, OfferAdds
      <4>3. Owed(c)' = Elements(Append(chan[c], n))
        BY <3>2, <3>4 DEF Owed, Offer, Elements
      <4> QED
        BY <2>3, <3>1, <4>1, <4>2, <4>3 DEF Owed
    <3>5. CASE ~(Len(chan[c]) < room[c])
      <4>1. c \in full
        BY <2>3, <3>1, <3>2, <3>3, <3>5
      <4>2. Owed(c)' = Owed(c)
        BY <2>3, <3>2, <3>5 DEF Owed, Offer, Elements
      <4> QED
        BY <4>1, <4>2
    <3> QED
      BY <3>4, <3>5
  <2> QED
    BY <2>1, <2>2, <2>3
<1> HIDE DEF full
<1>5. full \subseteq {c \in Client : conn[c] = "open" /\ target[c] = r}
  BY DEF full
<1>6. full \in SUBSET {c \in Promise!Followers(r) :
                         Promise!Cardinality([d \in Client |-> Owed(d)][c]) >= Headroom}
  BY <1>3, <1>5, SameCount DEF Promise!Followers
<1>7. [c \in Client |-> Owed(c)]'
        = [c \in Client |->
             IF r \notin {q \in RunID : Done(q)} /\ c \in Promise!Followers(r) \ full
               THEN [d \in Client |-> Owed(d)][c] \cup {n}
               ELSE [d \in Client |-> Owed(d)][c]]
  BY <1>4 DEF Promise!Followers
<1>8. UNCHANGED {q \in RunID : Done(q)}
  BY <1>2
<1>9. \E skip \in SUBSET {c \in Promise!Followers(r) :
                           Promise!Cardinality([d \in Client |-> Owed(d)][c]) >= Headroom} :
        [c \in Client |-> Owed(c)]'
          = [c \in Client |->
               IF r \notin {q \in RunID : Done(q)} /\ c \in Promise!Followers(r) \ skip
                 THEN [d \in Client |-> Owed(d)][c] \cup {n}
                 ELSE [d \in Client |-> Owed(d)][c]]
  BY <1>6, <1>7
<1>10. UNCHANGED <<[c \in Client |-> IF conn[c] = "abandoned" THEN "left" ELSE conn[c]],
                   [c \in Client |-> IF conn[c] = "open" THEN target[c] ELSE NoRun],
                   [c \in Client |-> IF conn[c] = "open" THEN last[c] ELSE 0],
                   [c \in Client |-> IF conn[c] = "open" THEN from[c] ELSE 0]>>
  BY <1>1
<1>11. events' = [events EXCEPT ![r] = events[r] + 1]
  BY <1>1
<1> QED
  BY <1>8, <1>9, <1>10, <1>11 DEF Promise!PAppend, Owed
\* Finish ends the run.
LEMMA FinishEnds ==
  ASSUME TypeOK, NEW r \in RunID, FinishClose(r)
  PROVE  Promise!PEnd(r)
<1>1. /\ UNCHANGED <<events, conn, target, chan, last, from>>
      /\ phase' = [phase EXCEPT ![r] = "closed"] /\ ~Done(r)
  BY DEF FinishClose, Live, Done
<1>2. {q \in RunID : Done(q)}' = {q \in RunID : Done(q)} \cup {r}
  BY <1>1 DEF TypeOK, Done
<1>3. r \notin {q \in RunID : Done(q)}
  BY <1>1
<1>4. UNCHANGED [c \in Client |-> Owed(c)]
  BY <1>1 DEF Owed, Elements
<1> QED
  BY <1>1, <1>2, <1>3, <1>4 DEF Promise!PEnd, Owed

\* Subscribe opens a reader that is owed the rest of the log.
LEMMA SubscribeOpens ==
  ASSUME TypeOK, StreamInv, NEW c \in Client, NEW i \in 0 .. MaxEvents, Subscribe(c, i)
  PROVE  Promise!POpen(c, target[c], i) /\ target[c] \in RunID
<1> DEFINE r == target[c]
<1>1. r \in RunID /\ last[c] = 0 /\ conn[c] = "idle"
  BY DEF Subscribe, TypeOK, StreamInv, Session
<1>2. /\ UNCHANGED <<events, phase, target, last>>
      /\ conn' = [conn EXCEPT ![c] = "open"] /\ from' = [from EXCEPT ![c] = i]
      /\ chan' = [chan EXCEPT ![c] = Replay(r, i)]
  BY DEF Subscribe, runVars
<1>3. Elements(Replay(r, i)) = (i + 1) .. events[r]
  BY <1>1, ReplayIsRest
<1> HIDE DEF r
<1>4. [d \in Client |-> Owed(d)]'
        = [[d \in Client |-> Owed(d)] EXCEPT ![c] = (i + 1) .. events[r]]
  <2>1. Owed(c)' = (i + 1) .. events[r]
    BY <1>2, <1>3 DEF TypeOK, Owed, Elements
  <2>2. ASSUME NEW d \in Client, d # c PROVE Owed(d)' = Owed(d)
    BY <1>2, <2>2 DEF TypeOK, Owed, Elements
  <2> QED
    BY <2>1, <2>2
<1>5. [d \in Client |-> IF conn[d] = "abandoned" THEN "left" ELSE conn[d]]'
        = [[d \in Client |-> IF conn[d] = "abandoned" THEN "left" ELSE conn[d]]
             EXCEPT ![c] = "open"]
  BY <1>2 DEF TypeOK
<1>6. [d \in Client |-> IF conn[d] = "open" THEN target[d] ELSE NoRun]'
        = [[d \in Client |-> IF conn[d] = "open" THEN target[d] ELSE NoRun]
             EXCEPT ![c] = r]
  BY <1>2 DEF TypeOK, r
<1>7. [d \in Client |-> IF conn[d] = "open" THEN from[d] ELSE 0]'
        = [[d \in Client |-> IF conn[d] = "open" THEN from[d] ELSE 0] EXCEPT ![c] = i]
  BY <1>2 DEF TypeOK
<1>8. UNCHANGED [d \in Client |-> IF conn[d] = "open" THEN last[d] ELSE 0]
  BY <1>1, <1>2 DEF TypeOK
<1>9. UNCHANGED {q \in RunID : Done(q)}
  BY <1>2 DEF Done
<1>10. [d \in Client |-> IF conn[d] = "abandoned" THEN "left" ELSE conn[d]][c] = "idle"
  BY <1>1
<1>11. Promise!POpen(c, r, i)
  BY <1>2, <1>4, <1>5, <1>6, <1>7, <1>8, <1>9, <1>10 DEF Promise!POpen, Owed
<1> QED
  BY <1>1, <1>11 DEF r

\* Receive delivers the oldest event owed.
LEMMA ReceiveDelivers ==
  ASSUME TypeOK, StreamInv, NEW c \in Client, Receive(c)
  PROVE  Promise!PDeliver(c)
<1> DEFINE e == Head(chan[c])
<1>1. /\ UNCHANGED <<events, phase, conn, target, from>>
      /\ last' = [last EXCEPT ![c] = e]
      /\ chan' = [chan EXCEPT ![c] = Tail(chan[c])]
      /\ conn[c] = "open" /\ chan[c] # <<>>
  BY DEF Receive, runVars
<1>2. /\ Ordered(chan[c]) /\ \A i \in DOMAIN chan[c] : last[c] < chan[c][i]
  BY <1>1 DEF StreamInv, Session
<1>3. chan[c] \in Seq(1 .. MaxEvents)
  BY DEF TypeOK
<1>4. /\ e \in Elements(chan[c]) /\ \A j \in Elements(chan[c]) : e <= j
      /\ Elements(Tail(chan[c])) = Elements(chan[c]) \ {e}
  BY <1>1, <1>2, <1>3, HeadIsFirst
<1> HIDE DEF e
<1>5. last[c] < e
  BY <1>2, <1>4 DEF Elements
<1>6. [d \in Client |-> Owed(d)]'
        = [[d \in Client |-> Owed(d)] EXCEPT ![c] = [d \in Client |-> Owed(d)][c] \ {e}]
  <2>1. Owed(c)' = Owed(c) \ {e}
    <3>1. chan'[c] = Tail(chan[c]) /\ conn'[c] = "open"
      BY <1>1 DEF TypeOK
    <3>2. Owed(c)' = Elements(Tail(chan[c]))
      BY <3>1 DEF Owed, Elements
    <3> QED
      BY <1>1, <1>4, <3>2 DEF Owed
  <2>2. ASSUME NEW d \in Client, d # c PROVE Owed(d)' = Owed(d)
    BY <1>1, <2>2 DEF TypeOK, Owed, Elements
  <2> QED
    BY <2>1, <2>2
<1>7. [d \in Client |-> IF conn[d] = "open" THEN last[d] ELSE 0]'
        = [[d \in Client |-> IF conn[d] = "open" THEN last[d] ELSE 0] EXCEPT ![c] = e]
  BY <1>1 DEF TypeOK
<1>8. UNCHANGED <<{q \in RunID : Done(q)},
                  [d \in Client |-> IF conn[d] = "abandoned" THEN "left" ELSE conn[d]],
                  [d \in Client |-> IF conn[d] = "open" THEN target[d] ELSE NoRun],
                  [d \in Client |-> IF conn[d] = "open" THEN from[d] ELSE 0]>>
  BY <1>1 DEF Done
<1>9. /\ e \in [d \in Client |-> Owed(d)][c]
      /\ \A j \in [d \in Client |-> Owed(d)][c] : e <= j
      /\ [d \in Client |-> IF conn[d] = "open" THEN last[d] ELSE 0][c] < e
  BY <1>1, <1>4, <1>5 DEF Owed
<1> QED
  BY <1>1, <1>6, <1>7, <1>8, <1>9 DEF Promise!PDeliver, Owed

\* What the end of an open session changes in the promise's variables.
LEMMA SessionLeaves ==
  ASSUME TypeOK, NEW c \in Client, conn[c] = "open", NEW how \in {"eof", "left", "abandoned"},
         conn' = [conn EXCEPT ![c] = how],
         UNCHANGED <<events, phase>>,
         \A d \in Client \ {c} : UNCHANGED <<target[d], chan[d], last[d], from[d]>>
  PROVE  /\ [d \in Client |-> IF conn[d] = "abandoned" THEN "left" ELSE conn[d]]'
              = [[d \in Client |-> IF conn[d] = "abandoned" THEN "left" ELSE conn[d]]
                   EXCEPT ![c] = IF how = "eof" THEN "eof" ELSE "left"]
         /\ [d \in Client |-> IF conn[d] = "open" THEN target[d] ELSE NoRun]'
              = [[d \in Client |-> IF conn[d] = "open" THEN target[d] ELSE NoRun]
                   EXCEPT ![c] = NoRun]
         /\ [d \in Client |-> Owed(d)]' = [[d \in Client |-> Owed(d)] EXCEPT ![c] = {}]
         /\ [d \in Client |-> IF conn[d] = "open" THEN last[d] ELSE 0]'
              = [[d \in Client |-> IF conn[d] = "open" THEN last[d] ELSE 0] EXCEPT ![c] = 0]
         /\ [d \in Client |-> IF conn[d] = "open" THEN from[d] ELSE 0]'
              = [[d \in Client |-> IF conn[d] = "open" THEN from[d] ELSE 0] EXCEPT ![c] = 0]
         /\ UNCHANGED {q \in RunID : Done(q)}
<1>1. conn'[c] = how /\ \A d \in Client \ {c} : conn'[d] = conn[d]
  BY DEF TypeOK
<1>2. \A d \in Client \ {c} : /\ target'[d] = target[d] /\ chan'[d] = chan[d]
                              /\ last'[d] = last[d] /\ from'[d] = from[d]
  OBVIOUS
<1>3. Owed(c)' = {} /\ \A d \in Client \ {c} : Owed(d)' = Owed(d)
  <2>1. Owed(c)' = {}
    BY <1>1 DEF Owed
  <2>2. ASSUME NEW d \in Client \ {c} PROVE Owed(d)' = Owed(d)
    <3>1. conn'[d] = conn[d] /\ chan'[d] = chan[d]
      BY <1>1, <1>2
    <3> QED
      BY <3>1 DEF Owed, Elements
  <2> QED
    BY <2>1, <2>2
<1>4. [d \in Client |-> Owed(d)]' = [[d \in Client |-> Owed(d)] EXCEPT ![c] = {}]
  BY <1>3
<1>5. UNCHANGED {q \in RunID : Done(q)}
  BY DEF Done
<1>6. [d \in Client |-> IF conn[d] = "abandoned" THEN "left" ELSE conn[d]]'
        = [[d \in Client |-> IF conn[d] = "abandoned" THEN "left" ELSE conn[d]]
             EXCEPT ![c] = IF how = "eof" THEN "eof" ELSE "left"]
  <2>1. Shown(c)' = IF how = "eof" THEN "eof" ELSE "left"
    BY <1>1 DEF Shown
  <2>2. \A d \in Client \ {c} : Shown(d)' = Shown(d)
    BY <1>1 DEF Shown
  <2>3. [d \in Client |-> Shown(d)]'
          = [[d \in Client |-> Shown(d)] EXCEPT ![c] = IF how = "eof" THEN "eof" ELSE "left"]
    BY <2>1, <2>2
  <2> QED
    BY <2>3 DEF Shown
<1>7. [d \in Client |-> IF conn[d] = "open" THEN target[d] ELSE NoRun]'
        = [[d \in Client |-> IF conn[d] = "open" THEN target[d] ELSE NoRun]
             EXCEPT ![c] = NoRun]
  BY <1>1, <1>2
<1>8. [d \in Client |-> IF conn[d] = "open" THEN last[d] ELSE 0]'
        = [[d \in Client |-> IF conn[d] = "open" THEN last[d] ELSE 0] EXCEPT ![c] = 0]
  BY <1>1, <1>2
<1>9. [d \in Client |-> IF conn[d] = "open" THEN from[d] ELSE 0]'
        = [[d \in Client |-> IF conn[d] = "open" THEN from[d] ELSE 0] EXCEPT ![c] = 0]
  BY <1>1, <1>2
<1> QED
  BY <1>4, <1>5, <1>6, <1>7, <1>8, <1>9
\* Eof, Disconnect and Abandon: a reader sees the end, or leaves.
LEMMA EndsAndLeaves ==
  ASSUME TypeOK, StreamInv, NEW c \in Client, Eof(c) \/ Disconnect(c) \/ Abandon(c)
  PROVE  Promise!PEof(c) \/ Promise!PLeave(c)
<1>1. conn[c] = "open" /\ UNCHANGED <<events, phase>>
  BY DEF Eof, Disconnect, Abandon, EndSession, runVars
<1>2. ASSUME NEW how, EndSession(c, how)
      PROVE  /\ conn' = [conn EXCEPT ![c] = how]
             /\ \A d \in Client \ {c} : UNCHANGED <<target[d], chan[d], last[d], from[d]>>
  BY <1>2 DEF EndSession, TypeOK
<1>3. CASE Eof(c)
  <2>1. conn' = [conn EXCEPT ![c] = "eof"] /\ chan[c] = <<>> /\ closed[c]
    BY <1>2, <1>3 DEF Eof
  <2>2. target[c] \in RunID /\ Done(target[c])
    BY <1>1, <2>1 DEF StreamInv, Session
  <2>3. [d \in Client |-> IF conn[d] = "open" THEN target[d] ELSE NoRun][c]
          \in {q \in RunID : Done(q)}
    BY <1>1, <2>2
  <2>4. Owed(c) = {}
    BY <1>1, <2>1 DEF Owed, Elements
  <2>5. [d \in Client |-> Owed(d)][c] = {}
    BY <2>4
  <2>6. [[d \in Client |-> Owed(d)] EXCEPT ![c] = {}] = [d \in Client |-> Owed(d)]
    BY <2>4
  <2>7. \A d \in Client \ {c} : UNCHANGED <<target[d], chan[d], last[d], from[d]>>
    BY <1>2, <1>3 DEF Eof
  <2>8. /\ [d \in Client |-> IF conn[d] = "abandoned" THEN "left" ELSE conn[d]]'
             = [[d \in Client |-> IF conn[d] = "abandoned" THEN "left" ELSE conn[d]]
                  EXCEPT ![c] = "eof"]
        /\ [d \in Client |-> IF conn[d] = "open" THEN target[d] ELSE NoRun]'
             = [[d \in Client |-> IF conn[d] = "open" THEN target[d] ELSE NoRun]
                  EXCEPT ![c] = NoRun]
        /\ [d \in Client |-> Owed(d)]' = [d \in Client |-> Owed(d)]
        /\ [d \in Client |-> IF conn[d] = "open" THEN last[d] ELSE 0]'
             = [[d \in Client |-> IF conn[d] = "open" THEN last[d] ELSE 0] EXCEPT ![c] = 0]
        /\ [d \in Client |-> IF conn[d] = "open" THEN from[d] ELSE 0]'
             = [[d \in Client |-> IF conn[d] = "open" THEN from[d] ELSE 0] EXCEPT ![c] = 0]
        /\ UNCHANGED {q \in RunID : Done(q)}
    BY <1>1, <2>1, <2>6, <2>7, SessionLeaves
  <2>9. Promise!PEof(c)
    BY <1>1, <2>3, <2>5, <2>8 DEF Promise!PEof, Owed
  <2> QED
    BY <2>9
<1>4. CASE Disconnect(c) \/ Abandon(c)
  <2>1. PICK how \in {"left", "abandoned"} : conn' = [conn EXCEPT ![c] = how]
    BY <1>2, <1>4 DEF Disconnect, Abandon
  <2>2. \A d \in Client \ {c} : UNCHANGED <<target[d], chan[d], last[d], from[d]>>
    BY <1>2, <1>4 DEF Disconnect, Abandon
  <2>3. [d \in Client |-> IF conn[d] = "abandoned" THEN "left" ELSE conn[d]][c] = "open"
    BY <1>1
  <2>4. /\ [d \in Client |-> IF conn[d] = "abandoned" THEN "left" ELSE conn[d]]'
             = [[d \in Client |-> IF conn[d] = "abandoned" THEN "left" ELSE conn[d]]
                  EXCEPT ![c] = "left"]
        /\ [d \in Client |-> IF conn[d] = "open" THEN target[d] ELSE NoRun]'
             = [[d \in Client |-> IF conn[d] = "open" THEN target[d] ELSE NoRun]
                  EXCEPT ![c] = NoRun]
        /\ [d \in Client |-> Owed(d)]' = [[d \in Client |-> Owed(d)] EXCEPT ![c] = {}]
        /\ [d \in Client |-> IF conn[d] = "open" THEN last[d] ELSE 0]'
             = [[d \in Client |-> IF conn[d] = "open" THEN last[d] ELSE 0] EXCEPT ![c] = 0]
        /\ [d \in Client |-> IF conn[d] = "open" THEN from[d] ELSE 0]'
             = [[d \in Client |-> IF conn[d] = "open" THEN from[d] ELSE 0] EXCEPT ![c] = 0]
        /\ UNCHANGED {q \in RunID : Done(q)}
    BY <1>1, <2>1, <2>2, SessionLeaves
  <2>5. Promise!PLeave(c)
    BY <1>1, <2>3, <2>4 DEF Promise!PLeave, Owed
  <2> QED
    BY <2>5
<1> QED
  BY <1>3, <1>4

\* The other steps do not show.
LEMMA OthersStutter ==
  ASSUME TypeOK, RunInv,
         \/ \E k \in Key : Start(k)
         \/ \E r \in RunID : FinishNotify(r) \/ Cleanup(r)
         \/ CancelAll \/ WatchNext \/ UNCHANGED vars
         \/ \E c \in Client, r \in RunID : Lookup(c, r)
  PROVE  UNCHANGED Promise!pvars
<1>1. ASSUME NEW c \in Client, NEW r \in RunID, Lookup(c, r)
      PROVE  UNCHANGED Promise!pvars
  <2>1. /\ UNCHANGED <<events, phase, conn, chan, last, from>>
        /\ conn[c] = "idle" /\ target' = [target EXCEPT ![c] = r]
    BY <1>1 DEF Lookup, runVars
  <2>2. UNCHANGED [d \in Client |-> IF conn[d] = "open" THEN target[d] ELSE NoRun]
    BY <2>1 DEF TypeOK
  <2>3. UNCHANGED {q \in RunID : Done(q)}
    BY <2>1 DEF Done
  <2>4. UNCHANGED [d \in Client |-> IF conn[d] = "open" THEN Elements(chan[d]) ELSE {}]
    BY <2>1 DEF Elements
  <2> QED
    BY <2>1, <2>2, <2>3, <2>4 DEF Promise!pvars
<1>2. ASSUME UNCHANGED <<events, clientVars>>, \A q \in RunID : Done(q)' <=> Done(q)
      PROVE  UNCHANGED Promise!pvars
  <2>1. UNCHANGED {q \in RunID : Done(q)}
    BY <1>2
  <2>2. UNCHANGED [d \in Client |-> IF conn[d] = "open" THEN Elements(chan[d]) ELSE {}]
    BY <1>2 DEF clientVars, Elements
  <2> QED
    BY <1>2, <2>1, <2>2 DEF clientVars, Promise!pvars
<1> QED
  BY <1>1, <1>2, QuietSteps

\* The run manager implements the promise: a reader receives the events of its
\* run in log order and without a gap, unless Headroom events were waiting for
\* it, and it sees the end only when the run is over and nothing is owed.
THEOREM PromiseKept == Spec => KeepsPromise
<1>1. Init => Promise!PInit
  <2>1. ASSUME Init
        PROVE  /\ events = [r \in RunID |-> 0]
               /\ {r \in RunID : Done(r)} = {}
               /\ [c \in Client |-> IF conn[c] = "abandoned" THEN "left" ELSE conn[c]]
                    = [c \in Client |-> "idle"]
               /\ [c \in Client |-> IF conn[c] = "open" THEN target[c] ELSE NoRun]
                    = [c \in Client |-> NoRun]
               /\ [c \in Client |-> IF conn[c] = "open" THEN Elements(chan[c]) ELSE {}]
                    = [c \in Client |-> {}]
               /\ [c \in Client |-> IF conn[c] = "open" THEN last[c] ELSE 0]
                    = [c \in Client |-> 0]
               /\ [c \in Client |-> IF conn[c] = "open" THEN from[c] ELSE 0]
                    = [c \in Client |-> 0]
    BY <2>1 DEF Init, Done
  <2> QED
    BY <2>1 DEF Promise!PInit
<1>2. ASSUME TypeOK, RunInv, SubInv, StreamInv, [Next]_vars
      PROVE  [Promise!PNext]_(Promise!pvars)
  <2>1. ASSUME NEW r \in RunID, Emit(r) PROVE Promise!PNext
    BY <1>2, <2>1, EmitAppends DEF Promise!PNext
  <2>2. ASSUME NEW r \in RunID, FinishClose(r) PROVE Promise!PNext
    BY <1>2, <2>2, FinishEnds DEF Promise!PNext
  <2>3. ASSUME NEW c \in Client, NEW i \in 0 .. MaxEvents, Subscribe(c, i)
        PROVE  Promise!PNext
    BY <1>2, <2>3, SubscribeOpens DEF Promise!PNext
  <2>4. ASSUME NEW c \in Client, Receive(c) PROVE Promise!PNext
    BY <1>2, <2>4, ReceiveDelivers DEF Promise!PNext
  <2>5. ASSUME NEW c \in Client, Eof(c) \/ Disconnect(c) \/ Abandon(c)
        PROVE  Promise!PNext
    BY <1>2, <2>5, EndsAndLeaves DEF Promise!PNext
  <2> QED
    BY <1>2, <2>1, <2>2, <2>3, <2>4, <2>5, OthersStutter, StepCases
<1> QED
  BY <1>1, <1>2, TypeCorrect, RunsInvariant, SessionsInvariant, PTL
     DEF Spec, KeepsPromise, Promise!PSpec
=============================================================================
