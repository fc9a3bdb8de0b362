---------------------------- MODULE MCStreamRuns ----------------------------
(***************************************************************************)
(* StreamRuns for TLC: two keys of one project, so that notifications of   *)
(* one key's run reach a watcher looking at both.  A reader and a watcher  *)
(* share nothing but the runs: either the reader follows two runs with     *)
(* events, or the watcher looks at three without.                          *)
(***************************************************************************)
EXTENDS StreamRuns

CONSTANTS k1, k2, p1

MCKey == {k1, k2}
MCProject == {p1}
MCProjectOf == [k \in MCKey |-> p1]

Reading ==
  /\ nextID < MaxRuns
  /\ \A w \in Watcher : wphase[w] = "off" /\ view[w] = {} /\ w \notin signal
Watching ==
  /\ \A c \in Client : conn[c] = "idle" /\ target[c] = NoRun
  /\ \A r \in RunID : events[r] = 0

MCNext == Next /\ (Reading \/ Watching)'
MCSpec == Init /\ [][MCNext]_vars /\ Fairness
=============================================================================
