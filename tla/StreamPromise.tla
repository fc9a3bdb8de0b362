--------------------------- MODULE StreamPromise ---------------------------
(***************************************************************************)
(* What backend/internal/stream promises to a reader of a run's events,    *)
(* free of channels, registration tables and locks.                        *)
(*                                                                         *)
(* A run is a log that only grows and that ends once.  A reader opened at  *)
(* some position is owed what the log holds beyond it and every later      *)
(* event, with one exception that the code allows on purpose: while        *)
(* Headroom or more events are waiting for it, a new event may be skipped. *)
(* It receives what it is owed in log order, and it sees the end of the    *)
(* stream only when the run has ended and nothing more is owed.            *)
(***************************************************************************)
EXTENDS Naturals, FiniteSets

CONSTANTS Client,    \* readers
          RunID,     \* runs
          Headroom,  \* how far a reader may lag before events are skipped
          MaxFrom,   \* the positions readers ask for
          NoRun      \* what a reader that follows no run points at

VARIABLES log,    \* number of events emitted so far, per run
          ended,  \* runs that have ended
          status, \* per reader: "idle", "open", "eof" (saw the end), "left"
          follow, \* the run an open reader follows, NoRun for the others
          owed,   \* the events still owed to each reader
          last,   \* the last event an open reader received, 0 for none
          start   \* the position it asked for

pvars == <<log, ended, status, follow, owed, last, start>>

PInit ==
  /\ log = [r \in RunID |-> 0]
  /\ ended = {}
  /\ status = [c \in Client |-> "idle"]
  /\ follow = [c \in Client |-> NoRun]
  /\ owed = [c \in Client |-> {}]
  /\ last = [c \in Client |-> 0]
  /\ start = [c \in Client |-> 0]

Followers(r) == {c \in Client : follow[c] = r}

\* A new event is owed to every follower, save those that lag far enough to
\* skip it.  A log can still grow after its run has ended: the readers that
\* follow it then are owed none of that.
PAppend(r) ==
  LET n == log[r] + 1
      lagging == {c \in Followers(r) : Cardinality(owed[c]) >= Headroom}
  IN  /\ log' = [log EXCEPT ![r] = n]
      /\ \E skip \in SUBSET lagging :
           owed' = [c \in Client |->
                      IF r \notin ended /\ c \in Followers(r) \ skip
                        THEN owed[c] \cup {n} ELSE owed[c]]
      /\ UNCHANGED <<ended, status, follow, last, start>>

PEnd(r) ==
  /\ r \notin ended
  /\ ended' = ended \cup {r}
  /\ UNCHANGED <<log, status, follow, owed, last, start>>

\* A reader opens at a position: it is owed the rest of the log.
POpen(c, r, from) ==
  /\ status[c] = "idle"
  /\ status' = [status EXCEPT ![c] = "open"]
  /\ follow' = [follow EXCEPT ![c] = r]
  /\ start' = [start EXCEPT ![c] = from]
  /\ owed' = [owed EXCEPT ![c] = (from + 1) .. log[r]]
  /\ UNCHANGED <<log, ended, last>>

\* The reader receives the oldest event it is owed.
PDeliver(c) ==
  \E i \in owed[c] :
    /\ \A j \in owed[c] : i <= j
    /\ last[c] < i
    /\ owed' = [owed EXCEPT ![c] = @ \ {i}]
    /\ last' = [last EXCEPT ![c] = i]
    /\ UNCHANGED <<log, ended, status, follow, start>>

\* The end of the stream: only after the run's end, with nothing left owed.
PEof(c) ==
  /\ follow[c] \in ended
  /\ owed[c] = {}
  /\ status' = [status EXCEPT ![c] = "eof"]
  /\ follow' = [follow EXCEPT ![c] = NoRun]
  /\ last' = [last EXCEPT ![c] = 0]
  /\ start' = [start EXCEPT ![c] = 0]
  /\ UNCHANGED <<log, ended, owed>>

\* A reader may walk away at any time.
PLeave(c) ==
  /\ status[c] = "open"
  /\ status' = [status EXCEPT ![c] = "left"]
  /\ follow' = [follow EXCEPT ![c] = NoRun]
  /\ owed' = [owed EXCEPT ![c] = {}]
  /\ last' = [last EXCEPT ![c] = 0]
  /\ start' = [start EXCEPT ![c] = 0]
  /\ UNCHANGED <<log, ended>>

PNext ==
  \/ \E r \in RunID : PAppend(r) \/ PEnd(r)
  \/ \E c \in Client : PDeliver(c) \/ PEof(c) \/ PLeave(c)
  \/ \E c \in Client, r \in RunID, from \in 0 .. MaxFrom : POpen(c, r, from)

PSpec == PInit /\ [][PNext]_pvars
=============================================================================
