---------------------------- MODULE MCAutopilot -----------------------------
(***************************************************************************)
(* Autopilot for TLC: one project, since projects share nothing here; one  *)
(* client switches its autonomy and loads its page, another only loads it. *)
(***************************************************************************)
EXTENDS Autopilot

CONSTANTS r1, r2

MCRequest == {r1, r2}
OnlyLoads(r) == request[r].doing \in {"nothing", "heal"}

MCNext == Next /\ OnlyLoads(r2)'
MCSpec == Init /\ [][MCNext]_vars /\ Fairness
=============================================================================
