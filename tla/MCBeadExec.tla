----------------------------- MODULE MCBeadExec -----------------------------
(* BeadExec for TLC: a plan of an epic and a task of it that depends on    *)
(* it, one id for corrections and fixes, two workers.                      *)
EXTENDS BeadExec

CONSTANTS t1, t2, c1

MCPlan == <<t1, t2>>
MCEpic == [b \in {t1, t2} |-> t1]
MCPlanDeps == [b \in {t1, t2} |-> IF b = t2 THEN {t1} ELSE {}]

\* Bound: while the plan is still being generated, requests and the execution
\* run may interfere, but failures and commands come only before the first
\* request or after the generation.
MCNext ==
    /\ Next
    /\ (gen.pc # "done" /\ used'.events # used.events) =>
          (gen' # gen /\ used.arrivals = 0)
MCSpec == Init /\ [][MCNext]_vars /\ Fairness

=============================================================================
