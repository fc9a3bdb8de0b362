---------------------------- MODULE MCBuildPool -----------------------------
(***************************************************************************)
(* BuildPool for TLC: two runs, one of them with two beads in parallel;    *)
(* configurations of one good slot, of one whose connection is unknown,    *)
(* and of both.                                                            *)
(***************************************************************************)
EXTENDS BuildPool, TLC

CONSTANTS w1, w2, w3, l1, l2

MCWorker == {w1, w2, w3}
MCLoop == {l1, l2}
MCLoopOf == (w1 :> l1) @@ (w2 :> l1) @@ (w3 :> l2)

Good(n) == [max |-> n, resolves |-> TRUE]
Bad(n)  == [max |-> n, resolves |-> FALSE]
MCConfig == {<<Good(0)>>, <<Bad(1)>>, <<Bad(1), Good(1)>>}
=============================================================================
