---------------------------- MODULE MCRefinement ----------------------------
(* Instances of Refinement for TLC.                                        *)
EXTENDS Refinement

CONSTANT Second  \* the start request that only overlaps with another one

\* Bound: a review request loads its copy while no loop runs; a loop may
\* begin, and save, before the copy is saved.
ReviewsBeginBetweenLoops ==
    review.pc = "idle" /\ review'.pc # "idle" => pc = "idle"

\* Start requests are interchangeable: the second one is needed only while
\* there is another.  Bound: it is StartLoop, which has a channel.
SecondOverlaps ==
    /\ Starting = {} => start'[Second].pc = "idle"
    /\ start'[Second].mode # "autonomous"

MCNext == Next /\ ReviewsBeginBetweenLoops /\ SecondOverlaps

MCSpec == Init /\ [][MCNext]_vars /\ WF_vars(LoopStep)
=============================================================================
