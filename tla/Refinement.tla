----------------------------- MODULE Refinement -----------------------------
(***************************************************************************)
(* The refinement loop of the vision stage: a controller that asks         *)
(* questions, takes in the answers and writes the vision document.  It     *)
(* works on a state in memory and saves it to refinement-state.json after  *)
(* most steps.  In interactive mode the answers come through a channel     *)
(* that HTTP requests find in a map; in autonomous mode the model answers. *)
(* Other requests read, change and write the same file.                    *)
(*                                                                         *)
(* Texts are abstract: a question stands for its text, its answer and the  *)
(* facts in it; whether sections are complete enough is a boolean.         *)
(***************************************************************************)
EXTENDS Integers, FiniteSets, Sequences

CONSTANTS
    Question,        \* texts the model can come up with
    Item,            \* concerns it can raise for review
    Starter,         \* concurrent StartLoop and RunAutonomous calls
    NoState,         \* no refinement-state.json (not a state)
    MaxIterations,   \* 10 in the code
    AnswerBuffer,    \* capacity of the answer channel, 1 in the code
    MaxLoops,        \* bound: loops started, and so answer channels
    MaxGenerations,  \* bound: times the model comes up with questions
    MaxEvents        \* bound: failures, stops, crashes, reviews, resets, starts
                     \* that overlap

ASSUME IterationsAssumption == MaxIterations \in Nat \ {0}
ASSUME BufferAssumption == AnswerBuffer \in Nat
ASSUME BoundsAssumption == {MaxLoops, MaxGenerations, MaxEvents} \subseteq Nat

Channel == 1..MaxLoops
None == 0

\* What an answer can be: a text with facts in it; one without, because the
\* user dismissed the question or no part of the text has three words; or the
\* command to finish.
Kind == {"text", "factless", "[finish]"}

\* The state that refinement-state.json holds.
LoopState ==
    [summary : BOOLEAN,
     phase : {"init", "summarize", "generate_questions", "evaluate_questions",
              "await_answer", "extract_facts", "update_sections",
              "coherence_check", "tension_check", "critique", "find_gaps", "complete"},
     qs : [Question -> {"none", "open", "answered", "factless"}],
     facts : SUBSET Question, sections : SUBSET Question, confident : BOOLEAN,
     iteration : 0..MaxIterations,
     items : [Item -> {"none", "pending", "settled"}]]

ASSUME NoStateAssumption == NoState \notin LoopState

VARIABLES
    mem,      \* the LoopState of the running loop
    disk,     \* refinement-state.json
    artifact, \* the questions whose answers the vision document covers
    pc,       \* where the controller is
    mode,     \* "interactive" or "autonomous"
    round,    \* answered in this round of questions (answeredThisRound)
    shown,    \* the question on display
    loopCh,   \* the channel the loop receives from
    answerCh, \* the handler's map: the channel requests send to
    buffer,   \* contents of the channels: answers [kind, to]
    start,    \* start requests: [pc, state, mode, ch, alone]
    review,   \* one review request: [pc, item, state, document, alone]
    ended,    \* contexts that are done: "run", "driver"
    used,     \* how much of each bound is used up
    given,    \* history: questions answered with a text, unless it was lost
    misfit,   \* history: answers taken for another question than the one shown
    settled   \* history: items settled by a review request that ran alone

vars == <<mem, disk, artifact, pc, mode, round, shown, loopCh, answerCh,
          buffer, start, review, ended, used, given, misfit, settled>>
history == <<given, misfit, settled>>
channels == <<loopCh, answerCh, buffer>>
requests == <<start, review>>

NewLoopState ==
    [summary |-> FALSE, phase |-> "init",
     qs |-> [q \in Question |-> "none"], facts |-> {}, sections |-> {},
     confident |-> FALSE, iteration |-> 0,
     items |-> [i \in Item |-> "none"]]

NoStart == [pc |-> "idle", state |-> NoState, mode |-> "none", ch |-> None,
            alone |-> TRUE]
NoReview == [pc |-> "idle", item |-> "none", state |-> NoState,
             document |-> {}, alone |-> TRUE]

Init ==
    /\ mem = NewLoopState /\ disk = NoState /\ artifact = {}
    /\ pc = "idle" /\ mode = "none" /\ round = {} /\ shown = "none"
    /\ loopCh = None /\ answerCh = None /\ buffer = [c \in Channel |-> <<>>]
    /\ start = [s \in Starter |-> NoStart] /\ review = NoReview
    /\ ended = {}
    /\ used = [loops |-> 0, generations |-> 0, events |-> 0]
    /\ given = {} /\ misfit = {} /\ settled = {}

-----------------------------------------------------------------------------
(* Operations on the state (state.go, steps.go).                           *)

OpenQs(st) == {q \in Question : st.qs[q] = "open"}
Answered(st) == {q \in Question : st.qs[q] \in {"answered", "factless"}}

\* Mutant: one iteration too many.
IsConvergedLate(st) ==
    \/ st.confident /\ OpenQs(st) = {}
    \/ st.iteration > MaxIterations

\* IsConverged
IsConverged(st) ==
    \/ st.confident /\ OpenQs(st) = {}
    \/ st.iteration >= MaxIterations

\* MergeQuestions drops what is already in the pool.
MergeQuestions(st, new) ==
    [st EXCEPT !.qs = [q \in Question |->
        IF q \in new /\ @[q] = "none" THEN "open" ELSE @[q]]]

\* MergeReviewItems drops what was ever raised.
\* Mutant: and one without the check.
MergeReviewItemsAgain(st, new) ==
    [st EXCEPT !.items = [i \in Item |-> IF i \in new THEN "pending" ELSE @[i]]]

MergeReviewItems(st, new) ==
    [st EXCEPT !.items = [i \in Item |->
        IF i \in new /\ @[i] = "none" THEN "pending" ELSE @[i]]]

\* FilterAndRankQuestions drops questions that score too low.
FilterAndRankQuestions(st, low) ==
    [st EXCEPT !.qs = [q \in Question |-> IF q \in low THEN "none" ELSE @[q]]]

\* PruneResolved drops the answered ones.
PruneResolved(st) ==
    [st EXCEPT !.qs = [q \in Question |-> IF q \in Answered(st) THEN "none" ELSE @[q]]]

-----------------------------------------------------------------------------
(* The controller.  Each step ends with the save() the code makes.         *)

Event == used.events < MaxEvents /\ used' = [used EXCEPT !.events = @ + 1]

\* The context RunLoop was given: the run's, or the autopilot driver's.
LoopEnded == IF mode = "interactive" THEN "run" \in ended ELSE "driver" \in ended

LlmOk == ~LoopEnded
LlmFails == IF LoopEnded THEN UNCHANGED used ELSE Event

Enter(phase, st) == [st EXCEPT !.phase = phase]
SaveState(st) == mem' = st /\ disk' = st

loopRest == <<artifact, mode, loopCh, answerCh, requests, ended>>

\* Where RunLoop enters, given the state it was handed.
Entry(st) ==
    IF st.phase = "init" \/ ~st.summary THEN "summarize"
    ELSE IF st.phase = "summarize" \/ OpenQs(st) \cup Answered(st) = {}
         THEN "generate"
         ELSE "check"

\* RunLoop returns an error: the state is saved, then the deferred calls.
Abort ==
    /\ SaveState(mem)
    /\ given' = given \ round
    /\ pc' = "unmap" /\ round' = {} /\ shown' = "none"
    /\ UNCHANGED <<buffer, misfit, settled, loopRest>>

\* Mutant: the wait for an answer does not look at the context.
LoopFailsDeaf ==
    \/ pc \in {"summarize", "generate", "synthesize"} /\ LlmFails /\ Abort
    \/ pc = "ask" /\ mode = "autonomous" /\ OpenQs(mem) # {} /\ LlmFails /\ Abort
    \/ pc \in {"check", "ask"} /\ LoopEnded /\ UNCHANGED used /\ Abort

\* A model call fails, or the context is done where the code looks at it.
LoopFails ==
    \/ pc \in {"summarize", "generate", "synthesize"} /\ LlmFails /\ Abort
    \/ pc = "ask" /\ mode = "autonomous" /\ OpenQs(mem) # {} /\ LlmFails /\ Abort
    \/ /\ pc \in {"check", "ask", "wait", "merge"} /\ LoopEnded
       /\ pc = "check" => ~IsConverged(mem)
       /\ pc = "merge" => round # {}
       /\ UNCHANGED used /\ Abort

Summarize ==
    /\ pc = "summarize" /\ LlmOk
    /\ SaveState([Enter("summarize", mem) EXCEPT !.summary = TRUE])
    /\ pc' = "generate"
    /\ UNCHANGED <<round, shown, buffer, used, history, loopRest>>

\* doGenerateQuestions adds what the model comes up with, possibly nothing.
Generates(st, new) ==
    \/ new = {} /\ UNCHANGED used
    \/ /\ new \in SUBSET Question \ {{}} /\ used.generations < MaxGenerations
       /\ used' = [used EXCEPT !.generations = @ + 1]

GenerateQuestions ==
    /\ pc = "generate" /\ LlmOk
    /\ \E new \in SUBSET Question :
         /\ Generates(mem, new)
         /\ SaveState(MergeQuestions(Enter("generate_questions", mem), new))
    /\ pc' = "check"
    /\ UNCHANGED <<round, shown, buffer, history, loopRest>>

\* The head of the loop: on to the document, or evaluate the open questions.
CheckConverged ==
    /\ pc = "check"
    /\ IF IsConverged(mem)
       THEN pc' = "synthesize" /\ UNCHANGED <<mem, disk>>
       ELSE /\ ~LoopEnded /\ pc' = "ask"
            /\ IF OpenQs(mem) = {} THEN UNCHANGED <<mem, disk>>
               ELSE \E low \in SUBSET OpenQs(mem) :
                      SaveState(FilterAndRankQuestions(
                                  Enter("evaluate_questions", mem), low))
    /\ round' = {}
    /\ UNCHANGED <<shown, buffer, used, history, loopRest>>

\* SelectHighestImpactQuestion, shown to the user.
AskUser ==
    /\ pc = "ask" /\ mode = "interactive" /\ ~LoopEnded
    /\ \E q \in OpenQs(mem) : shown' = q
    /\ SaveState(Enter("await_answer", mem))
    /\ pc' = "wait"
    /\ UNCHANGED <<round, buffer, used, history, loopRest>>

\* doSimulateAnswer; the state is not saved before the round is over.
AnswerItself ==
    /\ pc = "ask" /\ mode = "autonomous" /\ LlmOk
    /\ \E q \in OpenQs(mem), status \in {"answered", "factless"} :
         /\ mem' = [Enter("await_answer", mem) EXCEPT !.qs[q] = status]
         /\ round' = round \cup {q}
         /\ given' = IF status = "answered" THEN given \cup {q} ELSE given
    /\ UNCHANGED <<disk, pc, shown, buffer, used, misfit, settled, loopRest>>

\* An answer arrives for the question on display.  "[finish]" leaves the
\* round as it is and goes to the document.
TakeAnswer ==
    /\ pc = "wait" /\ buffer[loopCh] # <<>>
    /\ LET a == Head(buffer[loopCh])
       IN /\ buffer' = [buffer EXCEPT ![loopCh] = Tail(@)]
          /\ mem' = [mem EXCEPT !.qs[shown] =
                       IF a.kind = "factless" THEN "factless" ELSE "answered"]
          /\ misfit' = IF a.to \in {shown, "none"} THEN misfit ELSE misfit \cup {shown}
          /\ IF a.kind = "[finish]"
             THEN pc' = "synthesize" /\ round' = {} /\ given' = given \ round
             ELSE /\ pc' = "ask" /\ round' = round \cup {shown}
                  /\ given' = IF a.kind = "text" THEN given \cup {shown} ELSE given
    /\ shown' = "none"
    /\ UNCHANGED <<disk, used, settled, loopRest>>

\* No question is left to ask.  Without an answer in this round the model is
\* asked for more questions; without success the loop ends.
RoundOver ==
    /\ pc = "ask" /\ OpenQs(mem) = {} /\ ~LoopEnded
    /\ IF round # {}
       THEN pc' = "extract" /\ UNCHANGED <<mem, used>>
       ELSE \E new \in SUBSET Question :
              /\ Generates(mem, new)
              /\ mem' = MergeQuestions(mem, new)
              /\ pc' = IF OpenQs(mem') = {} THEN "synthesize" ELSE "check"
    /\ UNCHANGED <<disk, round, shown, buffer, history, loopRest>>

\* deterministicExtractFacts and filterAndCapFacts, on each answer.
FactsOf(st, answers) == {q \in answers : st.qs[q] = "answered"}

\* The facts of every answer of the round that was not dismissed.
ExtractFacts ==
    /\ pc = "extract"
    /\ SaveState([Enter("extract_facts", mem) EXCEPT
         !.facts = @ \cup FactsOf(mem, round)])
    /\ pc' = "merge"
    /\ UNCHANGED <<round, shown, buffer, used, history, loopRest>>

\* Mutant: the section is rewritten from the new facts.
MergeFactsOver(st, facts) == [st EXCEPT !.sections = facts]

\* doClassifyFact and doMergeFact: a fact is appended to the section its words
\* speak of; nothing is removed.
MergeFacts(st, facts) == [st EXCEPT !.sections = @ \cup facts]

UpdateSections ==
    /\ pc = "merge" /\ ~LoopEnded
    /\ SaveState(MergeFacts(Enter("update_sections", mem), FactsOf(mem, round)))
    /\ pc' = "challenge"
    /\ UNCHANGED <<round, shown, buffer, used, history, loopRest>>

\* Facts that contradict the sections are concerns; only a coherent state is
\* challenged further.
CoherenceCheck ==
    /\ pc = "challenge"
    /\ \E new \in SUBSET Item :
         /\ FactsOf(mem, round) = {} => new = {}
         /\ SaveState(MergeReviewItems(Enter("coherence_check", mem), new))
         /\ pc' = IF new = {} THEN "tension" ELSE "score"
    /\ UNCHANGED <<round, shown, buffer, used, history, loopRest>>

\* The tension check may raise concerns and questions; a failed model call is
\* passed over.
TensionCheck ==
    /\ pc = "tension"
    /\ \E new \in SUBSET Item, qs \in SUBSET Question :
         /\ IF LlmOk THEN Generates(mem, qs) ELSE qs = {} /\ new = {} /\ UNCHANGED used
         /\ SaveState(MergeQuestions(
              MergeReviewItems(Enter("tension_check", mem), new), qs))
    /\ pc' = "score"
    /\ UNCHANGED <<round, shown, buffer, history, loopRest>>

\* Sections only grow, and so does the score made from them.
Scores(st) == {[st EXCEPT !.confident = c] : c \in {st.confident, TRUE}}

\* The critique raises concerns; a failed call raises none.
Critique(st) == {MergeReviewItems(Enter("critique", st), new) : new \in SUBSET Item}

ScoreAndCritique ==
    /\ pc = "score"
    /\ \E scored \in Scores(mem) : \E st \in Critique(scored) : SaveState(st)
    /\ pc' = "gaps"
    /\ UNCHANGED <<round, shown, buffer, used, history, loopRest>>

\* Questions about empty and thin sections, the answered ones pruned, and
\* new ones from the model when none is left and the loop is to go on.
FindGaps(st, gaps) == PruneResolved(MergeQuestions(Enter("find_gaps", st), gaps))

\* Mutant: the iterations are not counted.
FindGapsUncounted ==
    /\ pc = "gaps"
    /\ \E gaps \in SUBSET Question : SaveState(FindGaps(mem, gaps))
    /\ pc' = "check" /\ round' = {}
    /\ UNCHANGED <<shown, buffer, used, history, loopRest>>

FindGapsAndPrune ==
    /\ pc = "gaps"
    /\ \E gaps \in SUBSET Question, more \in SUBSET Question :
         LET st == FindGaps(mem, gaps)
         IN /\ IF OpenQs(st) = {} /\ ~IsConverged(st) /\ LlmOk
               THEN Generates(st, more)
               ELSE more = {} /\ UNCHANGED used
            /\ SaveState([MergeQuestions(st, more) EXCEPT !.iteration = @ + 1])
    /\ pc' = "check" /\ round' = {}
    /\ UNCHANGED <<shown, buffer, history, loopRest>>

\* The document is made from the sections.
Synthesize ==
    /\ pc = "synthesize" /\ LlmOk
    /\ SaveState(Enter("complete", mem))
    /\ pc' = "write"
    /\ UNCHANGED <<round, shown, buffer, used, history, loopRest>>

\* vision.md is written; when that fails the old document stays, and the
\* state that says "complete" is saved already.
WriteArtifact ==
    /\ pc = "write"
    /\ \/ artifact' = mem.sections /\ pc' = "written" /\ UNCHANGED used
       \/ Event /\ pc' = "unmap" /\ UNCHANGED artifact
    /\ UNCHANGED <<mem, disk, mode, round, shown, channels, requests, ended,
                   history>>

\* Deferred calls: the map entry of the project is removed, whose channel it
\* may be; then the run is finished.
Unmap ==
    /\ pc \in {"written", "unmap"}
    /\ answerCh' = IF mode = "interactive" THEN None ELSE answerCh
    /\ pc' = "finish"
    /\ UNCHANGED <<mem, disk, artifact, mode, round, shown, loopCh, buffer,
                   requests, ended, used, history>>

\* What only the loop referred to is forgotten.
FinishRun ==
    /\ pc = "finish"
    /\ pc' = "idle" /\ mem' = NewLoopState /\ mode' = "none" /\ ended' = {}
    /\ loopCh' = None
    /\ buffer' = IF loopCh = answerCh THEN buffer ELSE [buffer EXCEPT ![loopCh] = <<>>]
    /\ UNCHANGED <<disk, artifact, round, shown, answerCh, requests, used, history>>

LoopStep ==
    \/ LoopFails \/ Summarize \/ GenerateQuestions \/ CheckConverged
    \/ AnswerItself \/ RoundOver \/ ExtractFacts \/ UpdateSections
    \/ CoherenceCheck \/ TensionCheck \/ ScoreAndCritique \/ FindGapsAndPrune \/ Synthesize
    \/ WriteArtifact \/ Unmap \/ FinishRun \/ AskUser \/ TakeAnswer

-----------------------------------------------------------------------------
(* Requests that start a loop.                                             *)

controller == <<mem, artifact, pc, mode, round, shown>>

Starting == {s \in Starter : start[s].pc # "idle"}

\* No run is active; the saved state is loaded, or a new one made.
LoadForStart(s, m) ==
    /\ s \notin Starting /\ pc = "idle"
    /\ used.loops < MaxLoops
    /\ LET overlaps == IF Starting = {} THEN 0 ELSE 1
       IN /\ used.events + overlaps <= MaxEvents
          /\ used' = [used EXCEPT !.loops = @ + 1, !.events = @ + overlaps]
    /\ start' = [start EXCEPT ![s] =
         [pc |-> IF m = "interactive" THEN "loaded" ELSE "mapped",
          state |-> IF disk = NoState THEN NewLoopState ELSE disk,
          mode |-> m, ch |-> used.loops + 1, alone |-> TRUE]]
    /\ UNCHANGED <<controller, disk, channels, review, ended, history>>

\* StartLoop puts a new channel into the map, before it has the run.
MapChannel(s) ==
    /\ start[s].pc = "loaded"
    /\ answerCh' = start[s].ch
    /\ start' = [start EXCEPT ![s].pc = "mapped"]
    /\ UNCHANGED <<controller, disk, loopCh, buffer, review, ended, used, history>>

\* runs.Start returns nil when a loop runs; else the loop begins, and what
\* other requests have loaded is no longer theirs alone.
StartRun(s) ==
    /\ start[s].pc = "mapped"
    /\ IF pc = "idle"
       THEN /\ mem' = start[s].state /\ mode' = start[s].mode
            /\ loopCh' = start[s].ch
            /\ pc' = Entry(start[s].state) /\ round' = {} /\ shown' = "none"
            /\ ended' = {}
            /\ given' = IF start[s].alone THEN given
                        ELSE given \cap start[s].state.sections
            /\ start' = [t \in Starter |->
                 IF t = s THEN NoStart
                 ELSE [start[t] EXCEPT !.alone = t \notin Starting]]
       ELSE /\ start' = [start EXCEPT ![s] = NoStart]
            /\ UNCHANGED <<mem, mode, loopCh, pc, round, shown, ended, given>>
    /\ UNCHANGED <<disk, artifact, answerCh, buffer, review, used, misfit, settled>>

-----------------------------------------------------------------------------
(* Requests around a loop.                                                 *)

\* "to" is the question on display when the answer is sent, if the channel is
\* that of its loop: StartLoop may have put another one into the map.
NewAnswer(kind) ==
    [kind |-> kind, to |-> IF answerCh = loopCh THEN shown ELSE "none"]

\* Mutant: without the limit of the buffer.
AnswerQuestionQueued(kind) ==
    /\ answerCh # None
    /\ buffer' = [buffer EXCEPT ![answerCh] = Append(@, NewAnswer(kind))]
    /\ UNCHANGED <<controller, disk, loopCh, answerCh, requests, ended, used, history>>

\* AnswerQuestion: accepted while the buffer has room, whatever the loop is
\* doing.
AnswerQuestion(kind) ==
    /\ answerCh # None
    /\ Len(buffer[answerCh]) < AnswerBuffer
    /\ buffer' = [buffer EXCEPT ![answerCh] = Append(@, NewAnswer(kind))]
    /\ UNCHANGED <<controller, disk, loopCh, answerCh, requests, ended, used, history>>

\* Whoever else may write the state while a review request holds its copy.
InOtherHands == pc # "idle" \/ Starting # {}

\* DiscardReviewItem and AddressReviewItem load the state and mark the item
\* in their copy; addressing also reads the document.
LoadForReview(i, address) ==
    /\ review.pc = "idle" /\ disk # NoState
    /\ disk.items[i] # "none"
    /\ Event
    /\ review' = [pc |-> IF address THEN "revising" ELSE "loaded", item |-> i,
                  state |-> [disk EXCEPT !.items[i] = "settled"],
                  document |-> IF address THEN artifact ELSE {},
                  alone |-> ~InOtherHands]
    /\ UNCHANGED <<controller, disk, channels, start, ended, history>>

\* The model changes the document it was given, which is written over
\* whatever a loop has written since; or its call fails.
ReviseDocument ==
    /\ review.pc = "revising"
    /\ \/ /\ artifact' = review.document
          /\ review' = [review EXCEPT !.pc = "loaded", !.document = {}]
          /\ given' = IF pc = "written" THEN given \cap review.document ELSE given
       \/ review' = NoReview /\ UNCHANGED <<artifact, given>>
    /\ UNCHANGED <<mem, disk, pc, mode, round, shown, channels, start, ended, used,
                   misfit, settled>>

\* The copy is saved, over whatever was saved since.
SaveReview ==
    /\ review.pc = "loaded"
    /\ disk' = review.state
    /\ settled' = IF review.alone /\ ~InOtherHands THEN settled \cup {review.item}
                  ELSE settled \ {review.item}
    /\ given' = given \cap review.state.sections
    /\ review' = NoReview
    /\ UNCHANGED <<controller, channels, start, ended, used, misfit>>

\* ResetState
ResetState ==
    /\ disk # NoState /\ Event
    /\ disk' = NoState /\ settled' = {}
    /\ given' = {}
    /\ UNCHANGED <<controller, channels, requests, ended, misfit>>

\* The user stops the run, or the autopilot driver is cancelled; shutdown
\* does both.
Stop(ctx) ==
    /\ pc # "idle" /\ ctx \notin ended /\ Event
    /\ ended' = ended \cup {ctx}
    /\ UNCHANGED <<controller, disk, channels, requests, history>>

Crash ==
    /\ Event
    /\ pc' = "idle" /\ mem' = NewLoopState /\ mode' = "none"
    /\ round' = {} /\ shown' = "none"
    /\ given' = IF disk = NoState THEN {} ELSE (given \ round) \cap disk.sections
    /\ start' = [s \in Starter |-> NoStart] /\ review' = NoReview
    /\ loopCh' = None /\ answerCh' = None /\ buffer' = [c \in Channel |-> <<>>]
    /\ ended' = {}
    /\ UNCHANGED <<disk, artifact, misfit, settled>>

Next ==
    \/ LoopStep
    \/ \E s \in Starter :
         \/ \E m \in {"interactive", "autonomous"} : LoadForStart(s, m)
         \/ MapChannel(s) \/ StartRun(s)
    \/ \E kind \in Kind : AnswerQuestion(kind)
    \/ \E i \in Item, address \in BOOLEAN : LoadForReview(i, address)
    \/ ReviseDocument \/ SaveReview \/ ResetState \/ Crash
    \/ \E ctx \in {"run", "driver"} : Stop(ctx)

\* The loop's goroutine goes on by itself: model calls return.  Nothing
\* makes the user answer.
Spec == Init /\ [][Next]_vars /\ WF_vars(LoopStep)

-----------------------------------------------------------------------------
(* Properties.                                                             *)

\* Every variable has its type; in particular the iterations stay within
\* their maximum (RunLoop).
TypeOK ==
    /\ mem \in LoopState
    /\ disk \in LoopState \cup {NoState}
    /\ artifact \subseteq Question /\ round \subseteq Question
    /\ pc \in {"idle", "summarize", "generate", "check", "ask", "wait", "extract",
               "merge", "challenge", "tension", "score", "gaps", "synthesize", "write",
               "written", "unmap", "finish"}
    /\ mode \in {"none", "interactive", "autonomous"}
    /\ shown \in Question \cup {"none"}
    /\ {loopCh, answerCh} \subseteq Channel \cup {None}
    /\ \A c \in Channel : Len(buffer[c]) <= AnswerBuffer
    /\ ended \subseteq {"run", "driver"}

\* A text with facts that the user or the model gave as an answer is in the document the
\* loop writes, unless its round was cut short by a finish, a failure, a
\* stop, a crash or a reset, or a review request saved a state, or wrote a
\* document, without it, or a loop began from a copy that a start request had
\* loaded before another loop: a round that is taken in is taken in whole,
\* through saves, further rounds and pruning of the pool.
AnswersReachDocument ==
    pc = "written" => given \subseteq artifact

\* An answer sent to a loop while its question is on display is never taken
\* for another question: the one place in the channel is emptied by that
\* question's wait, or forgotten with the channel.
AnswersFitTheirQuestion == misfit = {}

\* What a review request has settled while no loop was about stays settled
\* in the saved state: later loops and reviews of other items keep it.
SettledItemsStaySettled ==
    \A i \in settled :
      disk # NoState => disk.items[i] = "settled"

\* A stop of the run ends an interactive loop, also one that waits for an
\* answer that never comes.
StopEndsInteractiveLoop ==
    (pc # "idle" /\ mode = "interactive" /\ "run" \in ended) ~> (pc = "idle")

\* An autonomous loop ends when the model comes up with new questions of its
\* own only finitely often: the iterations are counted whatever the gaps.
AutonomousLoopEnds == (pc # "idle" /\ mode = "autonomous") ~> (pc = "idle")
=============================================================================
