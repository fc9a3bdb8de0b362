-------------------------- MODULE RefinementProofs --------------------------
(***************************************************************************)
(* What holds of the refinement loop for all questions, concerns, start    *)
(* requests and bounds: types and the count of iterations, where answers   *)
(* end up, that an answer meets its question, that settled items stay so.  *)
(***************************************************************************)
EXTENDS Refinement, SequenceTheorems, TLAPS

USE IterationsAssumption, BufferAssumption, BoundsAssumption

-----------------------------------------------------------------------------
(* The inductive invariants.                                               *)

Saved == LoopState \cup {NoState}

Answers == [kind : Kind, to : Question \cup {"none"}]

StartRecord == [pc : {"idle", "loaded", "mapped"}, state : Saved,
                mode : {"none", "interactive", "autonomous"},
                ch : Channel \cup {None}, alone : BOOLEAN]

ReviewRecord == [pc : {"idle", "revising", "loaded"}, item : Item \cup {"none"},
                 state : Saved, document : SUBSET Question, alone : BOOLEAN]

Counters == [loops : 0..MaxLoops, generations : Nat, events : Nat]

\* A request that is under way holds a state, a start request a channel.
RequestsTyped ==
    /\ start \in [Starter -> StartRecord]
    /\ \A s \in Starting : start[s].state \in LoopState /\ start[s].ch # None
    /\ review \in ReviewRecord
    /\ review.pc # "idle" => review.state \in LoopState /\ review.item \in Item

\* Where a round of questions is not over, the loop has an iteration left.
InRound == {"ask", "wait", "extract", "merge", "challenge", "tension", "score", "gaps"}

RoundsKept ==
    /\ pc \in InRound => mem.iteration < MaxIterations
    /\ pc \notin InRound => round = {}
    /\ pc = "wait" => shown \in OpenQs(mem) /\ mode = "interactive"
    /\ pc # "wait" => shown = "none"
    /\ pc = "idle" <=> loopCh = None

Typed ==
    /\ TypeOK
    /\ buffer \in [Channel -> Seq(Answers)]
    /\ used \in Counters
    /\ given \subseteq Question /\ settled \subseteq Item
    /\ RequestsTyped
    /\ RoundsKept

\* Every copy of the state holds what is settled, and a review its own item.
SettledEverywhere ==
    /\ \A i \in settled :
         /\ disk # NoState /\ disk.items[i] = "settled"
         /\ pc # "idle" => mem.items[i] = "settled"
         /\ \A s \in Starting : start[s].state.items[i] = "settled"
         /\ review.pc # "idle" => review.state.items[i] = "settled"
    /\ review.pc # "idle" => review.state.items[review.item] = "settled"

\* A given answer is in the sections, of the loop and of every copy of its own,
\* or in the round that is not yet merged.
Sections(st) == IF st = NoState THEN {} ELSE st.sections

AnswersKept ==
    /\ given \ round \subseteq Sections(disk)
    /\ pc # "idle" =>
         given \subseteq mem.sections \cup
           (IF pc \in {"ask", "wait", "extract", "merge"} THEN FactsOf(mem, round) ELSE {})
    /\ \A s \in Starting : start[s].alone =>
         pc = "idle" /\ given \subseteq start[s].state.sections
    /\ pc = "written" => given \subseteq artifact

\* Every loop has a channel of its own.
ChannelsApart ==
    /\ {loopCh, answerCh} \subseteq 0..used.loops
    /\ \A s \in Starting :
         /\ start[s].ch \in 1..used.loops /\ start[s].ch # loopCh
         /\ \A t \in Starting \ {s} : start[t].ch # start[s].ch
    /\ \A c \in Channel : c > used.loops => buffer[c] = <<>>

\* An answer to a question on display is alone in the channel of its loop, and
\* outlives the question only until the channel is forgotten.
AnswersAtHome ==
    /\ misfit = {}
    /\ \A c \in Channel : \A k \in 1..Len(buffer[c]) : buffer[c][k].to # "none" =>
         /\ c = loopCh /\ mode = "interactive"
         /\ \/ pc = "wait" /\ buffer[c][k].to = shown
            \/ pc = "unmap"
            \/ pc = "finish" /\ answerCh # loopCh

-----------------------------------------------------------------------------
(* What the operations do to a state.                                      *)

Phase == {"init", "summarize", "generate_questions", "evaluate_questions",
          "await_answer", "extract_facts", "update_sections",
          "coherence_check", "tension_check", "critique", "find_gaps", "complete"}

\* Nothing that is settled is raised again and nothing merged is lost.
Grows(st, new) ==
    /\ new \in LoopState
    /\ \A i \in Item : st.items[i] = "settled" => new.items[i] = "settled"
    /\ st.sections \subseteq new.sections

\* Within an iteration.
Within(st, new) == Grows(st, new) /\ new.iteration = st.iteration

LEMMA WithinItself ==
  ASSUME NEW st \in LoopState
  PROVE  Within(st, st)
  BY DEF Within, Grows

LEMMA WithinComposes ==
  ASSUME NEW a, NEW b, NEW c, Within(a, b), Within(b, c)
  PROVE  Within(a, c)
  BY DEF Within, Grows

LEMMA EnterWithin ==
  ASSUME NEW st \in LoopState, NEW p \in Phase
  PROVE  /\ Within(st, Enter(p, st))
         /\ Enter(p, st).qs = st.qs
         /\ Enter(p, st).sections = st.sections
  BY DEF Enter, Within, Grows, LoopState, Phase

LEMMA MergeQuestionsWithin ==
  ASSUME NEW st \in LoopState, NEW new
  PROVE  Within(st, MergeQuestions(st, new))
  BY DEF MergeQuestions, Within, Grows, LoopState

LEMMA MergeReviewItemsWithin ==
  ASSUME NEW st \in LoopState, NEW new
  PROVE  Within(st, MergeReviewItems(st, new))
  BY DEF MergeReviewItems, Within, Grows, LoopState

LEMMA FilterWithin ==
  ASSUME NEW st \in LoopState, NEW low
  PROVE  Within(st, FilterAndRankQuestions(st, low))
  BY DEF FilterAndRankQuestions, Within, Grows, LoopState

LEMMA PruneWithin ==
  ASSUME NEW st \in LoopState
  PROVE  Within(st, PruneResolved(st))
  BY DEF PruneResolved, Within, Grows, LoopState

LEMMA MergeFactsWithin ==
  ASSUME NEW st \in LoopState, NEW facts \in SUBSET Question
  PROVE  /\ Within(st, MergeFacts(st, facts))
         /\ facts \subseteq MergeFacts(st, facts).sections
  BY DEF MergeFacts, Within, Grows, LoopState

LEMMA AnswerWithin ==
  ASSUME NEW st \in LoopState, NEW q \in Question,
         NEW status \in {"none", "open", "answered", "factless"}
  PROVE  /\ Within(st, [st EXCEPT !.qs[q] = status])
         /\ [st EXCEPT !.qs[q] = status].sections = st.sections
         /\ [st EXCEPT !.qs[q] = status].qs = [st.qs EXCEPT ![q] = status]
  BY DEF Within, Grows, LoopState

-----------------------------------------------------------------------------
(* What a step of the loop does to its state.                              *)

\* Everything the loop does before it is over.
Runs ==
    \/ LoopFails \/ Summarize \/ GenerateQuestions \/ CheckConverged
    \/ AnswerItself \/ RoundOver \/ ExtractFacts \/ UpdateSections
    \/ CoherenceCheck \/ TensionCheck \/ ScoreAndCritique \/ Synthesize
    \/ WriteArtifact \/ Unmap \/ AskUser \/ TakeAnswer

LEMMA RunsWithin ==
  ASSUME Typed, Runs
  PROVE  Within(mem, mem') /\ disk' \in {disk, mem'}
<1> SUFFICES Within(mem, mem') /\ disk' \in {disk, mem'}
  OBVIOUS
<1>m. mem \in LoopState
  BY DEF Typed, TypeOK
<1>0. Within(mem, mem)
  BY <1>m, WithinItself
<1>1. CASE LoopFails
  BY <1>0, <1>1 DEF LoopFails, Abort, SaveState
<1>2. CASE Summarize
  <2> DEFINE st == Enter("summarize", mem)
  <2>1. Within(mem, st)
    BY <1>m, EnterWithin DEF Phase
  <2>2. Within(st, [st EXCEPT !.summary = TRUE])
    BY <2>1 DEF Within, Grows, LoopState
  <2> QED
    BY <1>2, <2>1, <2>2, WithinComposes DEF Summarize, SaveState
<1>3. CASE GenerateQuestions
  <2> DEFINE st == Enter("generate_questions", mem)
  <2>1. Within(mem, st)
    BY <1>m, EnterWithin DEF Phase
  <2>2. PICK new \in SUBSET Question : SaveState(MergeQuestions(st, new))
    BY <1>3 DEF GenerateQuestions
  <2>3. Within(st, MergeQuestions(st, new))
    BY <2>1, MergeQuestionsWithin DEF Within, Grows
  <2> QED
    BY <2>1, <2>2, <2>3, WithinComposes DEF SaveState
<1>4. CASE CheckConverged
  <2> DEFINE st == Enter("evaluate_questions", mem)
  <2>1. Within(mem, st)
    BY <1>m, EnterWithin DEF Phase
  <2>2. CASE mem' = mem /\ disk' = disk
    BY <1>0, <2>2
  <2>3. CASE ~(mem' = mem /\ disk' = disk)
    <3>1. PICK low \in SUBSET OpenQs(mem) : SaveState(FilterAndRankQuestions(st, low))
      BY <1>4, <2>3 DEF CheckConverged
    <3>2. Within(st, FilterAndRankQuestions(st, low))
      BY <2>1, FilterWithin DEF Within, Grows
    <3> QED
      BY <2>1, <3>1, <3>2, WithinComposes DEF SaveState
  <2> QED
    BY <2>2, <2>3
<1>5. CASE AnswerItself
  <2> DEFINE st == Enter("await_answer", mem)
  <2>1. Within(mem, st)
    BY <1>m, EnterWithin DEF Phase
  <2>2. PICK q \in OpenQs(mem), status \in {"answered", "factless"} :
          mem' = [st EXCEPT !.qs[q] = status]
    BY <1>5 DEF AnswerItself
  <2>3. q \in Question /\ st \in LoopState
    BY <2>1, <2>2 DEF OpenQs, Within, Grows
  <2>4. Within(st, mem')
    BY <2>2, <2>3, AnswerWithin
  <2>5. disk' = disk
    BY <1>5 DEF AnswerItself
  <2> QED
    BY <2>1, <2>4, <2>5, WithinComposes
<1>6. CASE RoundOver
  <2>1. mem' = mem \/ \E new : mem' = MergeQuestions(mem, new)
    BY <1>6 DEF RoundOver
  <2>2. disk' = disk
    BY <1>6 DEF RoundOver
  <2> QED
    BY <1>m, <1>0, <2>1, <2>2, MergeQuestionsWithin
<1>7. CASE ExtractFacts
  <2> DEFINE st == Enter("extract_facts", mem)
  <2>1. Within(mem, st)
    BY <1>m, EnterWithin DEF Phase
  <2>2. FactsOf(mem, round) \subseteq Question
    BY DEF FactsOf, Typed, TypeOK
  <2>3. Within(st, [st EXCEPT !.facts = @ \cup FactsOf(mem, round)])
    BY <2>1, <2>2 DEF Within, Grows, LoopState
  <2> QED
    BY <1>7, <2>1, <2>3, WithinComposes DEF ExtractFacts, SaveState
<1>8. CASE UpdateSections
  <2> DEFINE st == Enter("update_sections", mem)
  <2>1. Within(mem, st)
    BY <1>m, EnterWithin DEF Phase
  <2>2. FactsOf(mem, round) \in SUBSET Question
    BY DEF FactsOf, Typed, TypeOK
  <2>3. Within(st, MergeFacts(st, FactsOf(mem, round)))
    BY <2>1, <2>2, MergeFactsWithin DEF Within, Grows
  <2> QED
    BY <1>8, <2>1, <2>3, WithinComposes DEF UpdateSections, SaveState
<1>9. CASE CoherenceCheck
  <2> DEFINE st == Enter("coherence_check", mem)
  <2>1. Within(mem, st)
    BY <1>m, EnterWithin DEF Phase
  <2>2. PICK new \in SUBSET Item : SaveState(MergeReviewItems(st, new))
    BY <1>9 DEF CoherenceCheck
  <2>3. Within(st, MergeReviewItems(st, new))
    BY <2>1, MergeReviewItemsWithin DEF Within, Grows
  <2> QED
    BY <2>1, <2>2, <2>3, WithinComposes DEF SaveState
<1>10. CASE TensionCheck
  <2> DEFINE st == Enter("tension_check", mem)
  <2>1. Within(mem, st)
    BY <1>m, EnterWithin DEF Phase
  <2>2. PICK new \in SUBSET Item, qs \in SUBSET Question :
          SaveState(MergeQuestions(MergeReviewItems(st, new), qs))
    BY <1>10 DEF TensionCheck
  <2>3. Within(st, MergeReviewItems(st, new))
    BY <2>1, MergeReviewItemsWithin DEF Within, Grows
  <2>4. Within(MergeReviewItems(st, new), MergeQuestions(MergeReviewItems(st, new), qs))
    BY <2>3, MergeQuestionsWithin DEF Within, Grows
  <2>5. Within(mem, MergeQuestions(MergeReviewItems(st, new), qs))
    BY <2>1, <2>3, <2>4, WithinComposes
  <2> QED
    BY <2>2, <2>5 DEF SaveState
<1>11. CASE ScoreAndCritique
  <2>1. PICK scored \in Scores(mem) : \E st \in Critique(scored) : SaveState(st)
    BY <1>11 DEF ScoreAndCritique
  <2>2. Within(mem, scored)
    <3>1. PICK c \in BOOLEAN : scored = [mem EXCEPT !.confident = c]
      BY <1>m DEF Scores, LoopState
    <3>2. [mem EXCEPT !.confident = c] \in LoopState
      BY <1>m DEF LoopState
    <3>3. scored.items = mem.items /\ scored.sections = mem.sections /\ scored.iteration = mem.iteration
      BY <1>m, <3>1 DEF LoopState
    <3> QED
      BY <3>1, <3>2, <3>3 DEF Within, Grows
  <2> DEFINE critical == Enter("critique", scored)
  <2>3. Within(scored, critical)
    BY <2>2, EnterWithin DEF Phase, Within, Grows
  <2>4. PICK new \in SUBSET Item : SaveState(MergeReviewItems(critical, new))
    BY <2>1 DEF Critique
  <2>5. Within(critical, MergeReviewItems(critical, new))
    BY <2>3, MergeReviewItemsWithin DEF Within, Grows
  <2>6. Within(mem, MergeReviewItems(critical, new))
    BY <2>2, <2>3, <2>5, WithinComposes
  <2> QED
    BY <2>4, <2>6 DEF SaveState
<1>12. CASE Synthesize
  <2>1. Within(mem, Enter("complete", mem))
    BY <1>m, EnterWithin DEF Phase
  <2> QED
    BY <1>12, <2>1 DEF Synthesize, SaveState
<1>13. CASE WriteArtifact
  BY <1>0, <1>13 DEF WriteArtifact
<1>14. CASE Unmap
  BY <1>0, <1>14 DEF Unmap
<1>15. CASE AskUser
  <2>1. Within(mem, Enter("await_answer", mem))
    BY <1>m, EnterWithin DEF Phase
  <2> QED
    BY <1>15, <2>1 DEF AskUser, SaveState
<1>16. CASE TakeAnswer
  <2>1. shown \in Question
    BY <1>16 DEF TakeAnswer, Typed, RoundsKept, OpenQs
  <2>2. PICK status \in {"factless", "answered"} : mem' = [mem EXCEPT !.qs[shown] = status]
    BY <1>16 DEF TakeAnswer
  <2>3. disk' = disk
    BY <1>16 DEF TakeAnswer
  <2> QED
    BY <1>m, <2>1, <2>2, <2>3, AnswerWithin
<1> QED
  BY <1>1, <1>2, <1>3, <1>4, <1>5, <1>6, <1>7, <1>8, <1>9, <1>10, <1>11, <1>12,
     <1>13, <1>14, <1>15, <1>16 DEF Runs
LEMMA FindGapsGrows ==
  ASSUME Typed, FindGapsAndPrune
  PROVE  Grows(mem, mem') /\ disk' = mem'
<1> SUFFICES Grows(mem, mem') /\ disk' = mem'
  OBVIOUS
<1>1. mem \in LoopState /\ mem.iteration < MaxIterations
  BY DEF Typed, TypeOK, RoundsKept, InRound, FindGapsAndPrune
<1> DEFINE entered == Enter("find_gaps", mem)
<1>2. Within(mem, entered)
  BY <1>1, EnterWithin DEF Phase
<1>3. PICK gaps \in SUBSET Question, more \in SUBSET Question :
        SaveState([MergeQuestions(FindGaps(mem, gaps), more) EXCEPT !.iteration = @ + 1])
  BY DEF FindGapsAndPrune
<1>4. Within(entered, MergeQuestions(entered, gaps))
  BY <1>2, MergeQuestionsWithin DEF Within, Grows
<1>5. Within(MergeQuestions(entered, gaps), FindGaps(mem, gaps))
  BY <1>4, PruneWithin DEF Within, Grows, FindGaps
<1>6. Within(FindGaps(mem, gaps), MergeQuestions(FindGaps(mem, gaps), more))
  BY <1>5, MergeQuestionsWithin DEF Within, Grows
<1> DEFINE last == MergeQuestions(FindGaps(mem, gaps), more)
<1>7. Within(mem, last)
  BY <1>2, <1>4, <1>5, <1>6, WithinComposes
<1>8. last \in LoopState /\ last.iteration < MaxIterations
  BY <1>1, <1>7 DEF Within, Grows
<1> HIDE DEF last
<1>9. Grows(last, [last EXCEPT !.iteration = @ + 1])
  BY <1>8 DEF Grows, LoopState
<1> QED
  BY <1>3, <1>7, <1>9 DEF SaveState, Within, Grows, last

-----------------------------------------------------------------------------
(* Types.                                                                  *)

LEMMA InitTyped ==
  ASSUME Init
  PROVE  Typed
<1>1. NewLoopState \in LoopState
  BY DEF NewLoopState, LoopState
<1>2. TypeOK
  BY <1>1 DEF Init, TypeOK, Channel, None
<1>3. RequestsTyped
  BY DEF Init, RequestsTyped, NoStart, NoReview, StartRecord, ReviewRecord, Saved,
         Starting, Channel, None
<1>4. RoundsKept
  BY DEF Init, RoundsKept, InRound, None
<1> QED
  BY <1>2, <1>3, <1>4 DEF Init, Typed, Counters

LEMMA RunsLeave ==
  ASSUME Runs
  PROVE  /\ UNCHANGED <<start, review, mode, loopCh, ended, settled>>
         /\ answerCh' \in {answerCh, None}
         /\ pc # "idle" /\ pc' # "idle"
<1>1. UNCHANGED <<requests, mode, loopCh, ended, settled>> /\ answerCh' \in {answerCh, None}
  BY DEF Runs, LoopFails, Abort, Summarize, GenerateQuestions, CheckConverged, AnswerItself,
     RoundOver, ExtractFacts, UpdateSections, CoherenceCheck, TensionCheck,
     ScoreAndCritique, Synthesize, WriteArtifact, Unmap, AskUser, TakeAnswer,
     channels, history, loopRest
<1>2. pc # "idle" /\ pc' # "idle"
  BY DEF Runs, LoopFails, Abort, Summarize, GenerateQuestions, CheckConverged, AnswerItself,
     RoundOver, ExtractFacts, UpdateSections, CoherenceCheck, TensionCheck,
     ScoreAndCritique, Synthesize, WriteArtifact, Unmap, AskUser, TakeAnswer
<1> QED
  BY <1>1, <1>2 DEF requests

LEMMA RunsTyped ==
  ASSUME Typed, Runs
  PROVE  Typed'
<1> USE DEF Runs, loopRest, requests, history
<1>1. /\ mem' \in LoopState /\ mem'.iteration = mem.iteration
      /\ disk' \in LoopState \cup {NoState}
  BY RunsWithin DEF Within, Grows, Typed, TypeOK
<1>2. /\ UNCHANGED <<requests, mode, loopCh, ended>> /\ answerCh' \in {answerCh, None}
      /\ pc # "idle" /\ pc' # "idle"
  BY RunsLeave DEF requests
<1>3. RequestsTyped'
  BY <1>2 DEF Typed, RequestsTyped, Starting
<1>4. used' \in Counters
  <2>1. used' = used \/ Event \/ \E new : Generates(mem, new)
              \/ \E st, more : Generates(st, more)
    BY DEF LoopFails, LlmFails, Abort, Summarize, GenerateQuestions, CheckConverged, AnswerItself,
       RoundOver, ExtractFacts, UpdateSections, CoherenceCheck, TensionCheck,
       ScoreAndCritique, Synthesize, WriteArtifact, Unmap, AskUser, TakeAnswer
  <2> QED
    BY <2>1 DEF Event, Generates, Counters, Typed
<1>5. buffer' \in [Channel -> Seq(Answers)] /\ \A c \in Channel : Len(buffer'[c]) <= AnswerBuffer
  <2>1. CASE buffer' = buffer
    BY <2>1 DEF Typed, TypeOK
  <2>2. CASE TakeAnswer
    <3>1. buffer' = [buffer EXCEPT ![loopCh] = Tail(@)] /\ buffer[loopCh] # <<>>
      BY <2>2 DEF TakeAnswer
    <3>2. loopCh \in Channel
      BY <2>2 DEF TakeAnswer, Typed, TypeOK, RoundsKept
    <3>3. /\ buffer[loopCh] \in Seq(Answers) /\ Len(buffer[loopCh]) <= AnswerBuffer
          /\ buffer \in [Channel -> Seq(Answers)]
      BY <3>2 DEF Typed, TypeOK
    <3>4. Tail(buffer[loopCh]) \in Seq(Answers) /\ Len(Tail(buffer[loopCh])) <= AnswerBuffer
      BY <3>1, <3>3
    <3> QED
      BY <3>1, <3>2, <3>3, <3>4 DEF Typed, TypeOK
  <2>3. buffer' = buffer \/ TakeAnswer
    BY DEF LoopFails, Abort, Summarize, GenerateQuestions, CheckConverged, AnswerItself,
       RoundOver, ExtractFacts, UpdateSections, CoherenceCheck, TensionCheck,
       ScoreAndCritique, Synthesize, WriteArtifact, Unmap, AskUser, channels
  <2> QED
    BY <2>1, <2>2, <2>3
<1>6. artifact' \subseteq Question
  <2>1. artifact' \in {artifact, mem.sections}
    BY DEF LoopFails, Abort, Summarize, GenerateQuestions, CheckConverged, AnswerItself,
       RoundOver, ExtractFacts, UpdateSections, CoherenceCheck, TensionCheck,
       ScoreAndCritique, Synthesize, WriteArtifact, Unmap, AskUser, TakeAnswer
  <2> QED
    BY <2>1 DEF Typed, TypeOK, LoopState
<1>7. round' \subseteq Question /\ given' \subseteq Question /\ settled' \subseteq Item
  BY DEF LoopFails, Abort, Summarize, GenerateQuestions, CheckConverged, AnswerItself,
     RoundOver, ExtractFacts, UpdateSections, CoherenceCheck, TensionCheck, OpenQs,
     ScoreAndCritique, Synthesize, WriteArtifact, Unmap, AskUser, TakeAnswer,
     Typed, TypeOK, RoundsKept
<1>8. /\ pc' \in {"idle", "summarize", "generate", "check", "ask", "wait", "extract",
               "merge", "challenge", "tension", "score", "gaps", "synthesize", "write",
               "written", "unmap", "finish"}
      /\ shown' \in Question \cup {"none"}
  BY DEF LoopFails, Abort, Summarize, GenerateQuestions, CheckConverged, AnswerItself,
     RoundOver, ExtractFacts, UpdateSections, CoherenceCheck, TensionCheck, OpenQs,
     ScoreAndCritique, Synthesize, WriteArtifact, Unmap, AskUser, TakeAnswer,
     Typed, TypeOK
<1>9. TypeOK'
  BY <1>1, <1>2, <1>5, <1>6, <1>7, <1>8 DEF Typed, TypeOK
<1>10. pc' \in InRound => pc \in InRound \/ (CheckConverged /\ ~IsConverged(mem))
  <2>1. CASE CheckConverged
    BY <2>1 DEF CheckConverged, InRound
  <2>2. CASE RoundOver
    BY <2>2 DEF RoundOver, InRound
  <2> QED
    BY <2>1, <2>2 DEF LoopFails, Abort, Summarize, GenerateQuestions, AnswerItself,
       ExtractFacts, UpdateSections, CoherenceCheck, TensionCheck, InRound,
       ScoreAndCritique, Synthesize, WriteArtifact, Unmap, AskUser, TakeAnswer
<1>11. pc' \in InRound => mem'.iteration < MaxIterations
  BY <1>1, <1>10 DEF Typed, TypeOK, RoundsKept, IsConverged, LoopState
<1>12. pc' \notin InRound => round' = {}
  BY DEF LoopFails, Abort, Summarize, GenerateQuestions, CheckConverged, AnswerItself,
     RoundOver, ExtractFacts, UpdateSections, CoherenceCheck, TensionCheck, InRound,
     ScoreAndCritique, Synthesize, WriteArtifact, Unmap, AskUser, TakeAnswer,
     Typed, RoundsKept
<1>13. pc' = "wait" => AskUser
  BY DEF LoopFails, Abort, Summarize, GenerateQuestions, CheckConverged, AnswerItself,
     RoundOver, ExtractFacts, UpdateSections, CoherenceCheck, TensionCheck,
     ScoreAndCritique, Synthesize, WriteArtifact, Unmap, TakeAnswer
<1>14. pc' = "wait" => shown' \in OpenQs(mem') /\ mode' = "interactive"
  <2> SUFFICES ASSUME AskUser
               PROVE  shown' \in OpenQs(mem') /\ mode' = "interactive"
    BY <1>13
  <2>1. mem'.qs = mem.qs
    BY EnterWithin DEF AskUser, SaveState, Typed, TypeOK, Phase
  <2>2. shown' \in OpenQs(mem) /\ mode' = "interactive"
    BY <1>2 DEF AskUser
  <2> QED
    BY <2>1, <2>2 DEF OpenQs
<1>15. pc' # "wait" => shown' = "none"
  BY DEF LoopFails, Abort, Summarize, GenerateQuestions, CheckConverged, AnswerItself,
     RoundOver, ExtractFacts, UpdateSections, CoherenceCheck, TensionCheck,
     ScoreAndCritique, Synthesize, WriteArtifact, Unmap, AskUser, TakeAnswer,
     Typed, RoundsKept
<1>16. RoundsKept'
  BY <1>2, <1>11, <1>12, <1>14, <1>15 DEF Typed, RoundsKept
<1> QED
  BY <1>3, <1>4, <1>5, <1>7, <1>9, <1>16 DEF Typed
LEMMA StepCases ==
  ASSUME [Next]_vars
  PROVE  \/ Runs \/ FindGapsAndPrune \/ FinishRun
         \/ \E s \in Starter, m \in {"interactive", "autonomous"} : LoadForStart(s, m)
         \/ \E s \in Starter : MapChannel(s)
         \/ \E s \in Starter : StartRun(s)
         \/ \E kind \in Kind : AnswerQuestion(kind)
         \/ \E i \in Item, address \in BOOLEAN : LoadForReview(i, address)
         \/ ReviseDocument \/ SaveReview \/ ResetState \/ Crash
         \/ \E ctx \in {"run", "driver"} : Stop(ctx)
         \/ UNCHANGED vars
  BY DEF Next, LoopStep, Runs

LEMMA EndsTyped ==
  ASSUME Typed, FindGapsAndPrune \/ FinishRun
  PROVE  Typed'
<1>1. CASE FindGapsAndPrune
  <2>1. mem' \in LoopState /\ disk' \in LoopState \cup {NoState}
    BY <1>1, FindGapsGrows DEF Grows
  <2>2. /\ UNCHANGED <<start, review, shown, buffer, artifact, mode, loopCh, answerCh, ended,
                       given, settled>>
        /\ pc = "gaps" /\ pc' = "check" /\ round' = {}
    BY <1>1 DEF FindGapsAndPrune, loopRest, requests, history
  <2>3. used' \in Counters
    <3>1. used' = used \/ \E st, new : Generates(st, new)
      BY <1>1 DEF FindGapsAndPrune
    <3> QED
      BY <3>1 DEF Generates, Counters, Typed
  <2>4. TypeOK'
    BY <2>1, <2>2 DEF Typed, TypeOK
  <2>5. RequestsTyped' /\ RoundsKept'
    BY <2>2 DEF Typed, RequestsTyped, Starting, RoundsKept, InRound
  <2> QED
    BY <2>2, <2>3, <2>4, <2>5 DEF Typed
<1>2. CASE FinishRun
  <2>1. mem' \in LoopState
    BY <1>2 DEF FinishRun, NewLoopState, LoopState
  <2>2. /\ UNCHANGED <<start, review, disk, artifact, round, shown, answerCh, used, given, settled>>
        /\ pc = "finish" /\ pc' = "idle" /\ mode' = "none" /\ ended' = {} /\ loopCh' = None
    BY <1>2 DEF FinishRun, requests, history
  <2>3. buffer' = buffer \/ buffer' = [buffer EXCEPT ![loopCh] = <<>>]
    BY <1>2 DEF FinishRun
  <2>4. buffer' \in [Channel -> Seq(Answers)] /\ \A c \in Channel : Len(buffer'[c]) <= AnswerBuffer
    <3>1. <<>> \in Seq(Answers) /\ Len(<<>>) <= AnswerBuffer
      OBVIOUS
    <3>2. /\ buffer \in [Channel -> Seq(Answers)]
          /\ \A c \in Channel : Len(buffer[c]) <= AnswerBuffer
      BY DEF Typed, TypeOK
    <3> HIDE DEF Answers
    <3> QED
      BY <2>3, <3>1, <3>2
  <2>5. TypeOK'
    BY <2>1, <2>2, <2>4 DEF Typed, TypeOK
  <2>6. RequestsTyped' /\ RoundsKept'
    BY <2>2 DEF Typed, RequestsTyped, Starting, RoundsKept, InRound
  <2> QED
    BY <2>2, <2>4, <2>5, <2>6 DEF Typed
<1> QED
  BY <1>1, <1>2

LEMMA StartsTyped ==
  ASSUME Typed, NEW s \in Starter,
         \/ \E m \in {"interactive", "autonomous"} : LoadForStart(s, m)
         \/ MapChannel(s)
         \/ StartRun(s)
  PROVE  Typed'
<1>1. ASSUME NEW m \in {"interactive", "autonomous"}, LoadForStart(s, m)
      PROVE  Typed'
  <2> DEFINE held == IF disk = NoState THEN NewLoopState ELSE disk
  <2>1. UNCHANGED <<controller, disk, channels, review, ended, history>>
    BY <1>1 DEF LoadForStart
  <2>2. used.loops + 1 \in Channel /\ used' \in Counters
    <3>1. used \in Counters /\ used.loops < MaxLoops
      BY <1>1 DEF LoadForStart, Typed
    <3>2. PICK n \in {0, 1} : used' = [used EXCEPT !.loops = @ + 1, !.events = @ + n]
      BY <1>1 DEF LoadForStart
    <3>3. used.loops \in 0..MaxLoops /\ used.events \in Nat
      BY <3>1 DEF Counters
    <3>4. used.loops + 1 \in 1..MaxLoops /\ used.loops + 1 \in 0..MaxLoops
      BY <3>1, <3>3
    <3>5. used.events + n \in Nat
      BY <3>3
    <3> QED
      BY <3>1, <3>2, <3>4, <3>5 DEF Counters, Channel
  <2>3. held \in LoopState
    BY DEF Typed, TypeOK, NewLoopState, LoopState
  <2>4. PICK r \in StartRecord : start' = [start EXCEPT ![s] = r] /\ r.state \in LoopState
                                    /\ r.ch # None
    <3> DEFINE r == [pc |-> IF m = "interactive" THEN "loaded" ELSE "mapped", state |-> held,
                     mode |-> m, ch |-> used.loops + 1, alone |-> TRUE]
    <3>1. r \in StartRecord
      BY <2>2, <2>3 DEF StartRecord, Saved
    <3>2. start' = [start EXCEPT ![s] = r]
      BY <1>1 DEF LoadForStart
    <3>3. r.state = held /\ r.ch # None
      BY <2>2 DEF Channel, None
    <3> QED
      BY <2>3, <3>1, <3>2, <3>3
  <2>5. RequestsTyped'
    BY <2>1, <2>4 DEF Typed, RequestsTyped, Starting
  <2>6. TypeOK' /\ RoundsKept'
    BY <2>1 DEF Typed, TypeOK, RoundsKept, InRound, controller, channels, OpenQs
  <2> QED
    BY <2>1, <2>2, <2>5, <2>6 DEF Typed, channels, history
<1>2. CASE MapChannel(s)
  <2>1. /\ UNCHANGED <<controller, disk, loopCh, buffer, review, ended, used, history>>
        /\ answerCh' = start[s].ch /\ s \in Starting
        /\ start' = [start EXCEPT ![s].pc = "mapped"]
    BY <1>2 DEF MapChannel, Starting
  <2>2. RequestsTyped'
    <3>1. start' \in [Starter -> StartRecord]
      <4>1. start \in [Starter -> StartRecord] /\ s \in Starter
        BY <2>1 DEF Typed, RequestsTyped, Starting
      <4>2. [start[s] EXCEPT !.pc = "mapped"] \in StartRecord
        BY <4>1 DEF StartRecord
      <4> QED
        BY <2>1, <4>1, <4>2
    <3>2. \A t \in Starter : start'[t].state = start[t].state /\ start'[t].ch = start[t].ch
      BY <2>1 DEF Typed, RequestsTyped, StartRecord
    <3>3. Starting' = Starting
      BY <2>1 DEF Typed, RequestsTyped, StartRecord, Starting
    <3> QED
      BY <2>1, <3>1, <3>2, <3>3 DEF Typed, RequestsTyped, Starting
  <2>3. answerCh' \in Channel \cup {None}
    BY <2>1 DEF Typed, RequestsTyped, StartRecord
  <2>4. TypeOK' /\ RoundsKept'
    BY <2>1, <2>3 DEF Typed, TypeOK, RoundsKept, InRound, controller, OpenQs
  <2> QED
    BY <2>1, <2>2, <2>4 DEF Typed, history
<1>3. CASE StartRun(s)
  <2>1. UNCHANGED <<disk, artifact, answerCh, buffer, review, used, misfit, settled>>
    BY <1>3 DEF StartRun
  <2>2. /\ start[s] \in StartRecord /\ start[s].state \in LoopState
        /\ start[s].ch # None /\ s \in Starting
    BY <1>3 DEF StartRun, Starting, Typed, RequestsTyped
  <2>3. NoStart \in StartRecord
    BY DEF NoStart, StartRecord, Saved
  <2>4. CASE pc = "idle"
    <3>1. /\ mem' = start[s].state /\ mode' = start[s].mode /\ loopCh' = start[s].ch
          /\ pc' = Entry(start[s].state) /\ round' = {} /\ shown' = "none" /\ ended' = {}
          /\ given' \subseteq given
          /\ start' = [t \in Starter |->
               IF t = s THEN NoStart ELSE [start[t] EXCEPT !.alone = t \notin Starting]]
      BY <1>3, <2>4 DEF StartRun
    <3>2. \A t \in Starter : [start[t] EXCEPT !.alone = t \notin Starting] \in StartRecord
      BY DEF Typed, RequestsTyped, StartRecord
    <3>3. start' \in [Starter -> StartRecord]
      BY <2>3, <3>1, <3>2
    <3>4. \A t \in Starting' : /\ t # s /\ t \in Starting
                                  /\ start'[t].state = start[t].state
                                  /\ start'[t].ch = start[t].ch
      BY <3>1 DEF Starting, NoStart, Typed, RequestsTyped, StartRecord
    <3>5. RequestsTyped'
      BY <2>1, <3>3, <3>4 DEF Typed, RequestsTyped
    <3>6. pc' \in {"summarize", "generate", "check"}
      BY <3>1 DEF Entry
    <3>7. loopCh' \in Channel
      BY <1>3, <2>2, <3>1 DEF StartRecord
    <3>8. TypeOK'
      BY <2>1, <2>2, <3>1, <3>6, <3>7 DEF Typed, TypeOK, StartRecord
    <3>9. RoundsKept'
      BY <3>1, <3>6, <3>7 DEF RoundsKept, InRound, Channel, None
    <3> QED
      BY <2>1, <3>1, <3>5, <3>8, <3>9 DEF Typed
  <2>5. CASE pc # "idle"
    <3>1. /\ start' = [start EXCEPT ![s] = NoStart]
          /\ UNCHANGED <<mem, mode, loopCh, pc, round, shown, ended, given>>
      BY <1>3, <2>5 DEF StartRun
    <3>2. RequestsTyped'
      BY <2>1, <2>3, <3>1 DEF Typed, RequestsTyped, Starting, NoStart
    <3>3. TypeOK' /\ RoundsKept'
      BY <2>1, <3>1 DEF Typed, TypeOK, RoundsKept, InRound, OpenQs
    <3> QED
      BY <2>1, <3>1, <3>2, <3>3 DEF Typed
  <2> QED
    BY <2>4, <2>5
<1> QED
  BY <1>1, <1>2, <1>3
LEMMA AnswersTyped ==
  ASSUME Typed, NEW kind \in Kind, AnswerQuestion(kind)
  PROVE  Typed'
<1> DEFINE a == NewAnswer(kind)
<1>1. /\ answerCh # None /\ Len(buffer[answerCh]) < AnswerBuffer
      /\ buffer' = [buffer EXCEPT ![answerCh] = Append(@, a)]
      /\ UNCHANGED <<controller, disk, loopCh, answerCh, requests, ended, used, history>>
  BY DEF AnswerQuestion
<1>2. answerCh \in Channel
  BY <1>1 DEF Typed, TypeOK
<1>3. a \in Answers
  BY DEF NewAnswer, Answers, Typed, TypeOK
<1> HIDE DEF a
<1>4. /\ buffer \in [Channel -> Seq(Answers)] /\ buffer[answerCh] \in Seq(Answers)
      /\ \A c \in Channel : Len(buffer[c]) <= AnswerBuffer
  BY <1>2 DEF Typed, TypeOK
<1>5. Append(buffer[answerCh], a) \in Seq(Answers) /\ Len(Append(buffer[answerCh], a)) <= AnswerBuffer
  BY <1>1, <1>3, <1>4
<1>6. buffer' \in [Channel -> Seq(Answers)] /\ \A c \in Channel : Len(buffer'[c]) <= AnswerBuffer
  BY <1>1, <1>2, <1>4, <1>5
<1>7. TypeOK' /\ RequestsTyped' /\ RoundsKept'
  BY <1>1, <1>6 DEF Typed, TypeOK, RequestsTyped, Starting, RoundsKept, InRound, OpenQs,
     controller, requests
<1> QED
  BY <1>1, <1>6, <1>7 DEF Typed, history

LEMMA ReviewsTyped ==
  ASSUME Typed,
         \/ \E i \in Item, address \in BOOLEAN : LoadForReview(i, address)
         \/ ReviseDocument \/ SaveReview
  PROVE  Typed'
<1>1. UNCHANGED <<mem, pc, mode, round, shown, channels, start, ended>>
  BY DEF LoadForReview, ReviseDocument, SaveReview, controller
<1>2. NoReview \in ReviewRecord
  BY DEF NoReview, ReviewRecord, Saved
<1>3. /\ review' \in ReviewRecord
      /\ review'.pc # "idle" => review'.state \in LoopState /\ review'.item \in Item
  <2>1. ASSUME NEW i \in Item, NEW address \in BOOLEAN, LoadForReview(i, address)
        PROVE  /\ review' \in ReviewRecord
               /\ review'.pc # "idle" => review'.state \in LoopState /\ review'.item \in Item
    <3>1. disk \in LoopState
      BY <2>1 DEF LoadForReview, Typed, TypeOK
    <3>2. [disk EXCEPT !.items[i] = "settled"] \in LoopState
      BY <3>1 DEF LoopState
    <3> QED
      BY <2>1, <3>2 DEF LoadForReview, ReviewRecord, Saved, Typed, TypeOK
  <2>2. CASE ReviseDocument
    BY <1>2, <2>2 DEF ReviseDocument, ReviewRecord, Typed, RequestsTyped, NoReview
  <2>3. CASE SaveReview
    BY <1>2, <2>3 DEF SaveReview, NoReview
  <2> QED
    BY <2>1, <2>2, <2>3
<1>4. /\ disk' \in LoopState \cup {NoState} /\ artifact' \subseteq Question
      /\ given' \subseteq Question /\ settled' \subseteq Item
  BY DEF LoadForReview, ReviseDocument, SaveReview, controller, history, Typed, TypeOK,
     RequestsTyped, ReviewRecord
<1>5. used' \in Counters
  BY DEF LoadForReview, ReviseDocument, SaveReview, Event, Counters, Typed
<1>6. RequestsTyped'
  BY <1>1, <1>3 DEF Typed, RequestsTyped, Starting
<1>7. TypeOK' /\ RoundsKept'
  BY <1>1, <1>4 DEF Typed, TypeOK, RoundsKept, InRound, OpenQs, channels
<1> QED
  BY <1>1, <1>4, <1>5, <1>6, <1>7 DEF Typed, channels

LEMMA RestTyped ==
  ASSUME Typed,
         \/ ResetState \/ Crash
         \/ \E ctx \in {"run", "driver"} : Stop(ctx)
         \/ UNCHANGED vars
  PROVE  Typed'
<1>1. CASE ResetState
  BY SMTT(20), <1>1 DEF ResetState, Typed, TypeOK, RequestsTyped, Starting, RoundsKept, InRound, OpenQs,
     controller, channels, requests, Event, Counters
<1>2. CASE Crash
  <2>1. NewLoopState \in LoopState /\ NoReview \in ReviewRecord /\ NoStart \in StartRecord
    BY DEF NewLoopState, LoopState, NoReview, NoStart, ReviewRecord, StartRecord, Saved
  <2>2. <<>> \in Seq(Answers) /\ Len(<<>>) <= AnswerBuffer
    OBVIOUS
  <2>3. TypeOK'
    BY <1>2, <2>1, <2>2 DEF Crash, Typed, TypeOK
  <2>4. RequestsTyped'
    BY <1>2, <2>1 DEF Crash, RequestsTyped, Starting, NoStart, NoReview
  <2>5. RoundsKept'
    BY <1>2 DEF Crash, RoundsKept, InRound
  <2>6. used' \in Counters /\ given' \subseteq Question /\ settled' \subseteq Item
    BY <1>2 DEF Crash, Event, Counters, Typed
  <2>7. buffer' \in [Channel -> Seq(Answers)]
    BY <1>2, <2>2 DEF Crash
  <2> QED
    BY <2>3, <2>4, <2>5, <2>6, <2>7 DEF Typed
<1>3. ASSUME NEW ctx \in {"run", "driver"}, Stop(ctx)
      PROVE  Typed'
  BY SMTT(20), <1>3 DEF Stop, Typed, TypeOK, RequestsTyped, Starting, RoundsKept, InRound, OpenQs,
     controller, channels, requests, history, Event, Counters
<1>4. CASE UNCHANGED vars
  BY <1>4 DEF vars, Typed, TypeOK, RequestsTyped, Starting, RoundsKept, InRound, OpenQs
<1> QED
  BY <1>1, <1>2, <1>3, <1>4

LEMMA NextTyped ==
  ASSUME Typed, [Next]_vars
  PROVE  Typed'
BY StepCases, RunsTyped, EndsTyped, StartsTyped, AnswersTyped, ReviewsTyped, RestTyped

\* Every variable has its type, and whatever is started, stopped and saved in
\* between, no state has more iterations than the loop is allowed.
THEOREM TypeCorrect == Spec => []TypeOK
<1>1. Init => Typed
  BY InitTyped
<1>2. Typed /\ [Next]_vars => Typed'
  BY NextTyped
<1>3. Typed => TypeOK
  BY DEF Typed
<1> QED
  BY <1>1, <1>2, <1>3, PTL DEF Spec
-----------------------------------------------------------------------------
(* Settled items.                                                          *)

LEMMA LoadSettles ==
  ASSUME NEW st \in LoopState, NEW i \in Item
  PROVE  /\ [st EXCEPT !.items[i] = "settled"].items[i] = "settled"
         /\ \A j \in Item : st.items[j] = "settled" =>
              [st EXCEPT !.items[i] = "settled"].items[j] = "settled"
  BY DEF LoopState

LEMMA NextSettled ==
  ASSUME Typed, SettledEverywhere, [Next]_vars
  PROVE  SettledEverywhere'
<1>t. /\ settled \subseteq Item /\ mem \in LoopState
      /\ disk # NoState => disk \in LoopState
      /\ RequestsTyped
  BY DEF Typed, TypeOK
<1>n. \A st \in LoopState : st # NoState
  BY NoStateAssumption
<1>1. CASE Runs
  <2>1. /\ UNCHANGED <<start, review, settled>> /\ pc # "idle"
        /\ Grows(mem, mem') /\ disk' \in {disk, mem'}
    BY <1>1, RunsWithin, RunsLeave DEF Within
  <2> QED
    BY <1>t, <1>n, <2>1 DEF SettledEverywhere, Starting, Grows
<1>2. CASE FindGapsAndPrune
  <2>1. /\ UNCHANGED <<start, review, settled>> /\ pc # "idle"
        /\ Grows(mem, mem') /\ disk' = mem'
    BY <1>2, FindGapsGrows DEF FindGapsAndPrune, loopRest, requests, history
  <2> QED
    BY <1>t, <1>n, <2>1 DEF SettledEverywhere, Starting, Grows
<1>3. CASE FinishRun
  BY <1>3 DEF FinishRun, requests, history, SettledEverywhere, Starting
<1>4. ASSUME NEW s \in Starter, NEW m \in {"interactive", "autonomous"}, LoadForStart(s, m)
      PROVE  SettledEverywhere'
  <2>1. UNCHANGED <<mem, pc, disk, review, settled>>
    BY <1>4 DEF LoadForStart, controller, history
  <2>2. /\ \A t \in Starter \ {s} : start'[t] = start[t]
        /\ start'[s].state = IF disk = NoState THEN NewLoopState ELSE disk
    BY <1>t, <1>4 DEF LoadForStart, RequestsTyped
  <2> QED
    BY <2>1, <2>2 DEF SettledEverywhere, Starting
<1>5. ASSUME NEW s \in Starter, MapChannel(s)
      PROVE  SettledEverywhere'
  <2>1. UNCHANGED <<mem, pc, disk, review, settled>> /\ s \in Starting
    BY <1>5 DEF MapChannel, controller, history, Starting
  <2>2. \A t \in Starter : /\ start'[t].state = start[t].state
                           /\ t # s => start'[t] = start[t]
    BY <1>t, <1>5 DEF MapChannel, RequestsTyped, StartRecord
  <2> QED
    BY <2>1, <2>2 DEF SettledEverywhere, Starting
<1>6. ASSUME NEW s \in Starter, StartRun(s)
      PROVE  SettledEverywhere'
  <2>1. UNCHANGED <<disk, review, settled>> /\ s \in Starting
    BY <1>6 DEF StartRun, Starting
  <2>2. \A t \in Starting' : t \in Starting /\ start'[t].state = start[t].state
    BY <1>t, <1>6 DEF StartRun, Starting, RequestsTyped, StartRecord, NoStart
  <2>3. mem' = start[s].state \/ (mem' = mem /\ pc' = pc)
    BY <1>6 DEF StartRun
  <2> QED
    BY <2>1, <2>2, <2>3 DEF SettledEverywhere
<1>7. ASSUME NEW i \in Item, NEW address \in BOOLEAN, LoadForReview(i, address)
      PROVE  SettledEverywhere'
  <2>1. /\ UNCHANGED <<mem, pc, disk, start, settled>>
        /\ review'.state = [disk EXCEPT !.items[i] = "settled"] /\ review'.item = i
        /\ disk \in LoopState
    BY <1>t, <1>7 DEF LoadForReview, controller, history
  <2>2. /\ review'.state.items[i] = "settled"
        /\ \A j \in Item : disk.items[j] = "settled" => review'.state.items[j] = "settled"
    BY <2>1, LoadSettles
  <2> QED
    BY <1>t, <2>1, <2>2 DEF SettledEverywhere, Starting
<1>8. CASE ReviseDocument
  <2>1. UNCHANGED <<mem, pc, disk, start, settled>>
    BY <1>8 DEF ReviseDocument
  <2>2. \/ review' = NoReview
        \/ /\ review'.state = review.state /\ review'.item = review.item
           /\ review.pc # "idle"
    BY <1>t, <1>8 DEF ReviseDocument, RequestsTyped, ReviewRecord
  <2> QED
    BY <2>1, <2>2 DEF SettledEverywhere, Starting, NoReview
<1>9. CASE SaveReview
  <2>1. /\ UNCHANGED <<mem, pc, start>> /\ review' = NoReview /\ disk' = review.state
        /\ review.pc # "idle"
        /\ settled' = IF review.alone /\ ~InOtherHands THEN settled \cup {review.item}
                      ELSE settled \ {review.item}
    BY <1>9 DEF SaveReview, controller
  <2>2. disk' # NoState /\ disk'.items[review.item] = "settled"
    BY <1>t, <1>n, <2>1 DEF RequestsTyped, SettledEverywhere
  <2>3. \A i \in settled : disk'.items[i] = "settled"
    BY <2>1 DEF SettledEverywhere
  <2>4. \A i \in settled' : i \in settled \/ (i = review.item /\ ~InOtherHands)
    BY <2>1
  <2>5. \A i \in settled' : disk'.items[i] = "settled"
    BY <2>2, <2>3, <2>4
  <2>6. \A i \in settled' : pc' # "idle" => mem'.items[i] = "settled"
    BY <2>1, <2>4 DEF SettledEverywhere, InOtherHands
  <2>7. \A i \in settled' : \A s \in Starting' : start'[s].state.items[i] = "settled"
    BY <2>1, <2>4 DEF SettledEverywhere, InOtherHands, Starting
  <2> QED
    BY <2>1, <2>2, <2>5, <2>6, <2>7 DEF SettledEverywhere, NoReview
<1>10. CASE ResetState
  BY <1>10 DEF ResetState, requests, SettledEverywhere
<1>11. CASE Crash
  BY <1>11 DEF Crash, SettledEverywhere, Starting, NoStart, NoReview
<1>12. CASE \E kind \in Kind : AnswerQuestion(kind)
  BY <1>12 DEF AnswerQuestion, controller, requests, history, SettledEverywhere, Starting
<1>13. CASE \E ctx \in {"run", "driver"} : Stop(ctx)
  BY <1>13 DEF Stop, controller, requests, history, SettledEverywhere, Starting
<1>14. CASE UNCHANGED vars
  BY <1>14 DEF vars, SettledEverywhere, Starting
<1> QED
  BY <1>1, <1>2, <1>3, <1>4, <1>5, <1>6, <1>7, <1>8, <1>9, <1>10, <1>11, <1>12, <1>13,
     <1>14, StepCases

\* What a review request has settled while nobody else held the state stays
\* settled on disk: loops that load, change and save it, start requests that
\* overlap and reviews of other items all keep it, until it is reset.
THEOREM SettledKept == Spec => []SettledItemsStaySettled
<1>1. Init => Typed /\ SettledEverywhere
  BY InitTyped DEF Init, SettledEverywhere, NoReview
<1>2. Typed /\ SettledEverywhere /\ [Next]_vars => (Typed /\ SettledEverywhere)'
  BY NextTyped, NextSettled
<1>3. SettledEverywhere => SettledItemsStaySettled
  BY DEF SettledEverywhere, SettledItemsStaySettled
<1> QED
  BY <1>1, <1>2, <1>3, PTL DEF Spec
-----------------------------------------------------------------------------
(* Answers and the document.                                               *)

Answering == {"ask", "wait", "extract", "merge"}

LEMMA FactsInRound ==
  ASSUME NEW st, NEW answers
  PROVE  FactsOf(st, answers) \subseteq answers /\ FactsOf(st, {}) = {}
  BY DEF FactsOf

\* The loop's own state, after a step of the loop.
LEMMA RunsKeepAnswers ==
  ASSUME Typed, AnswersKept, Runs
  PROVE  given' \subseteq mem'.sections \cup
           (IF pc' \in Answering THEN FactsOf(mem', round') ELSE {})
<1> SUFFICES given' \subseteq mem'.sections \cup
               (IF pc' \in Answering THEN FactsOf(mem', round') ELSE {})
  OBVIOUS
<1>w. mem \in LoopState /\ mem.sections \subseteq mem'.sections /\ pc # "idle"
  BY RunsWithin, RunsLeave DEF Within, Grows, Typed, TypeOK
<1>g. given \subseteq mem.sections \cup (IF pc \in Answering THEN FactsOf(mem, round) ELSE {})
  BY <1>w DEF AnswersKept, Answering
<1>q. pc \notin Answering => given \subseteq mem'.sections
  BY <1>w, <1>g
<1>1. CASE LoopFails
  <2>1. given' = given \ round /\ mem' = mem
    BY <1>1 DEF LoopFails, Abort, SaveState
  <2>2. FactsOf(mem, round) \subseteq round
    BY FactsInRound
  <2> QED
    BY <1>g, <2>1, <2>2
<1>2. CASE \/ Summarize \/ GenerateQuestions \/ CheckConverged \/ CoherenceCheck
           \/ TensionCheck \/ ScoreAndCritique \/ Synthesize \/ WriteArtifact \/ Unmap
  <2>1. given' = given /\ pc \notin Answering
    BY <1>2 DEF Summarize, GenerateQuestions, CheckConverged, CoherenceCheck, TensionCheck,
       ScoreAndCritique, Synthesize, WriteArtifact, Unmap, history, Answering
  <2> QED
    BY <1>q, <2>1
<1>3. CASE AskUser
  <2>1. /\ given' = given /\ round' = round /\ pc \in Answering /\ pc' \in Answering
        /\ mem' = Enter("await_answer", mem)
    BY <1>3 DEF AskUser, SaveState, history, Answering
  <2>2. mem'.qs = mem.qs /\ mem'.sections = mem.sections
    BY <1>w, <2>1, EnterWithin DEF Phase
  <2> QED
    BY <1>g, <2>1, <2>2 DEF FactsOf
<1>4. CASE AnswerItself
  <2> DEFINE st == Enter("await_answer", mem)
  <2>1. PICK q \in OpenQs(mem), status \in {"answered", "factless"} :
          /\ mem' = [st EXCEPT !.qs[q] = status]
          /\ round' = round \cup {q}
          /\ given' = IF status = "answered" THEN given \cup {q} ELSE given
    BY <1>4 DEF AnswerItself
  <2>2. pc \in Answering /\ pc' \in Answering
    BY <1>4 DEF AnswerItself, Answering
  <2>3. st \in LoopState /\ st.qs = mem.qs /\ q \in Question /\ mem.qs[q] = "open"
    BY <1>w, EnterWithin DEF Phase, Within, Grows, OpenQs
  <2>4. mem'.qs = [mem.qs EXCEPT ![q] = status]
    BY <2>1, <2>3, AnswerWithin
  <2>5. FactsOf(mem, round) \subseteq FactsOf(mem', round')
    BY <1>w, <2>1, <2>3, <2>4 DEF FactsOf, LoopState, Typed, TypeOK
  <2>6. status = "answered" => q \in FactsOf(mem', round')
    BY <1>w, <2>1, <2>3, <2>4 DEF FactsOf, LoopState
  <2> QED
    BY <1>w, <1>g, <2>1, <2>2, <2>5, <2>6
<1>5. CASE RoundOver
  <2>1. /\ given' = given /\ round' = round /\ pc \in Answering
        /\ \/ pc' \in Answering /\ mem' = mem
           \/ round = {}
    BY <1>5 DEF RoundOver, history, Answering
  <2> QED
    BY <1>w, <1>g, <2>1, FactsInRound
<1>6. CASE ExtractFacts
  <2> DEFINE st == Enter("extract_facts", mem)
  <2>1. /\ given' = given /\ round' = round /\ pc \in Answering /\ pc' \in Answering
        /\ mem' = [st EXCEPT !.facts = @ \cup FactsOf(mem, round)]
    BY <1>6 DEF ExtractFacts, SaveState, history, Answering
  <2>2. st \in LoopState /\ st.qs = mem.qs
    BY <1>w, EnterWithin DEF Phase, Within, Grows
  <2>3. mem'.qs = mem.qs
    BY <2>1, <2>2 DEF LoopState
  <2> QED
    BY <1>w, <1>g, <2>1, <2>3 DEF FactsOf
<1>7. CASE UpdateSections
  <2> DEFINE st == Enter("update_sections", mem)
  <2>1. given' = given /\ mem' = MergeFacts(st, FactsOf(mem, round))
    BY <1>7 DEF UpdateSections, SaveState, history
  <2>2. st \in LoopState
    BY <1>w, EnterWithin DEF Phase, Within, Grows
  <2>3. FactsOf(mem, round) \in SUBSET Question
    BY DEF FactsOf, Typed, TypeOK
  <2>4. FactsOf(mem, round) \subseteq mem'.sections
    BY <2>1, <2>2, <2>3, MergeFactsWithin
  <2> QED
    BY <1>w, <1>g, <2>1, <2>4
<1>8. CASE TakeAnswer
  <2>1. PICK a \in {Head(buffer[loopCh])} :
          /\ mem' = [mem EXCEPT !.qs[shown] = IF a.kind = "factless" THEN "factless" ELSE "answered"]
          /\ IF a.kind = "[finish]"
             THEN pc' = "synthesize" /\ round' = {} /\ given' = given \ round
             ELSE /\ pc' = "ask" /\ round' = round \cup {shown}
                  /\ given' = IF a.kind = "text" THEN given \cup {shown} ELSE given
    BY <1>8 DEF TakeAnswer
  <2>2. shown \in Question /\ mem.qs[shown] = "open" /\ pc \in Answering
    BY <1>8 DEF TakeAnswer, Typed, RoundsKept, OpenQs, Answering
  <2>3. CASE a.kind = "[finish]"
    BY <1>w, <1>g, <2>1, <2>3, FactsInRound
  <2>4. CASE a.kind # "[finish]"
    <3>1. PICK status \in {"factless", "answered"} :
            /\ mem' = [mem EXCEPT !.qs[shown] = status]
            /\ a.kind = "text" => status = "answered"
      BY <2>1
    <3>2. mem'.qs = [mem.qs EXCEPT ![shown] = status]
      BY <1>w, <2>2, <3>1, AnswerWithin
    <3>3. round' = round \cup {shown} /\ pc' \in Answering
      BY <2>1, <2>4 DEF Answering
    <3>4. FactsOf(mem, round) \subseteq FactsOf(mem', round')
      BY <1>w, <2>2, <3>2, <3>3 DEF FactsOf, LoopState, Typed, TypeOK
    <3>5. status = "answered" => shown \in FactsOf(mem', round')
      BY <1>w, <2>2, <3>2, <3>3 DEF FactsOf, LoopState
    <3>6. given' = given \/ (given' = given \cup {shown} /\ status = "answered")
      BY <2>1, <2>4, <3>1
    <3> QED
      BY <1>w, <1>g, <2>2, <3>3, <3>4, <3>5, <3>6
  <2> QED
    BY <2>3, <2>4
<1> QED
  BY <1>1, <1>2, <1>3, <1>4, <1>5, <1>6, <1>7, <1>8 DEF Runs
LEMMA NextAnswersKept ==
  ASSUME Typed, AnswersKept, [Next]_vars
  PROVE  AnswersKept'
<1>t. /\ mem \in LoopState /\ RequestsTyped /\ given \subseteq Question
      /\ disk # NoState => disk \in LoopState
      /\ pc = "idle" => round = {}
  BY DEF Typed, TypeOK, RoundsKept, InRound
<1>n. \A st \in LoopState : st # NoState
  BY NoStateAssumption
<1>a. pc # "idle" => \A s \in Starting : ~start[s].alone
  BY DEF AnswersKept
<1>1. CASE Runs
  <2>1. /\ given' \subseteq mem'.sections \cup
             (IF pc' \in Answering THEN FactsOf(mem', round') ELSE {})
        /\ mem' \in LoopState /\ disk' \in {disk, mem'}
        /\ UNCHANGED start /\ pc # "idle" /\ pc' # "idle"
    BY <1>1, RunsKeepAnswers, RunsWithin, RunsLeave DEF Within, Grows
  <2>2. given' \ round' \subseteq Sections(disk')
    <3>1. CASE disk' = mem'
      <4>1. given' \ round' \subseteq mem'.sections
        BY <2>1, FactsInRound
      <4> QED
        BY <1>n, <2>1, <3>1, <4>1 DEF Sections
    <3>2. CASE disk' # mem'
      <4>1. given' \ round' \subseteq given \ round
        BY <1>1, <3>2 DEF Runs, LoopFails, Abort, Summarize, GenerateQuestions, CheckConverged,
           AnswerItself, RoundOver, ExtractFacts, UpdateSections, CoherenceCheck,
           TensionCheck, ScoreAndCritique, Synthesize, WriteArtifact, Unmap, AskUser, TakeAnswer,
           SaveState, history, Typed, RoundsKept, InRound
      <4>2. disk' = disk
        BY <2>1, <3>2
      <4> QED
        BY <4>1, <4>2 DEF AnswersKept, Sections
    <3> QED
      BY <3>1, <3>2
  <2>3. ~\E s \in Starting' : start'[s].alone
    BY <1>a, <2>1 DEF Starting
  <2>4. pc' = "written" => given' \subseteq artifact'
    <3>1. pc' = "written" => pc = "write" /\ artifact' = mem.sections /\ given' = given
      BY <1>1 DEF Runs, LoopFails, Abort, Summarize, GenerateQuestions, CheckConverged,
         AnswerItself, RoundOver, ExtractFacts, UpdateSections, CoherenceCheck,
         TensionCheck, ScoreAndCritique, Synthesize, WriteArtifact, Unmap, AskUser, TakeAnswer,
         history
    <3> QED
      BY <3>1 DEF AnswersKept
  <2> QED
    BY <2>1, <2>2, <2>3, <2>4 DEF AnswersKept, Answering
<1>2. CASE FindGapsAndPrune
  <2>1. /\ mem.sections \subseteq mem'.sections /\ mem' \in LoopState /\ disk' = mem'
        /\ UNCHANGED <<start, given>> /\ pc = "gaps" /\ pc' = "check" /\ round' = {}
    BY <1>2, FindGapsGrows DEF FindGapsAndPrune, loopRest, requests, history, Grows
  <2> QED
    BY <1>n, <1>a, <2>1 DEF AnswersKept, Sections, Starting
<1>3. CASE FinishRun
  <2>1. UNCHANGED <<start, given, disk, round>> /\ pc = "finish" /\ pc' = "idle"
    BY <1>3 DEF FinishRun, requests, history
  <2> QED
    BY <1>a, <2>1 DEF AnswersKept, Sections, Starting
<1>4. ASSUME NEW s \in Starter, NEW m \in {"interactive", "autonomous"}, LoadForStart(s, m)
      PROVE  AnswersKept'
  <2>1. UNCHANGED <<mem, artifact, round, disk, given>> /\ pc = "idle" /\ pc' = "idle"
    BY <1>4 DEF LoadForStart, controller, history
  <2>2. /\ \A t \in Starter \ {s} : start'[t] = start[t]
        /\ start'[s].state = IF disk = NoState THEN NewLoopState ELSE disk
    BY <1>t, <1>4 DEF LoadForStart, RequestsTyped
  <2>3. given \subseteq start'[s].state.sections
    BY <1>t, <2>1, <2>2 DEF AnswersKept, Sections
  <2> QED
    BY <2>1, <2>2, <2>3 DEF AnswersKept, Sections, Starting
<1>5. ASSUME NEW s \in Starter, MapChannel(s)
      PROVE  AnswersKept'
  <2>1. UNCHANGED <<mem, artifact, pc, round, disk, given>>
    BY <1>5 DEF MapChannel, controller, history
  <2>2. \A t \in Starting' : /\ t \in Starting /\ start'[t].state = start[t].state
                             /\ start'[t].alone = start[t].alone
    BY <1>t, <1>5 DEF MapChannel, Starting, RequestsTyped, StartRecord
  <2> QED
    BY <2>1, <2>2 DEF AnswersKept, Sections, FactsOf
<1>6. ASSUME NEW s \in Starter, StartRun(s)
      PROVE  AnswersKept'
  <2>1. UNCHANGED <<disk, artifact>> /\ s \in Starting
    BY <1>6 DEF StartRun, Starting
  <2>2. CASE pc = "idle"
    <3>1. /\ mem' = start[s].state /\ pc' = Entry(start[s].state) /\ round' = {}
          /\ given' = IF start[s].alone THEN given ELSE given \cap start[s].state.sections
          /\ start' = [t \in Starter |->
               IF t = s THEN NoStart ELSE [start[t] EXCEPT !.alone = t \notin Starting]]
      BY <1>6, <2>2 DEF StartRun
    <3>2. given' \subseteq mem'.sections
      BY <2>1, <3>1 DEF AnswersKept
    <3>3. given' \subseteq Sections(disk')
      BY <1>t, <2>1, <2>2, <3>1 DEF AnswersKept, Sections
    <3>4. ~\E t \in Starting' : start'[t].alone
      BY <1>t, <3>1 DEF Starting, NoStart, RequestsTyped, StartRecord
    <3>5. pc' # "written" /\ pc' # "idle"
      BY <3>1 DEF Entry
    <3> QED
      BY <3>2, <3>3, <3>4, <3>5 DEF AnswersKept
  <2>3. CASE pc # "idle"
    <3>1. UNCHANGED <<mem, pc, round, given>> /\ start' = [start EXCEPT ![s] = NoStart]
      BY <1>6, <2>3 DEF StartRun
    <3>2. \A t \in Starting' : t \in Starting /\ start'[t] = start[t]
      BY <1>t, <3>1 DEF Starting, NoStart, RequestsTyped
    <3> QED
      BY <2>1, <3>1, <3>2 DEF AnswersKept, Sections, FactsOf
  <2> QED
    BY <2>2, <2>3
<1>7. CASE ReviseDocument
  <2>1. UNCHANGED <<mem, disk, pc, round, start>> /\ given' \subseteq given
    BY <1>7 DEF ReviseDocument
  <2>2. pc' = "written" => given' \subseteq artifact'
    BY <1>7 DEF ReviseDocument, AnswersKept
  <2> QED
    BY <2>1, <2>2 DEF AnswersKept, Sections, FactsOf, Starting
<1>8. CASE SaveReview
  <2>1. /\ UNCHANGED <<mem, artifact, pc, round, start>> /\ disk' = review.state
        /\ given' = given \cap review.state.sections /\ review.pc # "idle"
    BY <1>8 DEF SaveReview, controller
  <2>2. given' \subseteq Sections(disk')
    BY <1>t, <1>n, <2>1 DEF Sections, RequestsTyped
  <2> QED
    BY <2>1, <2>2 DEF AnswersKept, FactsOf, Starting
<1>9. CASE ResetState
  BY <1>9 DEF ResetState, controller, requests, AnswersKept, Sections, Starting
<1>10. CASE Crash
  BY <1>10 DEF Crash, AnswersKept, Sections, Starting, NoStart
<1>11. CASE \/ \E kind \in Kind : AnswerQuestion(kind)
            \/ \E i \in Item, address \in BOOLEAN : LoadForReview(i, address)
            \/ \E ctx \in {"run", "driver"} : Stop(ctx)
            \/ UNCHANGED vars
  <2>1. UNCHANGED <<mem, artifact, pc, round, start, disk, given>>
    BY <1>11 DEF AnswerQuestion, LoadForReview, Stop, vars, controller, requests, history
  <2> QED
    BY <2>1 DEF AnswersKept, Sections, FactsOf, Starting
<1> QED
  BY <1>1, <1>2, <1>3, <1>4, <1>5, <1>6, <1>7, <1>8, <1>9, <1>10, <1>11, StepCases

\* A round of answers is taken in whole: what was answered with facts is in
\* the sections of the loop's state and of the file once the round is merged,
\* through saves, pruning, restarts and further rounds, and so in the document.
THEOREM AnswersReach == Spec => []AnswersReachDocument
<1>1. Init => Typed /\ AnswersKept
  BY InitTyped DEF Init, AnswersKept, Sections, Starting, NoStart
<1>2. Typed /\ AnswersKept /\ [Next]_vars => (Typed /\ AnswersKept)'
  BY NextTyped, NextAnswersKept
<1>3. AnswersKept => AnswersReachDocument
  BY DEF AnswersKept, AnswersReachDocument
<1> QED
  BY <1>1, <1>2, <1>3, PTL DEF Spec
-----------------------------------------------------------------------------
(* Channels and the answers in them.                                       *)

LEMMA BoundsKeepLoops ==
  ASSUME Typed, Event \/ used' = used \/ \E st, new : Generates(st, new)
  PROVE  used'.loops = used.loops
  BY DEF Event, Generates, Typed, Counters

LEMMA RunsKeepLoops ==
  ASSUME Typed, Runs
  PROVE  used'.loops = used.loops
<1>1. used' = used \/ Event \/ \E st, new : Generates(st, new)
  BY DEF Runs, LoopFails, LlmFails, Abort, Summarize, GenerateQuestions, CheckConverged,
     AnswerItself, RoundOver, ExtractFacts, UpdateSections, CoherenceCheck, TensionCheck,
     ScoreAndCritique, Synthesize, WriteArtifact, Unmap, AskUser, TakeAnswer
<1> QED
  BY <1>1, BoundsKeepLoops

LEMMA RunsKeepBuffers ==
  ASSUME Runs
  PROVE  buffer' = buffer \/ TakeAnswer
  BY DEF Runs, LoopFails, LlmFails, Abort, Summarize, GenerateQuestions, CheckConverged,
     AnswerItself, RoundOver, ExtractFacts, UpdateSections, CoherenceCheck, TensionCheck,
     ScoreAndCritique, Synthesize, WriteArtifact, Unmap, AskUser, channels

\* Where neither channels nor requests change, but a channel may be emptied or
\* leave the map.
LEMMA SameChannelsApart ==
  ASSUME Typed, ChannelsApart,
         UNCHANGED start, used'.loops = used.loops, loopCh' \in {loopCh, None},
         answerCh' \in {answerCh, None},
         \A c \in Channel : c > used.loops => buffer'[c] = <<>>
  PROVE  ChannelsApart'
<1>1. used.loops \in Nat
  BY DEF Typed, Counters
<1>2. Starting' = Starting
  BY DEF Starting
<1> QED
  BY <1>1, <1>2 DEF ChannelsApart, None, Channel

LEMMA NextChannelsApart ==
  ASSUME Typed, ChannelsApart, [Next]_vars
  PROVE  ChannelsApart'
<1>t. /\ used.loops \in 0..MaxLoops /\ RequestsTyped
      /\ {loopCh, answerCh} \subseteq Channel \cup {None}
      /\ buffer \in [Channel -> Seq(Answers)]
  BY DEF Typed, TypeOK, Counters
<1>b. \A c \in Channel : c > used.loops => buffer[c] = <<>>
  BY DEF ChannelsApart
<1>1. CASE Runs
  <2>1. UNCHANGED <<start, loopCh>> /\ answerCh' \in {answerCh, None} /\ used'.loops = used.loops
    BY <1>1, RunsLeave, RunsKeepLoops
  <2>2. \A c \in Channel : c > used.loops => buffer'[c] = <<>>
    <3>1. CASE buffer' = buffer
      BY <1>b, <3>1
    <3>2. CASE TakeAnswer
      <4>1. buffer' = [buffer EXCEPT ![loopCh] = Tail(@)] /\ loopCh <= used.loops
        BY <1>t, <3>2 DEF TakeAnswer, ChannelsApart
      <4>2. \A c \in Channel : c > used.loops => c # loopCh
        BY <1>t, <4>1 DEF Channel, None
      <4> QED
        BY <1>t, <1>b, <4>1, <4>2
    <3> QED
      BY <1>1, <3>1, <3>2, RunsKeepBuffers
  <2> QED
    BY <2>1, <2>2, SameChannelsApart
<1>2. CASE FindGapsAndPrune
  <2>1. UNCHANGED <<start, loopCh, answerCh, buffer>>
    BY <1>2 DEF FindGapsAndPrune, loopRest, requests
  <2>2. used' = used \/ \E st, new : Generates(st, new)
    BY <1>2 DEF FindGapsAndPrune
  <2> QED
    BY <1>b, <2>1, <2>2, BoundsKeepLoops, SameChannelsApart
<1>3. CASE FinishRun
  <2>1. UNCHANGED <<start, answerCh, used>> /\ loopCh' = None
    BY <1>3 DEF FinishRun, requests
  <2>2. \A c \in Channel : c > used.loops => buffer'[c] = <<>>
    BY <1>t, <1>b, <1>3 DEF FinishRun
  <2> QED
    BY <2>1, <2>2, SameChannelsApart
<1>4. ASSUME NEW s \in Starter, NEW m \in {"interactive", "autonomous"}, LoadForStart(s, m)
      PROVE  ChannelsApart'
  <2>1. UNCHANGED <<loopCh, answerCh, buffer>> /\ s \notin Starting /\ used.loops < MaxLoops
    BY <1>4 DEF LoadForStart, channels
  <2>2. used'.loops = used.loops + 1
    BY <1>4 DEF LoadForStart, Typed, Counters
  <2>3. /\ \A t \in Starter \ {s} : start'[t] = start[t]
        /\ start'[s].ch = used.loops + 1
    BY <1>t, <1>4 DEF LoadForStart, RequestsTyped
  <2>4. \A t \in Starting' : t = s \/ (t # s /\ t \in Starting /\ start'[t] = start[t])
    BY <2>3 DEF Starting
  <2>5. \A t \in Starting : start[t].ch \in 1..used.loops
    BY DEF ChannelsApart
  <2>6. \A t \in Starting' : /\ start'[t].ch \in 1..(used.loops + 1)
                             /\ start'[t].ch = used.loops + 1 <=> t = s
    BY <1>t, <2>3, <2>4, <2>5
  <2>7. {loopCh, answerCh} \subseteq 0..(used.loops + 1) /\ loopCh # used.loops + 1
    BY <1>t DEF ChannelsApart
  <2>8. \A t \in Starting' : start'[t].ch # loopCh
    BY <2>3, <2>4, <2>7 DEF ChannelsApart
  <2>9. \A t \in Starting' : \A u \in Starting' \ {t} : start'[u].ch # start'[t].ch
    BY <2>4, <2>6 DEF ChannelsApart
  <2>10. \A c \in Channel : c > used.loops + 1 => buffer'[c] = <<>>
    BY <1>t, <1>b, <2>1 DEF Channel
  <2> QED
    BY <2>1, <2>2, <2>6, <2>7, <2>8, <2>9, <2>10 DEF ChannelsApart
<1>5. ASSUME NEW s \in Starter, MapChannel(s)
      PROVE  ChannelsApart'
  <2>1. UNCHANGED <<loopCh, buffer, used>> /\ answerCh' = start[s].ch /\ s \in Starting
    BY <1>5 DEF MapChannel, Starting
  <2>2. \A t \in Starting' : t \in Starting /\ start'[t].ch = start[t].ch
    BY <1>t, <1>5 DEF MapChannel, Starting, RequestsTyped, StartRecord
  <2>3. start[s].ch \in 0..used.loops
    BY <1>t, <2>1 DEF ChannelsApart
  <2> QED
    BY <2>1, <2>2, <2>3 DEF ChannelsApart
<1>6. ASSUME NEW s \in Starter, StartRun(s)
      PROVE  ChannelsApart'
  <2>1. UNCHANGED <<answerCh, buffer, used>> /\ s \in Starting
    BY <1>6 DEF StartRun, Starting
  <2>2. \A t \in Starting' : t \in Starting \ {s} /\ start'[t].ch = start[t].ch
    BY <1>t, <1>6 DEF StartRun, Starting, RequestsTyped, StartRecord, NoStart
  <2>3. loopCh' = start[s].ch \/ loopCh' = loopCh
    BY <1>6 DEF StartRun
  <2>4. loopCh' \in 0..used.loops
    BY <1>t, <2>1, <2>3 DEF ChannelsApart
  <2>5. \A t \in Starting' : start'[t].ch # loopCh'
    BY <2>1, <2>2, <2>3 DEF ChannelsApart
  <2> QED
    BY <2>1, <2>2, <2>4, <2>5 DEF ChannelsApart
<1>7. ASSUME NEW kind \in Kind, AnswerQuestion(kind)
      PROVE  ChannelsApart'
  <2>1. UNCHANGED <<start, used, loopCh, answerCh>>
    BY <1>7 DEF AnswerQuestion, requests
  <2>2. buffer' = [buffer EXCEPT ![answerCh] = Append(@, NewAnswer(kind))] /\ answerCh # None
    BY <1>7 DEF AnswerQuestion
  <2>3. \A c \in Channel : c > used.loops => c # answerCh
    BY <1>t DEF ChannelsApart, Channel
  <2> QED
    BY <1>t, <1>b, <2>1, <2>2, <2>3, SameChannelsApart
<1>8. CASE Crash
  <2>1. used'.loops = used.loops
    BY <1>8, BoundsKeepLoops DEF Crash
  <2> QED
    BY <1>t, <1>8, <2>1 DEF Crash, ChannelsApart, Starting, NoStart, None
<1>9. CASE \/ \E i \in Item, address \in BOOLEAN : LoadForReview(i, address)
           \/ ReviseDocument \/ SaveReview \/ ResetState
           \/ \E ctx \in {"run", "driver"} : Stop(ctx)
           \/ UNCHANGED vars
  <2>1. UNCHANGED <<start, loopCh, answerCh, buffer>> /\ (Event \/ used' = used)
    BY <1>9 DEF LoadForReview, ReviseDocument, SaveReview, ResetState, Stop, vars, channels,
       requests
  <2> QED
    BY <1>b, <2>1, BoundsKeepLoops, SameChannelsApart
<1> QED
  BY <1>1, <1>2, <1>3, <1>4, <1>5, <1>6, <1>7, <1>8, <1>9, StepCases
\* Before a question is on display, every answer under way is to none.
LEMMA NoneUnderWay ==
  ASSUME AnswersAtHome, pc \notin {"wait", "unmap", "finish"},
         NEW c \in Channel, NEW k \in 1..Len(buffer[c])
  PROVE  buffer[c][k].to = "none"
  BY DEF AnswersAtHome

LEMMA NextAnswersAtHome ==
  ASSUME AnswerBuffer = 1, Typed, ChannelsApart, AnswersAtHome, [Next]_vars
  PROVE  AnswersAtHome'
<1>t. /\ RequestsTyped /\ buffer \in [Channel -> Seq(Answers)]
      /\ {loopCh, answerCh} \subseteq Channel \cup {None}
      /\ pc # "idle" => loopCh \in Channel
      /\ \A c \in Channel : Len(buffer[c]) <= 1
  BY DEF Typed, TypeOK, RoundsKept
<1>1. CASE TakeAnswer
  <2>1. /\ pc = "wait" /\ loopCh \in Channel /\ buffer[loopCh] # <<>>
        /\ buffer' = [buffer EXCEPT ![loopCh] = Tail(@)]
    BY <1>t, <1>1 DEF TakeAnswer
  <2>2. buffer[loopCh] \in Seq(Answers) /\ Len(buffer[loopCh]) = 1
    <3>1. buffer[loopCh] \in Seq(Answers) /\ buffer[loopCh] # <<>> /\ Len(buffer[loopCh]) <= 1
      BY <1>t, <2>1
    <3>2. Len(buffer[loopCh]) # 0
      BY <3>1, EmptySeq
    <3>3. ASSUME NEW n \in Nat, n <= 1, n # 0
          PROVE  n = 1
      BY <3>3
    <3>4. Len(buffer[loopCh]) \in Nat
      BY <3>1
    <3>5. Len(buffer[loopCh]) = 1
      BY <3>1, <3>2, <3>3, <3>4
    <3> QED
      BY <3>1, <3>5
  <2>3. Head(buffer[loopCh]) = buffer[loopCh][1] /\ Len(Tail(buffer[loopCh])) = 0
    BY <2>2
  <2>4. Head(buffer[loopCh]).to \in {shown, "none"}
    BY <2>1, <2>2, <2>3 DEF AnswersAtHome
  <2>5. misfit' = misfit
    BY <1>1, <2>4 DEF TakeAnswer
  <2>6. \A c \in Channel : c # loopCh => buffer'[c] = buffer[c]
    BY <1>t, <2>1
  <2>7. Len(buffer'[loopCh]) = 0
    BY <1>t, <2>1, <2>3
  <2>8. \A c \in Channel : \A k \in 1..Len(buffer'[c]) : buffer'[c][k].to = "none"
    <3> SUFFICES ASSUME NEW c \in Channel, NEW k \in 1..Len(buffer'[c])
                 PROVE  buffer'[c][k].to = "none"
      OBVIOUS
    <3>1. c # loopCh
      BY <2>7
    <3> QED
      BY <2>6, <3>1 DEF AnswersAtHome
  <2> QED
    BY <2>5, <2>8 DEF AnswersAtHome
<1>2. CASE Runs /\ ~TakeAnswer
  <2>1. buffer' = buffer /\ UNCHANGED <<mode, loopCh>> /\ pc # "idle"
    BY <1>2, RunsKeepBuffers, RunsLeave
  <2>2. misfit' = misfit
    BY <1>2 DEF Runs, LoopFails, Abort, Summarize, GenerateQuestions, CheckConverged,
       AnswerItself, RoundOver, ExtractFacts, UpdateSections, CoherenceCheck, TensionCheck,
       ScoreAndCritique, Synthesize, WriteArtifact, Unmap, AskUser, history
  <2>3. \/ pc \notin {"wait", "unmap", "finish"}
        \/ pc' = "unmap"
        \/ /\ pc = "unmap" /\ pc' = "finish"
           /\ mode = "interactive" => answerCh' = None
    BY <1>2 DEF Runs, LoopFails, Abort, Summarize, GenerateQuestions, CheckConverged,
       AnswerItself, RoundOver, ExtractFacts, UpdateSections, CoherenceCheck, TensionCheck,
       ScoreAndCritique, Synthesize, WriteArtifact, Unmap, AskUser
  <2>4. loopCh # None
    BY <2>1 DEF Typed, RoundsKept
  <2> QED
    BY <2>1, <2>2, <2>3, <2>4, NoneUnderWay DEF AnswersAtHome
<1>3. CASE FindGapsAndPrune
  <2>1. pc = "gaps" /\ UNCHANGED <<buffer, misfit>>
    BY <1>3 DEF FindGapsAndPrune, history
  <2> QED
    BY <2>1, NoneUnderWay DEF AnswersAtHome
<1>4. CASE FinishRun
  <2>1. /\ pc = "finish" /\ UNCHANGED misfit /\ loopCh \in Channel
        /\ buffer' = IF loopCh = answerCh THEN buffer ELSE [buffer EXCEPT ![loopCh] = <<>>]
    BY <1>t, <1>4 DEF FinishRun, history
  <2>2. \A c \in Channel : \A k \in 1..Len(buffer'[c]) : buffer'[c][k].to = "none"
    <3> SUFFICES ASSUME NEW c \in Channel, NEW k \in 1..Len(buffer'[c]),
                        buffer'[c][k].to # "none"
                 PROVE  FALSE
      OBVIOUS
    <3>1. CASE loopCh = answerCh
      BY <2>1, <3>1 DEF AnswersAtHome
    <3>2. CASE loopCh # answerCh
      <4>1. buffer'[loopCh] = <<>> /\ \A d \in Channel \ {loopCh} : buffer'[d] = buffer[d]
        BY <1>t, <2>1, <3>2
      <4>2. c # loopCh
        BY <4>1
      <4> QED
        BY <4>1, <4>2 DEF AnswersAtHome
    <3> QED
      BY <3>1, <3>2
  <2> QED
    BY <2>1, <2>2 DEF AnswersAtHome
<1>5. ASSUME NEW s \in Starter, MapChannel(s)
      PROVE  AnswersAtHome'
  <2>1. UNCHANGED <<buffer, misfit, pc, mode, shown, loopCh>> /\ answerCh' = start[s].ch
    BY <1>5 DEF MapChannel, controller, history
  <2>2. answerCh' # loopCh'
    BY <1>5, <2>1 DEF MapChannel, ChannelsApart, Starting
  <2> QED
    BY <2>1, <2>2 DEF AnswersAtHome
<1>6. ASSUME NEW s \in Starter, StartRun(s)
      PROVE  AnswersAtHome'
  <2>1. UNCHANGED <<buffer, misfit, answerCh>>
    BY <1>6 DEF StartRun
  <2>2. pc = "idle" \/ UNCHANGED <<pc, mode, shown, loopCh>>
    BY <1>6 DEF StartRun
  <2> QED
    BY <2>1, <2>2, NoneUnderWay DEF AnswersAtHome
<1>7. ASSUME NEW kind \in Kind, AnswerQuestion(kind)
      PROVE  AnswersAtHome'
  <2> DEFINE a == NewAnswer(kind)
  <2>1. /\ UNCHANGED <<pc, mode, shown, loopCh, answerCh, misfit>>
        /\ buffer' = [buffer EXCEPT ![answerCh] = Append(@, a)]
        /\ answerCh \in Channel /\ Len(buffer[answerCh]) < 1
    BY <1>t, <1>7 DEF AnswerQuestion, controller, history
  <2>2. a.to # "none" => answerCh = loopCh /\ a.to = shown /\ pc = "wait" /\ mode = "interactive"
    BY DEF NewAnswer, Typed, RoundsKept
  <2> HIDE DEF a
  <2>3. buffer[answerCh] \in Seq(Answers) /\ Len(buffer[answerCh]) = 0
    BY <1>t, <2>1
  <2>4. Append(buffer[answerCh], a)[1] = a /\ Len(Append(buffer[answerCh], a)) = 1
    BY <2>3
  <2>5. buffer'[answerCh][1] = a /\ Len(buffer'[answerCh]) = 1
    BY <1>t, <2>1, <2>4
  <2>6. \A c \in Channel : c # answerCh => buffer'[c] = buffer[c]
    BY <1>t, <2>1
  <2>7. ASSUME NEW c \in Channel, NEW k \in 1..Len(buffer'[c]), buffer'[c][k].to # "none"
        PROVE  /\ c = loopCh /\ mode = "interactive"
               /\ \/ pc = "wait" /\ buffer'[c][k].to = shown
                  \/ pc = "unmap"
                  \/ pc = "finish" /\ answerCh # loopCh
    <3>1. CASE c = answerCh
      BY <2>2, <2>5, <2>7, <3>1
    <3>2. CASE c # answerCh
      BY <2>6, <2>7, <3>2 DEF AnswersAtHome
    <3> QED
      BY <3>1, <3>2
  <2>8. misfit' = {}
    BY <2>1 DEF AnswersAtHome
  <2> QED
    BY <2>1, <2>7, <2>8 DEF AnswersAtHome
<1>8. CASE Crash
  BY <1>8 DEF Crash, AnswersAtHome
<1>9. CASE \/ \E s \in Starter, m \in {"interactive", "autonomous"} : LoadForStart(s, m)
           \/ \E i \in Item, address \in BOOLEAN : LoadForReview(i, address)
           \/ ReviseDocument \/ SaveReview \/ ResetState
           \/ \E ctx \in {"run", "driver"} : Stop(ctx)
           \/ UNCHANGED vars
  <2>1. UNCHANGED <<pc, mode, shown, loopCh, answerCh, buffer, misfit>>
    BY <1>9 DEF LoadForStart, LoadForReview, ReviseDocument, SaveReview, ResetState, Stop, vars,
       channels, controller, history
  <2> QED
    BY <2>1 DEF AnswersAtHome
<1> QED
  BY <1>1, <1>2, <1>3, <1>4, <1>5, <1>6, <1>7, <1>8, <1>9, StepCases

\* With the one place that an answer channel has in the code, no answer that is
\* sent to a loop while a question is on display is taken for another question,
\* however starts, stops and failures interleave: what is left in a channel when
\* its question is given up is forgotten with the channel.
THEOREM AnswersFit ==
  ASSUME AnswerBuffer = 1
  PROVE  Spec => []AnswersFitTheirQuestion
<1> DEFINE IInv == Typed /\ ChannelsApart /\ AnswersAtHome
<1>1. Init => IInv
  <2> SUFFICES ASSUME Init PROVE IInv
    OBVIOUS
  <2>1. ChannelsApart
    BY DEF Init, ChannelsApart, Starting, NoStart, None
  <2>2. AnswersAtHome
    BY DEF Init, AnswersAtHome
  <2> QED
    BY <2>1, <2>2, InitTyped
<1>2. IInv /\ [Next]_vars => IInv'
  BY NextTyped, NextChannelsApart, NextAnswersAtHome
<1>3. IInv => AnswersFitTheirQuestion
  BY DEF AnswersAtHome, AnswersFitTheirQuestion
<1> HIDE DEF IInv
<1> QED
  BY <1>1, <1>2, <1>3, PTL DEF Spec
=============================================================================
