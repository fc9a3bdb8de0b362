------------------------------ MODULE ModelCalls ------------------------------
(***************************************************************************)
(* One call of a language model: the provider that asks it (provider/, and *)
(* agent/ for the Claude command line), the channel of events between the  *)
(* provider's goroutine and its caller, and the caller's way of reading.   *)
(*                                                                         *)
(* A wire is how the provider talks to the model: four streamed HTTP       *)
(* bodies, the output of the Claude process, and the four tool loops of    *)
(* ExecuteAgent.  A reader is what the caller does with the events:        *)
(*   strict    returns at the first error (refinement, planners, reviews)  *)
(*   patient   reads to the end, then fails if it saw an error (mocks)     *)
(*   chunks    only adds up text (synthesis, skill observer, summaries)    *)
(*   collect   returns at "done" (the vision turn)                         *)
(*   execute   keeps what "done" carries (bead execution)                  *)
(*   reviewer  agent.ReviewBead: reads the process itself, no channel      *)
(* Text is a sequence of fragments, each told apart by what a review makes *)
(* of it: an approval phrase, an issue in a list, or neither.              *)
(***************************************************************************)
EXTENDS Naturals, Sequences, SequencesExt

CONSTANTS Capacity,      \* buffer of the event channel: 32 or 64 in the code
          MaxLines,      \* bound: lines the model sends in one answer
          MaxIterations, \* maxAgentIterations, 20 in the code
          MaxRetries,    \* retries of a rate-limited request, 5 in the code
          MaxCalls       \* bound: tool calls the model makes in one round

ASSUME CallBounds ==
  /\ {Capacity, MaxIterations, MaxCalls} \subseteq Nat \ {0}
  /\ {MaxLines, MaxRetries} \subseteq Nat

Bodies == {"anthropic", "openai", "gemini", "ollama"}
Loops == {"anthropic_tools", "openai_tools", "native_tools", "pseudo_tools"}
Wires == Bodies \cup Loops \cup {"cli"}

ReadersOf(w) ==
  CASE w = "cli" -> {"strict", "patient", "chunks", "collect", "execute", "reviewer"}
    [] w \in Bodies -> {"strict", "patient", "chunks", "collect"}
    [] w \in Loops -> {"strict", "execute"}

Fragments == {"approves", "issue", "words"}

VARIABLES
  wire, reader, \* who talks to whom, chosen once
  pc,           \* where the provider's goroutine is
  tries,        \* 429 answers met so far
  lines,        \* lines read so far (bound)
  said,         \* text the provider has accumulated: fullResponse
  out,          \* events the goroutine still has to put on the channel
  chan,         \* the channel's buffer
  cancelled,    \* the caller's context is done
  cut,          \* the answer ended because the transport broke or was killed
  got, fault,   \* the reader: text so far, an error was seen
  outcome,      \* the reader: idle, reading, ok, findings, failed, limited
  rounds,       \* rounds of the tool loop begun
  todo,         \* calls of this round still to execute
  msgs          \* messages of the tool loop: the calls asked and answered

wireVars == <<tries, lines, said, cut>>
readVars == <<got, fault, outcome>>
loopVars == <<rounds, todo, msgs>>
vars == <<wire, reader, pc, out, chan, cancelled, wireVars, readVars, loopVars>>

Event(type, text) == [type |-> type, text |-> text]
Chunk(text) == Event("chunk", text)
Plain(type) == Event(type, <<>>)
Types == {"chunk", "error", "tokens", "log", "plan_limit", "done"}
MaxText == MaxLines + 1

TypeOK ==
  /\ wire \in Wires /\ reader \in ReadersOf(wire)
  /\ pc \in {"request", "backoff", "read", "round", "tools", "tool", "close", "closed"}
  /\ tries \in 0 .. MaxRetries /\ lines \in 0 .. MaxLines
  /\ said \in BoundedSeq(Fragments, MaxText) /\ got \in BoundedSeq(Fragments, MaxText)
  /\ Len(chan) <= Capacity /\ Len(out) <= 2
  /\ \A e \in Range(out) \cup Range(chan) :
       e.type \in Types /\ e.text \in BoundedSeq(Fragments, MaxText)
  /\ {cancelled, cut, fault} \subseteq BOOLEAN
  /\ outcome \in {"idle", "reading", "ok", "findings", "failed", "limited"}
  /\ rounds \in 0 .. MaxIterations
  /\ Len(todo) <= MaxCalls

Init ==
  /\ wire \in Wires /\ reader \in ReadersOf(wire)
  /\ pc = IF wire \in Loops THEN "round" ELSE IF wire = "cli" THEN "read" ELSE "request"
  /\ outcome = IF wire \in Bodies THEN "idle" ELSE "reading"
  /\ tries = 0 /\ lines = 0 /\ rounds = 0
  /\ said = <<>> /\ out = <<>> /\ chan = <<>> /\ got = <<>> /\ todo = <<>> /\ msgs = <<>>
  /\ cancelled = FALSE /\ cut = FALSE /\ fault = FALSE

(* The run's stop request or the end of its context. *)
Cancel ==
  /\ ~cancelled /\ pc # "closed"
  /\ cancelled' = TRUE
  /\ UNCHANGED <<wire, reader, pc, out, chan, wireVars, readVars, loopVars>>

-----------------------------------------------------------------------------
(* The HTTP request that opens a streamed answer. *)

AtRequest == pc = "request" /\ UNCHANGED <<wire, reader, out, chan, cancelled, loopVars>>

(* Any failure, a status other than 200, the last 429, or a done context.  *)
RequestFails ==
  /\ AtRequest
  /\ pc' = "closed" /\ outcome' = "failed"
  /\ UNCHANGED <<wireVars, got, fault>>

RequestAccepted ==
  /\ AtRequest /\ ~cancelled
  /\ pc' = "read" /\ outcome' = "reading"
  /\ UNCHANGED <<wireVars, got, fault>>

(* Slip: one retry too many. *)
RateLimitedOnceMore ==
  /\ AtRequest /\ ~cancelled /\ tries <= MaxRetries
  /\ tries' = tries + 1 /\ pc' = "backoff"
  /\ UNCHANGED <<lines, said, cut, readVars>>

(* Status 429: wait, unless the retries are used up. *)
RateLimited ==
  /\ AtRequest /\ ~cancelled /\ tries < MaxRetries
  /\ tries' = tries + 1 /\ pc' = "backoff"
  /\ UNCHANGED <<lines, said, cut, readVars>>

BackoffEnds ==
  /\ pc = "backoff"
  /\ IF cancelled THEN pc' = "closed" /\ outcome' = "failed"
                  ELSE pc' = "request" /\ UNCHANGED outcome
  /\ UNCHANGED <<wire, reader, out, chan, cancelled, wireVars, got, fault, loopVars>>

AnthropicChat == wire = "anthropic" /\ (RequestFails \/ RequestAccepted)
GeminiChat == wire = "gemini" /\ (RequestFails \/ RequestAccepted)
OllamaChat == wire = "ollama" /\ (RequestFails \/ RequestAccepted)
OpenAIChat == wire = "openai" /\ (RequestFails \/ RequestAccepted \/ RateLimited \/ BackoffEnds)

Request == AnthropicChat \/ OpenAIChat \/ GeminiChat \/ OllamaChat

-----------------------------------------------------------------------------
(* The goroutine's loop over the lines of the answer.  It puts the events  *)
(* of a line on the channel before it reads the next.                      *)

Scanning ==
  /\ pc = "read" /\ out = <<>> /\ reader # "reviewer"
  /\ UNCHANGED <<wire, reader, chan, tries, cancelled, readVars, loopVars>>

(* Bodies check the context between lines; the process is killed instead.  *)
NextLine ==
  /\ Scanning /\ lines < MaxLines /\ (wire \in Bodies => ~cancelled)
  /\ lines' = lines + 1 /\ UNCHANGED cut

Emits(events, next) == out' = events /\ pc' = next

TextLine(f) ==
  /\ NextLine
  /\ said' = Append(said, f)
  /\ Emits(<<Chunk(<<f>>)>>, "read")

(* A line that carries no text and leaves the loop where it is, or ends it.*)
PassedLine == NextLine /\ Emits(<<>>, "read") /\ UNCHANGED said
Reports(type) == NextLine /\ Emits(<<Plain(type)>>, "read") /\ UNCHANGED said
Closes(events) == NextLine /\ Emits(events, "close") /\ UNCHANGED said

SomeText == \E f \in Fragments : TextLine(f)

EndOfBody ==
  /\ Scanning
  /\ Emits(<<Plain("done")>>, "close") /\ UNCHANGED <<lines, said, cut>>

(* Slip: a read error goes the way of the end.                             *)
BrokenUnseen ==
  /\ Scanning /\ cut' = TRUE
  /\ Emits(<<Plain("done")>>, "close") /\ UNCHANGED <<lines, said>>

(* The connection breaks, its ten minutes are over, or the context is done:*)
(* an error, then the sentinel.                                            *)
Broken ==
  /\ Scanning /\ cut' = TRUE
  /\ Emits(<<Plain("error"), Plain("done")>>, "close") /\ UNCHANGED <<lines, said>>

(* Deltas; malformed ones and errors of the service are forwarded and the  *)
(* loop goes on.                                                           *)
HandleSSEData == SomeText \/ Reports("error") \/ PassedLine

AnthropicStream == wire = "anthropic" /\ (HandleSSEData \/ EndOfBody \/ Broken)

(* A malformed payload is reported, an error ends the answer, and so does  *)
(* [DONE].                                                                 *)
OpenAIStream ==
  /\ wire = "openai"
  /\ \/ SomeText \/ Reports("error")
     \/ Closes(<<Plain("error"), Plain("done")>>) \/ Closes(<<Plain("done")>>)
     \/ EndOfBody \/ Broken

(* A line without candidates, an error of the service among them, has no   *)
(* text and is passed over.                                                *)
GeminiText == SomeText \/ PassedLine
GeminiStream == wire = "gemini" /\ (GeminiText \/ Reports("error") \/ EndOfBody \/ Broken)

(* A leaked instruction token ends the answer, with what precedes it.      *)
TruncateAtStopToken(text) ==
  /\ NextLine
  /\ said' = said \o text
  /\ Emits(IF text = <<>> THEN <<Plain("done")>> ELSE <<Chunk(text), Plain("done")>>, "close")

OllamaStream ==
  /\ wire = "ollama"
  /\ \/ SomeText \/ Reports("error")
     \/ Closes(<<Plain("error"), Plain("done")>>) \/ Closes(<<Plain("tokens"), Plain("done")>>)
     \/ TruncateAtStopToken(<<>>) \/ \E f \in Fragments : TruncateAtStopToken(<<f>>)
     \/ EndOfBody \/ Broken

(* The process's result line: the tokens and, if nothing was streamed, the *)
(* whole result as one chunk.                                              *)
ResultLine ==
  \/ Reports("tokens")
  \/ /\ NextLine /\ said = <<>>
     /\ \E f \in Fragments : said' = <<f>> /\ Emits(<<Plain("tokens"), Chunk(<<f>>)>>, "read")

(* The process ends, or dies, or is killed: its output ends all the same,  *)
(* and its exit status is not looked at.                                   *)
ProcessEnds ==
  /\ Scanning /\ cut' \in BOOLEAN
  /\ Emits(<<Event("done", said)>>, "close") /\ UNCHANGED <<lines, said>>

ProcessStreamEvents == SomeText \/ PassedLine \/ ResultLine \/ Closes(<<Plain("plan_limit")>>)
CliStream == wire = "cli" /\ (ProcessStreamEvents \/ ProcessEnds)

(* ReviewBead reads the process in the caller's own goroutine. *)
Reviewing ==
  /\ pc = "read" /\ reader = "reviewer"
  /\ UNCHANGED <<wire, reader, out, chan, cancelled, tries, said, fault, loopVars>>

ReviewLine(f) ==
  /\ Reviewing /\ lines < MaxLines
  /\ lines' = lines + 1 /\ got' = Append(got, f)
  /\ UNCHANGED <<pc, cut, outcome>>

(* isLGTM: nothing said, an approval phrase first, or no issue anywhere.   *)
IsLGTM(text) == text = <<>> \/ text[1] = "approves" \/ "issue" \notin Range(text)

(* However its output ended, what there is of it is the review. *)
ReviewEnds ==
  /\ Reviewing
  /\ \/ outcome' = "limited" /\ UNCHANGED cut
     \/ outcome' = (IF IsLGTM(got) THEN "ok" ELSE "findings") /\ cut' \in BOOLEAN
  /\ pc' = "closed" /\ UNCHANGED <<lines, got>>

ReviewBead == ReviewEnds \/ \E f \in Fragments : ReviewLine(f)

Read == AnthropicStream \/ OpenAIStream \/ GeminiStream \/ OllamaStream \/ CliStream \/ ReviewBead

-----------------------------------------------------------------------------
(* The tool loops of ExecuteAgent. *)

Looping ==
  /\ out = <<>>
  /\ UNCHANGED <<wire, reader, chan, cancelled, wireVars, readVars>>

LoopEnds(events) == Emits(events, "close") /\ UNCHANGED loopVars

(* A done context, a failed request, or no round left. *)
RoundFails ==
  /\ pc = "round" /\ Looping
  /\ LoopEnds(<<Plain("error")>>)

CanAsk == pc = "round" /\ Looping /\ ~cancelled /\ rounds < MaxIterations

(* No tool call, or one the finish reason does not announce: the answer,   *)
(* which may be empty.                                                     *)
Answers(text) ==
  /\ CanAsk
  /\ LoopEnds(IF text = <<>> THEN <<Plain("done")>> ELSE <<Chunk(text), Event("done", text)>>)

SomeAnswer == \E f \in Fragments : Answers(<<f>>)

Calls(ids) == [kind |-> "calls", ids |-> ids]
Results(ids) == [kind |-> "results", ids |-> ids]

(* The model asks for tools; ids are the calls the loop will execute.      *)
Asks(ids) ==
  /\ CanAsk
  /\ todo' = ids /\ msgs' = Append(msgs, Calls(ids))
  /\ rounds' = rounds + 1 /\ pc' = "tools" /\ UNCHANGED out

CallIds(n) == [i \in 1 .. n |-> <<rounds, i>>]

(* Slip: only the first call is executed. *)
RoundCallsFirst(n) ==
  /\ CanAsk
  /\ todo' = <<CallIds(n)[1]>> /\ msgs' = Append(msgs, Calls(CallIds(n)))
  /\ rounds' = rounds + 1 /\ pc' = "tools" /\ UNCHANGED out

RoundCalls(n) == Asks(CallIds(n))
SomeCalls == \E n \in 1 .. MaxCalls : RoundCalls(n)

AnthropicRound ==
  wire = "anthropic_tools" /\ (RoundFails \/ Answers(<<>>) \/ SomeAnswer \/ SomeCalls)

OpenAIRound ==
  wire = "openai_tools" /\ (RoundFails \/ Answers(<<>>) \/ SomeAnswer \/ SomeCalls)

(* A model with native tools that answers nothing is an error.             *)
NativeRound == wire = "native_tools" /\ (RoundFails \/ SomeAnswer \/ SomeCalls)

(* The text protocol takes the first call only and writes both messages    *)
(* once the tool has run.                                                  *)
PseudoRound ==
  /\ wire = "pseudo_tools"
  /\ \/ RoundFails \/ Answers(<<>>) \/ SomeAnswer
     \/ /\ CanAsk /\ todo' = CallIds(1)
        /\ rounds' = rounds + 1 /\ pc' = "tools" /\ UNCHANGED <<out, msgs>>

ToolStarts ==
  /\ pc = "tools" /\ Looping /\ todo # <<>>
  /\ Emits(<<Plain("log")>>, "tool")
  /\ UNCHANGED loopVars

(* Execute: an unknown tool, a bad path or a failed command is a result    *)
(* too, with "error:" before the output.                                   *)
ToolReturns ==
  /\ pc = "tool" /\ Looping
  /\ Emits(<<Plain("log")>>, "tools")
  /\ todo' = Tail(todo) /\ UNCHANGED rounds

(* Anthropic's results of a round are the blocks of one message; the other *)
(* services take a message each.                                           *)
AnthropicTool(id) ==
  /\ wire = "anthropic_tools"
  /\ msgs' = IF Last(msgs).kind = "results"
             THEN ReplaceAt(msgs, Len(msgs), Results(Append(Last(msgs).ids, id)))
             ELSE Append(msgs, Results(<<id>>))

RunOpenAIToolCalls(id) == wire = "openai_tools" /\ msgs' = Append(msgs, Results(<<id>>))
RunNativeToolCalls(id) == wire = "native_tools" /\ msgs' = Append(msgs, Results(<<id>>))
RunPseudoToolCall(id) ==
  wire = "pseudo_tools" /\ msgs' = msgs \o <<Calls(<<id>>), Results(<<id>>)>>

Tool ==
  /\ ToolReturns
  /\ LET id == Head(todo)
     IN AnthropicTool(id) \/ RunOpenAIToolCalls(id) \/ RunNativeToolCalls(id) \/ RunPseudoToolCall(id)

NextRound ==
  /\ pc = "tools" /\ Looping /\ todo = <<>>
  /\ pc' = "round" /\ UNCHANGED <<out, loopVars>>

Loop ==
  \/ AnthropicRound \/ OpenAIRound \/ NativeRound \/ PseudoRound
  \/ ToolStarts \/ Tool \/ NextRound

-----------------------------------------------------------------------------
(* The channel and its reader. *)

Send ==
  /\ out # <<>> /\ Len(chan) < Capacity
  /\ chan' = Append(chan, Head(out)) /\ out' = Tail(out)
  /\ UNCHANGED <<wire, reader, pc, cancelled, wireVars, readVars, loopVars>>

Close ==
  /\ pc = "close" /\ out = <<>>
  /\ pc' = "closed"
  /\ UNCHANGED <<wire, reader, out, chan, cancelled, wireVars, readVars, loopVars>>

(* What a reader makes of an event. *)
Adds(e) == got' = IF e.type = "chunk" THEN got \o e.text ELSE got
AddsOrKeeps(e) ==
  got' = CASE e.type = "chunk" -> got \o e.text
           [] e.type = "done" /\ e.text # <<>> -> e.text
           [] OTHER -> got
NotesFault(e) == fault' = (fault \/ e.type = "error")

ReadsStrictly(e) ==
  /\ reader = "strict" /\ AddsOrKeeps(e)
  /\ outcome' = IF e.type = "error" THEN "failed" ELSE "reading"
  /\ UNCHANGED fault

ReadsPatiently(e) == reader = "patient" /\ Adds(e) /\ NotesFault(e) /\ UNCHANGED outcome

ReadsChunks(e) == reader = "chunks" /\ Adds(e) /\ UNCHANGED <<fault, outcome>>

DrainsStream(e) ==
  /\ reader = "collect" /\ AddsOrKeeps(e) /\ NotesFault(e)
  /\ outcome' = IF e.type # "done" THEN "reading"
                ELSE IF e.text = <<>> /\ got = <<>> /\ fault THEN "failed" ELSE "ok"

ReadsExecution(e) ==
  /\ reader = "execute"
  /\ got' = IF e.type = "done" /\ e.text # <<>> THEN e.text ELSE got
  /\ outcome' = IF e.type = "plan_limit" THEN "limited" ELSE "reading"
  /\ UNCHANGED fault

Take ==
  /\ outcome = "reading" /\ chan # <<>>
  /\ LET e == Head(chan)
     IN \/ ReadsStrictly(e) \/ ReadsPatiently(e) \/ ReadsChunks(e)
        \/ DrainsStream(e) \/ ReadsExecution(e)
  /\ chan' = Tail(chan)
  /\ UNCHANGED <<wire, reader, pc, out, cancelled, wireVars, loopVars>>

(* The channel is closed and empty: the reader's loop is over. *)
Drained ==
  /\ outcome = "reading" /\ chan = <<>> /\ pc = "closed"
  /\ outcome' = IF fault /\ (reader = "patient" \/ got = <<>>) THEN "failed" ELSE "ok"
  /\ UNCHANGED <<wire, reader, pc, out, chan, cancelled, wireVars, got, fault, loopVars>>

Provider ==
  \/ Request \/ Read \/ Loop \/ Send \/ Close

Reader == Take \/ Drained

Next == Cancel \/ Provider \/ Reader

(* Goroutines are scheduled; a service or process that falls silent is cut *)
(* by the client's ten minutes or is assumed to end.                       *)
Fairness == WF_vars(Provider) /\ WF_vars(Reader)

Spec == Init /\ [][Next]_vars /\ Fairness

-----------------------------------------------------------------------------
(* An HTTP answer whose transport broke is never taken for a whole one by  *)
(* a reader that minds errors (plans, reviews, generated files), however   *)
(* much of its text had arrived.  A body that ends cleanly without its     *)
(* last marker, or at a token limit, is whole to the code.                 *)
AnswerIsWhole ==
  wire \in Bodies /\ reader \in {"strict", "patient"} /\ outcome = "ok" => ~cut

(* The messages by which the APIs want the results of a round: the blocks  *)
(* of one message, or a message each.                                      *)
ResultsOf(ids) ==
  IF wire = "anthropic_tools" THEN <<Results(ids)>>
  ELSE [i \in DOMAIN ids |-> Results(<<ids[i]>>)]

(* Each message of calls is followed by their results, one for each call in*)
(* the order of the calls, and these by nothing but further calls.         *)
Settled(list) ==
  /\ list # <<>> => list[1].kind = "calls"
  /\ \A m \in DOMAIN list : list[m].kind = "calls" =>
       LET results == ResultsOf(list[m].ids)
           next == m + Len(results) + 1
       IN /\ next <= Len(list) + 1
          /\ \A i \in DOMAIN results : list[m + i] = results[i]
          /\ next <= Len(list) => list[next].kind = "calls"

(* Every request of a tool loop answers every call the model has made: the *)
(* APIs refuse a message of calls that is not followed by their results.   *)
CallsAnswered == pc = "round" => Settled(msgs)

(* Nothing is left of the call, unless its reader gave up at an error. *)
CallOver == pc = "closed" \/ outcome = "failed"
=============================================================================
