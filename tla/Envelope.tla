------------------------------- MODULE Envelope -------------------------------
(***************************************************************************)
(* The answer of a model on its two ways through agent/parse.go: fed chunk *)
(* by chunk through the StreamFilter to the user's screen, and as a whole  *)
(* through ParseResponse to what is saved.                                 *)
(*                                                                         *)
(* Text is a sequence of characters, because the filter works on those and *)
(* chunks end anywhere.  The names of tags are one character long: d, a, h *)
(* and j for discussion, artifact, htmlcontent and jsonplan, t for think,  *)
(* s and e for the RESPONSE:START and RESPONSE:END markers; white space is *)
(* left out.                                                               *)
(***************************************************************************)
EXTENDS Naturals, Sequences, SequencesExt, FiniteSetsExt

CONSTANTS ModelAnswers, \* what models say: sequences of sections
          MaxChunk      \* bound: characters of one chunk

Tags == {"d", "a", "h", "j"}
Think == "t"
Visible == {"d", "a"}

OpenTag(tag) == <<"<", tag, ">">>
ShutTag(tag) == <<"<", "/", tag, ">">>
StartMarker == <<"<", "s", ">">>
EndMarker == <<"<", "e", ">">>
MaxTagLen == 4
FilterStates == Tags \cup {"before", "root"}

(* A section has a tag, or "none" for text between the sections, its text, *)
(* and may have been left without its end by a model that ran out of       *)
(* tokens.                                                                 *)
ASSUME ModelAnswersAreSections ==
  \A answer \in ModelAnswers :
    /\ answer \in Seq(Range(answer))
    /\ \A section \in Range(answer) :
         /\ section.tag \in Tags \cup {Think, "none"} /\ section.shut \in BOOLEAN
         /\ section.text \in Seq(STRING)

ASSUME ChunkBound == MaxChunk \in Nat \ {0}

Render(section) ==
  IF section.tag = "none" THEN section.text
  ELSE OpenTag(section.tag) \o section.text \o IF section.shut THEN ShutTag(section.tag) ELSE <<>>

Text(answer) ==
  StartMarker \o FlattenSeq([i \in DOMAIN answer |-> Render(answer[i])]) \o EndMarker

VARIABLES
  answer, \* what the model says
  fed,    \* characters fed so far
  at,     \* the filter's state: before, root, or the tag it is in
  hold,   \* the tail kept back because it may be half a tag
  shown   \* what the user has been shown

filterVars == <<answer, fed, at, hold, shown>>

FilterTypeOK ==
  /\ answer \in ModelAnswers /\ fed \in 0 .. Len(Text(answer))
  /\ at \in FilterStates
  /\ Len(hold) <= MaxTagLen /\ Len(shown) + Len(hold) <= fed

FilterInit ==
  /\ answer \in ModelAnswers /\ fed = 0
  /\ at = "before" /\ hold = <<>> /\ shown = <<>>

-----------------------------------------------------------------------------
(* StreamFilter *)

IsTag(text) == text \in {StartMarker, EndMarker} \cup {OpenTag(t) : t \in Tags} \cup {ShutTag(t) : t \in Tags}

Transition(text) ==
  CASE text = StartMarker -> "root"
    [] text = EndMarker -> "before"
    [] \E t \in Tags : text = OpenTag(t) -> CHOOSE t \in Tags : text = OpenTag(t)
    [] OTHER -> "root"

Streamable(state) == state \in Visible

(* Slip: the tail is kept back only when it is shorter than any tag.       *)
MayBeTagShort(rest) == Len(rest) < 3

(* The tail from "<" on, without a ">": kept for the next chunk unless it  *)
(* is longer than any tag.                                                 *)
MayBeTag(rest) == Len(rest) <= MaxTagLen

Rest(input, i) == SubSeq(input, i, Len(input))
ClosedAt(input, i) == {j \in i .. Len(input) : input[j] = ">"}
TagAt(input, i) == SubSeq(input, i, Min(ClosedAt(input, i)))
StartsTag(input, i) == input[i] = "<" /\ ClosedAt(input, i) # {} /\ IsTag(TagAt(input, i))
Stops(input, i) ==
  i > Len(input) \/ (input[i] = "<" /\ ClosedAt(input, i) = {} /\ MayBeTag(Rest(input, i)))
Emit(c, s) == IF Streamable(s) THEN <<c>> ELSE <<>>

(* Feed: the result of reading input from character i on in a state. *)
Feed(input, state) ==
  LET From[i \in 1 .. Len(input) + 1] ==
        [s \in FilterStates |->
          IF Stops(input, i) THEN [out |-> <<>>, at |-> s, hold |-> Rest(input, i)]
          ELSE IF StartsTag(input, i)
          THEN From[i + Len(TagAt(input, i))][Transition(TagAt(input, i))]
          ELSE LET next == From[i + 1][s] IN [next EXCEPT !.out = Emit(input[i], s) \o @]]
  IN From[1][state]

FeedChunk(n) ==
  /\ fed + n <= Len(Text(answer))
  /\ LET chunk == SubSeq(Text(answer), fed + 1, fed + n)
         result == Feed(hold \o chunk, at)
     IN shown' = shown \o result.out /\ at' = result.at /\ hold' = result.hold
  /\ fed' = fed + n
  /\ UNCHANGED answer

FilterNext == \E n \in 1 .. MaxChunk : FeedChunk(n)

-----------------------------------------------------------------------------
(* ParseResponse *)

Positions(text, part) == {i \in 1 .. Len(text) : IsPrefix(part, SubSeq(text, i, Len(text)))}
Has(text, part) == Positions(text, part) # {}

(* The first think block goes, one that is not closed with all that        *)
(* follows it.                                                             *)
StripThinkBlock(text) ==
  IF ~Has(text, OpenTag(Think)) THEN text
  ELSE LET from == Min(Positions(text, OpenTag(Think)))
           ends == {i \in Positions(text, ShutTag(Think)) : i > from}
           before == SubSeq(text, 1, from - 1)
       IN IF ends = {} THEN before ELSE before \o SubSeq(text, Min(ends) + 4, Len(text))

(* And the next, until there is none: each takes some of the text with it. *)
StripThinkBlocks(text) ==
  LET Round[n \in 0 .. Len(text)] == IF n = 0 THEN text ELSE StripThinkBlock(Round[n - 1])
  IN Round[Len(text)]

(* From the first opening tag to the last closing one, or to the end of    *)
(* the answer when that one does not lie behind the first character: it is *)
(* missing, it comes before the opening tag, or there is nothing between.  *)
ExtractBetween(text, tag) ==
  IF ~Has(text, OpenTag(tag)) THEN <<>>
  ELSE LET from == Min(Positions(text, OpenTag(tag))) + 3
           ends == Positions(text, ShutTag(tag))
       IN IF ends = {} \/ Max(ends) <= from THEN SubSeq(text, from, Len(text))
          ELSE SubSeq(text, from, Max(ends) - 1)

(* A pair of tags, or the start marker with any tag; otherwise the whole   *)
(* answer is taken for discussion (or for a document, which is left out).  *)
Structured(text) ==
  \/ \E t \in Visible : Has(text, OpenTag(t)) /\ Has(text, ShutTag(t))
  \/ Has(text, OpenTag("j"))
  \/ Has(text, StartMarker) /\ \E t \in Visible : Has(text, OpenTag(t))

ParseResponse(text) ==
  LET raw == StripThinkBlocks(text)
  IN IF Structured(raw) THEN [t \in Tags |-> ExtractBetween(raw, t)]
     ELSE [t \in Tags |-> IF t = "d" THEN raw ELSE <<>>]

-----------------------------------------------------------------------------
Marks ==
  {StartMarker, EndMarker} \cup {OpenTag(t) : t \in Tags \cup {Think}}
  \cup {ShutTag(t) : t \in Tags \cup {Think}}

(* An answer that keeps the format: sections closed, none twice, and no    *)
(* tag of the format in a text.                                            *)
WellFormed ==
  /\ \A i \in DOMAIN answer : answer[i].tag # "none" => answer[i].shut
  /\ \A i, j \in DOMAIN answer : answer[i].tag = answer[j].tag => i = j
  /\ \A i \in DOMAIN answer : \A mark \in Marks : ~Has(answer[i].text, mark)

IsVisible(section) == section.tag \in Visible
Saved(tag) == ParseResponse(Text(answer))[tag]

(* However the answer is cut into chunks, and whatever else in it looks    *)
(* like a tag, the user of a well-formed answer has seen the texts of its  *)
(* visible sections, and those are what ParseResponse saves.  With one     *)
(* exception: of an empty section nothing is shown, but extractBetween     *)
(* takes a closing tag right behind the opening one for a missing one, and *)
(* saves it with all that follows in the answer.                           *)
ShownIsSaved ==
  fed = Len(Text(answer)) /\ WellFormed =>
    /\ shown = FlattenSeq([i \in DOMAIN answer |->
                  IF IsVisible(answer[i]) THEN answer[i].text ELSE <<>>])
    /\ \A i \in DOMAIN answer : IsVisible(answer[i]) =>
         IF answer[i].text # <<>> THEN Saved(answer[i].tag) = answer[i].text
         ELSE IsPrefix(ShutTag(answer[i].tag), Saved(answer[i].tag))
=============================================================================
