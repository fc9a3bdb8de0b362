------------------------------ MODULE MCEnvelope ------------------------------
EXTENDS Envelope

(* Two sections, or text and a section, in any order: empty, plain, ended  *)
(* by half a tag, and with a tag that is none of the format's.             *)
Texts == {<<>>, <<"x">>, <<"x", "<">>, <<"<", "x", ">">>}
Parts == [tag : Tags \cup {Think}, text : Texts, shut : BOOLEAN]
         \cup [tag : {"none"}, text : Texts, shut : {TRUE}]
MCModelAnswers == Parts \X Parts

=============================================================================
