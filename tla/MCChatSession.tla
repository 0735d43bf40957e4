---------------------------- MODULE MCChatSession ----------------------------
(* Two tabs, three questions, the first of which is too long for the          *)
(* settings, and search plans of up to three texts.                           *)
EXTENDS ChatSession

MCQuestionChars(q) == IF q = 1 THEN 5 ELSE 3

MCFrameChars(n) == IF n = 0 THEN 0 ELSE n + 1

MCLimits == [question |-> 4, content |-> 12, lexicalCount |-> 2, lexicalChars |-> 2,
             semanticCount |-> 1, semanticChars |-> 2]

Texts == BoundedSeq([key : TextKey, chars : 0..3], 3)

MCPlans == {[lexical |-> texts, semantic |-> texts] : texts \in Texts}

\* The bounded plans pass the parser of the retrieve request (proved for all plans).
ASSUME HintsAreValid
=============================================================================
