------------------------------- MODULE ChatApi -------------------------------
(***************************************************************************)
(* POST /faq-chat: the messages a browser sends, what the handler makes of *)
(* them (sanitizeMessages), and the remote-v1 requests that it builds from *)
(* them (search-plan-bounds.ts, contract.ts).  Texts are known by who      *)
(* wrote them, their question and their length.                            *)
(***************************************************************************)
EXTENDS Integers, FiniteSets, SequencesExt

CONSTANTS
  Tab,               \* open or closed tabs of one browser
  MaxQuestions,      \* bound: questions asked in all tabs
  MaxInput,          \* index.html: maxlength of the input
  QuestionChars(_),  \* length of the n-th question
  AnswerChars,       \* length of an answer
  MaxContext,        \* app.js: MAX_CONTEXT_QUESTIONS
  MaxRaw,            \* handler: MAX_RAW_MESSAGES
  MaxHistory,        \* Settings: maxHistoryMessages
  MaxChars,          \* Settings: maxMessageChars
  MaxTotal,          \* handler: MAX_TOTAL_INPUT_CHARS
  FrameChars(_),     \* what the handler writes around n earlier questions
  TextKey,           \* the texts of search plans, to NFKC without case
  Plans,             \* search plans that a model may write
  Limits             \* REMOTE_V1_LIMITS

VARIABLE wire        \* the request of each tab, and its response

Question == 1..MaxQuestions

\* A text of a search plan, trimmed.
PlanText == [key : TextKey, chars : Nat]

ASSUME ApiAssumption ==
  /\ {MaxQuestions, MaxInput, MaxContext, MaxRaw, MaxHistory, MaxChars, MaxTotal} \subseteq Nat \ {0}
  /\ \A q \in Question : QuestionChars(q) \in 1..MaxInput
  /\ AnswerChars \in Nat
  /\ Plans \subseteq [lexical : Seq(PlanText), semantic : Seq(PlanText)]
  /\ \A limit \in DOMAIN Limits : Limits[limit] \in Nat \ {0}
  /\ {"question", "content", "lexicalCount", "lexicalChars", "semanticCount", "semanticChars"}
       \subseteq DOMAIN Limits
  /\ MaxContext <= MaxRaw
  /\ MaxChars <= Limits.question /\ MaxTotal <= Limits.content
  \* The page's own limits, 6 questions of 1000 characters, keep below the handler's 8000,
  \* whatever the settings.
  /\ \A n \in 1..MaxContext :
       FrameChars(n - 1) \in Nat /\ n * MaxInput + FrameChars(n - 1) <= MaxTotal

User(q) == [role |-> "user", q |-> q]
Assistant(q) == [role |-> "assistant", q |-> q]

Message == [role : {"user", "assistant"}, q : Question]

Chars(msg) == IF msg.role = "user" THEN QuestionChars(msg.q) ELSE AnswerChars

LastOf(s, n) == IF Len(s) <= n THEN s ELSE SubSeq(s, Len(s) - n + 1, Len(s))

NotSent == [state |-> "none"]
Sent(messages) == [state |-> "sent", messages |-> messages]
Replied(status, body) == [state |-> "replied", status |-> status, body |-> body]

\* The body of a response: the answer to a question, an error of ours, or nothing that
\* is JSON.
Answered(q) == [kind |-> "answer", q |-> q]
ErrorBody == [kind |-> "error"]
Garbage == [kind |-> "garbage"]

-----------------------------------------------------------------------------
(* sanitizeMessages *)

\* The elements of a sequence at these places, in their order.
Among(s, places) ==
  LET place(k) == CHOOSE i \in places : Cardinality({j \in places : j <= i}) = k
  IN [k \in 1..Cardinality(places) |-> s[place(k)]]

UserMessages(messages) ==
  Among(messages, {i \in 1..Len(messages) : messages[i].role = "user"})

Recent(messages) == LastOf(UserMessages(messages), MaxHistory)

TotalChars(messages) ==
  LET total[i \in 0..Len(messages)] ==
        IF i = 0 THEN 0 ELSE total[i - 1] + Chars(messages[i])
  IN total[Len(messages)]

Content(messages) ==
  TotalChars(Recent(messages)) + FrameChars(Len(Recent(messages)) - 1)

Acceptable(messages) ==
  /\ messages # <<>> /\ Len(messages) <= MaxRaw
  /\ \A i \in 1..Len(messages) : Chars(messages[i]) <= MaxChars
  /\ Last(messages).role = "user"
  /\ Content(messages) <= MaxTotal

CurrentQuestion(messages) == Last(Recent(messages))

-----------------------------------------------------------------------------
(* The search plan: texts of one key are the same text to NFKC without      *)
(* case, a text without characters is blank.                                *)

FirstOfKey(texts) ==
  {i \in 1..Len(texts) :
     /\ texts[i].chars > 0
     /\ \A k \in 1..(i - 1) : texts[k].chars > 0 => texts[k].key # texts[i].key}

\* boundPlanTexts: too long a text is dropped or cut; the first ones are kept.
BoundPlanTexts(texts, maxItems, maxChars, overflow) ==
  LET fits   == {i \in 1..Len(texts) : overflow = "truncate" \/ texts[i].chars <= maxChars}
      items  == Among(texts, FirstOfKey(texts) \cap fits)
      cut(t) == [t EXCEPT !.chars = IF @ <= maxChars THEN @ ELSE maxChars]
  IN [i \in 1..(IF Len(items) <= maxItems THEN Len(items) ELSE maxItems) |-> cut(items[i])]

\* boundRemoteRetrievalHints
Hints(plan) ==
  [lexical  |-> BoundPlanTexts(plan.lexical, Limits.lexicalCount, Limits.lexicalChars, "drop"),
   semantic |-> BoundPlanTexts(plan.semantic, Limits.semanticCount, Limits.semanticChars,
                               "truncate")]

-----------------------------------------------------------------------------
(* remote-v1: what the requests hold and what their parsers require *)

BoundedTexts(texts, maxItems, maxChars) ==
  /\ Len(texts) <= maxItems
  /\ \A i \in 1..Len(texts) : texts[i].chars \in 1..maxChars

ValidHints(hints) ==
  /\ BoundedTexts(hints.lexical, Limits.lexicalCount, Limits.lexicalChars)
  /\ BoundedTexts(hints.semantic, Limits.semanticCount, Limits.semanticChars)

ValidQuestion(m) == Chars(m) \in 1..Limits.question

\* The hints of a retrieve request, whatever the model has written into its plan.
HintsAreValid == \A plan \in Plans : ValidHints(Hints(plan))

\* The one message holds the recent questions, the current one at its end.
GenerateRequest(messages) ==
  [question |-> CurrentQuestion(messages), texts |-> Recent(messages),
   chars |-> Content(messages)]

ValidGenerateRequest(r) ==
  /\ ValidQuestion(r.question)
  /\ r.chars \in 1..Limits.content
  /\ Last(r.texts) = r.question

\* The one-shot request: its parser takes it apart into a generate request and a retrieve
\* request, and holds both against the split contract.  So this stands for either transport;
\* the hints of the retrieve request are HintsAreValid's.
AnswerRequestIsValid(messages) ==
  /\ ValidGenerateRequest(GenerateRequest(messages))
  /\ ValidQuestion(CurrentQuestion(messages))
=============================================================================
