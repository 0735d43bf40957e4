----------------------------- MODULE FaqRequest -----------------------------
(***************************************************************************)
(* One request of the public FAQ (functions/faq-chat/handler.ts): entry,   *)
(* named agent, settings, fixed replies, capacity, the generated-smalltalk *)
(* pipeline, then the knowledge base with a local model or the remote RAG  *)
(* service, and the way out: settling abandoned model calls, the Q&A log,  *)
(* giving the capacity slot back.                                          *)
(*                                                                         *)
(* What the code reads from the world (settings, model replies, failures,  *)
(* how long a call takes) is chosen nondeterministically; what it decides  *)
(* from it, and how much time it allows, follows the code.  Time is in     *)
(* units of 100 ms since the invocation started.                           *)
(***************************************************************************)
EXTENDS Integers

CONSTANTS
  Timeout,           \* FaqChatFunctionTimeoutSeconds
  RouterTimeout,     \* SMALLTALK_ROUTER_TIMEOUT_MS
  GeneratorTimeout,  \* SMALLTALK_GENERATOR_TIMEOUT_MS
  JudgeTimeout,      \* SMALLTALK_JUDGE_TIMEOUT_MS
  SdkMargin,         \* SMALLTALK_SDK_TIMEOUT_MARGIN_MS
  ModelMax,          \* the usual model timeout (20 s)
  ModelMin,          \* MIN_MODEL_TIMEOUT_MS
  Reserve,           \* MODEL_RESPONSE_RESERVE_MS
  RemoteMax,         \* REMOTE_RAG_MAX_REMAINING_MS
  GenerateFloor,     \* REMOTE_V1_GENERATE_BUDGET_FLOOR_MS
  LogMax,            \* FAQ_QA_LOG_WRITE_TIMEOUT_MS
  LogMargin,         \* FAQ_QA_LOG_RESPONSE_MARGIN_MS
  Slow,              \* how long a call to DynamoDB before the reply may take
  Release,           \* how long release() of the capacity slot may take
  Quick,             \* how long a call with a timeout takes when it does not time out
  Deployments        \* the configurations of the function to consider

ASSUME TimeAssumption ==
  /\ {Timeout, RouterTimeout, GeneratorTimeout, JudgeTimeout, SdkMargin, ModelMax,
      ModelMin, Reserve, RemoteMax, GenerateFloor, LogMax, LogMargin} \subseteq Nat
  /\ Slow \subseteq Nat /\ Release \subseteq Nat /\ Quick \subseteq Nat

\* A release outlasts neither margin kept for it, and the one router call whose
\* schema is refused outlasts no complete smalltalk turn.
ASSUME BudgetAssumption ==
  /\ \A r \in Release : r <= LogMargin
  /\ LogMargin <= Reserve
  /\ RouterTimeout + SdkMargin <= GeneratorTimeout + JudgeTimeout

Deployment == [smalltalk : {"template_only", "generated"},
               transport : {"local", "split", "oneshot"},
               slots : BOOLEAN,     \* FAQ_MAX_INFLIGHT > 0
               retired : BOOLEAN]   \* FAQ_HTTP_API_FAQ_ROUTES_ENABLED = false

ASSUME DeploymentAssumption == Deployments \subseteq Deployment

VARIABLES
  cfg,       \* the deployment that serves the request
  request,   \* what the request asks for and what a fixed rule sees in the question
  pc,        \* the step of the handler
  now,       \* time since the invocation started
  setting,   \* what loadSettings() gave
  agent,     \* what resolveAgentProfile() gave
  lease,     \* the capacity slot
  pending,   \* when the last smalltalk call that was not yet settled ends
  gates,     \* gates a generated reply has passed
  calls,     \* history: paid calls that were made
  slow,      \* history: time spent in calls without a timeout of the handler's
  reply,     \* the reply that is going to be returned
  cause      \* history: what the request came to, which the caller cannot see

vars == <<cfg, request, pc, now, setting, agent, lease, pending, gates, calls, slow, reply, cause>>

-----------------------------------------------------------------------------
\* What a question may be suspected of; every risk but the injection counts the same.
Risk == {"injection", "business"}

Request == [method : {"OPTIONS", "GET", "POST"},
            named : BOOLEAN,                            \* /agents/{agentId}
            body : {"bad", "template", "question"},
            veto : SUBSET Risk]                         \* inspectDeterministicInputRisk

Text == {"none", "fixed", "candidate", "model", "remote", "fallback", "scope", "technical"}

Reply == [status : Nat, kind : {"error", "chat", "refuse", "kb_answer"}, text : Text,
          grounded : BOOLEAN, retryable : BOOLEAN, logs : BOOLEAN]

NoReply == [status |-> 0, kind |-> "error", text |-> "none",
            grounded |-> FALSE, retryable |-> FALSE, logs |-> FALSE]

ErrorReply(status) == [NoReply EXCEPT !.status = status]

Chat(text) == [NoReply EXCEPT !.status = 200, !.kind = "chat", !.text = text, !.logs = TRUE]

Refusal(text, retryable) ==
  [NoReply EXCEPT !.status = 200, !.kind = "refuse", !.text = text,
     !.retryable = retryable, !.logs = TRUE]

Answer(text) == [NoReply EXCEPT !.status = 200, !.kind = "kb_answer", !.text = text,
                   !.grounded = TRUE, !.logs = TRUE]

BusyReply == [ErrorReply(429) EXCEPT !.retryable = TRUE]

\* The request ended in a failure, about which nothing is known but that the same
\* question may well be answered later.
Failures == {"no_time", "max_tokens", "pause_turn", "unreadable", "empty", "contradiction",
             "deadline_exceeded", "failed", "invalid_contract"}

\* There is, or the model says there is, nothing to answer with.
NoInformation == {"injection", "no_entries", "no_match", "refusal", "other", "readable"}

Cause == Failures \cup NoInformation
           \cup {"none", "chat", "outage", "remote", "remote_failure"}

Ended == {"returned", "killed"}

TypeOK ==
  /\ cfg \in Deployments /\ request \in Request
  /\ pc \in {"entry", "agent", "settings", "method", "enabled", "body", "acquire", "router",
             "generator", "judge", "retrieve", "model", "remote_retrieve", "remote_generate",
             "remote_answer", "settle", "log", "unwind", "replying"} \cup Ended
  /\ now \in Nat /\ pending \in Nat /\ slow \in Nat
  /\ setting \in {"unread", "failed", "off", "illegal", "on"}
  /\ agent \in {"default", "resolved", "rejected"}
  /\ lease \in {"none", "held", "returned"}
  /\ gates \subseteq {"router", "guard", "judge"}
  /\ calls \subseteq {"router", "generator", "judge", "retrieve", "model", "remote"}
  /\ reply \in Reply /\ cause \in Cause

Init ==
  /\ cfg \in Deployments /\ request \in Request
  /\ pc = "entry" /\ now = 0 /\ pending = 0 /\ slow = 0
  /\ setting = "unread" /\ agent = "default" /\ lease = "none"
  /\ gates = {} /\ calls = {} /\ reply = NoReply /\ cause = "none"

-----------------------------------------------------------------------------
Least(a, b) == IF a < b THEN a ELSE b
Greatest(a, b) == IF a > b THEN a ELSE b

Left == Timeout - now

\* Lambda still runs the invocation and the handler stands at p.
At(p) == pc = p /\ now <= Timeout

\* A call with a timeout of its own ends at some quick moment or at the timeout.
Within(limit) == {d \in Quick : d <= limit} \cup {limit}

Spend(d) == now' = now + d /\ UNCHANGED slow

SpendSlow(d) == now' = now + d /\ slow' = slow + d

NoTime == UNCHANGED <<now, slow>>

\* An early return: nothing to settle, nothing to log.
Return(r) == reply' = r /\ pc' = "unwind" /\ UNCHANGED cause

\* settleSmalltalkCalls, then the Q&A log.
Conclude(r, why) == reply' = r /\ cause' = why /\ pc' = "settle"

\* The outer catch.
Throw == Conclude(ErrorReply(503), "outage")

GoOn(p) == pc' = p /\ UNCHANGED <<reply, cause>>

-----------------------------------------------------------------------------
(* Entry, named agent, settings *)

Enter ==
  /\ At("entry")
  /\ CASE request.method = "OPTIONS" -> Return(ErrorReply(204))
       [] request.method # "OPTIONS" /\ cfg.retired -> Return(ErrorReply(410))
       [] OTHER -> GoOn(IF request.named THEN "agent" ELSE "method")
  /\ NoTime /\ UNCHANGED <<cfg, request, setting, agent, lease, pending, gates, calls>>

\* The remote composition replaces the resolver by one that knows no agent.
AgentsResolvable == cfg.transport = "local"

\* An invalid id, an unknown, invalid or disabled profile and a failed read all end in
\* the same 404, never in the default FAQ.
ResolveAgent ==
  /\ At("agent")
  /\ \E d \in Slow : SpendSlow(d)
  /\ \/ agent' = "rejected" /\ Return(ErrorReply(404))
     \/ AgentsResolvable /\ agent' = "resolved" /\ GoOn("settings")
  /\ UNCHANGED <<cfg, request, setting, lease, pending, gates, calls>>

\* The named route reads the settings before the core handler sees the request; the
\* core then gets that copy, or that failure, without a second read.
LoadSettings ==
  /\ At("settings")
  /\ \E d \in Slow : SpendSlow(d)
  /\ setting' \in {"failed", "off", "on"} \cup (IF request.named THEN {"illegal"} ELSE {})
  /\ IF setting' = "illegal"
     THEN Return(ErrorReply(404))
     ELSE GoOn(IF request.named THEN "method" ELSE "enabled")
  /\ UNCHANGED <<cfg, request, agent, lease, pending, gates, calls>>

CheckMethod ==
  /\ At("method")
  /\ IF request.method # "POST"
     THEN Return(ErrorReply(405))
     ELSE GoOn(IF setting = "unread" THEN "settings" ELSE "enabled")
  /\ NoTime /\ UNCHANGED <<cfg, request, setting, agent, lease, pending, gates, calls>>

UseSettings ==
  /\ At("enabled")
  /\ \/ setting = "failed" /\ Throw
     \/ setting = "off" /\ Return(ErrorReply(503))
     \/ setting = "on" /\ GoOn("body")
  /\ NoTime /\ UNCHANGED <<cfg, request, setting, agent, lease, pending, gates, calls>>

AfterBody == "acquire"

\* Where a request goes that needs the knowledge base.
ToKnowledge ==
  CASE cfg.transport = "local" -> "retrieve"
    [] cfg.transport = "split" -> "remote_retrieve"
    [] OTHER -> "remote_answer"

AfterCapacity == IF cfg.smalltalk = "generated" THEN "router" ELSE ToKnowledge

\* A body that is too large, malformed or refused by sanitizeMessages; a question that
\* is one of the fixed patterns; or a question to work on.
CheckBody ==
  /\ At("body")
  /\ CASE request.body = "bad" -> \E s \in {400, 413} : Return(ErrorReply(s))
       [] request.body = "template" -> Conclude(Chat("fixed"), "chat")
       [] OTHER -> GoOn(AfterBody)
  /\ NoTime /\ UNCHANGED <<cfg, request, setting, agent, lease, pending, gates, calls>>

\* Without slots the disabled port answers at once.
Acquire ==
  /\ At("acquire")
  /\ IF cfg.slots
     THEN /\ \E d \in Slow : SpendSlow(d)
          /\ \/ lease' = "held" /\ GoOn(AfterCapacity)
             \/ Return(BusyReply) /\ UNCHANGED lease
             \/ Throw /\ UNCHANGED lease
     ELSE NoTime /\ GoOn(AfterCapacity) /\ UNCHANGED lease
  /\ UNCHANGED <<cfg, request, setting, agent, pending, gates, calls>>

-----------------------------------------------------------------------------
(* Generated smalltalk *)

\* The router call asks for a JSON schema: when the provider refuses the schema the
\* port calls again without it, each attempt with the whole SDK timeout.
RouterCallMax == 2 * (RouterTimeout + SdkMargin)

\* The call is raced against its timeout.  It is abandoned, not aborted: `pending'
\* keeps the time at which it really ends.
TimesOut(limit, longest) ==
  /\ Spend(limit)
  /\ \E e \in {limit, limit + SdkMargin, longest} : pending' = Greatest(pending, now + e)

Completes(limit) ==
  \E d \in Within(limit) : Spend(d) /\ pending' = Greatest(pending, now + d)

\* Mutant: the deterministic veto is forgotten when the router gave no decision.
WithoutDecisionOpen == GoOn(ToKnowledge)

\* No decision (timeout, error, truncation, malformed JSON): the knowledge base, but the
\* deterministic half of the injection veto still holds.
WithoutDecision ==
  IF "injection" \in request.veto
  THEN Conclude(Refusal("fallback", FALSE), "injection")
  ELSE GoOn(ToKnowledge)

MergedRisk(risk) == risk \cup request.veto

WithDecision(route, risk) ==
  CASE "injection" \in MergedRisk(risk) ->
         Conclude(Refusal("fallback", FALSE), "injection") /\ UNCHANGED gates
    [] "injection" \notin MergedRisk(risk) /\ (route # "smalltalk_only" \/ MergedRisk(risk) # {}) ->
         GoOn(ToKnowledge) /\ UNCHANGED gates
    [] OTHER ->
         GoOn("generator") /\ gates' = gates \cup {"router"}

\* A decision of the router that parses.
RouterDecision == [route : {"smalltalk_only", "other"}, risk : SUBSET Risk]

\* A rejected promise or any other exception inside the pipeline ends in a fixed reply.
Router ==
  /\ At("router")
  /\ calls' = calls \cup {"router"}
  /\ \/ TimesOut(RouterTimeout, RouterCallMax) /\ WithoutDecision /\ UNCHANGED gates
     \/ Completes(RouterTimeout) /\ WithoutDecision /\ UNCHANGED gates
     \/ /\ Completes(RouterTimeout)
        /\ \E d \in RouterDecision : WithDecision(d.route, d.risk)
     \/ Completes(RouterTimeout) /\ Conclude(Chat("fixed"), "chat") /\ UNCHANGED gates
  /\ UNCHANGED <<cfg, request, setting, agent, lease>>

\* What the generator may return: nothing that parses, the request for a fixed text, a
\* text that the deterministic guard forbids, or a clean text.
Candidate == {"malformed", "fallback", "forbidden", "clean"}

Guarded(c) == c = "clean"

\* The generator sees only the validated speech acts.  Whatever is not a guarded text
\* ends in a fixed reply.
Generator ==
  /\ At("generator")
  /\ calls' = calls \cup {"generator"}
  /\ \/ /\ TimesOut(GeneratorTimeout, GeneratorTimeout + SdkMargin)
        /\ Conclude(Chat("fixed"), "chat") /\ UNCHANGED gates
     \/ Completes(GeneratorTimeout) /\ Conclude(Chat("fixed"), "chat") /\ UNCHANGED gates
     \/ /\ Completes(GeneratorTimeout)
        /\ \E c \in Candidate :
             IF Guarded(c)
             THEN GoOn("judge") /\ gates' = gates \cup {"guard"}
             ELSE Conclude(Chat("fixed"), "chat") /\ UNCHANGED gates
  /\ UNCHANGED <<cfg, request, setting, agent, lease>>

\* Mutant: a judge that gives no verdict is taken for one that allows.
NoVerdictAllows == Chat("candidate")

NoVerdict == Chat("fixed")

JudgeReply == [verdict : {"allow", "block"}, risks : BOOLEAN]

\* A verdict that contradicts its risks is no verdict.
Allows(j) == j.verdict = "allow" /\ ~j.risks

\* Only here a generated text becomes a reply.
Judge ==
  /\ At("judge")
  /\ calls' = calls \cup {"judge"}
  /\ \/ /\ TimesOut(JudgeTimeout, JudgeTimeout + SdkMargin)
        /\ Conclude(NoVerdict, "chat") /\ UNCHANGED gates
     \/ Completes(JudgeTimeout) /\ Conclude(NoVerdict, "chat") /\ UNCHANGED gates
     \/ /\ Completes(JudgeTimeout)
        /\ \E j \in JudgeReply :
             IF Allows(j)
             THEN Conclude(Chat("candidate"), "chat") /\ gates' = gates \cup {"judge"}
             ELSE Conclude(Chat("fixed"), "chat") /\ UNCHANGED gates
  /\ UNCHANGED <<cfg, request, setting, agent, lease>>

-----------------------------------------------------------------------------
(* The local knowledge base and model *)

Retrieve ==
  /\ At("retrieve")
  /\ calls' = calls \cup {"retrieve"}
  /\ \E d \in Slow : SpendSlow(d)
  /\ \/ Throw
     \/ Conclude(Refusal("fallback", FALSE), "no_entries")
     \/ GoOn("model")
  /\ UNCHANGED <<cfg, request, setting, agent, lease, pending, gates>>

\* What the guard looks at in the model's envelope: its type, and whether the trimmed
\* answer is empty, a clarifying question or an unknown source is there, a source that
\* exists is cited, a URL is in the text.
Envelope == [type : {"none", "answer", "clarify", "scope_fallback", "refuse"},
             empty : BOOLEAN, stray : BOOLEAN, source : BOOLEAN, url : BOOLEAN]

\* getFaqGuardDetail(envelope) = null
GuardPasses(e) ==
  \/ e.type = "answer" /\ ~e.empty /\ e.source /\ ~e.url
  \/ e.type = "scope_fallback" /\ e.empty /\ ~e.stray /\ ~e.source

\* Mutant: only a reply that cannot be parsed counts as broken.
EnvelopeInvalidUnparsed(e) == e.type = "none"

\* envelope_parse_failed, empty_answer, scope_fallback_invalid
EnvelopeInvalid(e) ==
  \/ e.type = "none"
  \/ e.type = "answer" /\ e.empty
  \/ e.type = "scope_fallback" /\ ~GuardPasses(e)

Judged(e) ==
  CASE GuardPasses(e) /\ e.type = "answer" -> [Answer("model") EXCEPT !.grounded = e.source /\ ~e.url]
    [] GuardPasses(e) /\ e.type # "answer" -> Refusal("scope", FALSE)
    [] ~GuardPasses(e) /\ EnvelopeInvalid(e) -> Refusal("technical", TRUE)
    [] OTHER -> Refusal("fallback", FALSE)

\* What the model returned, whatever the guard makes of it.
Reading(e) ==
  CASE e.type = "none" -> "unreadable"
    [] e.type = "answer" /\ e.empty -> "empty"
    [] e.type = "scope_fallback" /\ (~e.empty \/ e.stray \/ e.source) -> "contradiction"
    [] OTHER -> "readable"

\* Why a generation stops that did not reach its end; stop_sequence and unknown reasons
\* are `other'.
StopReason == {"max_tokens", "pause_turn", "refusal", "other"}

\* What is left unfinished may succeed at the next try; a refusal will not.
GenerationIncomplete(stop) == stop \in {"max_tokens", "pause_turn"}

Stopped(stop) ==
  Refusal(IF GenerationIncomplete(stop) THEN "technical" ELSE "fallback", GenerationIncomplete(stop))

\* Mutant: the model gets its usual timeout whatever time is left.
ModelTimeoutFixed == ModelMax

ModelTimeout == Least(ModelMax, Left - Reserve)

\* Too little time: no call.  Otherwise an envelope; a generation that stopped without
\* one; or no response at all.
Model ==
  /\ At("model")
  /\ IF ModelTimeout < ModelMin
     THEN NoTime /\ Conclude(Refusal("technical", TRUE), "no_time") /\ UNCHANGED calls
     ELSE /\ calls' = calls \cup {"model"}
          /\ \E d \in Within(ModelTimeout) : Spend(d)
          /\ \/ \E e \in Envelope : Conclude(Judged(e), Reading(e))
             \/ \E stop \in StopReason : Conclude(Stopped(stop), stop)
             \/ Conclude(ErrorReply(503), "outage")
  /\ UNCHANGED <<cfg, request, setting, agent, lease, pending, gates>>

-----------------------------------------------------------------------------
(* The remote RAG service *)

RemoteBudget == Least(RemoteMax, Greatest(0, Left - Reserve))

\* The error codes of the contract but `busy'; those that nothing tells apart here are
\* `failed'.
RemoteError == {"no_match", "deadline_exceeded", "failed"}

RemoteErrorReply(code) ==
  IF code = "no_match" THEN Refusal("fallback", FALSE) ELSE Refusal("technical", TRUE)

\* What publicResponse() looks at in the response of the service.
PublicResponse == [kind : {"kb_answer", "refuse"}, answerable : BOOLEAN, sources : BOOLEAN,
                   url : BOOLEAN, scope : BOOLEAN, failure : BOOLEAN, retryable : BOOLEAN]

\* The combinations that the contract allows; any other one is an invalid contract.
Accepted(r) ==
  IF r.kind = "kb_answer"
  THEN r.answerable /\ r.sources /\ ~r.url /\ ~r.scope /\ ~r.failure /\ ~r.retryable
  ELSE ~r.answerable /\ ~r.sources /\ r.failure = r.retryable /\ ~(r.scope /\ r.failure)

\* The accepted response is the reply.
Published(r) ==
  CASE ~Accepted(r) -> RemoteErrorReply("failed")
    [] Accepted(r) /\ r.kind = "kb_answer" -> [Answer("remote") EXCEPT !.grounded = r.sources /\ ~r.url]
    [] Accepted(r) /\ r.kind # "kb_answer" -> Refusal("remote", r.retryable)

\* What the service returned, whatever the shell makes of it.
ReadingOf(r) ==
  CASE ~Accepted(r) -> "invalid_contract"
    [] Accepted(r) /\ r.failure -> "remote_failure"
    [] OTHER -> "remote"

\* The service, or its client, answers `busy': 429, nothing is settled or logged.
RemoteBusy == Return(BusyReply)

\* One call of the port with what is left of the time, unless that is not enough.
RemoteCall(floor, outcome) ==
  IF RemoteBudget - floor <= 0
  THEN /\ NoTime /\ UNCHANGED calls
       /\ Conclude(RemoteErrorReply("deadline_exceeded"), "deadline_exceeded")
  ELSE /\ calls' = calls \cup {"remote"}
       /\ \E d \in Within(RemoteBudget) : Spend(d)
       /\ outcome \/ RemoteBusy \/ \E code \in RemoteError : Conclude(RemoteErrorReply(code), code)

Finishes == \E r \in PublicResponse : Conclude(Published(r), ReadingOf(r))

RemoteAnswer ==
  /\ At("remote_answer") /\ RemoteCall(GenerateFloor, Finishes)
  /\ UNCHANGED <<cfg, request, setting, agent, lease, pending, gates>>

RemoteRetrieve ==
  /\ At("remote_retrieve") /\ RemoteCall(GenerateFloor, GoOn("remote_generate"))
  /\ UNCHANGED <<cfg, request, setting, agent, lease, pending, gates>>

RemoteGenerate ==
  /\ At("remote_generate") /\ RemoteCall(0, Finishes)
  /\ UNCHANGED <<cfg, request, setting, agent, lease, pending, gates>>

-----------------------------------------------------------------------------
(* The way out *)

\* Mutant: nobody waits for an abandoned call.
SettledAtOnce == now

\* Promise.allSettled over the calls of the pipeline.
Settled == Greatest(now, pending)

Settle ==
  /\ At("settle")
  /\ now' = Settled /\ UNCHANGED slow
  /\ GoOn(IF reply.logs THEN "log" ELSE "unwind")
  /\ UNCHANGED <<cfg, request, setting, agent, lease, pending, gates, calls>>

LogBudget == Least(LogMax, Left - LogMargin)

\* The Q&A row and the notification share one deadline; a write or a notification that
\* misses it is left behind.
Log ==
  /\ At("log")
  /\ IF LogBudget <= 0 THEN NoTime ELSE \E d \in Within(LogBudget) : Spend(d)
  /\ GoOn("unwind")
  /\ UNCHANGED <<cfg, request, setting, agent, lease, pending, gates, calls>>

\* The finally block: only the holder of a slot settles once more and releases it.
Unwind ==
  /\ At("unwind")
  /\ IF lease = "held"
     THEN /\ \E d \in Release : now' = Settled + d
          /\ lease' = "returned"
     ELSE UNCHANGED <<now, lease>>
  /\ GoOn("replying")
  /\ UNCHANGED <<cfg, request, setting, agent, pending, gates, calls, slow>>

Respond ==
  /\ At("replying")
  /\ GoOn("returned")
  /\ NoTime /\ UNCHANGED <<cfg, request, setting, agent, lease, pending, gates, calls>>

\* Lambda stops the invocation: the caller gets a 502 instead of the reply.
Kill ==
  /\ pc \notin Ended /\ now > Timeout
  /\ GoOn("killed")
  /\ NoTime /\ UNCHANGED <<cfg, request, setting, agent, lease, pending, gates, calls>>

Next ==
  \/ Enter \/ ResolveAgent \/ LoadSettings \/ CheckMethod \/ UseSettings \/ CheckBody \/ Acquire
  \/ Router \/ Generator \/ Judge
  \/ Retrieve \/ Model
  \/ RemoteAnswer \/ RemoteRetrieve \/ RemoteGenerate
  \/ Settle \/ Log \/ Unwind \/ Respond \/ Kill

Spec == Init /\ [][Next]_vars

-----------------------------------------------------------------------------
(* Properties *)

\* A text the model wrote for smalltalk is published only if the router called the
\* message pure smalltalk, no risk was seen by anybody, the deterministic guard passed
\* the text and the judge allowed it, whatever timed out or failed on the way.
OnlyJudgedTextIsPublished ==
  reply.text = "candidate" => gates = {"router", "guard", "judge"} /\ request.veto = {}

\* A question that a fixed rule takes for a prompt injection reaches no model and no
\* retrieval beyond the router, even while the router fails.
InjectionStopsAtTheRouter ==
  cfg.smalltalk = "generated" /\ "injection" \in request.veto => calls \subseteq {"router"}

\* Nothing is spent before capacity is reserved, and a fixed or rejected request
\* spends nothing.
CapacityBeforeSpending ==
  calls # {} => (cfg.slots => lease # "none") /\ request.body = "question"

\* A named agent is served by its own profile or not at all: no failure of the
\* configuration sends the request to the default FAQ or to the remote service.
NamedNeverFallsBack ==
  request.named /\ calls # {} => agent = "resolved" /\ calls \cap {"remote"} = {}

\* A published answer has a source and no URL.  A failure (too little time, an unfinished
\* generation, a broken envelope, an error or an invalid response of the remote service)
\* gets the technical text and invites a retry; nothing else does, but a failure the remote
\* service reports itself; and the text that says "no such information" is kept for the
\* requests that came to that.
RepliesAreHonest ==
  /\ reply.kind = "kb_answer" => reply.grounded
  /\ cause \in Failures => reply.text = "technical" /\ reply.retryable
  /\ reply.status = 200 /\ (reply.text = "technical" \/ reply.retryable) =>
       cause \in Failures \cup {"remote_failure"}
  /\ reply.text = "fallback" => cause \in NoInformation

\* Whoever asks is told the truth about where the answer comes from: it is the asked
\* agent's, it has a source, and a failure is not called a lack of information, nor a
\* lack of information a failure.
HonestReplies == NamedNeverFallsBack /\ RepliesAreHonest

\* A slot is given back before the reply, and only after the calls that were made under
\* it have ended.
SlotCoversTheCalls ==
  /\ lease = "returned" => pending <= now
  /\ pc = "returned" => lease # "held"

\* No model call outlives the invocation, except behind a 429 of the remote service in a
\* deployment without capacity slots.
NothingCarriedOver ==
  pc = "returned" => pending <= now \/ (reply = BusyReply /\ ~cfg.slots /\ cfg.transport # "local")

\* The capacity slot spans the spending: nothing is spent before it is taken, it is given
\* back only when every call has ended, and what is left running after the reply never
\* belonged to a slot.
CallsAreUnderASlot == CapacityBeforeSpending /\ SlotCoversTheCalls /\ NothingCarriedOver

\* Lambda cuts a request off only when the calls that have no timeout of the handler's
\* (agent profile, settings, capacity, retrieval) used up what the smalltalk turn leaves.
SlowAllowance ==
  Timeout - (RouterTimeout + GeneratorTimeout + JudgeTimeout + SdkMargin) - LogMargin

AnsweredInTime == pc = "killed" => slow > SlowAllowance

\* What the comment at `smalltalkInFlight' says: calls are always settled before the
\* reply is returned.
AlwaysSettledBeforeReply == pc = "returned" => pending <= now

-----------------------------------------------------------------------------
(* The inductive invariant *)

Early == {"entry", "agent", "settings", "method", "enabled", "body", "acquire"}
Knowledge == {"retrieve", "model", "remote_retrieve", "remote_generate", "remote_answer"}
Working == Early \cup {"router", "generator", "judge"} \cup Knowledge

TurnMax == RouterTimeout + GeneratorTimeout + JudgeTimeout + SdkMargin

\* Nothing is decided, spent or abandoned before the router.
FreshInv ==
  /\ pc \in Early \cup {"router"} => calls = {} /\ gates = {} /\ pending = 0 /\ now <= slow
  /\ pc \in Working => reply = NoReply /\ cause = "none"

\* A step stands for the gates passed before it; no gate is passed with a veto.
GateInv ==
  /\ pc = "generator" => gates = {"router"} /\ request.veto = {}
  /\ pc = "judge" => gates = {"router", "guard"} /\ request.veto = {}
  /\ cfg.smalltalk = "generated" /\ "injection" \in request.veto => pc \notin Knowledge

\* Who works holds capacity, and a named agent works on its own knowledge base.
RouteInv ==
  /\ pc \in Early => lease = "none"
  /\ pc = "acquire" => request.body = "question"
  /\ pc \in Working \ Early => (cfg.slots => lease = "held") /\ request.body = "question"
  /\ request.named /\ pc \in Working \ {"entry", "agent"} => agent = "resolved" /\ cfg.transport = "local"
  /\ pc \in Knowledge => (cfg.transport = "local") = (pc \in {"retrieve", "model"})

\* Only a 429 of the remote service leaves a call behind.
SettleInv ==
  /\ pc = "log" => pending <= now
  /\ pc = "unwind" =>
       \/ pending <= now
       \/ reply = BusyReply /\ cfg.transport # "local" /\ (cfg.slots => lease = "held")
  /\ pc = "replying" =>
       /\ lease # "held"
       /\ pending <= now \/ (reply = BusyReply /\ ~cfg.slots /\ cfg.transport # "local")
  /\ lease = "returned" => pc \in {"replying"} \cup Ended

\* How far time has come at each step, and when the last abandoned call ends.
ClockInv ==
  /\ pc = "generator" => now <= slow + RouterTimeout /\ pending <= now
  /\ pc = "judge" => now <= slow + RouterTimeout + GeneratorTimeout /\ pending <= now
  /\ pc = "retrieve" => now <= slow + RouterTimeout
  /\ pending <= slow + TurnMax
  /\ slow <= SlowAllowance =>
       now <= Timeout - (IF pc \in {"replying"} \cup Ended THEN 0 ELSE LogMargin)
  /\ pc = "killed" => now > Timeout

\* The state is well typed, and every step stands for what was decided, reserved,
\* abandoned and spent before it: what the properties above follow from.
IInv ==
  /\ TypeOK
  /\ FreshInv /\ GateInv /\ RouteInv /\ SettleInv /\ ClockInv
  /\ OnlyJudgedTextIsPublished /\ InjectionStopsAtTheRouter /\ CapacityBeforeSpending
  /\ NamedNeverFallsBack /\ RepliesAreHonest /\ SlotCoversTheCalls /\ NothingCarriedOver

=============================================================================
