-------------------------- MODULE FaqRequestProofs --------------------------
(***************************************************************************)
(* Proofs about FaqRequest, for any timeouts and margins that satisfy      *)
(* TimeAssumption and BudgetAssumption and any durations of the calls.     *)
(***************************************************************************)
EXTENDS FaqRequest, ChatSession, FiniteSetTheorems, SequenceTheorems, TLAPS

-----------------------------------------------------------------------------
(* What the reply constructors build *)

\* A reply that RepliesAreHonest allows for its cause.
Honest(r, why) ==
  /\ r \in Reply /\ why \in Cause
  /\ r.kind = "kb_answer" => r.grounded
  /\ why \in Failures => r.text = "technical" /\ r.retryable
  /\ r.status = 200 /\ (r.text = "technical" \/ r.retryable) =>
       why \in Failures \cup {"remote_failure"}
  /\ r.text = "fallback" => why \in NoInformation

\* The causes that are no failures and need no particular text.
LEMMA PlainCauses ==
  {"none", "chat", "outage", "remote", "remote_failure", "readable"} \subseteq Cause \ Failures
BY DEF Cause, Failures, NoInformation

LEMMA ErrorReplies ==
  ASSUME NEW s \in Nat, NEW why \in {"none", "outage"}
  PROVE  Honest(ErrorReply(s), why) /\ ErrorReply(s).text = "none"
<1>1. ErrorReply(s) \in Reply
  BY DEF Reply, Text, NoReply, ErrorReply
<1> QED BY <1>1, PlainCauses DEF Honest, NoReply, ErrorReply

LEMMA OutageReply == Honest(ErrorReply(503), "outage") /\ ErrorReply(503).text = "none"
<1>1. 503 \in Nat /\ "outage" \in {"none", "outage"}
  OBVIOUS
<1>2. \A s \in Nat, why \in {"none", "outage"} :
        Honest(ErrorReply(s), why) /\ ErrorReply(s).text = "none"
  BY ErrorReplies
<1> QED BY ONLY <1>1, <1>2

LEMMA FixedReplies ==
  /\ Honest(NoReply, "none") /\ NoReply.text = "none"
  /\ Honest(BusyReply, "none") /\ BusyReply.text = "none"
<1>1. NoReply \in Reply
  BY DEF Reply, Text, NoReply
<1>2. Honest(ErrorReply(429), "none") /\ ErrorReply(429).text = "none"
  BY ErrorReplies
<1>3. /\ BusyReply \in Reply /\ BusyReply.text = "none" /\ BusyReply.kind = "error"
      /\ BusyReply.status = 429
  <2>1. ErrorReply(429).kind = "error" /\ ErrorReply(429).status = 429
    BY DEF ErrorReply, NoReply
  <2>2. \A r \in Reply : /\ [r EXCEPT !.retryable = TRUE] \in Reply
                        /\ [r EXCEPT !.retryable = TRUE].text = r.text
                        /\ [r EXCEPT !.retryable = TRUE].kind = r.kind
                        /\ [r EXCEPT !.retryable = TRUE].status = r.status
    BY DEF Reply
  <2>3. ErrorReply(429) \in Reply
    BY <1>2 DEF Honest
  <2> QED BY <1>2, <2>1, <2>2, <2>3 DEF BusyReply
<1> QED BY <1>1, <1>3, PlainCauses DEF Honest, NoReply

LEMMA ChatReplies ==
  ASSUME NEW t \in {"fixed", "candidate"}
  PROVE  Honest(Chat(t), "chat") /\ Chat(t).text = t
<1>1. Chat(t) \in Reply
  BY ZenonT(40) DEF Reply, Text, NoReply, Chat
<1> QED BY <1>1, PlainCauses DEF Honest, NoReply, Chat

LEMMA RefusalIs ==
  ASSUME NEW t \in Text, NEW b \in BOOLEAN
  PROVE  /\ Refusal(t, b) \in Reply
         /\ Refusal(t, b).text = t /\ Refusal(t, b).retryable = b
         /\ Refusal(t, b).kind = "refuse" /\ Refusal(t, b).status = 200
<1>1. Refusal(t, b) \in Reply
  BY ZenonT(40) DEF Reply, NoReply, Refusal
<1> QED BY <1>1 DEF NoReply, Refusal

\* The two texts, each for its own causes.
LEMMA Refusals ==
  /\ \A why \in NoInformation : Honest(Refusal("fallback", FALSE), why)
  /\ \A why \in Failures : Honest(Refusal("technical", TRUE), why)
  /\ Refusal("fallback", FALSE).text = "fallback"
  /\ Refusal("technical", TRUE).text = "technical"
<1>1. {"fallback", "technical"} \subseteq Text
  BY DEF Text
<1>2. NoInformation \cup Failures \subseteq Cause /\ NoInformation \cap Failures = {}
  BY DEF Cause, NoInformation, Failures
<1>i. \A t \in Text, b \in BOOLEAN :
        /\ Refusal(t, b) \in Reply
        /\ Refusal(t, b).text = t /\ Refusal(t, b).retryable = b
        /\ Refusal(t, b).kind = "refuse" /\ Refusal(t, b).status = 200
  BY RefusalIs
<1>3. /\ Refusal("fallback", FALSE) \in Reply
      /\ Refusal("fallback", FALSE).text = "fallback"
      /\ Refusal("fallback", FALSE).retryable = FALSE
      /\ Refusal("fallback", FALSE).kind = "refuse"
  BY ONLY <1>1, <1>i
<1>4. /\ Refusal("technical", TRUE) \in Reply
      /\ Refusal("technical", TRUE).text = "technical"
      /\ Refusal("technical", TRUE).retryable = TRUE
      /\ Refusal("technical", TRUE).kind = "refuse"
  <2>1. "technical" \in Text /\ TRUE \in BOOLEAN
    BY <1>1
  <2> QED BY ONLY <2>1, <1>i, ZenonT(30)
<1>5. ASSUME NEW why \in NoInformation PROVE Honest(Refusal("fallback", FALSE), why)
  BY <1>2, <1>3 DEF Honest
<1>6. ASSUME NEW why \in Failures PROVE Honest(Refusal("technical", TRUE), why)
  BY <1>2, <1>4 DEF Honest
<1> QED BY <1>3, <1>4, <1>5, <1>6

LEMMA Answers ==
  ASSUME NEW t \in {"model", "remote"}, NEW why \in {"readable", "remote"}
  PROVE  Honest(Answer(t), why) /\ Answer(t).text = t
<1>1. Answer(t) \in Reply
  BY ZenonT(40) DEF Reply, Text, NoReply, Answer
<1> QED BY <1>1, PlainCauses DEF Honest, NoReply, Answer

\* The technical text goes out exactly when the envelope is broken.
LEMMA JudgedReplies ==
  ASSUME NEW e \in Envelope
  PROVE  Honest(Judged(e), Reading(e)) /\ Judged(e).text # "candidate"
<1>0. "readable" \in NoInformation /\ {"unreadable", "empty", "contradiction"} \subseteq Failures
  BY DEF NoInformation, Failures
<1>1. CASE GuardPasses(e) /\ e.type = "answer"
  <2>1. e.source /\ ~e.url /\ Judged(e) = [Answer("model") EXCEPT !.grounded = e.source /\ ~e.url]
    BY <1>1 DEF Judged, GuardPasses
  <2>2. Judged(e) = [Answer("model") EXCEPT !.grounded = TRUE]
    BY <2>1
  <2>3. Judged(e) = Answer("model")
    BY <2>2, ZenonT(40) DEF Answer, NoReply
  <2>4. Reading(e) = "readable"
    BY <1>1 DEF Reading, GuardPasses
  <2> QED BY <2>3, <2>4, Answers
<1>2. CASE GuardPasses(e) /\ e.type # "answer"
  <2>1. Judged(e) = Refusal("scope", FALSE)
    BY <1>2 DEF Judged
  <2>2. Reading(e) = "readable"
    BY <1>2 DEF Reading, GuardPasses
  <2>3. "scope" \in Text
    BY DEF Text
  <2>4. /\ Refusal("scope", FALSE) \in Reply
        /\ Refusal("scope", FALSE).text = "scope"
        /\ Refusal("scope", FALSE).retryable = FALSE
        /\ Refusal("scope", FALSE).kind = "refuse"
    BY ONLY <2>3, RefusalIs
  <2>5. Honest(Refusal("scope", FALSE), "readable")
    BY ONLY <2>4, PlainCauses DEF Honest
  <2> QED BY ONLY <2>1, <2>2, <2>4, <2>5
<1>3. CASE ~GuardPasses(e) /\ EnvelopeInvalid(e)
  <2>1. Judged(e) = Refusal("technical", TRUE)
    BY <1>3 DEF Judged
  <2>2. Reading(e) \in {"unreadable", "empty", "contradiction"}
    BY <1>3 DEF Reading, GuardPasses, EnvelopeInvalid, Envelope
  <2> QED BY <1>0, <2>1, <2>2, Refusals
<1>4. CASE ~GuardPasses(e) /\ ~EnvelopeInvalid(e)
  <2>1. Judged(e) = Refusal("fallback", FALSE)
    BY <1>4 DEF Judged
  <2>2. Reading(e) = "readable"
    BY <1>4 DEF Reading, GuardPasses, EnvelopeInvalid, Envelope
  <2> QED BY <1>0, <2>1, <2>2, Refusals
<1> QED BY <1>1, <1>2, <1>3, <1>4

\* Only an unfinished generation invites a retry.
LEMMA StoppedReplies ==
  ASSUME NEW stop \in StopReason
  PROVE  Honest(Stopped(stop), stop) /\ Stopped(stop).text # "candidate"
<1>1. CASE stop \in {"max_tokens", "pause_turn"}
  <2>1. Stopped(stop) = Refusal("technical", TRUE)
    BY <1>1, ZenonT(40) DEF Stopped, GenerationIncomplete
  <2>2. stop \in Failures
    BY <1>1 DEF Failures
  <2> QED BY <2>1, <2>2, Refusals
<1>2. CASE stop \notin {"max_tokens", "pause_turn"}
  <2>0. GenerationIncomplete(stop) = FALSE
    BY <1>2 DEF GenerationIncomplete
  <2>1. Stopped(stop) = Refusal("fallback", FALSE)
    BY <2>0, ZenonT(40) DEF Stopped
  <2>2. stop \in NoInformation
    BY <1>2 DEF StopReason, NoInformation
  <2> QED BY <2>1, <2>2, Refusals
<1> QED BY <1>1, <1>2

LEMMA RemoteErrorReplies ==
  /\ \A code \in RemoteError :
       Honest(RemoteErrorReply(code), code) /\ RemoteErrorReply(code).text # "candidate"
  /\ Honest(RemoteErrorReply("failed"), "invalid_contract")
<1>1. "no_match" \in NoInformation /\ {"deadline_exceeded", "failed", "invalid_contract"} \subseteq Failures
  BY DEF NoInformation, Failures
<1> QED BY <1>1, Refusals DEF RemoteErrorReply, RemoteError

LEMMA PublishedReplies ==
  ASSUME NEW r \in PublicResponse
  PROVE  Honest(Published(r), ReadingOf(r)) /\ Published(r).text # "candidate"
<1>1. CASE ~Accepted(r)
  BY <1>1, RemoteErrorReplies DEF Published, ReadingOf, RemoteError
<1>2. CASE Accepted(r) /\ r.kind = "kb_answer"
  <2>1. r.sources /\ ~r.url /\ Published(r) = [Answer("remote") EXCEPT !.grounded = r.sources /\ ~r.url]
    BY <1>2 DEF Published, Accepted
  <2>2. Published(r) = [Answer("remote") EXCEPT !.grounded = TRUE]
    BY <2>1
  <2>3. Published(r) = Answer("remote")
    BY <2>2, ZenonT(40) DEF Answer, NoReply
  <2>4. ReadingOf(r) = "remote"
    BY <1>2 DEF ReadingOf, Accepted
  <2> QED BY <2>3, <2>4, Answers
<1>3. CASE Accepted(r) /\ r.kind # "kb_answer"
  <2>1. Published(r) = Refusal("remote", r.retryable)
    BY <1>3 DEF Published
  <2>2. "remote" \in Text /\ r.retryable \in BOOLEAN
    BY DEF Text, PublicResponse
  <2>3. ReadingOf(r) = IF r.retryable THEN "remote_failure" ELSE "remote"
    BY <1>3 DEF ReadingOf, Accepted
  <2> QED BY <2>1, <2>2, <2>3, RefusalIs, PlainCauses DEF Honest
<1> QED BY <1>1, <1>2, <1>3

LEMMA CallTypes ==
  ASSUME TypeOK, NEW limit \in Nat, NEW longest \in Nat,
         TimesOut(limit, longest) \/ Completes(limit)
  PROVE  now' \in Nat /\ slow' \in Nat /\ pending' \in Nat
<1>1. \A e \in Nat : Greatest(pending, now + e) \in Nat
  BY DEF TypeOK, Greatest
<1>2. CASE TimesOut(limit, longest)
  BY <1>1, <1>2, TimeAssumption DEF TimesOut, Spend, TypeOK
<1>3. CASE Completes(limit)
  BY <1>1, <1>3, TimeAssumption DEF Completes, Within, Spend, TypeOK
<1> QED BY <1>2, <1>3

-----------------------------------------------------------------------------
(* Every step keeps the invariant *)

LEMMA EnterKeeps == IInv /\ Enter => IInv'
<1> SUFFICES ASSUME IInv, Enter PROVE IInv'
  OBVIOUS
<1> USE FixedReplies, ErrorReplies, TimeAssumption, BudgetAssumption
    DEF IInv, Enter, At, Return, Conclude, GoOn, NoTime
<1>1. Honest(reply, cause)
  BY DEF Honest, TypeOK, RepliesAreHonest
<1>2. Honest(reply', cause')
  BY <1>1 DEF FreshInv, Working, Early, Knowledge
<1>3. TypeOK' /\ RepliesAreHonest'
  BY <1>2 DEF TypeOK, RepliesAreHonest, Honest, Ended, Request
<1>4. FreshInv' /\ GateInv' /\ OnlyJudgedTextIsPublished' /\ InjectionStopsAtTheRouter'
  BY DEF TypeOK, Request, Deployment, Ended, Text, FreshInv, GateInv, Early, Knowledge, Working,
         OnlyJudgedTextIsPublished, InjectionStopsAtTheRouter
<1>5. RouteInv' /\ CapacityBeforeSpending' /\ NamedNeverFallsBack'
  BY DEF TypeOK, Deployment, Ended, FreshInv, RouteInv, Early, Knowledge, Working,
         CapacityBeforeSpending, NamedNeverFallsBack
<1>6. SettleInv' /\ SlotCoversTheCalls' /\ NothingCarriedOver'
  BY DEF TypeOK, Ended, FreshInv, RouteInv, SettleInv, Early, Knowledge, Working,
         SlotCoversTheCalls, NothingCarriedOver
<1>7. ClockInv'
  BY DEF TypeOK, Ended, FreshInv, SettleInv, Early, ClockInv, TurnMax, SlowAllowance
<1> QED BY <1>3, <1>4, <1>5, <1>6, <1>7

LEMMA ResolveAgentKeeps == IInv /\ ResolveAgent => IInv'
<1> SUFFICES ASSUME IInv, ResolveAgent PROVE IInv'
  OBVIOUS
<1> USE FixedReplies, ErrorReplies, TimeAssumption, BudgetAssumption
    DEF IInv, ResolveAgent, At, Return, Conclude, GoOn, NoTime, AgentsResolvable, SpendSlow
<1>1. Honest(reply, cause)
  BY DEF Honest, TypeOK, RepliesAreHonest
<1>2. Honest(reply', cause')
  BY <1>1 DEF FreshInv, Working, Early, Knowledge
<1>3. TypeOK' /\ RepliesAreHonest'
  BY <1>2 DEF TypeOK, RepliesAreHonest, Honest, Ended, Request
<1>4. FreshInv' /\ GateInv' /\ OnlyJudgedTextIsPublished' /\ InjectionStopsAtTheRouter'
  BY DEF TypeOK, Request, Deployment, Ended, Text, FreshInv, GateInv, Early, Knowledge, Working,
         OnlyJudgedTextIsPublished, InjectionStopsAtTheRouter
<1>5. RouteInv' /\ CapacityBeforeSpending' /\ NamedNeverFallsBack'
  BY DEF TypeOK, Deployment, Ended, FreshInv, RouteInv, Early, Knowledge, Working,
         CapacityBeforeSpending, NamedNeverFallsBack
<1>6. SettleInv' /\ SlotCoversTheCalls' /\ NothingCarriedOver'
  BY DEF TypeOK, Ended, FreshInv, RouteInv, SettleInv, Early, Knowledge, Working,
         SlotCoversTheCalls, NothingCarriedOver
<1>7. ClockInv'
  BY DEF TypeOK, Ended, FreshInv, SettleInv, Early, ClockInv, TurnMax, SlowAllowance
<1> QED BY <1>3, <1>4, <1>5, <1>6, <1>7

LEMMA LoadSettingsKeeps == IInv /\ LoadSettings => IInv'
<1> SUFFICES ASSUME IInv, LoadSettings PROVE IInv'
  OBVIOUS
<1> USE FixedReplies, ErrorReplies, TimeAssumption, BudgetAssumption
    DEF IInv, LoadSettings, At, Return, Conclude, GoOn, NoTime, SpendSlow
<1>1. Honest(reply, cause)
  BY DEF Honest, TypeOK, RepliesAreHonest
<1>2. Honest(reply', cause')
  BY <1>1 DEF FreshInv, Working, Early, Knowledge
<1>3. TypeOK' /\ RepliesAreHonest'
  BY <1>2 DEF TypeOK, RepliesAreHonest, Honest, Ended, Request
<1>4. FreshInv' /\ GateInv' /\ OnlyJudgedTextIsPublished' /\ InjectionStopsAtTheRouter'
  BY DEF TypeOK, Request, Deployment, Ended, Text, FreshInv, GateInv, Early, Knowledge, Working,
         OnlyJudgedTextIsPublished, InjectionStopsAtTheRouter
<1>5. RouteInv' /\ CapacityBeforeSpending' /\ NamedNeverFallsBack'
  BY DEF TypeOK, Deployment, Ended, FreshInv, RouteInv, Early, Knowledge, Working,
         CapacityBeforeSpending, NamedNeverFallsBack
<1>6. SettleInv' /\ SlotCoversTheCalls' /\ NothingCarriedOver'
  BY DEF TypeOK, Ended, FreshInv, RouteInv, SettleInv, Early, Knowledge, Working,
         SlotCoversTheCalls, NothingCarriedOver
<1>7. ClockInv'
  BY DEF TypeOK, Ended, FreshInv, SettleInv, Early, ClockInv, TurnMax, SlowAllowance
<1> QED BY <1>3, <1>4, <1>5, <1>6, <1>7

LEMMA CheckMethodKeeps == IInv /\ CheckMethod => IInv'
<1> SUFFICES ASSUME IInv, CheckMethod PROVE IInv'
  OBVIOUS
<1> USE FixedReplies, ErrorReplies, TimeAssumption, BudgetAssumption
    DEF IInv, CheckMethod, At, Return, Conclude, GoOn, NoTime
<1>1. Honest(reply, cause)
  BY DEF Honest, TypeOK, RepliesAreHonest
<1>2. Honest(reply', cause')
  BY <1>1 DEF FreshInv, Working, Early, Knowledge
<1>3. TypeOK' /\ RepliesAreHonest'
  BY <1>2 DEF TypeOK, RepliesAreHonest, Honest, Ended, Request
<1>4. FreshInv' /\ GateInv' /\ OnlyJudgedTextIsPublished' /\ InjectionStopsAtTheRouter'
  BY DEF TypeOK, Request, Deployment, Ended, Text, FreshInv, GateInv, Early, Knowledge, Working,
         OnlyJudgedTextIsPublished, InjectionStopsAtTheRouter
<1>5. RouteInv' /\ CapacityBeforeSpending' /\ NamedNeverFallsBack'
  BY DEF TypeOK, Deployment, Ended, FreshInv, RouteInv, Early, Knowledge, Working,
         CapacityBeforeSpending, NamedNeverFallsBack
<1>6. SettleInv' /\ SlotCoversTheCalls' /\ NothingCarriedOver'
  BY DEF TypeOK, Ended, FreshInv, RouteInv, SettleInv, Early, Knowledge, Working,
         SlotCoversTheCalls, NothingCarriedOver
<1>7. ClockInv'
  BY DEF TypeOK, Ended, FreshInv, SettleInv, Early, ClockInv, TurnMax, SlowAllowance
<1> QED BY <1>3, <1>4, <1>5, <1>6, <1>7

LEMMA UseSettingsKeeps == IInv /\ UseSettings => IInv'
<1> SUFFICES ASSUME IInv, UseSettings PROVE IInv'
  OBVIOUS
<1> USE FixedReplies, ErrorReplies, TimeAssumption, BudgetAssumption
    DEF IInv, UseSettings, At, Return, Conclude, GoOn, NoTime, Throw
<1>1. Honest(reply, cause)
  BY DEF Honest, TypeOK, RepliesAreHonest
<1>2. Honest(reply', cause')
  BY <1>1 DEF FreshInv, Working, Early, Knowledge
<1>3. TypeOK' /\ RepliesAreHonest'
  BY <1>2 DEF TypeOK, RepliesAreHonest, Honest, Ended, Request
<1>4. FreshInv' /\ GateInv' /\ OnlyJudgedTextIsPublished' /\ InjectionStopsAtTheRouter'
  BY DEF TypeOK, Request, Deployment, Ended, Text, FreshInv, GateInv, Early, Knowledge, Working,
         OnlyJudgedTextIsPublished, InjectionStopsAtTheRouter
<1>5. RouteInv' /\ CapacityBeforeSpending' /\ NamedNeverFallsBack'
  BY DEF TypeOK, Deployment, Ended, FreshInv, RouteInv, Early, Knowledge, Working,
         CapacityBeforeSpending, NamedNeverFallsBack
<1>6. SettleInv' /\ SlotCoversTheCalls' /\ NothingCarriedOver'
  BY DEF TypeOK, Ended, FreshInv, RouteInv, SettleInv, Early, Knowledge, Working,
         SlotCoversTheCalls, NothingCarriedOver
<1>7. ClockInv'
  BY DEF TypeOK, Ended, FreshInv, SettleInv, Early, ClockInv, TurnMax, SlowAllowance
<1> QED BY <1>3, <1>4, <1>5, <1>6, <1>7

LEMMA CheckBodyKeeps == IInv /\ CheckBody => IInv'
<1> SUFFICES ASSUME IInv, CheckBody PROVE IInv'
  OBVIOUS
<1> USE FixedReplies, ErrorReplies, ChatReplies, TimeAssumption, BudgetAssumption
    DEF IInv, CheckBody, At, Return, Conclude, GoOn, NoTime, AfterBody
<1>1. Honest(reply, cause)
  BY DEF Honest, TypeOK, RepliesAreHonest
<1>2. Honest(reply', cause')
  BY <1>1 DEF FreshInv, Working, Early, Knowledge
<1>3. TypeOK' /\ RepliesAreHonest'
  BY <1>2 DEF TypeOK, RepliesAreHonest, Honest, Ended, Request
<1>4. FreshInv' /\ GateInv' /\ OnlyJudgedTextIsPublished' /\ InjectionStopsAtTheRouter'
  BY DEF TypeOK, Request, Deployment, Ended, Text, FreshInv, GateInv, Early, Knowledge, Working,
         OnlyJudgedTextIsPublished, InjectionStopsAtTheRouter
<1>5. RouteInv' /\ CapacityBeforeSpending' /\ NamedNeverFallsBack'
  <2>1. pc' \in {"acquire", "unwind", "settle"} /\ (pc' = "acquire" => request.body = "question")
    BY DEF TypeOK, Request, Risk
  <2>2. UNCHANGED <<cfg, request, agent, lease, calls>>
    OBVIOUS
  <2> QED
    BY <2>1, <2>2 DEF RouteInv, FreshInv, Early, Knowledge, Working, CapacityBeforeSpending,
                      NamedNeverFallsBack, Ended
<1>6. SettleInv' /\ SlotCoversTheCalls' /\ NothingCarriedOver'
  BY DEF TypeOK, Ended, FreshInv, RouteInv, SettleInv, Early, Knowledge, Working,
         SlotCoversTheCalls, NothingCarriedOver
<1>7. ClockInv'
  BY DEF TypeOK, Ended, FreshInv, SettleInv, Early, ClockInv, TurnMax, SlowAllowance
<1> QED BY <1>3, <1>4, <1>5, <1>6, <1>7

LEMMA AcquireKeeps == IInv /\ Acquire => IInv'
<1> SUFFICES ASSUME IInv, Acquire PROVE IInv'
  OBVIOUS
<1> USE FixedReplies, ErrorReplies, DeploymentAssumption, TimeAssumption, BudgetAssumption
    DEF IInv, Acquire, At, Return, Conclude, GoOn, NoTime, SpendSlow, Throw, AfterCapacity, ToKnowledge
<1>1. Honest(reply, cause)
  BY DEF Honest, TypeOK, RepliesAreHonest
<1>2. Honest(reply', cause')
  BY <1>1 DEF FreshInv, Working, Early, Knowledge
<1>3. TypeOK' /\ RepliesAreHonest'
  BY <1>2 DEF TypeOK, RepliesAreHonest, Honest, Ended, Request
<1>4. FreshInv' /\ GateInv' /\ OnlyJudgedTextIsPublished' /\ InjectionStopsAtTheRouter'
  BY DEF TypeOK, Request, Deployment, Ended, Text, FreshInv, GateInv, Early, Knowledge, Working,
         OnlyJudgedTextIsPublished, InjectionStopsAtTheRouter
<1>5. RouteInv' /\ CapacityBeforeSpending' /\ NamedNeverFallsBack'
  <2>1. AfterCapacity \in {"router", "retrieve", "remote_retrieve", "remote_answer"}
    OBVIOUS
  <2>2. AfterCapacity # "router" => (cfg.transport = "local") = (AfterCapacity = "retrieve")
    OBVIOUS
  <2>3. pc' \in {AfterCapacity, "unwind", "settle"}
    OBVIOUS
  <2>4. RouteInv'
    <3>1. request.named => agent = "resolved" /\ cfg.transport = "local"
      BY DEF RouteInv, Early, Working
    <3>2. pc' \notin Early /\ (lease' = "returned" => FALSE)
      BY <2>1, <2>3 DEF RouteInv, Early
    <3>3. CASE pc' \in {"unwind", "settle"}
      BY <3>2, <3>3 DEF RouteInv, Early, Knowledge, Working
    <3>4. CASE pc' = AfterCapacity
      <4>1. (cfg.slots => lease' = "held") /\ request.body = "question"
        BY <2>1, <3>4 DEF RouteInv, Working, Early
      <4> HIDE DEF AfterCapacity, ToKnowledge
      <4> QED BY <2>1, <2>2, <3>1, <3>2, <3>4, <4>1 DEF RouteInv, Early, Knowledge, Working
    <3> QED BY <2>3, <3>3, <3>4
  <2>5. CapacityBeforeSpending' /\ NamedNeverFallsBack'
    BY DEF FreshInv, Early, CapacityBeforeSpending, NamedNeverFallsBack
  <2> QED BY <2>4, <2>5
<1>6. SettleInv' /\ SlotCoversTheCalls' /\ NothingCarriedOver'
  BY DEF TypeOK, Ended, FreshInv, RouteInv, SettleInv, Early, Knowledge, Working,
         SlotCoversTheCalls, NothingCarriedOver
<1>7. ClockInv'
  BY DEF TypeOK, Ended, FreshInv, SettleInv, Early, ClockInv, TurnMax, SlowAllowance
<1> QED BY <1>3, <1>4, <1>5, <1>6, <1>7

LEMMA RouterKeeps == IInv /\ Router => IInv'
<1> SUFFICES ASSUME IInv, Router PROVE IInv'
  OBVIOUS
<1> USE TimeAssumption, BudgetAssumption
    DEF IInv, Router, At, Return, Conclude, GoOn, NoTime, TimesOut, Completes, Within, Spend, RouterCallMax, WithoutDecision, WithDecision, MergedRisk, ToKnowledge, Greatest
<1>1. reply = NoReply /\ cause = "none"
  BY DEF FreshInv, Working, Early, Knowledge
<1>2. Honest(reply', cause') /\ reply'.text # "candidate"
  <2>1. \/ reply' = reply /\ cause' = cause
        \/ reply' = Refusal("fallback", FALSE) /\ cause' = "injection"
        \/ reply' = Chat("fixed") /\ cause' = "chat"
    BY ONLY Router DEF Router, WithoutDecision, WithDecision, Conclude, GoOn
  <2>2. "injection" \in NoInformation
    BY DEF NoInformation
  <2> QED BY ONLY <1>1, <2>1, <2>2, FixedReplies, ChatReplies, Refusals
<1>3. TypeOK' /\ RepliesAreHonest'
  <2>1. now' \in Nat /\ slow' \in Nat /\ pending' \in Nat
    <3>1. RouterTimeout \in Nat /\ RouterCallMax \in Nat
      BY DEF RouterCallMax
    <3>2. TimesOut(RouterTimeout, RouterCallMax) \/ Completes(RouterTimeout)
      BY ONLY Router DEF Router
    <3> QED BY ONLY TypeOK, <3>1, <3>2, CallTypes
  <2>2. pc' \in {"router", "generator", "judge", "retrieve", "model", "remote_retrieve",
                  "remote_generate", "remote_answer", "settle", "unwind"}
    BY DEF TypeOK
  <2>3. gates' \subseteq {"router", "guard", "judge"}
    BY DEF TypeOK
  <2>4. calls' \subseteq {"router", "generator", "judge", "retrieve", "model", "remote"}
    BY DEF TypeOK
  <2>5. UNCHANGED <<cfg, request, setting, agent, lease>>
    OBVIOUS
  <2> QED BY <1>2, <2>1, <2>2, <2>3, <2>4, <2>5 DEF TypeOK, RepliesAreHonest, Honest
<1>4. FreshInv' /\ GateInv' /\ OnlyJudgedTextIsPublished' /\ InjectionStopsAtTheRouter'
  BY <1>2 DEF TypeOK, Request, Deployment, Ended, Text, FreshInv, GateInv, Early, Knowledge, Working,
         OnlyJudgedTextIsPublished, InjectionStopsAtTheRouter
<1>5. RouteInv' /\ CapacityBeforeSpending' /\ NamedNeverFallsBack'
  <2>1. pc' \in {"generator", "settle", ToKnowledge}
    BY ONLY Router DEF Router, WithoutDecision, WithDecision, Conclude, GoOn
  <2>2. /\ pc = "router" /\ calls' = calls \cup {"router"}
        /\ UNCHANGED <<cfg, request, agent, lease>>
    BY ONLY Router DEF Router, At
  <2> QED
    BY ONLY IInv, <2>1, <2>2 DEF IInv, TypeOK, Deployment, FreshInv, RouteInv, Early, Knowledge,
       Working, ToKnowledge, CapacityBeforeSpending, NamedNeverFallsBack, Ended
<1>6. SettleInv' /\ SlotCoversTheCalls' /\ NothingCarriedOver'
  BY DEF TypeOK, Ended, FreshInv, RouteInv, SettleInv, Early, Knowledge, Working,
         SlotCoversTheCalls, NothingCarriedOver
<1>7. ClockInv'
  <2>1. /\ pc = "router" /\ now <= slow /\ pending = 0 /\ now <= Timeout
        /\ now \in Nat /\ slow \in Nat /\ slow' = slow
    BY ONLY IInv, Router DEF IInv, TypeOK, FreshInv, Router, At, TimesOut, Completes, Spend
  <2>2. pc' \in {"generator", "settle", ToKnowledge}
    BY ONLY Router DEF Router, WithoutDecision, WithDecision, Conclude, GoOn
  <2>3. pc' = "generator" => Completes(RouterTimeout)
    BY ONLY Router DEF Router, WithoutDecision, Conclude, GoOn, ToKnowledge
  <2>4. TimesOut(RouterTimeout, RouterCallMax) \/ Completes(RouterTimeout)
    BY ONLY Router DEF Router
  <2>5. CASE TimesOut(RouterTimeout, RouterCallMax)
    <3>1. /\ now' = now + RouterTimeout /\ pending' \in Nat
          /\ pending' <= now + RouterCallMax \/ pending' <= now + RouterTimeout + SdkMargin
      BY ONLY <2>1, <2>5, TimeAssumption DEF TimesOut, Spend, Greatest, RouterCallMax
    <3>2. pending' <= slow' + TurnMax
      <4>1. pending' <= now + GeneratorTimeout + JudgeTimeout + RouterTimeout + SdkMargin
        BY ONLY <3>1, <2>1, TimeAssumption, BudgetAssumption DEF RouterCallMax
      <4>2. /\ RouterTimeout \in Nat /\ GeneratorTimeout \in Nat /\ JudgeTimeout \in Nat
            /\ SdkMargin \in Nat
        BY ONLY TimeAssumption
      <4>3. TurnMax = RouterTimeout + GeneratorTimeout + JudgeTimeout + SdkMargin
        BY DEF TurnMax
      <4> QED BY ONLY <4>1, <4>2, <4>3, <3>1, <2>1
    <3>3. pc' # "generator" \/ pending' <= now'
      BY ONLY <2>1, <2>3, TimeAssumption DEF Completes, Spend, Within, Greatest
    <3> QED
      BY ONLY <2>1, <2>2, <3>1, <3>2, <3>3, TimeAssumption, BudgetAssumption
         DEF ClockInv, SlowAllowance, TurnMax, ToKnowledge, Ended
  <2>6. CASE Completes(RouterTimeout)
    <3>1. now' <= now + RouterTimeout /\ pending' = now' /\ now' \in Nat
      BY ONLY <2>1, <2>6, TimeAssumption DEF Completes, Spend, Within, Greatest
    <3> QED
      BY ONLY <2>1, <2>2, <3>1, TimeAssumption, BudgetAssumption
         DEF ClockInv, SlowAllowance, TurnMax, ToKnowledge, Ended
  <2> QED BY ONLY <2>4, <2>5, <2>6
<1> QED BY <1>3, <1>4, <1>5, <1>6, <1>7

LEMMA GeneratorKeeps == IInv /\ Generator => IInv'
<1> SUFFICES ASSUME IInv, Generator PROVE IInv'
  OBVIOUS
<1> USE FixedReplies, ChatReplies, TimeAssumption, BudgetAssumption
    DEF IInv, Generator, At, Return, Conclude, GoOn, NoTime, TimesOut, Completes, Within, Spend, Greatest
<1>1. Honest(reply, cause)
  BY DEF Honest, TypeOK, RepliesAreHonest
<1>2. Honest(reply', cause')
  BY <1>1 DEF FreshInv, Working, Early, Knowledge
<1>3. TypeOK' /\ RepliesAreHonest'
  <2>1. now' \in Nat /\ slow' \in Nat /\ pending' \in Nat
    <3>1. GeneratorTimeout \in Nat /\ GeneratorTimeout + SdkMargin \in Nat
      BY DEF RouterCallMax
    <3>2. TimesOut(GeneratorTimeout, GeneratorTimeout + SdkMargin) \/ Completes(GeneratorTimeout)
      BY ONLY Generator DEF Generator
    <3> QED BY ONLY TypeOK, <3>1, <3>2, CallTypes
  <2>2. pc' \in {"router", "generator", "judge", "retrieve", "model", "remote_retrieve",
                  "remote_generate", "remote_answer", "settle", "unwind"}
    BY DEF TypeOK
  <2>3. gates' \subseteq {"router", "guard", "judge"}
    BY DEF TypeOK
  <2>4. calls' \subseteq {"router", "generator", "judge", "retrieve", "model", "remote"}
    BY DEF TypeOK
  <2>5. UNCHANGED <<cfg, request, setting, agent, lease>>
    OBVIOUS
  <2> QED BY <1>2, <2>1, <2>2, <2>3, <2>4, <2>5 DEF TypeOK, RepliesAreHonest, Honest
<1>4. FreshInv' /\ GateInv' /\ OnlyJudgedTextIsPublished' /\ InjectionStopsAtTheRouter'
  BY DEF TypeOK, Request, Deployment, Ended, Text, FreshInv, GateInv, Early, Knowledge, Working,
         OnlyJudgedTextIsPublished, InjectionStopsAtTheRouter
<1>5. RouteInv' /\ CapacityBeforeSpending' /\ NamedNeverFallsBack'
  BY DEF TypeOK, Deployment, Ended, FreshInv, RouteInv, Early, Knowledge, Working,
         CapacityBeforeSpending, NamedNeverFallsBack
<1>6. SettleInv' /\ SlotCoversTheCalls' /\ NothingCarriedOver'
  BY DEF TypeOK, Ended, FreshInv, RouteInv, SettleInv, Early, Knowledge, Working,
         SlotCoversTheCalls, NothingCarriedOver
<1>7. ClockInv'
  BY DEF TypeOK, Ended, FreshInv, SettleInv, Early, ClockInv, TurnMax, SlowAllowance
<1> QED BY <1>3, <1>4, <1>5, <1>6, <1>7

LEMMA JudgeKeeps == IInv /\ Judge => IInv'
<1> SUFFICES ASSUME IInv, Judge PROVE IInv'
  OBVIOUS
<1> USE FixedReplies, ChatReplies, TimeAssumption, BudgetAssumption
    DEF IInv, Judge, At, Return, Conclude, GoOn, NoTime, TimesOut, Completes, Within, Spend, Greatest, NoVerdict
<1>1. Honest(reply, cause)
  BY DEF Honest, TypeOK, RepliesAreHonest
<1>2. Honest(reply', cause')
  BY <1>1 DEF FreshInv, Working, Early, Knowledge
<1>3. TypeOK' /\ RepliesAreHonest'
  <2>1. now' \in Nat /\ slow' \in Nat /\ pending' \in Nat
    <3>1. JudgeTimeout \in Nat /\ JudgeTimeout + SdkMargin \in Nat
      BY DEF RouterCallMax
    <3>2. TimesOut(JudgeTimeout, JudgeTimeout + SdkMargin) \/ Completes(JudgeTimeout)
      BY ONLY Judge DEF Judge
    <3> QED BY ONLY TypeOK, <3>1, <3>2, CallTypes
  <2>2. pc' \in {"router", "generator", "judge", "retrieve", "model", "remote_retrieve",
                  "remote_generate", "remote_answer", "settle", "unwind"}
    BY DEF TypeOK
  <2>3. gates' \subseteq {"router", "guard", "judge"}
    BY DEF TypeOK
  <2>4. calls' \subseteq {"router", "generator", "judge", "retrieve", "model", "remote"}
    BY DEF TypeOK
  <2>5. UNCHANGED <<cfg, request, setting, agent, lease>>
    OBVIOUS
  <2> QED BY <1>2, <2>1, <2>2, <2>3, <2>4, <2>5 DEF TypeOK, RepliesAreHonest, Honest
<1>4. FreshInv' /\ GateInv' /\ OnlyJudgedTextIsPublished' /\ InjectionStopsAtTheRouter'
  BY DEF TypeOK, Request, Deployment, Ended, Text, FreshInv, GateInv, Early, Knowledge, Working,
         OnlyJudgedTextIsPublished, InjectionStopsAtTheRouter
<1>5. RouteInv' /\ CapacityBeforeSpending' /\ NamedNeverFallsBack'
  BY DEF TypeOK, Deployment, Ended, FreshInv, RouteInv, Early, Knowledge, Working,
         CapacityBeforeSpending, NamedNeverFallsBack
<1>6. SettleInv' /\ SlotCoversTheCalls' /\ NothingCarriedOver'
  BY DEF TypeOK, Ended, FreshInv, RouteInv, SettleInv, Early, Knowledge, Working,
         SlotCoversTheCalls, NothingCarriedOver
<1>7. ClockInv'
  BY DEF TypeOK, Ended, FreshInv, SettleInv, Early, ClockInv, TurnMax, SlowAllowance
<1> QED BY <1>3, <1>4, <1>5, <1>6, <1>7

LEMMA RetrieveKeeps == IInv /\ Retrieve => IInv'
<1> SUFFICES ASSUME IInv, Retrieve PROVE IInv'
  OBVIOUS
<1> USE TimeAssumption, BudgetAssumption
    DEF IInv, Retrieve, At, Return, Conclude, GoOn, NoTime, SpendSlow, Throw
<1>1. reply = NoReply /\ cause = "none"
  BY DEF FreshInv, Working, Early, Knowledge
<1>2. Honest(reply', cause') /\ reply'.text # "candidate"
  <2>1. \/ reply' = reply /\ cause' = cause
        \/ reply' = ErrorReply(503) /\ cause' = "outage"
        \/ reply' = Refusal("fallback", FALSE) /\ cause' = "no_entries"
    BY ONLY Retrieve DEF Retrieve, Throw, Conclude, GoOn
  <2>2. "no_entries" \in NoInformation
    BY DEF NoInformation
  <2>3. CASE reply' = reply /\ cause' = cause
    BY ONLY <1>1, <2>3, FixedReplies
  <2>4. CASE reply' = ErrorReply(503) /\ cause' = "outage"
    BY ONLY <2>4, OutageReply
  <2>5. CASE reply' = Refusal("fallback", FALSE) /\ cause' = "no_entries"
    BY ONLY <2>5, <2>2, Refusals
  <2> QED BY ONLY <2>1, <2>3, <2>4, <2>5
<1>s. /\ pc = "retrieve" /\ pc' \in {"settle", "model"} /\ now <= Timeout
      /\ pc' = "model" => reply' = reply /\ cause' = cause
      /\ calls' = calls \cup {"retrieve"}
      /\ UNCHANGED <<cfg, request, setting, agent, lease, pending, gates>>
  BY ONLY Retrieve DEF Retrieve, At, Throw, Conclude, GoOn
<1>n. /\ now \in Nat /\ slow \in Nat /\ now' \in Nat /\ slow' \in Nat
      /\ now' - now = slow' - slow /\ slow <= slow'
  BY ONLY IInv, Retrieve, TimeAssumption DEF IInv, TypeOK, Retrieve, SpendSlow
<1>3. TypeOK' /\ RepliesAreHonest'
  BY ONLY IInv, <1>2, <1>s, <1>n DEF IInv, TypeOK, RepliesAreHonest, Honest
<1>4. FreshInv' /\ GateInv' /\ OnlyJudgedTextIsPublished' /\ InjectionStopsAtTheRouter'
  BY ONLY IInv, <1>2, <1>s DEF IInv, TypeOK, Request, Deployment, Ended, Text, FreshInv, GateInv,
     Early, Knowledge, Working, OnlyJudgedTextIsPublished, InjectionStopsAtTheRouter
<1>5. RouteInv' /\ CapacityBeforeSpending' /\ NamedNeverFallsBack'
  BY ONLY IInv, <1>s DEF IInv, TypeOK, Deployment, Ended, FreshInv, RouteInv, Early, Knowledge,
     Working, CapacityBeforeSpending, NamedNeverFallsBack
<1>6. SettleInv' /\ SlotCoversTheCalls' /\ NothingCarriedOver'
  BY ONLY IInv, <1>s DEF IInv, TypeOK, Ended, FreshInv, RouteInv, SettleInv, Early, Knowledge,
     Working, SlotCoversTheCalls, NothingCarriedOver
<1>7. ClockInv'
  BY ONLY IInv, <1>s, <1>n, TimeAssumption, BudgetAssumption
     DEF IInv, TypeOK, Ended, ClockInv, TurnMax, SlowAllowance
<1> QED BY <1>3, <1>4, <1>5, <1>6, <1>7

LEMMA ModelKeeps == IInv /\ Model => IInv'
<1> SUFFICES ASSUME IInv, Model PROVE IInv'
  OBVIOUS
<1> USE TimeAssumption, BudgetAssumption
    DEF IInv, Model, At, Return, Conclude, GoOn, NoTime, ModelTimeout, Least, Within, Spend, Left, Greatest
<1>1. reply = NoReply /\ cause = "none"
  BY DEF FreshInv, Working, Early, Knowledge
<1>2. Honest(reply', cause') /\ reply'.text # "candidate"
  <2>1. \/ \E e \in Envelope : reply' = Judged(e) /\ cause' = Reading(e)
        \/ \E stop \in StopReason : reply' = Stopped(stop) /\ cause' = stop
        \/ reply' = ErrorReply(503) /\ cause' = "outage"
        \/ reply' = Refusal("technical", TRUE) /\ cause' = "no_time"
    BY ONLY Model DEF Model, Conclude
  <2>2. "no_time" \in Failures
    BY DEF Failures
  <2>3. CASE \E e \in Envelope : reply' = Judged(e) /\ cause' = Reading(e)
    BY ONLY <2>3, JudgedReplies
  <2>4. CASE \E stop \in StopReason : reply' = Stopped(stop) /\ cause' = stop
    BY ONLY <2>4, StoppedReplies
  <2>5. CASE reply' = ErrorReply(503) /\ cause' = "outage"
    BY ONLY <2>5, OutageReply
  <2>6. CASE reply' = Refusal("technical", TRUE) /\ cause' = "no_time"
    BY ONLY <2>6, <2>2, Refusals
  <2> QED BY ONLY <2>1, <2>3, <2>4, <2>5, <2>6
<1>s. /\ pc = "model" /\ pc' = "settle" /\ now <= Timeout
      /\ calls' \in {calls, calls \cup {"model"}}
      /\ UNCHANGED <<cfg, request, setting, agent, lease, pending, gates, slow>>
  BY ONLY Model DEF Model, At, Conclude, NoTime, Spend
<1>n. now' \in Nat /\ (now' <= now \/ now' <= Timeout - Reserve)
  <2>1. now \in Nat
    BY DEF TypeOK
  <2>2. CASE ModelTimeout < ModelMin
    <3>1. now' = now
      BY ONLY Model, <2>2 DEF Model, NoTime
    <3> QED BY <2>1, <3>1
  <2>3. CASE ~(ModelTimeout < ModelMin)
    <3>1. \E d \in Within(ModelTimeout) : now' = now + d
      BY ONLY Model, <2>3 DEF Model, Spend
    <3>2. ModelTimeout \in Nat /\ ModelTimeout <= Timeout - now - Reserve
      BY ONLY <2>1, <2>3, TimeAssumption DEF ModelTimeout, Least, Left
    <3> QED BY ONLY <2>1, <3>1, <3>2, TimeAssumption DEF Within
  <2> QED BY <2>2, <2>3
<1>3. TypeOK' /\ RepliesAreHonest'
  BY ONLY IInv, <1>2, <1>s, <1>n DEF IInv, TypeOK, RepliesAreHonest, Honest
<1>4. FreshInv' /\ GateInv' /\ OnlyJudgedTextIsPublished' /\ InjectionStopsAtTheRouter'
  BY ONLY IInv, <1>2, <1>s DEF IInv, TypeOK, Request, Deployment, Ended, Text, FreshInv, GateInv,
     Early, Knowledge, Working, OnlyJudgedTextIsPublished, InjectionStopsAtTheRouter
<1>5. RouteInv' /\ CapacityBeforeSpending' /\ NamedNeverFallsBack'
  BY ONLY IInv, <1>s DEF IInv, TypeOK, Deployment, Ended, FreshInv, RouteInv, Early, Knowledge,
     Working, CapacityBeforeSpending, NamedNeverFallsBack
<1>6. SettleInv' /\ SlotCoversTheCalls' /\ NothingCarriedOver'
  BY ONLY IInv, <1>s DEF IInv, TypeOK, Ended, FreshInv, RouteInv, SettleInv, Early, Knowledge,
     Working, SlotCoversTheCalls, NothingCarriedOver
<1>7. ClockInv'
  BY ONLY IInv, <1>s, <1>n, TimeAssumption, BudgetAssumption
     DEF IInv, TypeOK, Ended, ClockInv, TurnMax, SlowAllowance
<1> QED BY <1>3, <1>4, <1>5, <1>6, <1>7

LEMMA RemoteAnswerKeeps == IInv /\ RemoteAnswer => IInv'
<1> SUFFICES ASSUME IInv, RemoteAnswer PROVE IInv'
  OBVIOUS
<1> USE TimeAssumption, BudgetAssumption
    DEF IInv, RemoteAnswer, At, Return, Conclude, GoOn, NoTime, RemoteCall, RemoteBudget, RemoteBusy, Within, Spend, Left, Least, Greatest, Finishes
<1>1. reply = NoReply /\ cause = "none"
  BY DEF FreshInv, Working, Early, Knowledge
<1>2. Honest(reply', cause') /\ reply'.text # "candidate"
  <2>1. \/ reply' = reply /\ cause' = cause
        \/ reply' = BusyReply /\ cause' = cause
        \/ \E code \in RemoteError : reply' = RemoteErrorReply(code) /\ cause' = code
        \/ \E r \in PublicResponse : reply' = Published(r) /\ cause' = ReadingOf(r)
    BY ONLY RemoteAnswer DEF RemoteAnswer, RemoteCall, RemoteBusy, RemoteError, Finishes, Conclude, Return, GoOn
  <2> QED BY ONLY <1>1, <2>1, FixedReplies, RemoteErrorReplies, PublishedReplies
<1>3. TypeOK' /\ RepliesAreHonest'
  <2>1. now' \in Nat /\ slow' \in Nat
    BY DEF TypeOK
  <2>6. pending' \in Nat
    BY <2>1 DEF TypeOK
  <2>2. pc' \in {"router", "generator", "judge", "retrieve", "model", "remote_retrieve",
                  "remote_generate", "remote_answer", "settle", "unwind"}
    BY DEF TypeOK
  <2>4. calls' \subseteq {"router", "generator", "judge", "retrieve", "model", "remote"}
    BY DEF TypeOK
  <2>5. UNCHANGED <<cfg, request, setting, agent, lease, gates>>
    OBVIOUS
  <2> QED BY <1>2, <2>1, <2>2, <2>4, <2>5, <2>6 DEF TypeOK, RepliesAreHonest, Honest
<1>4. FreshInv' /\ GateInv' /\ OnlyJudgedTextIsPublished' /\ InjectionStopsAtTheRouter'
  BY <1>2 DEF TypeOK, Request, Deployment, Ended, Text, FreshInv, GateInv, Early, Knowledge, Working,
         OnlyJudgedTextIsPublished, InjectionStopsAtTheRouter
<1>5. RouteInv' /\ CapacityBeforeSpending' /\ NamedNeverFallsBack'
  BY DEF TypeOK, Deployment, Ended, FreshInv, RouteInv, Early, Knowledge, Working,
         CapacityBeforeSpending, NamedNeverFallsBack
<1>6. SettleInv' /\ SlotCoversTheCalls' /\ NothingCarriedOver'
  BY DEF TypeOK, Ended, FreshInv, RouteInv, SettleInv, Early, Knowledge, Working,
         SlotCoversTheCalls, NothingCarriedOver
<1>7. ClockInv'
  BY DEF TypeOK, Ended, FreshInv, SettleInv, Early, ClockInv, TurnMax, SlowAllowance
<1> QED BY <1>3, <1>4, <1>5, <1>6, <1>7

LEMMA RemoteRetrieveKeeps == IInv /\ RemoteRetrieve => IInv'
<1> SUFFICES ASSUME IInv, RemoteRetrieve PROVE IInv'
  OBVIOUS
<1> USE TimeAssumption, BudgetAssumption
    DEF IInv, RemoteRetrieve, At, Return, Conclude, GoOn, NoTime, RemoteCall, RemoteBudget, RemoteBusy, Within, Spend, Left, Least, Greatest
<1>1. reply = NoReply /\ cause = "none"
  BY DEF FreshInv, Working, Early, Knowledge
<1>2. Honest(reply', cause') /\ reply'.text # "candidate"
  <2>1. \/ reply' = reply /\ cause' = cause
        \/ reply' = BusyReply /\ cause' = cause
        \/ \E code \in RemoteError : reply' = RemoteErrorReply(code) /\ cause' = code
        \/ \E r \in PublicResponse : reply' = Published(r) /\ cause' = ReadingOf(r)
    BY ONLY RemoteRetrieve DEF RemoteRetrieve, RemoteCall, RemoteBusy, RemoteError, Finishes, Conclude, Return, GoOn
  <2> QED BY ONLY <1>1, <2>1, FixedReplies, RemoteErrorReplies, PublishedReplies
<1>3. TypeOK' /\ RepliesAreHonest'
  <2>1. now' \in Nat /\ slow' \in Nat
    BY DEF TypeOK
  <2>6. pending' \in Nat
    BY <2>1 DEF TypeOK
  <2>2. pc' \in {"router", "generator", "judge", "retrieve", "model", "remote_retrieve",
                  "remote_generate", "remote_answer", "settle", "unwind"}
    BY DEF TypeOK
  <2>4. calls' \subseteq {"router", "generator", "judge", "retrieve", "model", "remote"}
    BY DEF TypeOK
  <2>5. UNCHANGED <<cfg, request, setting, agent, lease, gates>>
    OBVIOUS
  <2> QED BY <1>2, <2>1, <2>2, <2>4, <2>5, <2>6 DEF TypeOK, RepliesAreHonest, Honest
<1>4. FreshInv' /\ GateInv' /\ OnlyJudgedTextIsPublished' /\ InjectionStopsAtTheRouter'
  BY <1>2 DEF TypeOK, Request, Deployment, Ended, Text, FreshInv, GateInv, Early, Knowledge, Working,
         OnlyJudgedTextIsPublished, InjectionStopsAtTheRouter
<1>5. RouteInv' /\ CapacityBeforeSpending' /\ NamedNeverFallsBack'
  BY DEF TypeOK, Deployment, Ended, FreshInv, RouteInv, Early, Knowledge, Working,
         CapacityBeforeSpending, NamedNeverFallsBack
<1>6. SettleInv' /\ SlotCoversTheCalls' /\ NothingCarriedOver'
  BY DEF TypeOK, Ended, FreshInv, RouteInv, SettleInv, Early, Knowledge, Working,
         SlotCoversTheCalls, NothingCarriedOver
<1>7. ClockInv'
  BY DEF TypeOK, Ended, FreshInv, SettleInv, Early, ClockInv, TurnMax, SlowAllowance
<1> QED BY <1>3, <1>4, <1>5, <1>6, <1>7

LEMMA RemoteGenerateKeeps == IInv /\ RemoteGenerate => IInv'
<1> SUFFICES ASSUME IInv, RemoteGenerate PROVE IInv'
  OBVIOUS
<1> USE TimeAssumption, BudgetAssumption
    DEF IInv, RemoteGenerate, At, Return, Conclude, GoOn, NoTime, RemoteCall, RemoteBudget, RemoteBusy, Within, Spend, Left, Least, Greatest, Finishes
<1>1. reply = NoReply /\ cause = "none"
  BY DEF FreshInv, Working, Early, Knowledge
<1>2. Honest(reply', cause') /\ reply'.text # "candidate"
  <2>1. \/ reply' = reply /\ cause' = cause
        \/ reply' = BusyReply /\ cause' = cause
        \/ \E code \in RemoteError : reply' = RemoteErrorReply(code) /\ cause' = code
        \/ \E r \in PublicResponse : reply' = Published(r) /\ cause' = ReadingOf(r)
    BY ONLY RemoteGenerate DEF RemoteGenerate, RemoteCall, RemoteBusy, RemoteError, Finishes, Conclude, Return, GoOn
  <2> QED BY ONLY <1>1, <2>1, FixedReplies, RemoteErrorReplies, PublishedReplies
<1>3. TypeOK' /\ RepliesAreHonest'
  <2>1. now' \in Nat /\ slow' \in Nat
    BY DEF TypeOK
  <2>6. pending' \in Nat
    BY <2>1 DEF TypeOK
  <2>2. pc' \in {"router", "generator", "judge", "retrieve", "model", "remote_retrieve",
                  "remote_generate", "remote_answer", "settle", "unwind"}
    BY DEF TypeOK
  <2>4. calls' \subseteq {"router", "generator", "judge", "retrieve", "model", "remote"}
    BY DEF TypeOK
  <2>5. UNCHANGED <<cfg, request, setting, agent, lease, gates>>
    OBVIOUS
  <2> QED BY <1>2, <2>1, <2>2, <2>4, <2>5, <2>6 DEF TypeOK, RepliesAreHonest, Honest
<1>4. FreshInv' /\ GateInv' /\ OnlyJudgedTextIsPublished' /\ InjectionStopsAtTheRouter'
  BY <1>2 DEF TypeOK, Request, Deployment, Ended, Text, FreshInv, GateInv, Early, Knowledge, Working,
         OnlyJudgedTextIsPublished, InjectionStopsAtTheRouter
<1>5. RouteInv' /\ CapacityBeforeSpending' /\ NamedNeverFallsBack'
  BY DEF TypeOK, Deployment, Ended, FreshInv, RouteInv, Early, Knowledge, Working,
         CapacityBeforeSpending, NamedNeverFallsBack
<1>6. SettleInv' /\ SlotCoversTheCalls' /\ NothingCarriedOver'
  BY DEF TypeOK, Ended, FreshInv, RouteInv, SettleInv, Early, Knowledge, Working,
         SlotCoversTheCalls, NothingCarriedOver
<1>7. ClockInv'
  BY DEF TypeOK, Ended, FreshInv, SettleInv, Early, ClockInv, TurnMax, SlowAllowance
<1> QED BY <1>3, <1>4, <1>5, <1>6, <1>7

LEMMA SettleKeeps == IInv /\ Settle => IInv'
<1> SUFFICES ASSUME IInv, Settle PROVE IInv'
  OBVIOUS
<1> USE FixedReplies, TimeAssumption, BudgetAssumption
    DEF IInv, Settle, At, Return, Conclude, GoOn, NoTime, Settled, Greatest
<1>1. Honest(reply, cause)
  BY DEF Honest, TypeOK, RepliesAreHonest
<1>2. Honest(reply', cause')
  BY <1>1 DEF FreshInv, Working, Early, Knowledge
<1>3. TypeOK' /\ RepliesAreHonest'
  BY <1>2 DEF TypeOK, RepliesAreHonest, Honest, Ended, Request
<1>4. FreshInv' /\ GateInv' /\ OnlyJudgedTextIsPublished' /\ InjectionStopsAtTheRouter'
  BY DEF TypeOK, Request, Deployment, Ended, Text, FreshInv, GateInv, Early, Knowledge, Working,
         OnlyJudgedTextIsPublished, InjectionStopsAtTheRouter
<1>5. RouteInv' /\ CapacityBeforeSpending' /\ NamedNeverFallsBack'
  BY DEF TypeOK, Deployment, Ended, FreshInv, RouteInv, Early, Knowledge, Working,
         CapacityBeforeSpending, NamedNeverFallsBack
<1>6. SettleInv' /\ SlotCoversTheCalls' /\ NothingCarriedOver'
  BY DEF TypeOK, Ended, FreshInv, RouteInv, SettleInv, Early, Knowledge, Working,
         SlotCoversTheCalls, NothingCarriedOver
<1>7. ClockInv'
  BY DEF TypeOK, Ended, FreshInv, SettleInv, Early, ClockInv, TurnMax, SlowAllowance
<1> QED BY <1>3, <1>4, <1>5, <1>6, <1>7

LEMMA LogKeeps == IInv /\ Log => IInv'
<1> SUFFICES ASSUME IInv, Log PROVE IInv'
  OBVIOUS
<1> USE FixedReplies, TimeAssumption, BudgetAssumption
    DEF IInv, Log, At, Return, Conclude, GoOn, NoTime, LogBudget, Least, Within, Spend, Left
<1>1. Honest(reply, cause)
  BY DEF Honest, TypeOK, RepliesAreHonest
<1>2. Honest(reply', cause')
  BY <1>1 DEF FreshInv, Working, Early, Knowledge
<1>3. TypeOK' /\ RepliesAreHonest'
  BY <1>2 DEF TypeOK, RepliesAreHonest, Honest, Ended, Request
<1>4. FreshInv' /\ GateInv' /\ OnlyJudgedTextIsPublished' /\ InjectionStopsAtTheRouter'
  BY DEF TypeOK, Request, Deployment, Ended, Text, FreshInv, GateInv, Early, Knowledge, Working,
         OnlyJudgedTextIsPublished, InjectionStopsAtTheRouter
<1>5. RouteInv' /\ CapacityBeforeSpending' /\ NamedNeverFallsBack'
  BY DEF TypeOK, Deployment, Ended, FreshInv, RouteInv, Early, Knowledge, Working,
         CapacityBeforeSpending, NamedNeverFallsBack
<1>6. SettleInv' /\ SlotCoversTheCalls' /\ NothingCarriedOver'
  BY DEF TypeOK, Ended, FreshInv, RouteInv, SettleInv, Early, Knowledge, Working,
         SlotCoversTheCalls, NothingCarriedOver
<1>7. ClockInv'
  BY DEF TypeOK, Ended, FreshInv, SettleInv, Early, ClockInv, TurnMax, SlowAllowance
<1> QED BY <1>3, <1>4, <1>5, <1>6, <1>7

LEMMA UnwindKeeps == IInv /\ Unwind => IInv'
<1> SUFFICES ASSUME IInv, Unwind PROVE IInv'
  OBVIOUS
<1> USE FixedReplies, TimeAssumption, BudgetAssumption
    DEF IInv, Unwind, At, Return, Conclude, GoOn, NoTime, Settled, Greatest
<1>1. Honest(reply, cause)
  BY DEF Honest, TypeOK, RepliesAreHonest
<1>2. Honest(reply', cause')
  BY <1>1 DEF FreshInv, Working, Early, Knowledge
<1>3. TypeOK' /\ RepliesAreHonest'
  BY <1>2 DEF TypeOK, RepliesAreHonest, Honest, Ended, Request
<1>4. FreshInv' /\ GateInv' /\ OnlyJudgedTextIsPublished' /\ InjectionStopsAtTheRouter'
  BY DEF TypeOK, Request, Deployment, Ended, Text, FreshInv, GateInv, Early, Knowledge, Working,
         OnlyJudgedTextIsPublished, InjectionStopsAtTheRouter
<1>5. RouteInv' /\ CapacityBeforeSpending' /\ NamedNeverFallsBack'
  BY DEF TypeOK, Deployment, Ended, FreshInv, RouteInv, Early, Knowledge, Working,
         CapacityBeforeSpending, NamedNeverFallsBack
<1>6. SettleInv' /\ SlotCoversTheCalls' /\ NothingCarriedOver'
  BY DEF TypeOK, Ended, FreshInv, RouteInv, SettleInv, Early, Knowledge, Working,
         SlotCoversTheCalls, NothingCarriedOver
<1>7. ClockInv'
  BY DEF TypeOK, Ended, FreshInv, SettleInv, Early, ClockInv, TurnMax, SlowAllowance
<1> QED BY <1>3, <1>4, <1>5, <1>6, <1>7

LEMMA RespondKeeps == IInv /\ Respond => IInv'
<1> SUFFICES ASSUME IInv, Respond PROVE IInv'
  OBVIOUS
<1> USE FixedReplies, TimeAssumption, BudgetAssumption
    DEF IInv, Respond, At, Return, Conclude, GoOn, NoTime
<1>1. Honest(reply, cause)
  BY DEF Honest, TypeOK, RepliesAreHonest
<1>2. Honest(reply', cause')
  BY <1>1 DEF FreshInv, Working, Early, Knowledge
<1>3. TypeOK' /\ RepliesAreHonest'
  BY <1>2 DEF TypeOK, RepliesAreHonest, Honest, Ended, Request
<1>4. FreshInv' /\ GateInv' /\ OnlyJudgedTextIsPublished' /\ InjectionStopsAtTheRouter'
  BY DEF TypeOK, Request, Deployment, Ended, Text, FreshInv, GateInv, Early, Knowledge, Working,
         OnlyJudgedTextIsPublished, InjectionStopsAtTheRouter
<1>5. RouteInv' /\ CapacityBeforeSpending' /\ NamedNeverFallsBack'
  BY DEF TypeOK, Deployment, Ended, FreshInv, RouteInv, Early, Knowledge, Working,
         CapacityBeforeSpending, NamedNeverFallsBack
<1>6. SettleInv' /\ SlotCoversTheCalls' /\ NothingCarriedOver'
  BY DEF TypeOK, Ended, FreshInv, RouteInv, SettleInv, Early, Knowledge, Working,
         SlotCoversTheCalls, NothingCarriedOver
<1>7. ClockInv'
  BY DEF TypeOK, Ended, FreshInv, SettleInv, Early, ClockInv, TurnMax, SlowAllowance
<1> QED BY <1>3, <1>4, <1>5, <1>6, <1>7

LEMMA KillKeeps == IInv /\ Kill => IInv'
<1> SUFFICES ASSUME IInv, Kill PROVE IInv'
  OBVIOUS
<1> USE FixedReplies, TimeAssumption, BudgetAssumption
    DEF IInv, Kill, At, Return, Conclude, GoOn, NoTime
<1>1. Honest(reply, cause)
  BY DEF Honest, TypeOK, RepliesAreHonest
<1>2. Honest(reply', cause')
  BY <1>1 DEF FreshInv, Working, Early, Knowledge
<1>3. TypeOK' /\ RepliesAreHonest'
  BY <1>2 DEF TypeOK, RepliesAreHonest, Honest, Ended, Request
<1>4. FreshInv' /\ GateInv' /\ OnlyJudgedTextIsPublished' /\ InjectionStopsAtTheRouter'
  BY DEF TypeOK, Request, Deployment, Ended, Text, FreshInv, GateInv, Early, Knowledge, Working,
         OnlyJudgedTextIsPublished, InjectionStopsAtTheRouter
<1>5. RouteInv' /\ CapacityBeforeSpending' /\ NamedNeverFallsBack'
  BY DEF TypeOK, Deployment, Ended, FreshInv, RouteInv, Early, Knowledge, Working,
         CapacityBeforeSpending, NamedNeverFallsBack
<1>6. SettleInv' /\ SlotCoversTheCalls' /\ NothingCarriedOver'
  BY DEF TypeOK, Ended, FreshInv, RouteInv, SettleInv, Early, Knowledge, Working,
         SlotCoversTheCalls, NothingCarriedOver
<1>7. ClockInv'
  BY DEF TypeOK, Ended, FreshInv, SettleInv, Early, ClockInv, TurnMax, SlowAllowance
<1> QED BY <1>3, <1>4, <1>5, <1>6, <1>7

-----------------------------------------------------------------------------
(* The theorems *)

LEMMA InitIInv == Init => IInv
<1> SUFFICES ASSUME Init PROVE IInv
  OBVIOUS
<1> USE FixedReplies, TimeAssumption, BudgetAssumption DEF Init
<1>1. TypeOK /\ RepliesAreHonest
  BY DEF TypeOK, RepliesAreHonest, Honest
<1>2. FreshInv /\ GateInv /\ RouteInv /\ SettleInv
  BY DEF FreshInv, GateInv, RouteInv, SettleInv, Early, Knowledge, Working, Ended
<1>3. ClockInv
  BY DEF ClockInv, TurnMax, SlowAllowance, Ended
<1>4. /\ OnlyJudgedTextIsPublished /\ InjectionStopsAtTheRouter /\ CapacityBeforeSpending
      /\ NamedNeverFallsBack /\ SlotCoversTheCalls /\ NothingCarriedOver
  BY DEF OnlyJudgedTextIsPublished, InjectionStopsAtTheRouter, CapacityBeforeSpending,
         NamedNeverFallsBack, SlotCoversTheCalls, NothingCarriedOver
<1> QED BY <1>1, <1>2, <1>3, <1>4 DEF IInv

LEMMA StutterKeeps == IInv /\ UNCHANGED vars => IInv'
BY DEF vars, IInv, TypeOK, FreshInv, GateInv, RouteInv, SettleInv, ClockInv,
       OnlyJudgedTextIsPublished, InjectionStopsAtTheRouter, CapacityBeforeSpending,
       NamedNeverFallsBack, RepliesAreHonest, SlotCoversTheCalls, NothingCarriedOver,
       AgentsResolvable

\* The inductive invariant of a FAQ request, whatever the world answers and however
\* long it takes.
THEOREM Invariance == Spec => []IInv
<1>1. IInv /\ [Next]_vars => IInv'
  <2> SUFFICES ASSUME IInv, [Next]_vars PROVE IInv'
    OBVIOUS
  <2> QED
    BY EnterKeeps, ResolveAgentKeeps, LoadSettingsKeeps, CheckMethodKeeps, UseSettingsKeeps,
       CheckBodyKeeps, AcquireKeeps, RouterKeeps, GeneratorKeeps, JudgeKeeps, RetrieveKeeps,
       ModelKeeps, RemoteAnswerKeeps, RemoteRetrieveKeeps, RemoteGenerateKeeps, SettleKeeps,
       LogKeeps, UnwindKeeps, RespondKeeps, KillKeeps, StutterKeeps
    DEF Next
<1> QED BY InitIInv, <1>1, PTL DEF Spec

\* Generated smalltalk is published only behind all three gates and without any veto
\* (runGeneratedSmalltalkPipeline).
THEOREM JudgedText == Spec => []OnlyJudgedTextIsPublished
<1>1. IInv => OnlyJudgedTextIsPublished
  BY DEF IInv
<1> QED BY Invariance, <1>1, PTL

\* A question with a deterministic injection veto gets no further than the router.
THEOREM InjectionStops == Spec => []InjectionStopsAtTheRouter
<1>1. IInv => InjectionStopsAtTheRouter
  BY DEF IInv
<1> QED BY Invariance, <1>1, PTL

\* A slot outlives every model call made under it (settleSmalltalkCalls before release).
THEOREM SlotCovers == Spec => []SlotCoversTheCalls
<1>1. IInv => SlotCoversTheCalls
  BY DEF IInv
<1> QED BY Invariance, <1>1, PTL

\* The request is cut off by Lambda only if the calls without a timeout of the handler's
\* took longer than SlowAllowance, for any timeouts that satisfy BudgetAssumption.
THEOREM InTime == Spec => []AnsweredInTime
<1>1. IInv => AnsweredInTime
  BY TimeAssumption DEF IInv, TypeOK, ClockInv, AnsweredInTime, SlowAllowance, Ended
<1> QED BY Invariance, <1>1, PTL

\* Capacity is reserved before the first paid call and outlasts the last one.
THEOREM UnderASlot == Spec => []CallsAreUnderASlot
<1>1. IInv => CallsAreUnderASlot
  BY DEF IInv, CallsAreUnderASlot
<1> QED BY Invariance, <1>1, PTL

\* A reply says what it is: the asked agent's, with a source, or a failure.
THEOREM TruthfulReplies == Spec => []HonestReplies
<1>1. IInv => HonestReplies
  BY DEF IInv, HonestReplies
<1> QED BY Invariance, <1>1, PTL

(***************************************************************************)
(* The chat page and the shell (ChatSession), for any limits that satisfy  *)
(* ApiAssumption, UiAssumption and ShellAssumption, any tabs, any length   *)
(* of the questions and any number of them.                                *)
(***************************************************************************)

-----------------------------------------------------------------------------
(* Sequences of messages *)

\* A shortened sequence is the end of the whole one.
LEMMA LastOfKeepsTheEnd ==
  ASSUME NEW S, NEW s \in Seq(S), NEW n \in Nat \ {0}
  PROVE  /\ LastOf(s, n) \in Seq(S)
         /\ Len(LastOf(s, n)) = (IF Len(s) <= n THEN Len(s) ELSE n)
         /\ \A i \in 1..Len(LastOf(s, n)) :
              LastOf(s, n)[i] = s[i + (Len(s) - Len(LastOf(s, n)))]
         /\ s # <<>> => LastOf(s, n) # <<>> /\ Last(LastOf(s, n)) = Last(s)
<1>1. Len(s) \in Nat /\ (s # <<>> => Len(s) # 0)
  BY LenProperties, EmptySeq
<1>2. CASE Len(s) <= n
  <2>1. LastOf(s, n) = s
    BY <1>2 DEF LastOf
  <2> QED BY <2>1, <1>1, <1>2
<1>3. CASE ~(Len(s) <= n)
  <2> DEFINE m == Len(s) - n + 1
  <2>1. LastOf(s, n) = SubSeq(s, m, Len(s))
    BY <1>3 DEF LastOf
  <2>2. m \in Int /\ m <= Len(s) /\ m >= 1 /\ Len(s) - m + 1 = n
    BY <1>1, <1>3
  <2>3. \A i \in m..Len(s) : s[i] \in S
    BY <2>2, <1>1, ElementOfSeq
  <2> HIDE DEF m
  <2>4. /\ SubSeq(s, m, Len(s)) \in Seq(S)
        /\ Len(SubSeq(s, m, Len(s))) = IF m <= Len(s) THEN Len(s) - m + 1 ELSE 0
        /\ \A i \in 1..(Len(s) - m + 1) : SubSeq(s, m, Len(s))[i] = s[m + i - 1]
    BY <2>2, <2>3, <1>1, SubSeqProperties
  <2>5. /\ LastOf(s, n) \in Seq(S) /\ Len(LastOf(s, n)) = n
        /\ \A i \in 1..n : LastOf(s, n)[i] = s[m + i - 1]
    BY <2>1, <2>2, <2>4
  <2>6. \A i \in 1..n : LastOf(s, n)[i] = s[i + (Len(s) - n)]
    <3>1. \A i \in 1..n : m + i - 1 = i + (Len(s) - n)
      BY <1>1 DEF m
    <3> QED BY <3>1, <2>5
  <2>7. LastOf(s, n)[n] = s[Len(s)]
    BY <2>6, <1>1
  <2>8. LastOf(s, n) # <<>>
    BY <2>5, EmptySeq
  <2> QED BY <2>5, <2>6, <2>7, <2>8, <1>3 DEF Last
<1> QED BY <1>2, <1>3

\* In a set of places up to n, some place has exactly k of them up to itself.
LEMMA PlaceExists ==
  ASSUME NEW n \in Nat, NEW places \in SUBSET (1..n),
         NEW k \in 1..Cardinality(places)
  PROVE  \E i \in places : Cardinality({j \in places : j <= i}) = k
<1> DEFINE UpTo(i) == {j \in places : j <= i}
           Many == {i \in Nat : Cardinality(UpTo(i)) >= k}
<1>0. \A j \in places : j \in Nat /\ 1 <= j /\ j <= n
  OBVIOUS
<1>1. \A i \in Nat : /\ IsFiniteSet(UpTo(i)) /\ Cardinality(UpTo(i)) \in Nat
  <2>1. IsFiniteSet(1..n)
    BY FS_Interval
  <2>2. \A i \in Nat : UpTo(i) \in SUBSET (1..n)
    OBVIOUS
  <2> HIDE DEF UpTo
  <2> QED BY <2>1, <2>2, FS_Subset, FS_CardinalityType
<1>2. n \in Many
  <2>1. UpTo(n) = places
    BY <1>0
  <2> QED BY <2>1, <1>1
<1>3. \E i \in Many : \A j \in Many : ~(<<j, i>> \in OpToRel(<, Nat))
  <2>1. Many \subseteq Nat /\ Many # {}
    BY <1>2
  <2> HIDE DEF Many
  <2> QED BY <2>1, WFMin, NatLessThanWellFounded, Zenon
<1>4. PICK i \in Many : \A j \in Many : ~(j < i)
  <2> HIDE DEF Many
  <2>1. Many \subseteq Nat
    BY DEF Many
  <2> QED BY <1>3, <2>1, Zenon DEF OpToRel
<1>5. i # 0
  <2>1. \A j \in places : ~(j <= 0)
    BY <1>0
  <2>2. UpTo(0) = {}
    BY <2>1
  <2>3. Cardinality(UpTo(0)) = 0
    BY <2>2, FS_EmptySet
  <2> QED BY <2>3
<1>6. i - 1 \in Nat /\ i \in Nat /\ k \in Nat
  BY <1>5, <1>1
<1>7. Cardinality(UpTo(i - 1)) < k
  <2>1. i - 1 \notin Many
    <3> HIDE DEF Many
    <3>1. i - 1 < i
      BY <1>6
    <3> QED BY <3>1, <1>4
  <2>2. Cardinality(UpTo(i - 1)) \in Nat /\ ~(Cardinality(UpTo(i - 1)) >= k)
    BY <2>1, <1>1, <1>6
  <2> HIDE DEF UpTo
  <2> QED BY <2>2, <1>6
<1>8. i \in places
  <2>1. SUFFICES ASSUME i \notin places PROVE FALSE
    OBVIOUS
  <2>2. \A j \in places : j <= i <=> j <= i - 1
    BY <2>1, <1>6, <1>0
  <2>3. UpTo(i) = UpTo(i - 1)
    BY <2>2
  <2> QED BY <2>3, <1>7, <1>1, <1>6
<1>9. UpTo(i) = UpTo(i - 1) \cup {i} /\ i \notin UpTo(i - 1)
  <2>1. \A j \in places : j <= i <=> (j <= i - 1 \/ j = i)
    BY <1>6, <1>0
  <2>2. ~(i <= i - 1)
    BY <1>6
  <2> QED BY <2>1, <2>2, <1>8
<1>10. Cardinality(UpTo(i)) = Cardinality(UpTo(i - 1)) + 1
  <2> HIDE DEF UpTo
  <2> QED BY <1>9, <1>1, <1>6, FS_AddElement
<1>11. Cardinality(UpTo(i)) = k
  <2>1. Cardinality(UpTo(i)) >= k
    OBVIOUS
  <2> HIDE DEF UpTo, Many
  <2> QED BY <2>1, <1>10, <1>7, <1>1, <1>6
<1> QED BY <1>8, <1>11

\* The elements at some places, the last of the sequence at their end.
LEMMA AmongIs ==
  ASSUME NEW S, NEW s \in Seq(S), NEW places \in SUBSET (1..Len(s))
  PROVE  /\ Among(s, places) \in Seq(S)
         /\ Len(Among(s, places)) <= Len(s)
         /\ \A k \in 1..Len(Among(s, places)) : \E i \in places : Among(s, places)[k] = s[i]
         /\ Len(s) \in places =>
              Among(s, places) # <<>> /\ Last(Among(s, places)) = Last(s)
<1> DEFINE place(k) == CHOOSE i \in places : Cardinality({j \in places : j <= i}) = k
           n == Cardinality(places)
           part == Among(s, places)
<1>1. Len(s) \in Nat /\ (s # <<>> => Len(s) # 0)
  BY LenProperties, EmptySeq
<1>2. IsFiniteSet(places) /\ n \in Nat /\ n <= Len(s)
  <2>1. /\ IsFiniteSet(1..Len(s))
        /\ Cardinality(1..Len(s)) = IF 1 > Len(s) THEN 0 ELSE Len(s) - 1 + 1
    BY <1>1, FS_Interval, SMTT(30)
  <2>2. IsFiniteSet(places) /\ Cardinality(places) <= Cardinality(1..Len(s))
    BY <2>1, FS_Subset
  <2>3. Cardinality(places) \in Nat
    BY <2>2, FS_CardinalityType
  <2> QED BY <2>1, <2>2, <2>3, <1>1
<1>3. part = [k \in 1..n |-> s[place(k)]]
  BY DEF Among
<1>4. \A k \in 1..n : place(k) \in places /\ Cardinality({j \in places : j <= place(k)}) = k
  <2>1. \A k \in 1..n : \E i \in places : Cardinality({j \in places : j <= i}) = k
    BY <1>1, PlaceExists
  <2> QED BY <2>1
<1> HIDE DEF place, n, part
<1>5. \A k \in 1..n : s[place(k)] \in S
  BY <1>1, <1>4, ElementOfSeq
<1>6. part \in Seq(S) /\ Len(part) = n
  <2>1. part \in [1..n -> S]
    BY <1>3, <1>5
  <2> QED BY <2>1, <1>2
<1>7. \A k \in 1..n : \E i \in places : part[k] = s[i]
  BY <1>3, <1>4
<1>8. ASSUME Len(s) \in places
      PROVE  part # <<>> /\ Last(part) = Last(s)
  <2>2. n # 0
    BY <1>8, <1>2, FS_EmptySet DEF n
  <2>3. place(n) \in places /\ Cardinality({j \in places : j <= place(n)}) = n
    BY <2>2, <1>2, <1>4
  <2>4. {j \in places : j <= place(n)} = places
    <3>1. {j \in places : j <= place(n)} \in SUBSET places
      OBVIOUS
    <3> QED BY <3>1, <2>3, <1>2, FS_Subset DEF n
  <2>5. place(n) = Len(s)
    <3>1. Len(s) <= place(n)
      BY <1>8, <2>4
    <3>2. place(n) \in 1..Len(s)
      BY <2>3, <1>1
    <3> QED BY <3>1, <3>2, <1>1
  <2>6. part[n] = s[Len(s)]
    BY <1>3, <2>2, <2>5, <1>2
  <2>7. part # <<>>
    BY <1>6, <2>2, EmptySeq
  <2> QED BY <2>6, <2>7, <1>6 DEF Last
<1> QED BY <1>2, <1>6, <1>7, <1>8 DEF part

\* The messages of users, the last of them at their end.
LEMMA UserMessagesEnd ==
  ASSUME NEW s \in Seq(Message)
  PROVE  /\ UserMessages(s) \in Seq(Message)
         /\ Len(UserMessages(s)) <= Len(s)
         /\ \A k \in 1..Len(UserMessages(s)) :
              /\ UserMessages(s)[k].role = "user"
              /\ \E i \in 1..Len(s) : UserMessages(s)[k] = s[i]
         /\ s # <<>> /\ Last(s).role = "user" =>
              UserMessages(s) # <<>> /\ Last(UserMessages(s)) = Last(s)
<1> DEFINE places == {i \in 1..Len(s) : s[i].role = "user"}
<1>1. places \in SUBSET (1..Len(s)) /\ UserMessages(s) = Among(s, places)
  BY DEF UserMessages
<1>2. \A i \in places : s[i].role = "user"
  OBVIOUS
<1>3. s # <<>> /\ Last(s).role = "user" => Len(s) \in places
  <2>1. Len(s) \in Nat /\ (s # <<>> => Len(s) # 0)
    BY LenProperties, EmptySeq
  <2> QED BY <2>1 DEF Last
<1> HIDE DEF places
<1>4. /\ Among(s, places) \in Seq(Message) /\ Len(Among(s, places)) <= Len(s)
      /\ \A k \in 1..Len(Among(s, places)) : \E i \in places : Among(s, places)[k] = s[i]
      /\ Len(s) \in places =>
           Among(s, places) # <<>> /\ Last(Among(s, places)) = Last(s)
  BY <1>1, AmongIs
<1>5. \A k \in 1..Len(UserMessages(s)) :
        /\ UserMessages(s)[k].role = "user"
        /\ \E i \in 1..Len(s) : UserMessages(s)[k] = s[i]
  BY <1>1, <1>2, <1>4
<1> QED BY <1>1, <1>3, <1>4, <1>5

\* A sum along a sequence exists: each of its initial parts extends the one before.
LEMMA SumsExist ==
  ASSUME NEW n \in Nat, NEW c \in [1..n -> Nat]
  PROVE  \E f : f = [i \in 0..n |-> IF i = 0 THEN 0 ELSE f[i - 1] + c[i]]
<1> DEFINE Sums(k, f) == f = [i \in 0..k |-> IF i = 0 THEN 0 ELSE f[i - 1] + c[i]]
           Bad == {k \in 0..n : ~ \E f : Sums(k, f)}
<1>1. SUFFICES ASSUME Bad # {} PROVE FALSE
  <2>1. n \in 0..n
    OBVIOUS
  <2> QED BY <2>1
<1>2. Bad \subseteq Nat
  OBVIOUS
<1>3. \E k \in Bad : \A j \in Bad : ~(<<j, k>> \in OpToRel(<, Nat))
  <2> HIDE DEF Bad
  <2> QED BY <1>1, <1>2, WFMin, NatLessThanWellFounded, Zenon
<1>4. PICK k \in Bad : \A j \in Bad : ~(j < k)
  <2> HIDE DEF Bad
  <2> QED BY <1>2, <1>3, Zenon DEF OpToRel
<1>5. k \in 0..n /\ ~ \E f : Sums(k, f)
  OBVIOUS
<1>6. k # 0
  <2>1. SUFFICES ASSUME k = 0 PROVE FALSE
    OBVIOUS
  <2> DEFINE z == [i \in 0..0 |-> 0]
  <2>2. Sums(0, z)
    BY \A i \in 0..0 : i = 0
  <2> QED BY <2>1, <2>2, <1>5
<1>7. PICK g : Sums(k - 1, g)
  <2>1. k - 1 \in 0..n /\ k - 1 < k
    BY <1>5, <1>6
  <2>2. k - 1 \notin Bad
    <3> HIDE DEF Bad
    <3> QED BY <2>1, <1>4
  <2> QED BY <2>1, <2>2
<1> DEFINE f == [i \in 0..k |-> IF i = k THEN g[k - 1] + c[k] ELSE g[i]]
<1>8. \A i \in 0..k : i # k => f[i] = (IF i = 0 THEN 0 ELSE f[i - 1] + c[i])
  <2> SUFFICES ASSUME NEW i \in 0..k, i # k
               PROVE  f[i] = (IF i = 0 THEN 0 ELSE f[i - 1] + c[i])
    OBVIOUS
  <2>1. i \in 0..(k - 1) /\ f[i] = g[i]
    BY <1>5
  <2>2. g[i] = (IF i = 0 THEN 0 ELSE g[i - 1] + c[i])
    BY <2>1, <1>7
  <2>3. i # 0 => f[i - 1] = g[i - 1]
    BY <1>5
  <2> HIDE DEF f
  <2> QED BY <2>1, <2>2, <2>3
<1>9. f[k] = f[k - 1] + c[k]
  BY <1>5, <1>6
<1>10. Sums(k, f)
  <2>1. f = [i \in 0..k |-> f[i]]
    OBVIOUS
  <2>2. \A i \in 0..k : f[i] = (IF i = 0 THEN 0 ELSE f[i - 1] + c[i])
    <3> HIDE DEF f
    <3> QED BY <1>6, <1>8, <1>9
  <2> HIDE DEF f
  <2> QED BY <2>1, <2>2
<1> QED BY <1>5, <1>10

\* A sum of n terms that are at most m.
LEMMA SumBounds ==
  ASSUME NEW n \in Nat, NEW c \in [1..n -> Nat], NEW m \in Nat,
         \A i \in 1..n : c[i] <= m,
         NEW f, f = [i \in 0..n |-> IF i = 0 THEN 0 ELSE f[i - 1] + c[i]]
  PROVE  /\ f[n] \in Nat /\ f[n] <= n * m
         /\ n # 0 => c[n] <= f[n]
<1> DEFINE Good(i) == f[i] \in Nat /\ f[i] <= i * m
           Bad == {i \in 0..n : ~Good(i)}
<1>0. /\ f[0] = 0
      /\ \A i \in 1..n : f[i] = f[i - 1] + c[i]
  <2>1. \A i \in 0..n : f[i] = IF i = 0 THEN 0 ELSE f[i - 1] + c[i]
    OBVIOUS
  <2> QED BY <2>1
<1>1. Bad = {}
  <2>1. SUFFICES ASSUME Bad # {} PROVE FALSE
    OBVIOUS
  <2>2. Bad \subseteq Nat
    OBVIOUS
  <2>3. \E k \in Bad : \A j \in Bad : ~(<<j, k>> \in OpToRel(<, Nat))
    <3> HIDE DEF Bad
    <3> QED BY <2>1, <2>2, WFMin, NatLessThanWellFounded, Zenon
  <2>4. PICK k \in Bad : \A j \in Bad : ~(j < k)
    <3> HIDE DEF Bad
    <3> QED BY <2>2, <2>3, Zenon DEF OpToRel
  <2>5. k \in 0..n /\ ~Good(k)
    OBVIOUS
  <2>6. k # 0
    <3>1. Good(0)
      BY <1>0
    <3> QED BY <2>5, <3>1
  <2>7. Good(k - 1)
    <3>1. k - 1 \in 0..n /\ k - 1 < k
      BY <2>5, <2>6
    <3>2. k - 1 \notin Bad
      <4> HIDE DEF Bad
      <4> QED BY <3>1, <2>4
    <3> QED BY <3>1, <3>2
  <2>8. f[k] = f[k - 1] + c[k] /\ c[k] \in Nat /\ c[k] <= m
    BY <1>0, <2>5, <2>6
  <2>9. (k - 1) * m + m = k * m /\ (k - 1) * m \in Nat /\ k * m \in Nat
    BY <2>5, <2>6
  <2>10. Good(k)
    <3> DEFINE x == f[k - 1]
               y == (k - 1) * m
               z == k * m
    <3>1. x \in Nat /\ x <= y /\ y + m = z /\ f[k] = x + c[k]
      BY <2>7, <2>8, <2>9
    <3> HIDE DEF x, y
    <3>2. x + c[k] <= z
      <4> HIDE DEF z
      <4> QED BY <3>1, <2>8, <2>9 DEF y, z
    <3> QED BY <3>1, <3>2, <2>8
  <2> QED BY <2>5, <2>10
<1>2. Good(n)
  <2>1. n \in 0..n /\ n \notin Bad
    <3> HIDE DEF Bad
    <3> QED BY <1>1
  <2> QED BY <2>1
<1>3. n # 0 => c[n] <= f[n]
  <2>1. ASSUME n # 0 PROVE c[n] <= f[n]
    <3>1. n - 1 \in 0..n /\ n - 1 \notin Bad
      <4> HIDE DEF Bad
      <4> QED BY <1>1, <2>1
    <3>2. Good(n - 1)
      BY <3>1
    <3>3. f[n] = f[n - 1] + c[n] /\ c[n] \in Nat
      BY <1>0, <2>1
    <3>4. f[n - 1] \in Nat
      BY <3>2
    <3> QED BY <3>3, <3>4
  <2> QED BY <2>1
<1> QED BY <1>2, <1>3

\* The sum of the lengths of messages.
LEMMA TotalCharsIs ==
  ASSUME NEW s \in Seq(Message), NEW m \in Nat,
         \A i \in 1..Len(s) : Chars(s[i]) \in Nat /\ Chars(s[i]) <= m
  PROVE  /\ TotalChars(s) \in Nat /\ TotalChars(s) <= Len(s) * m
         /\ s # <<>> => Chars(Last(s)) <= TotalChars(s)
<1> DEFINE n == Len(s)
           c == [i \in 1..n |-> Chars(s[i])]
           Sums(f) == f = [i \in 0..n |-> IF i = 0 THEN 0 ELSE f[i - 1] + c[i]]
           total == CHOOSE f : f = [i \in 0..n |-> IF i = 0 THEN 0 ELSE f[i - 1] + Chars(s[i])]
<1>1. n \in Nat /\ c \in [1..n -> Nat] /\ \A i \in 1..n : c[i] <= m
  BY LenProperties
<1>2. TotalChars(s) = total[n]
  BY DEF TotalChars
<1>3. \A f : Sums(f) <=> f = [i \in 0..n |-> IF i = 0 THEN 0 ELSE f[i - 1] + Chars(s[i])]
  <2> SUFFICES ASSUME NEW f
               PROVE  [i \in 0..n |-> IF i = 0 THEN 0 ELSE f[i - 1] + c[i]]
                        = [i \in 0..n |-> IF i = 0 THEN 0 ELSE f[i - 1] + Chars(s[i])]
    OBVIOUS
  <2>1. \A i \in 0..n : i # 0 => c[i] = Chars(s[i])
    BY <1>1
  <2> HIDE DEF c
  <2> QED BY <2>1
<1>4. Sums(total)
  <2> HIDE DEF n, c
  <2>1. \E f : Sums(f)
    BY <1>1, SumsExist
  <2>2. \E f : f = [i \in 0..n |-> IF i = 0 THEN 0 ELSE f[i - 1] + Chars(s[i])]
    BY <2>1, <1>3, ZenonT(40)
  <2>3. total = [i \in 0..n |-> IF i = 0 THEN 0 ELSE total[i - 1] + Chars(s[i])]
    BY <2>2
  <2> HIDE DEF total, Sums
  <2> QED BY <2>3, <1>3
<1>5. /\ total[n] \in Nat /\ total[n] <= n * m
      /\ n # 0 => c[n] <= total[n]
  <2> HIDE DEF total, n, c
  <2> QED BY <1>1, <1>4, SumBounds
<1>6. s # <<>> => n # 0 /\ c[n] = Chars(Last(s))
  BY <1>1, EmptySeq DEF Last
<1> QED BY <1>2, <1>5, <1>6

LEMMA Bounds ==
  /\ {MaxContext, MaxHistory, MaxStored, MaxQuestions} \subseteq Nat \ {0}
  /\ MaxDay \in Nat /\ CanAbort \subseteq Tab /\ 1 \in Question /\ Question \subseteq Nat
BY ApiAssumption, UiAssumption DEF Question

\* What is sent is the end of the history, for the handler as well.
LEMMA RequestEnd ==
  ASSUME NEW h \in Seq(Message)
  PROVE  /\ BuildRequest(h) \in Seq(Message)
         /\ h # <<>> /\ Last(h).role = "user" => CurrentQuestion(BuildRequest(h)) = Last(h)
<1>1. /\ UserMessages(h) \in Seq(Message)
      /\ h # <<>> /\ Last(h).role = "user" =>
           UserMessages(h) # <<>> /\ Last(UserMessages(h)) = Last(h)
  BY UserMessagesEnd
<1>2. /\ BuildRequest(h) \in Seq(Message)
      /\ UserMessages(h) # <<>> =>
           BuildRequest(h) # <<>> /\ Last(BuildRequest(h)) = Last(UserMessages(h))
  BY <1>1, LastOfKeepsTheEnd, Bounds DEF BuildRequest
<1>3. ASSUME NEW m \in Seq(Message), m # <<>>, Last(m).role = "user"
      PROVE  CurrentQuestion(m) = Last(m)
  <2>1. UserMessages(m) \in Seq(Message) /\ UserMessages(m) # <<>>
        /\ Last(UserMessages(m)) = Last(m)
    BY <1>3, UserMessagesEnd
  <2>2. Last(LastOf(UserMessages(m), MaxHistory)) = Last(UserMessages(m))
    BY <2>1, LastOfKeepsTheEnd, Bounds
  <2> QED BY <2>1, <2>2 DEF CurrentQuestion, Recent
<1> QED BY <1>1, <1>2, <1>3

\* What a plan is bounded to, whatever the model wrote: at most so many texts, none of
\* them empty or too long.
LEMMA BoundPlanTextsIs ==
  ASSUME NEW texts \in Seq(PlanText), NEW maxItems \in Nat, NEW maxChars \in Nat \ {0},
         NEW overflow \in {"drop", "truncate"}
  PROVE  BoundedTexts(BoundPlanTexts(texts, maxItems, maxChars, overflow), maxItems, maxChars)
<1> DEFINE fits   == {i \in 1..Len(texts) : overflow = "truncate" \/ texts[i].chars <= maxChars}
           places == FirstOfKey(texts) \cap fits
           items  == Among(texts, places)
           cut(t) == [t EXCEPT !.chars = IF @ <= maxChars THEN @ ELSE maxChars]
           n      == IF Len(items) <= maxItems THEN Len(items) ELSE maxItems
           bound  == BoundPlanTexts(texts, maxItems, maxChars, overflow)
<1>1. bound = [i \in 1..n |-> cut(items[i])]
  BY DEF BoundPlanTexts
<1>2. places \in SUBSET (1..Len(texts))
  BY DEF FirstOfKey
<1>3. \A i \in places :
        /\ texts[i] \in PlanText /\ texts[i].chars > 0
        /\ (overflow = "truncate" \/ texts[i].chars <= maxChars)
  <2>1. \A i \in places : texts[i].chars > 0 /\ (overflow = "truncate" \/ texts[i].chars <= maxChars)
    BY DEF FirstOfKey
  <2> HIDE DEF places
  <2> QED BY <1>2, <2>1, ElementOfSeq
<1> HIDE DEF places
<1>4. /\ items \in Seq(PlanText)
      /\ \A k \in 1..Len(items) : \E i \in places : items[k] = texts[i]
  BY <1>2, AmongIs
<1>5. Len(items) \in Nat /\ n \in Nat /\ n <= maxItems /\ n <= Len(items)
  BY <1>4, LenProperties
<1>6. \A k \in 1..n : /\ cut(items[k]) \in PlanText
                      /\ cut(items[k]).chars \in 1..maxChars
  <2> SUFFICES ASSUME NEW k \in 1..n
               PROVE  cut(items[k]) \in PlanText /\ cut(items[k]).chars \in 1..maxChars
    OBVIOUS
  <2>1. k \in 1..Len(items)
    BY <1>5
  <2>2. PICK i \in places : items[k] = texts[i]
    BY <2>1, <1>4
  <2> HIDE DEF items, n
  <2>3. items[k] \in PlanText /\ items[k].chars > 0
    BY <2>2, <1>3
  <2> QED BY <2>3, SMTT(30) DEF PlanText
<1> HIDE DEF cut, n, bound, items
<1>7. bound \in Seq(PlanText) /\ Len(bound) = n /\ \A k \in 1..n : bound[k].chars \in 1..maxChars
  <2>1. bound \in [1..n -> PlanText]
    BY <1>1, <1>6
  <2> QED BY <2>1, <1>1, <1>5, <1>6
<1> QED BY <1>5, <1>7 DEF BoundedTexts, bound

\* Whatever the model writes into its search plan, the hints made of it pass the parser of
\* the retrieve request (search-plan-bounds.ts, boundPlanTexts; remote/contract.ts, hints).
THEOREM HintsHold == HintsAreValid
<1> SUFFICES ASSUME NEW plan \in Plans PROVE ValidHints(Hints(plan))
  BY DEF HintsAreValid
<1>1. plan.lexical \in Seq(PlanText) /\ plan.semantic \in Seq(PlanText)
  BY ApiAssumption
<1>2. {Limits.lexicalCount, Limits.lexicalChars, Limits.semanticCount, Limits.semanticChars}
        \subseteq Nat \ {0}
  BY ApiAssumption
<1>3. BoundedTexts(Hints(plan).lexical, Limits.lexicalCount, Limits.lexicalChars)
  BY <1>1, <1>2, BoundPlanTextsIs DEF Hints
<1>4. BoundedTexts(Hints(plan).semantic, Limits.semanticCount, Limits.semanticChars)
  BY <1>1, <1>2, BoundPlanTextsIs DEF Hints
<1> QED BY <1>3, <1>4 DEF ValidHints

\* A request of the page is accepted unless the settings refuse one of its questions, and
\* what the handler makes of it passes the remote contract.
LEMMA OwnRequest ==
  ASSUME NEW h \in Seq(Message), h # <<>>, Last(h).role = "user"
  PROVE  LET sent == BuildRequest(h) IN
         /\ Acceptable(sent) <=>
              \A i \in 1..Len(sent) : QuestionChars(sent[i].q) <= MaxChars
         /\ Acceptable(sent) =>
              CurrentQuestion(sent) = Last(h) /\ AnswerRequestIsValid(sent)
<1> DEFINE users  == UserMessages(h)
           sent   == BuildRequest(h)
           taken  == UserMessages(sent)
           recent == Recent(sent)
           n      == Len(recent)
           Short(m) == m.role = "user" /\ Chars(m) \in 1..MaxInput
<1>0. /\ {MaxInput, MaxContext, MaxRaw, MaxHistory, MaxChars, MaxTotal} \subseteq Nat \ {0}
      /\ MaxContext <= MaxRaw
  BY ApiAssumption
<1>1. /\ users \in Seq(Message) /\ users # <<>> /\ Last(users) = Last(h)
      /\ \A k \in 1..Len(users) : users[k].role = "user"
  BY UserMessagesEnd
<1>2. sent = LastOf(users, MaxContext)
  BY DEF BuildRequest
<1> HIDE DEF users
<1>3. /\ sent \in Seq(Message) /\ sent # <<>> /\ Last(sent) = Last(h)
      /\ Len(sent) = (IF Len(users) <= MaxContext THEN Len(users) ELSE MaxContext)
      /\ \A i \in 1..Len(sent) : sent[i] = users[i + (Len(users) - Len(sent))]
  <2> HIDE DEF sent
  <2>1. MaxContext \in Nat \ {0}
    BY <1>0
  <2> QED BY <2>1, <1>1, <1>2, LastOfKeepsTheEnd
<1>4. Len(users) \in Nat /\ Len(sent) \in Nat \ {0} /\ Len(sent) <= MaxContext
  BY <1>0, <1>1, <1>3, LenProperties, EmptySeq
<1>5. \A i \in 1..Len(sent) : Short(sent[i]) /\ Chars(sent[i]) = QuestionChars(sent[i].q)
  <2> SUFFICES ASSUME NEW i \in 1..Len(sent)
               PROVE  Short(sent[i]) /\ Chars(sent[i]) = QuestionChars(sent[i].q)
    OBVIOUS
  <2>1. i + (Len(users) - Len(sent)) \in 1..Len(users)
    BY <1>0, <1>3, <1>4
  <2>2. sent[i].role = "user"
    BY <2>1, <1>1, <1>3
  <2>3. sent[i].q \in Question
    <3>1. sent[i] \in Message
      BY <1>3, ElementOfSeq
    <3> QED BY <3>1 DEF Message
  <2>4. QuestionChars(sent[i].q) \in 1..MaxInput
    BY <2>3, ApiAssumption
  <2> HIDE DEF sent
  <2>5. Chars(sent[i]) = QuestionChars(sent[i].q)
    BY <2>2 DEF Chars
  <2> QED BY <2>2, <2>4, <2>5
<1> HIDE DEF sent, Short
<1>6. /\ taken \in Seq(Message) /\ taken # <<>> /\ Last(taken) = Last(h)
      /\ Len(taken) <= Len(sent)
      /\ \A k \in 1..Len(taken) : \E i \in 1..Len(sent) : taken[k] = sent[i]
  <2>1. Last(sent).role = "user"
    BY <1>3
  <2> QED BY <1>3, <2>1, UserMessagesEnd
<1>7. \A k \in 1..Len(taken) : Short(taken[k])
  <2> HIDE DEF taken
  <2> QED BY <1>5, <1>6
<1>8. recent = LastOf(taken, MaxHistory)
  BY DEF Recent
<1> HIDE DEF taken, recent
<1>9. /\ recent \in Seq(Message) /\ recent # <<>> /\ Last(recent) = Last(h)
      /\ Len(recent) = (IF Len(taken) <= MaxHistory THEN Len(taken) ELSE MaxHistory)
      /\ \A i \in 1..Len(recent) : recent[i] = taken[i + (Len(taken) - Len(recent))]
  BY <1>0, <1>6, <1>8, LastOfKeepsTheEnd
<1>10. n \in 1..MaxContext /\ n <= MaxHistory /\ Len(taken) \in Nat /\ n <= Len(taken)
  <2>1. Len(taken) \in Nat /\ n \in Nat \ {0}
    BY <1>6, <1>9, LenProperties, EmptySeq
  <2> QED BY <2>1, <1>0, <1>4, <1>6, <1>9
<1>11. \A i \in 1..n : Short(recent[i])
  <2> SUFFICES ASSUME NEW i \in 1..n PROVE Short(recent[i])
    OBVIOUS
  <2>1. i + (Len(taken) - n) \in 1..Len(taken)
    BY <1>10
  <2> QED BY <2>1, <1>7, <1>9
<1>12. Short(Last(recent))
  BY <1>10, <1>11 DEF Last
<1>13. /\ TotalChars(recent) \in Nat /\ TotalChars(recent) <= n * MaxInput
       /\ Chars(Last(recent)) <= TotalChars(recent)
  <2>1. \A i \in 1..Len(recent) : Chars(recent[i]) \in Nat /\ Chars(recent[i]) <= MaxInput
    BY <1>0, <1>11 DEF Short
  <2> QED BY <2>1, <1>0, <1>9, TotalCharsIs
<1>14. FrameChars(n - 1) \in Nat /\ n * MaxInput + FrameChars(n - 1) <= MaxTotal
  BY <1>10, ApiAssumption
<1>15. Content(sent) \in 1..MaxTotal
  <2> DEFINE most == n * MaxInput
  <2>1. Content(sent) = TotalChars(recent) + FrameChars(n - 1)
    BY DEF Content, recent
  <2>2. most \in Nat
    BY <1>0, <1>10
  <2>3. Chars(Last(recent)) \in Nat /\ Chars(Last(recent)) >= 1
    BY <1>0, <1>12 DEF Short
  <2>4. TotalChars(recent) <= most /\ most + FrameChars(n - 1) <= MaxTotal
    BY <1>13, <1>14
  <2> HIDE DEF most, n
  <2> QED BY <2>1, <2>2, <2>3, <2>4, <1>0, <1>13, <1>14
<1>16. CurrentQuestion(sent) = Last(h)
  BY <1>9 DEF CurrentQuestion, recent
<1>17. Acceptable(sent) <=> \A i \in 1..Len(sent) : QuestionChars(sent[i].q) <= MaxChars
  <2>1. Len(sent) <= MaxRaw
    BY <1>0, <1>4
  <2>2. (\A i \in 1..Len(sent) : Chars(sent[i]) <= MaxChars)
          <=> \A i \in 1..Len(sent) : QuestionChars(sent[i].q) <= MaxChars
    BY <1>5
  <2> QED BY <2>1, <2>2, <1>0, <1>3, <1>15 DEF Acceptable
<1>18. Acceptable(sent) => AnswerRequestIsValid(sent)
  <2> SUFFICES ASSUME Acceptable(sent) PROVE AnswerRequestIsValid(sent)
    OBVIOUS
  <2>1. /\ Limits.question \in Nat /\ Limits.content \in Nat
        /\ MaxChars <= Limits.question /\ MaxTotal <= Limits.content
    BY ApiAssumption
  <2>2. ValidQuestion(CurrentQuestion(sent))
    <3>1. Last(h) = sent[Len(sent)] /\ Len(sent) \in 1..Len(sent)
      BY <1>3, <1>4 DEF Last
    <3>2. Chars(Last(h)) <= MaxChars /\ Chars(Last(h)) \in 1..MaxInput
      BY <3>1, <1>5 DEF Acceptable, Short
    <3> QED BY <3>2, <2>1, <1>0, <1>16 DEF ValidQuestion
  <2>3. Content(sent) \in 1..Limits.content
    BY <2>1, <1>0, <1>15
  <2>4. Last(Recent(sent)) = CurrentQuestion(sent)
    BY DEF CurrentQuestion
  <2> QED BY <2>2, <2>3, <2>4
          DEF AnswerRequestIsValid, ValidGenerateRequest, GenerateRequest
<1> QED BY <1>16, <1>17, <1>18 DEF sent

\* The question that an accepted request asks is its last message.
LEMMA AcceptedQuestion ==
  ASSUME NEW m \in Seq(Message), Acceptable(m)
  PROVE  CurrentQuestion(m) = Last(m) /\ CurrentQuestion(m) \in Message
<1>1. m # <<>> /\ Last(m).role = "user"
  BY DEF Acceptable
<1>2. UserMessages(m) \in Seq(Message) /\ UserMessages(m) # <<>>
      /\ Last(UserMessages(m)) = Last(m)
  BY <1>1, UserMessagesEnd
<1>3. Last(LastOf(UserMessages(m), MaxHistory)) = Last(UserMessages(m))
  BY <1>2, LastOfKeepsTheEnd, Bounds
<1>4. Last(m) \in Message
  <2>1. Len(m) \in 1..Len(m)
    BY <1>1, EmptySeq, LenProperties
  <2> QED BY <2>1, ElementOfSeq DEF Last
<1> QED BY <1>2, <1>3, <1>4 DEF CurrentQuestion, Recent

-----------------------------------------------------------------------------
(* Conversations *)

\* `Conversation', of any set of answers.
TookPlace(messages, answers) ==
  \A i \in 1..Len(messages) : messages[i].role = "assistant" =>
    /\ messages[i].q \in answers
    /\ IF i = 1 THEN Len(messages) >= MaxStored ELSE messages[i - 1] = User(messages[i].q)

LEMMA EmptyTookPlace == \A A : TookPlace(<<>>, A)
BY EmptySeq DEF TookPlace

LEMMA MoreAnswers ==
  ASSUME NEW s, NEW A, NEW B, A \subseteq B, TookPlace(s, A)
  PROVE  TookPlace(s, B)
BY DEF TookPlace

LEMMA ShortenedTookPlace ==
  ASSUME NEW s \in Seq(Message), NEW A, TookPlace(s, A)
  PROVE  TookPlace(LastOf(s, MaxStored), A)
<1> DEFINE e == LastOf(s, MaxStored)
           d == Len(s) - Len(e)
<1>1. /\ e \in Seq(Message)
      /\ Len(e) = (IF Len(s) <= MaxStored THEN Len(s) ELSE MaxStored)
      /\ \A i \in 1..Len(e) : e[i] = s[i + d]
  BY LastOfKeepsTheEnd, Bounds
<1>2. Len(s) \in Nat /\ Len(e) \in Nat /\ d \in Nat /\ MaxStored \in Nat
      /\ (d = 0 \/ Len(e) = MaxStored) /\ Len(s) = Len(e) + d
  BY <1>1, Bounds, LenProperties
<1> HIDE DEF e, d
<1>3. SUFFICES ASSUME NEW i \in 1..Len(e), e[i].role = "assistant"
               PROVE  /\ e[i].q \in A
                      /\ IF i = 1 THEN Len(e) >= MaxStored ELSE e[i - 1] = User(e[i].q)
  BY DEF TookPlace, e
<1> DEFINE k == i + d
<1>4. k \in 1..Len(s) /\ e[i] = s[k] /\ k = i + d
  BY <1>1, <1>2
<1> HIDE DEF k
<1>5. /\ e[i].q \in A
      /\ IF k = 1 THEN Len(s) >= MaxStored ELSE s[k - 1] = User(e[i].q)
  <2>1. s[k].role = "assistant"
    BY <1>3, <1>4
  <2>2. /\ s[k].q \in A
        /\ IF k = 1 THEN Len(s) >= MaxStored ELSE s[k - 1] = User(s[k].q)
    BY <2>1, <1>4 DEF TookPlace
  <2> QED BY <2>2, <1>4
<1>6. CASE i = 1
  BY <1>2, <1>4, <1>5, <1>6
<1>7. CASE i # 1
  <2>1. i - 1 \in 1..Len(e) /\ k # 1 /\ (i - 1) + d = k - 1
    BY <1>2, <1>4, <1>7
  <2>2. e[i - 1] = s[k - 1]
    BY <2>1, <1>1
  <2> QED BY <1>5, <1>7, <2>1, <2>2
<1> QED BY <1>6, <1>7

LEMMA QuestionTookPlace ==
  ASSUME NEW s \in Seq(Message), NEW A, NEW q \in Question, TookPlace(s, A)
  PROVE  Append(s, User(q)) \in Seq(Message) /\ TookPlace(Append(s, User(q)), A)
<1> DEFINE a == Append(s, User(q))
<1>1. User(q) \in Message /\ User(q).role = "user"
  BY DEF User, Message
<1>2. /\ a \in Seq(Message) /\ Len(a) = Len(s) + 1 /\ Len(s) \in Nat
      /\ \A i \in 1..Len(s) : a[i] = s[i]
      /\ a[Len(s) + 1] = User(q)
  BY <1>1, AppendProperties, LenProperties
<1> HIDE DEF a
<1>3. ASSUME NEW i \in 1..Len(a), a[i].role = "assistant"
      PROVE  /\ a[i].q \in A
             /\ IF i = 1 THEN Len(a) >= MaxStored ELSE a[i - 1] = User(a[i].q)
  <2>1. i # Len(s) + 1
    BY <1>1, <1>2, <1>3
  <2>2. i \in 1..Len(s) /\ (i # 1 => i - 1 \in 1..Len(s))
    BY <2>1, <1>2
  <2>3. a[i] = s[i] /\ (i # 1 => a[i - 1] = s[i - 1])
    BY <2>2, <1>2
  <2>4. /\ s[i].q \in A
        /\ IF i = 1 THEN Len(s) >= MaxStored ELSE s[i - 1] = User(s[i].q)
    BY <2>2, <2>3, <1>3 DEF TookPlace
  <2> QED BY <2>3, <2>4, <1>2, Bounds
<1> QED BY <1>2, <1>3 DEF TookPlace, a

LEMMA AnswerTookPlace ==
  ASSUME NEW s \in Seq(Message), NEW A, NEW q, TookPlace(s, A),
         s # <<>>, Last(s).role = "user", Last(s).q = q, q \in A
  PROVE  Append(s, Assistant(q)) \in Seq(Message) /\ TookPlace(Append(s, Assistant(q)), A)
<1> DEFINE a == Append(s, Assistant(q))
<1>1. Len(s) \in Nat \ {0} /\ Last(s) = s[Len(s)] /\ Last(s) \in Message
  BY EmptySeq, LenProperties, ElementOfSeq DEF Last
<1>2. Last(s) = User(q) /\ q \in Question
  BY <1>1 DEF User, Message
<1>3. Assistant(q) \in Message /\ Assistant(q).q = q
  BY <1>2 DEF Assistant, Message
<1>4. /\ a \in Seq(Message) /\ Len(a) = Len(s) + 1
      /\ \A i \in 1..Len(s) : a[i] = s[i]
      /\ a[Len(s) + 1] = Assistant(q)
  BY <1>3, AppendProperties
<1> HIDE DEF a
<1>5. ASSUME NEW i \in 1..Len(a), a[i].role = "assistant"
      PROVE  /\ a[i].q \in A
             /\ IF i = 1 THEN Len(a) >= MaxStored ELSE a[i - 1] = User(a[i].q)
  <2>1. CASE i = Len(s) + 1
    <3>1. i # 1 /\ i - 1 = Len(s) /\ i - 1 \in 1..Len(s)
      BY <2>1, <1>1
    <3>2. a[i - 1] = User(q) /\ a[i] = Assistant(q)
      BY <3>1, <2>1, <1>4, <1>1, <1>2
    <3> QED BY <3>1, <3>2, <1>3
  <2>2. CASE i # Len(s) + 1
    <3>1. i \in 1..Len(s) /\ (i # 1 => i - 1 \in 1..Len(s))
      BY <2>2, <1>4, <1>1
    <3>2. a[i] = s[i] /\ (i # 1 => a[i - 1] = s[i - 1])
      BY <3>1, <1>4
    <3>3. /\ s[i].q \in A
          /\ IF i = 1 THEN Len(s) >= MaxStored ELSE s[i - 1] = User(s[i].q)
      BY <3>1, <3>2, <1>5 DEF TookPlace
    <3> QED BY <3>2, <3>3, <1>4, <1>1, Bounds
  <2> QED BY <2>1, <2>2
<1> QED BY <1>4, <1>5 DEF TookPlace, a

-----------------------------------------------------------------------------
(* The page's part of the invariant, in terms of the elements of sequences *)

Asks(messages, q) == \E i \in 1..Len(messages) : messages[i].q = q

\* A busy page and its request.
Pending(h, w, answers) ==
  /\ h # <<>> /\ Last(h).role = "user"
  /\ \/ w = Sent(BuildRequest(h))
     \/ w.state = "replied" /\ (Shows(w) => w.body.q \in answers /\ w.body.q = Last(h).q)

TabsOK ==
  /\ UiTypeOK /\ StoreOK /\ forgotten \subseteq 1..asked /\ typing = busy
  /\ \A t \in Tab \ open : history[t] = <<>>

TalksOK ==
  /\ \A t \in Tab : TookPlace(history[t], served)
  /\ store.kind = "present" => TookPlace(store.messages, served)

WiresOK ==
  /\ wire = [t \in Tab |-> wire[t]]
  /\ \A t \in Tab \ busy : wire[t] = NotSent
  /\ \A t \in busy : Pending(history[t], wire[t], served)

ClearedOK ==
  /\ \A q \in forgotten, t \in Tab : ~Asks(history[t], q)
  /\ \A q \in forgotten : store.kind = "present" => ~Asks(store.messages, q)

PageOK == TabsOK /\ TalksOK /\ WiresOK /\ ClearedOK

LEMMA KeptIs ==
  ASSUME UiTypeOK, StoreOK
  PROVE  forgotten \cap Kept = {} <=> ClearedOK
<1>1. \A t \in Tab : DOMAIN history[t] = 1..Len(history[t])
  BY LenProperties DEF UiTypeOK
<1>2. store.kind = "present" => DOMAIN store.messages = 1..Len(store.messages)
  BY LenProperties DEF StoreOK, Nothing
<1>3. \A q : (\E t \in Tab : Asks(history[t], q))
               <=> q \in {m.q : m \in UNION {ToSet(history[t]) : t \in Tab}}
  <2>1. \A q : \A t \in Tab : Asks(history[t], q) <=> \E m \in ToSet(history[t]) : q = m.q
    BY <1>1 DEF Asks, ToSet
  <2> DEFINE U == UNION {ToSet(history[t]) : t \in Tab}
  <2>2. \A m : m \in U <=> \E t \in Tab : m \in ToSet(history[t])
    OBVIOUS
  <2> HIDE DEF U
  <2>3. \A q : q \in {m.q : m \in U} <=> \E m \in U : q = m.q
    OBVIOUS
  <2>4. \A q : (\E t \in Tab : Asks(history[t], q)) <=> q \in {m.q : m \in U}
    <3> SUFFICES ASSUME NEW q
                 PROVE  (\E t \in Tab : Asks(history[t], q)) <=> q \in {m.q : m \in U}
      OBVIOUS
    <3>1. q \in {m.q : m \in U} <=> \E t \in Tab : \E m \in ToSet(history[t]) : q = m.q
      BY <2>2, <2>3, Zenon
    <3> QED BY <3>1, <2>1
  <2> QED BY <2>4 DEF U
<1>4. store.kind = "present" =>
        \A q : Asks(store.messages, q) <=> q \in {m.q : m \in ToSet(store.messages)}
  BY <1>2 DEF Asks, ToSet
<1>5. \A q : q \in Kept <=> \/ \E t \in Tab : Asks(history[t], q)
                            \/ store.kind = "present" /\ Asks(store.messages, q)
  BY <1>3, <1>4 DEF Kept
<1> QED BY <1>5 DEF ClearedOK

LEMMA PageIs == PageInv <=> PageOK
<1>1. ASSUME UiTypeOK PROVE
        (\A t \in Tab \ open : history[t] = <<>>) =>
          ((\A t \in open : Conversation(history[t])) <=> \A t \in Tab : TookPlace(history[t], served))
  BY EmptyTookPlace, <1>1 DEF Conversation, TookPlace, UiTypeOK
<1>2. Conversation(store.messages) <=> TookPlace(store.messages, served)
  BY DEF Conversation, TookPlace
<1>3. WireInv <=> WiresOK
  BY DEF WireInv, WiresOK, Pending
<1> QED
  BY <1>1, <1>2, <1>3, KeptIs
  DEF PageInv, PageOK, TabsOK, TalksOK, HistoriesAreConversations, ClosedInv, ForgottenInv,
      ClearedStaysCleared

LEMMA PageIsNext == PageInv' <=> PageOK'
BY PageIs, PTL

LEMMA PageStart == UiInit => PageOK
<1>1. ASSUME UiInit PROVE PageOK
  <2>1. TabsOK
    BY <1>1, EmptySeq, Bounds DEF UiInit, TabsOK, UiTypeOK, StoreOK
  <2>2. TalksOK
    BY <1>1, EmptyTookPlace DEF UiInit, TalksOK, Nothing
  <2>3. WiresOK
    BY <1>1 DEF UiInit, WiresOK
  <2>4. ClearedOK
    BY <1>1 DEF UiInit, ClearedOK
  <2> QED BY <2>1, <2>2, <2>3, <2>4 DEF PageOK
<1> QED BY <1>1

\* What may be put into the store.
LEMMA StoredIs ==
  ASSUME NEW m \in Seq(Message), NEW A, TookPlace(m, A), day \in 0..MaxDay
  PROVE  /\ Stored(m) \in [kind : {"present"}, savedAt : 0..MaxDay, messages : Seq(Message)]
         /\ TookPlace(Stored(m).messages, A)
         /\ \A q : Asks(Stored(m).messages, q) => Asks(m, q)
<1> DEFINE e == LastOf(m, MaxStored)
<1>1. Stored(m) = [kind |-> "present", savedAt |-> day, messages |-> e]
  BY DEF Stored
<1>2. /\ e \in Seq(Message) /\ Len(e) = (IF Len(m) <= MaxStored THEN Len(m) ELSE MaxStored)
      /\ \A i \in 1..Len(e) : e[i] = m[i + (Len(m) - Len(e))]
  BY LastOfKeepsTheEnd, Bounds
<1>3. TookPlace(e, A)
  BY ShortenedTookPlace
<1>4. Len(m) \in Nat /\ MaxStored \in Nat
  BY LenProperties, Bounds
<1> HIDE DEF e
<1>5. \A i \in 1..Len(e) : i + (Len(m) - Len(e)) \in 1..Len(m)
  BY <1>2, <1>4
<1>6. \A q : Asks(e, q) => Asks(m, q)
  BY <1>2, <1>5 DEF Asks
<1> QED BY <1>1, <1>2, <1>3, <1>6

LEMMA AppendAsks ==
  ASSUME NEW s \in Seq(Message), NEW m \in Message, NEW q, Asks(Append(s, m), q)
  PROVE  Asks(s, q) \/ q = m.q
<1> DEFINE a == Append(s, m)
<1>1. Len(a) = Len(s) + 1 /\ (\A i \in 1..Len(s) : a[i] = s[i]) /\ a[Len(s) + 1] = m
      /\ Len(s) \in Nat
  BY AppendProperties, LenProperties
<1> HIDE DEF a
<1>2. PICK i \in 1..Len(a) : a[i].q = q
  BY DEF Asks, a
<1>3. i \in 1..Len(s) \/ i = Len(s) + 1
  BY <1>1
<1> QED BY <1>1, <1>2, <1>3 DEF Asks

-----------------------------------------------------------------------------
(* Every step of the page *)

\* Everything but one tab stays as it is.
LEMMA OthersWait ==
  ASSUME PageOK, NEW t \in Tab, served \subseteq served',
         \A u \in Tab \ {t} : history'[u] = history[u] /\ wire'[u] = wire[u],
         wire' = [u \in Tab |-> wire'[u]],
         busy' \subseteq Tab, busy' \ {t} = busy \ {t},
         t \in busy' => Pending(history'[t], wire'[t], served'),
         t \notin busy' => wire'[t] = NotSent
  PROVE  WiresOK'
<1>1. \A u \in Tab \ busy' : wire'[u] = NotSent
  BY DEF PageOK, WiresOK
<1>2. ASSUME NEW u \in busy' PROVE Pending(history'[u], wire'[u], served')
  <2>1. CASE u = t
    BY <2>1
  <2>2. CASE u # t
    <3>1. Pending(history[u], wire[u], served)
      BY <2>2 DEF PageOK, WiresOK
    <3>2. Pending(history[u], wire[u], served')
      BY <3>1 DEF Pending
    <3> QED BY <3>2, <2>2
  <2> QED BY <2>1, <2>2
<1> QED BY <1>1, <1>2 DEF WiresOK

LEMMA OpenKeeps ==
  ASSUME PageOK, NEW t \in Tab, Open(t), served' = served
  PROVE  PageOK'
<1> DEFINE h == IF store.kind = "present" /\ ~Expired THEN store.messages ELSE <<>>
<1>1. /\ t \notin open /\ open' = open \cup {t} /\ history' = [history EXCEPT ![t] = h]
      /\ store' \in {store, Nothing}
      /\ UNCHANGED <<busy, typing, timer, asked, day, forgotten, wire>>
  BY DEF Open
<1>2. h \in Seq(Message) /\ TookPlace(h, served) /\ (\A q \in forgotten : ~Asks(h, q))
  <2>1. \A q : ~Asks(<<>>, q)
    BY EmptySeq DEF Asks
  <2>2. store.kind = "present" => store.messages \in Seq(Message)
    BY DEF PageOK, TabsOK, StoreOK, Nothing
  <2> QED BY <2>1, <2>2, EmptyTookPlace, EmptySeq DEF PageOK, TalksOK, ClearedOK
<1> HIDE DEF h
<1>3. /\ UiTypeOK /\ typing = busy /\ StoreOK /\ forgotten \subseteq 1..asked
      /\ \A u \in Tab \ open : history[u] = <<>>
  BY DEF PageOK, TabsOK
<1>4. history' \in [Tab -> Seq(Message)] /\ history'[t] = h
      /\ \A u \in Tab \ {t} : history'[u] = history[u]
  BY <1>1, <1>2, <1>3 DEF UiTypeOK
<1>5. TabsOK'
  <2>1. UiTypeOK'
    BY <1>1, <1>3, <1>4 DEF UiTypeOK
  <2>2. StoreOK'
    BY <1>1, <1>3 DEF StoreOK
  <2>3. \A u \in Tab \ open' : history'[u] = <<>>
    BY <1>1, <1>3, <1>4
  <2> QED BY <2>1, <2>2, <2>3, <1>1, <1>3 DEF TabsOK
<1>6. TalksOK'
  BY <1>1, <1>2, <1>4 DEF PageOK, TalksOK, Nothing
<1>7. WiresOK'
  <2>1. t \notin busy
    BY <1>1, <1>3 DEF UiTypeOK
  <2>2. \A u \in busy : history'[u] = history[u]
    BY <1>3, <1>4, <2>1 DEF UiTypeOK
  <2> QED BY <2>2, <1>1 DEF PageOK, WiresOK
<1>8. ClearedOK'
  BY <1>1, <1>2, <1>4 DEF PageOK, ClearedOK, Nothing
<1> QED BY <1>5, <1>6, <1>7, <1>8 DEF PageOK

LEMMA CloseKeeps ==
  ASSUME PageOK, NEW t \in Tab, Close(t), served' = served
  PROVE  PageOK'
<1>1. /\ open' = open \ {t} /\ history' = [history EXCEPT ![t] = <<>>]
      /\ busy' = busy \ {t} /\ typing' = typing \ {t} /\ timer' = timer \ {t}
      /\ wire' = [wire EXCEPT ![t] = NotSent]
      /\ UNCHANGED <<store, asked, day, forgotten>>
  BY DEF Close
<1>2. /\ UiTypeOK /\ typing = busy /\ StoreOK /\ forgotten \subseteq 1..asked
      /\ \A u \in Tab \ open : history[u] = <<>>
  BY DEF PageOK, TabsOK
<1>3. history' \in [Tab -> Seq(Message)] /\ history'[t] = <<>>
      /\ \A u \in Tab \ {t} : history'[u] = history[u]
  BY <1>1, <1>2, EmptySeq DEF UiTypeOK
<1>4. TabsOK'
  <2>1. UiTypeOK'
    BY <1>1, <1>2, <1>3 DEF UiTypeOK
  <2>2. StoreOK'
    BY <1>1, <1>2 DEF StoreOK
  <2> QED BY <2>1, <2>2, <1>1, <1>2, <1>3 DEF TabsOK
<1>5. TalksOK'
  BY <1>1, <1>3, EmptyTookPlace DEF PageOK, TalksOK
<1>6. WiresOK'
  <2>1. wire' = [u \in Tab |-> wire'[u]] /\ wire'[t] = NotSent
        /\ \A u \in Tab \ {t} : wire'[u] = wire[u]
    BY <1>1 DEF PageOK, WiresOK
  <2>2. busy' \subseteq Tab /\ t \notin busy' /\ busy' \ {t} = busy \ {t}
    BY <1>1, <1>2 DEF UiTypeOK
  <2> QED BY <2>1, <2>2, <1>3, OthersWait
<1>7. ClearedOK'
  <2>1. \A q : ~Asks(<<>>, q)
    BY EmptySeq DEF Asks
  <2> QED BY <2>1, <1>1, <1>3 DEF PageOK, ClearedOK
<1> QED BY <1>4, <1>5, <1>6, <1>7 DEF PageOK

LEMMA FinishKeeps ==
  ASSUME PageOK, NEW t \in Tab, Finish(t), UNCHANGED <<history, store>>, served' = served
  PROVE  PageOK'
<1>1. /\ busy' = busy \ {t} /\ typing' = typing \ {t} /\ timer' = timer \ {t}
      /\ wire' = [wire EXCEPT ![t] = NotSent]
      /\ UNCHANGED <<open, history, store, asked, day, forgotten>>
  BY DEF Finish
<1>2. UiTypeOK /\ typing = busy
  BY DEF PageOK, TabsOK, UiTypeOK
<1>3. TabsOK'
  <2>1. UiTypeOK'
    BY <1>1, <1>2 DEF UiTypeOK
  <2>2. StoreOK'
    BY <1>1 DEF PageOK, TabsOK, StoreOK
  <2> QED BY <2>1, <2>2, <1>1 DEF PageOK, TabsOK
<1>4. WiresOK'
  <2>1. wire' = [u \in Tab |-> wire'[u]] /\ wire'[t] = NotSent
        /\ \A u \in Tab \ {t} : wire'[u] = wire[u]
    BY <1>1 DEF PageOK, WiresOK
  <2>2. busy' \subseteq Tab /\ t \notin busy' /\ busy' \ {t} = busy \ {t}
    BY <1>1, <1>2 DEF UiTypeOK
  <2> QED BY <2>1, <2>2, <1>1, OthersWait
<1>5. TalksOK' /\ ClearedOK'
  BY <1>1 DEF PageOK, TalksOK, ClearedOK
<1> QED BY <1>3, <1>4, <1>5 DEF PageOK

LEMMA SubmitKeeps ==
  ASSUME PageOK, NEW t \in Tab, Submit(t), served' = served
  PROVE  PageOK'
<1> DEFINE s == Append(history[t], User(asked + 1))
<1>1. /\ t \in open \ busy /\ asked < MaxQuestions /\ asked' = asked + 1
      /\ history' = [history EXCEPT ![t] = s] /\ store' \in {store, Stored(s)}
      /\ busy' = busy \cup {t} /\ typing' = typing \cup {t}
      /\ timer' \in {timer, timer \cup {t}}
      /\ wire' = [wire EXCEPT ![t] = Sent(BuildRequest(s))]
      /\ UNCHANGED <<open, day, forgotten>>
  BY DEF Submit, Save
<1>2. /\ UiTypeOK /\ typing = busy /\ StoreOK /\ forgotten \subseteq 1..asked
      /\ \A u \in Tab \ open : history[u] = <<>>
  BY DEF PageOK, TabsOK
<1>3. /\ history[t] \in Seq(Message) /\ TookPlace(history[t], served)
      /\ asked + 1 \in Question /\ asked \in Nat /\ asked + 1 \in 0..MaxQuestions
      /\ day \in 0..MaxDay
  BY <1>1, <1>2, Bounds DEF UiTypeOK, PageOK, TalksOK, Question
<1>4. s \in Seq(Message) /\ TookPlace(s, served)
  BY <1>3, QuestionTookPlace
<1>5. s # <<>> /\ Last(s) = User(asked + 1) /\ Last(s).role = "user"
  <2>1. User(asked + 1) \in Message /\ User(asked + 1).role = "user" /\ User(asked + 1).q = asked + 1
    BY <1>3 DEF User, Message
  <2> QED BY <2>1, <1>3, AppendProperties, LenProperties DEF Last
<1>6. \A q : Asks(s, q) => Asks(history[t], q) \/ q = asked + 1
  <2>1. User(asked + 1) \in Message /\ User(asked + 1).q = asked + 1
    BY <1>3 DEF User, Message
  <2> QED BY <2>1, <1>3, AppendAsks
<1> HIDE DEF s
<1>7. /\ Stored(s) \in [kind : {"present"}, savedAt : 0..MaxDay, messages : Seq(Message)]
      /\ TookPlace(Stored(s).messages, served)
      /\ \A q : Asks(Stored(s).messages, q) => Asks(s, q)
  BY <1>3, <1>4, StoredIs
<1>8. history' \in [Tab -> Seq(Message)] /\ history'[t] = s
      /\ \A u \in Tab \ {t} : history'[u] = history[u]
  BY <1>1, <1>2, <1>4 DEF UiTypeOK
<1>9. TabsOK'
  <2>1. UiTypeOK'
    BY <1>1, <1>2, <1>3, <1>8 DEF UiTypeOK
  <2>2. StoreOK'
    BY <1>1, <1>2, <1>7 DEF StoreOK
  <2>3. forgotten' \subseteq 1..asked'
    BY <1>1, <1>2, <1>3
  <2>4. \A u \in Tab \ open' : history'[u] = <<>>
    BY <1>1, <1>2, <1>8
  <2> QED BY <2>1, <2>2, <2>3, <2>4, <1>1, <1>2 DEF TabsOK
<1>10. TalksOK'
  BY <1>1, <1>4, <1>7, <1>8 DEF PageOK, TalksOK
<1>11. WiresOK'
  <2>1. /\ wire' = [u \in Tab |-> wire'[u]] /\ wire'[t] = Sent(BuildRequest(s))
        /\ \A u \in Tab \ {t} : wire'[u] = wire[u]
    BY <1>1 DEF PageOK, WiresOK
  <2>2. busy' \subseteq Tab /\ t \in busy' /\ busy' \ {t} = busy \ {t}
    BY <1>1, <1>2 DEF UiTypeOK
  <2>3. Pending(history'[t], wire'[t], served')
    BY <2>1, <1>5, <1>8 DEF Pending
  <2> QED BY <2>1, <2>2, <2>3, <1>8, OthersWait
<1>12. ClearedOK'
  <2>1. \A q \in forgotten : q # asked + 1
    BY <1>2, <1>3
  <2>2. \A q \in forgotten : ~Asks(s, q)
    BY <2>1, <1>6 DEF PageOK, ClearedOK
  <2>3. \A q \in forgotten, u \in Tab : ~Asks(history'[u], q)
    BY <2>2, <1>8 DEF PageOK, ClearedOK
  <2>4. \A q \in forgotten : store'.kind = "present" => ~Asks(store'.messages, q)
    BY <2>2, <1>1, <1>7 DEF PageOK, ClearedOK
  <2> QED BY <2>3, <2>4, <1>1 DEF ClearedOK
<1> QED BY <1>9, <1>10, <1>11, <1>12 DEF PageOK

LEMMA AnswerKeeps ==
  ASSUME PageOK, NEW t \in Tab, ReceiveAnswer(t), served' = served
  PROVE  PageOK'
<1> DEFINE q == wire[t].body.q
           s == Append(history[t], Assistant(q))
<1>1. /\ wire[t].state = "replied" /\ Shows(wire[t])
      /\ history' = [history EXCEPT ![t] = s] /\ store' \in {store, Stored(s)}
      /\ busy' = busy \ {t} /\ typing' = typing \ {t} /\ timer' = timer \ {t}
      /\ wire' = [wire EXCEPT ![t] = NotSent]
      /\ UNCHANGED <<open, asked, day, forgotten>>
  BY DEF ReceiveAnswer, Save, Finish
<1>2. /\ UiTypeOK /\ typing = busy /\ StoreOK /\ forgotten \subseteq 1..asked
      /\ \A u \in Tab \ open : history[u] = <<>>
  BY DEF PageOK, TabsOK
<1>3. t \in busy /\ Pending(history[t], wire[t], served)
  BY <1>1, SMTT(30) DEF PageOK, WiresOK, NotSent
<1>4. /\ history[t] # <<>> /\ Last(history[t]).role = "user"
      /\ q \in served /\ q = Last(history[t]).q
  BY <1>1, <1>3 DEF Pending, Sent
<1>5. history[t] \in Seq(Message) /\ TookPlace(history[t], served) /\ day \in 0..MaxDay
  BY <1>2 DEF UiTypeOK, PageOK, TalksOK
<1>6. s \in Seq(Message) /\ TookPlace(s, served)
  BY <1>4, <1>5, AnswerTookPlace
<1>7. Asks(history[t], q) /\ Assistant(q) \in Message /\ Assistant(q).q = q
  <2>1. Len(history[t]) \in 1..Len(history[t])
    BY <1>4, <1>5, EmptySeq, LenProperties
  <2>2. Last(history[t]) \in Message
    BY <2>1, <1>5, ElementOfSeq DEF Last
  <2> QED BY <2>1, <2>2, <1>4 DEF Asks, Last, Assistant, Message
<1>8. \A r : Asks(s, r) => Asks(history[t], r)
  BY <1>5, <1>7, AppendAsks
<1> HIDE DEF s, q
<1>9. /\ Stored(s) \in [kind : {"present"}, savedAt : 0..MaxDay, messages : Seq(Message)]
      /\ TookPlace(Stored(s).messages, served)
      /\ \A r : Asks(Stored(s).messages, r) => Asks(s, r)
  BY <1>5, <1>6, StoredIs
<1>10. history' \in [Tab -> Seq(Message)] /\ history'[t] = s
       /\ \A u \in Tab \ {t} : history'[u] = history[u]
  BY <1>1, <1>2, <1>6 DEF UiTypeOK
<1>11. TabsOK'
  <2>1. UiTypeOK'
    BY <1>1, <1>2, <1>10 DEF UiTypeOK
  <2>2. StoreOK'
    BY <1>1, <1>2, <1>9 DEF StoreOK
  <2>3. \A u \in Tab \ open' : history'[u] = <<>>
    BY <1>1, <1>2, <1>3, <1>10 DEF UiTypeOK
  <2> QED BY <2>1, <2>2, <2>3, <1>1, <1>2 DEF TabsOK
<1>12. TalksOK'
  BY <1>1, <1>6, <1>9, <1>10 DEF PageOK, TalksOK
<1>13. WiresOK'
  <2>1. /\ wire' = [u \in Tab |-> wire'[u]] /\ wire'[t] = NotSent
        /\ \A u \in Tab \ {t} : wire'[u] = wire[u]
    BY <1>1 DEF PageOK, WiresOK
  <2>2. busy' \subseteq Tab /\ t \notin busy' /\ busy' \ {t} = busy \ {t}
    BY <1>1, <1>2 DEF UiTypeOK
  <2> QED BY <2>1, <2>2, <1>10, OthersWait
<1>14. ClearedOK'
  BY <1>1, <1>8, <1>9, <1>10 DEF PageOK, ClearedOK
<1> QED BY <1>11, <1>12, <1>13, <1>14 DEF PageOK

LEMMA ClearKeeps ==
  ASSUME PageOK, NEW t \in Tab, Clear(t), served' = served
  PROVE  PageOK'
<1>1. /\ t \in open \ busy /\ history' = [history EXCEPT ![t] = <<>>] /\ store' \in {Nothing, store}
      /\ typing' = typing \ {t}
      /\ forgotten' = IF open = {t} /\ store' = Nothing THEN 1..asked ELSE forgotten
      /\ UNCHANGED <<open, busy, timer, asked, day, wire>>
  BY DEF Clear, MayClear
<1>2. /\ UiTypeOK /\ typing = busy /\ forgotten \subseteq 1..asked
      /\ \A u \in Tab \ open : history[u] = <<>>
  BY DEF PageOK, TabsOK
<1>3. history' \in [Tab -> Seq(Message)] /\ history'[t] = <<>>
      /\ \A u \in Tab \ {t} : history'[u] = history[u]
  BY <1>1, <1>2, EmptySeq DEF UiTypeOK
<1>4. TabsOK'
  <2>1. forgotten' \subseteq 1..asked' /\ forgotten' \subseteq Question
    <3>1. 1..asked \subseteq Question
      BY <1>2, Bounds DEF UiTypeOK, Question
    <3> QED BY <3>1, <1>1, <1>2
  <2>2. UiTypeOK'
    BY <2>1, <1>1, <1>2, <1>3 DEF UiTypeOK
  <2>3. StoreOK'
    BY <1>1 DEF PageOK, TabsOK, StoreOK
  <2>4. \A u \in Tab \ open' : history'[u] = <<>>
    BY <1>1, <1>2, <1>3
  <2> QED BY <2>1, <2>2, <2>3, <2>4, <1>1, <1>2 DEF TabsOK
<1>5. TalksOK'
  BY <1>1, <1>3, EmptyTookPlace DEF PageOK, TalksOK, Nothing
<1>6. WiresOK'
  <2>1. \A u \in busy : history'[u] = history[u]
    BY <1>1, <1>2, <1>3 DEF UiTypeOK
  <2> QED BY <2>1, <1>1 DEF PageOK, WiresOK
<1>7. ClearedOK'
  <2>1. \A q : ~Asks(<<>>, q)
    BY EmptySeq DEF Asks
  <2>2. CASE open = {t} /\ store' = Nothing
    <3>1. \A u \in Tab : history'[u] = <<>>
      BY <2>2, <1>2, <1>3
    <3> QED BY <3>1, <2>1, <2>2 DEF ClearedOK, Nothing
  <2>3. CASE ~(open = {t} /\ store' = Nothing)
    BY <2>1, <2>3, <1>1, <1>3 DEF PageOK, ClearedOK, Nothing
  <2> QED BY <2>2, <2>3
<1> QED BY <1>4, <1>5, <1>6, <1>7 DEF PageOK

LEMMA UiKeeps ==
  ASSUME PageOK, UiNext, served' = served
  PROVE  PageOK'
<1>1. ASSUME NEW t \in Tab, ReceiveError(t) \/ NetworkFails(t) \/ Aborts(t) PROVE PageOK'
  BY <1>1, FinishKeeps DEF ReceiveError, NetworkFails, Aborts
<1>2. ASSUME NextDay PROVE PageOK'
  <2>1. /\ day' = day + 1 /\ day < MaxDay
        /\ UNCHANGED <<open, history, busy, typing, timer, store, asked, forgotten, wire>>
    BY <1>2 DEF NextDay
  <2>2. TabsOK'
    <3>1. UiTypeOK'
      BY <2>1, Bounds DEF PageOK, TabsOK, UiTypeOK
    <3> QED BY <3>1, <2>1 DEF PageOK, TabsOK, StoreOK
  <2> QED BY <2>1, <2>2 DEF PageOK, TalksOK, WiresOK, ClearedOK
<1> QED BY <1>1, <1>2, OpenKeeps, CloseKeeps, SubmitKeeps, ClearKeeps, AnswerKeeps DEF UiNext

-----------------------------------------------------------------------------
(* What the shell does to the page *)

\* Whatever a response is, it may be delivered: it goes to a busy page, and it is shown
\* only if it answers that page's question.
LEMMA DeliveredKeeps ==
  ASSUME PageOK, UNCHANGED uiVars, served \subseteq served', NEW response,
         Deliver(response), job # NoJob,
         job.from # NoTab => job.from \in Tab,
         job.from # NoTab /\ response.status = 200 /\ response.body.kind = "answer" =>
           /\ response.body.q \in served'
           /\ \A h \in Seq(Message) :
                h # <<>> /\ Last(h).role = "user" /\ job.messages = BuildRequest(h)
                  => response.body.q = Last(h).q
  PROVE  PageOK'
<1>1. UNCHANGED <<open, history, busy, typing, timer, store, asked, day, forgotten>>
  BY DEF uiVars
<1>2. TabsOK'
  BY <1>1 DEF PageOK, TabsOK, UiTypeOK, StoreOK
<1>3. TalksOK'
  BY <1>1, MoreAnswers DEF PageOK, TalksOK
<1>4. ClearedOK'
  BY <1>1 DEF PageOK, ClearedOK
<1>5. WiresOK'
  <2>1. CASE wire' = wire
    BY <2>1, <1>1 DEF PageOK, WiresOK, Pending
  <2>2. CASE wire' # wire
    <3> DEFINE t == job.from
               w == Replied(response.status, response.body)
    <3>1. /\ t # NoTab /\ t \in Tab /\ wire[t] = Sent(job.messages)
          /\ wire' = [wire EXCEPT ![t] = w]
      BY <2>2 DEF Deliver
    <3>2. t \in busy /\ Pending(history[t], wire[t], served)
      BY <3>1 DEF PageOK, WiresOK, NotSent, Sent
    <3>3. /\ history[t] \in Seq(Message) /\ history[t] # <<>> /\ Last(history[t]).role = "user"
          /\ job.messages = BuildRequest(history[t])
      BY <3>1, <3>2 DEF Pending, Sent, PageOK, TabsOK, UiTypeOK
    <3>4. w.state = "replied" /\ w.status = response.status /\ w.body = response.body
      BY DEF Replied
    <3> HIDE DEF w
    <3>5. Pending(history[t], w, served')
      BY <3>1, <3>3, <3>4 DEF Pending, Shows
    <3>6. /\ wire' = [u \in Tab |-> wire'[u]] /\ wire'[t] = w
          /\ \A u \in Tab \ {t} : wire'[u] = wire[u]
      BY <3>1 DEF PageOK, WiresOK
    <3>7. busy \subseteq Tab
      BY DEF PageOK, TabsOK, UiTypeOK
    <3> HIDE DEF t
    <3> QED BY <3>1, <3>2, <3>5, <3>6, <3>7, <1>1, OthersWait
  <2> QED BY <2>1, <2>2
<1> QED BY <1>2, <1>3, <1>4, <1>5 DEF PageOK

\* Steps of the shell that end no invocation.
LEMMA UnseenKeeps ==
  ASSUME PageOK, UNCHANGED <<uiVars, wire, served>>
  PROVE  PageOK'
BY DEF uiVars, PageOK, TabsOK, UiTypeOK, StoreOK, TalksOK, WiresOK, ClearedOK

-----------------------------------------------------------------------------
(* The shell's part of the invariant *)

LEMMA ShellStart == ShellInit => ShellInv
BY ShellAssumption
DEF ShellInit, ShellInv, ShellTypeOK, TimingOK, JobInv, NotifyInv, RecordInv, NoNotify,
    NotStarted, NoRecord, NoJob, Followed

LEMMA QuietKeeps ==
  ASSUME ShellInv, UNCHANGED shellVars
  PROVE  ShellInv'
<1>1. UNCHANGED <<job, served, timing, record, notify, resolved>>
  BY DEF shellVars
<1>2. ShellTypeOK' /\ TimingOK'
  BY <1>1, ZenonT(40) DEF ShellInv, ShellTypeOK, TimingOK
<1>3. JobInv' /\ NotifyInv'
  BY <1>1 DEF ShellInv, JobInv, NotifyInv, Followed
<1>4. RecordInv'
  BY <1>1 DEF ShellInv, RecordInv, OutcomeInv
<1> QED BY <1>2, <1>3, <1>4 DEF ShellInv

\* The request of a tab is on the wire as it was built.
LEMMA SentIsMessages ==
  ASSUME PageOK, NEW t \in Tab, wire[t].state = "sent"
  PROVE  wire[t].messages \in Seq(Message)
<1>1. t \in busy /\ Pending(history[t], wire[t], served)
  BY DEF PageOK, WiresOK, NotSent
<1>2. wire[t] = Sent(BuildRequest(history[t])) /\ history[t] \in Seq(Message)
  BY <1>1 DEF Pending, PageOK, TabsOK, UiTypeOK
<1> QED BY <1>2, RequestEnd DEF Sent

\* A second invocation is only entered when none is followed.
LEMMA EnterFromTabKeeps ==
  ASSUME PageOK, ShellInv, NEW t \in Tab, EnterFromTab(t)
  PROVE  ShellInv'
<1>1. PICK entrance \in Entrance : job' = Job(t, entrance, wire[t].messages)
  BY DEF EnterFromTab
<1>2. /\ job = NoJob /\ wire[t].messages \in Seq(Message)
      /\ UNCHANGED <<served, timing, record, notify, resolved>>
  BY SentIsMessages DEF EnterFromTab
<1>3. /\ job' # NoJob /\ job'.from = t /\ job'.messages \in Seq(Message) /\ t # NoTab
  BY <1>1, <1>2, ShellAssumption, SMTT(30) DEF Job, NoJob
<1>4. ~Followed /\ ~Followed'
  BY <1>2, <1>3 DEF Followed
<1>5. ShellTypeOK' /\ TimingOK'
  BY <1>2, <1>3 DEF ShellInv, ShellTypeOK, TimingOK
<1>6. JobInv' /\ NotifyInv'
  BY <1>2, <1>3, <1>4 DEF ShellInv, JobInv, NotifyInv
<1>7. RecordInv'
  BY <1>2, <1>3 DEF ShellInv, RecordInv, OutcomeInv
<1> QED BY <1>5, <1>6, <1>7 DEF ShellInv

LEMMA EnterFromElsewhereKeeps ==
  ASSUME ShellInv, EnterFromElsewhere
  PROVE  ShellInv'
<1>1. PICK entrance \in Entrance : job' = Job(NoTab, entrance, <<User(1)>>)
  BY DEF EnterFromElsewhere
<1>2. /\ timing = NotStarted /\ timing' = Started
      /\ UNCHANGED <<served, record, notify, resolved>>
  BY DEF EnterFromElsewhere
<1>3. /\ ~timing.started /\ notify = NoNotify /\ resolved = 0 /\ record = NoRecord
  BY <1>2 DEF NotStarted, ShellInv, NotifyInv
<1>4. <<User(1)>> \in Seq(Message)
  <2>1. User(1) \in Message
    BY Bounds DEF User, Message
  <2> QED BY <2>1
<1>5. /\ job' # NoJob /\ job'.from = NoTab /\ job'.messages \in Seq(Message)
  BY <1>1, <1>4 DEF Job, NoJob
<1>6. ShellTypeOK' /\ JobInv' /\ NotifyInv'
  BY <1>2, <1>3, <1>5 DEF ShellInv, ShellTypeOK, JobInv, NotifyInv, Followed, Started, NoNotify
<1>7. TimingOK' /\ RecordInv'
  BY <1>2, <1>3, ShellAssumption
  DEF TimingOK, RecordInv, OutcomeInv, Started, NoNotify, NoRecord
<1> QED BY <1>6, <1>7 DEF ShellInv

\* The fields of the mark board while an invocation is followed.
TimingType ==
  [started : {TRUE}, active : BOOLEAN,
   outcome : {"skipped", "disabled", "success", "failure", "timeout"},
   observed : BOOLEAN, finalized : BOOLEAN, events : Nat, waited : Nat]

NotifyType ==
  [caller  : {"none", "disabled", "waits", "fulfilled", "rejected", "timedOut"},
   adapter : {"none", "running", "ended"}, last : {"none", "disabled"} \cup Outcome]

\* Where a notification is under way or marks are made, an invocation is followed.
LEMMA MarksAreKept ==
  ASSUME ShellInv, Followed \/ notify # NoNotify
  PROVE  /\ timing.started /\ timing \in TimingType /\ notify \in NotifyType
         /\ resolved \in 0..MaxMarks /\ MaxMarks \in Nat /\ MaxEvents \in Nat
         /\ OutcomeInv
         /\ (timing.active <=> Followed) /\ (timing.active => ~record.written)
         /\ timing.waited = timing.events
         /\ timing.events = (IF resolved <= MaxEvents THEN resolved ELSE MaxEvents)
<1>1. timing.started
  BY DEF ShellInv, JobInv, NotifyInv
<1>2. timing \in TimingType
  <2>1. TimingOK
    BY DEF ShellInv
  <2>2. timing # NotStarted
    BY <1>1 DEF NotStarted
  <2> QED BY <2>1, <2>2 DEF TimingOK, TimingType
<1>3. notify \in NotifyType /\ resolved \in 0..MaxMarks
  BY DEF ShellInv, ShellTypeOK, NotifyType
<1> QED BY <1>1, <1>2, <1>3, ShellAssumption DEF ShellInv, JobInv, RecordInv

LEMMA ResolveCredentialsKeeps ==
  ASSUME ShellInv, ResolveCredentials
  PROVE  ShellInv'
<1>1. /\ Followed /\ resolved < MaxMarks /\ notify.caller = "none" /\ resolved' = resolved + 1
      /\ Mark(IF timing.events >= MaxEvents THEN timing
              ELSE [timing EXCEPT !.events = @ + 1, !.waited = @ + 1])
      /\ UNCHANGED <<job, served, record, notify>>
  BY DEF ResolveCredentials
<1>2. /\ timing.started /\ timing \in TimingType /\ timing.active /\ ~record.written
      /\ resolved \in 0..MaxMarks /\ MaxMarks \in Nat /\ MaxEvents \in Nat /\ OutcomeInv
      /\ timing.waited = timing.events
      /\ timing.events = (IF resolved <= MaxEvents THEN resolved ELSE MaxEvents)
  BY <1>1, MarksAreKept
<1>3. timing' = IF timing.events >= MaxEvents THEN timing
                ELSE [timing EXCEPT !.events = @ + 1, !.waited = @ + 1]
  BY <1>1, <1>2 DEF Mark
<1>4. /\ timing' \in TimingType /\ timing'.active = timing.active /\ timing'.started
      /\ timing'.outcome = timing.outcome /\ timing'.observed = timing.observed
      /\ timing'.finalized = timing.finalized
      /\ timing'.events = (IF timing.events >= MaxEvents THEN timing.events ELSE timing.events + 1)
      /\ timing'.waited = (IF timing.events >= MaxEvents THEN timing.waited ELSE timing.waited + 1)
  <2>1. CASE timing.events >= MaxEvents
    BY <2>1, <1>2, <1>3
  <2>2. CASE ~(timing.events >= MaxEvents)
    <3>1. timing' = [timing EXCEPT !.events = @ + 1, !.waited = @ + 1]
      BY <2>2, <1>3
    <3>2. timing.events + 1 \in Nat /\ timing.waited + 1 \in Nat
      BY <1>2 DEF TimingType
    <3> QED BY <3>1, <3>2, <2>2, <1>2 DEF TimingType
  <2> QED BY <2>1, <2>2
<1>5. /\ timing'.events = (IF resolved' <= MaxEvents THEN resolved' ELSE MaxEvents)
      /\ timing'.waited = timing'.events /\ resolved' \in 0..MaxMarks
  BY <1>1, <1>2, <1>4
<1>6. OutcomeInv'
  BY <1>1, <1>2, <1>4 DEF OutcomeInv
<1>7. TimingOK' /\ ShellTypeOK'
  BY <1>1, <1>4, <1>5 DEF TimingOK, TimingType, ShellInv, ShellTypeOK
<1>8. JobInv' /\ NotifyInv'
  BY <1>1, <1>2, <1>4 DEF ShellInv, JobInv, NotifyInv, Followed
<1> QED BY <1>1, <1>2, <1>5, <1>6, <1>7, <1>8 DEF ShellInv, RecordInv

LEMMA StartNotifyKeeps ==
  ASSUME ShellInv, StartNotify
  PROVE  ShellInv'
<1>1. /\ Followed /\ notify.caller = "none" /\ notify = NoNotify
      /\ notify' = [caller |-> "waits", adapter |-> "running", last |-> "none"]
      /\ UNCHANGED <<job, served, timing, record, resolved>>
  BY DEF StartNotify, ShellInv, NotifyInv
<1>2. timing.started /\ timing.active /\ ~record.written /\ OutcomeInv
  BY <1>1, MarksAreKept
<1>3. OutcomeInv'
  BY <1>1, <1>2 DEF OutcomeInv, NoNotify
<1>4. ShellTypeOK' /\ TimingOK'
  BY <1>1 DEF ShellInv, ShellTypeOK, TimingOK
<1>5. JobInv' /\ NotifyInv'
  BY <1>1, <1>2 DEF ShellInv, JobInv, NotifyInv, Followed
<1> QED BY <1>1, <1>2, <1>3, <1>4, <1>5 DEF ShellInv, RecordInv

LEMMA NotifyDisabledKeeps ==
  ASSUME ShellInv, NotifyDisabled
  PROVE  ShellInv'
<1>1. /\ Followed /\ notify.caller = "none" /\ notify = NoNotify /\ Observe("disabled")
      /\ notify' = [caller |-> "disabled", adapter |-> "none", last |-> "disabled"]
      /\ UNCHANGED <<job, served, record, resolved>>
  BY DEF NotifyDisabled, ShellInv, NotifyInv
<1>2. /\ timing.started /\ timing \in TimingType /\ timing.active /\ ~record.written
      /\ OutcomeInv /\ timing.waited = timing.events
      /\ timing.events = (IF resolved <= MaxEvents THEN resolved ELSE MaxEvents)
  BY <1>1, MarksAreKept
<1>3. ~timing.finalized
  BY <1>1, <1>2 DEF OutcomeInv
<1>4. timing' = [timing EXCEPT !.outcome = "disabled", !.observed = TRUE]
  BY <1>1, <1>2, <1>3 DEF Observe, Mark
<1>5. /\ timing' \in TimingType /\ timing'.started /\ timing'.active
      /\ timing'.outcome = "disabled" /\ timing'.observed /\ ~timing'.finalized
      /\ timing'.events = timing.events /\ timing'.waited = timing.waited
  BY <1>2, <1>3, <1>4 DEF TimingType
<1>6. OutcomeInv'
  BY <1>1, <1>5 DEF OutcomeInv
<1>7. ShellTypeOK' /\ TimingOK'
  BY <1>1, <1>5 DEF ShellInv, ShellTypeOK, TimingOK, TimingType
<1>8. JobInv' /\ NotifyInv'
  BY <1>1, <1>2, <1>5 DEF ShellInv, JobInv, NotifyInv, Followed
<1> QED BY <1>1, <1>2, <1>5, <1>6, <1>7, <1>8 DEF ShellInv, RecordInv

\* A notification that is under way is waited for by the followed invocation, or the wait
\* has ended.
LEMMA Running ==
  ASSUME ShellInv, notify.adapter = "running" \/ notify.caller = "waits"
  PROVE  /\ notify # NoNotify /\ notify.caller # "none"
         /\ notify.caller = "waits" => ~timing.finalized
         /\ notify.caller # "waits" => timing.finalized
         /\ notify.caller = "waits" /\ notify.adapter = "running" => timing.active
<1>1. notify # NoNotify /\ notify.caller # "none"
  BY DEF NoNotify, ShellInv, NotifyInv
<1>2. OutcomeInv /\ notify \in NotifyType /\ (timing.active <=> Followed)
      /\ timing.finalized \in BOOLEAN
  BY <1>1, MarksAreKept DEF TimingType
<1> QED BY <1>1, <1>2 DEF OutcomeInv, NotifyType, ShellInv, NotifyInv

LEMMA AdapterReportsKeeps ==
  ASSUME ShellInv, NEW outcome \in Outcome, AdapterReports(outcome)
  PROVE  ShellInv'
<1>1. /\ notify.adapter = "running" /\ Observe(outcome)
      /\ notify' = [notify EXCEPT !.last = IF notify.caller = "waits" THEN outcome ELSE @]
      /\ UNCHANGED <<job, served, record, resolved>>
  BY DEF AdapterReports
<1>2. /\ notify # NoNotify /\ notify.caller # "none"
      /\ notify.caller = "waits" => ~timing.finalized /\ timing.active
      /\ notify.caller # "waits" => timing.finalized
  BY <1>1, Running
<1>3. /\ timing.started /\ timing \in TimingType /\ notify \in NotifyType /\ OutcomeInv
      /\ (timing.active <=> Followed) /\ (timing.active => ~record.written)
      /\ timing.waited = timing.events
      /\ timing.events = (IF resolved <= MaxEvents THEN resolved ELSE MaxEvents)
  BY <1>2, MarksAreKept
<1>4. /\ notify' \in NotifyType /\ notify'.caller = notify.caller
      /\ notify'.adapter = notify.adapter
      /\ notify'.last = (IF notify.caller = "waits" THEN outcome ELSE notify.last)
  BY <1>1, <1>3 DEF NotifyType
<1>5. CASE notify.caller = "waits"
  <2>1. timing' = [timing EXCEPT !.outcome = outcome, !.observed = TRUE]
    BY <1>1, <1>2, <1>5 DEF Observe, Mark
  <2>2. /\ timing' \in TimingType /\ timing'.started /\ timing'.active
        /\ timing'.outcome = outcome /\ timing'.finalized = timing.finalized
        /\ timing'.observed
        /\ timing'.events = timing.events /\ timing'.waited = timing.waited
    BY <2>1, <1>2, <1>3, <1>5 DEF TimingType, Outcome
  <2>3. OutcomeInv'
    BY <2>2, <1>2, <1>3, <1>4, <1>5 DEF OutcomeInv, Outcome
  <2>4. ShellTypeOK' /\ TimingOK'
    BY <2>2, <1>1, <1>4 DEF ShellInv, ShellTypeOK, TimingOK, TimingType, NotifyType
  <2>5. JobInv' /\ NotifyInv'
    BY <2>2, <1>1, <1>2, <1>3, <1>4, <1>5 DEF ShellInv, JobInv, NotifyInv, Followed
  <2> QED BY <2>2, <2>3, <2>4, <2>5, <1>1, <1>2, <1>3, <1>5 DEF ShellInv, RecordInv
<1>6. CASE notify.caller # "waits"
  <2>1. timing' = timing
    BY <1>1, <1>2, <1>6 DEF Observe, Mark
  <2>2. notify' = notify
    BY <1>1, <1>3, <1>6 DEF NotifyType
  <2> QED BY <2>1, <2>2, <1>1, QuietKeeps DEF shellVars
<1> QED BY <1>5, <1>6

LEMMA WaitEnds ==
  ASSUME ShellInv, NEW end \in {"success", "failure", "timeout"}, Finalize(end),
         notify.caller = "waits", Followed, notify' \in NotifyType, notify'.last = notify.last,
         notify'.caller = (CASE end = "success" -> "fulfilled" [] end = "failure" -> "rejected"
                             [] OTHER -> "timedOut"),
         UNCHANGED <<job, served, record, resolved>>
  PROVE  ShellInv'
<1>1. ~timing.finalized /\ notify # NoNotify
  BY Running
<1>2. /\ timing.started /\ timing \in TimingType /\ notify \in NotifyType /\ OutcomeInv
      /\ timing.active /\ ~record.written
      /\ timing.waited = timing.events
      /\ timing.events = (IF resolved <= MaxEvents THEN resolved ELSE MaxEvents)
  BY <1>1, MarksAreKept
<1>3. timing' = IF end # "success" \/ ~timing.observed
                THEN [timing EXCEPT !.outcome = end, !.finalized = TRUE]
                ELSE [timing EXCEPT !.finalized = TRUE]
  BY <1>2 DEF Finalize, Mark
<1>4. /\ timing' \in TimingType /\ timing'.started /\ timing'.active /\ timing'.finalized
      /\ timing'.outcome = (IF end # "success" \/ ~timing.observed THEN end ELSE timing.outcome)
      /\ timing'.observed = timing.observed
      /\ timing'.events = timing.events /\ timing'.waited = timing.waited
  BY <1>2, <1>3 DEF TimingType
<1>5. OutcomeInv'
  <2>1. notify'.caller \in {"fulfilled", "rejected", "timedOut"}
    OBVIOUS
  <2>2. timing.outcome = IF notify.last # "none" THEN notify.last ELSE "skipped"
    BY <1>2 DEF OutcomeInv
  <2>3. CASE end = "success"
    BY <2>2, <2>3, <1>2, <1>4 DEF OutcomeInv, Outcome, NotifyType
  <2>4. CASE end # "success"
    <3>1. \/ end = "failure" /\ notify'.caller = "rejected"
          \/ end = "timeout" /\ notify'.caller = "timedOut"
      <4>1. CASE end = "failure"
        BY <4>1
      <4>2. CASE end = "timeout"
        BY <4>2
      <4> QED BY <2>4, <4>1, <4>2
    <3>2. timing'.outcome = end /\ timing'.finalized
      BY <2>4, <1>4
    <3>3. timing'.observed <=> notify'.last # "none"
      BY <1>2, <1>4 DEF OutcomeInv
    <3>4. CASE notify'.caller = "rejected"
      BY <3>1, <3>2, <3>3, <3>4 DEF OutcomeInv
    <3>5. CASE notify'.caller = "timedOut"
      BY <3>1, <3>2, <3>3, <3>5 DEF OutcomeInv
    <3> QED BY <3>1, <3>4, <3>5
  <2> QED BY <2>3, <2>4
<1>6. ShellTypeOK' /\ TimingOK'
  BY <1>4 DEF ShellInv, ShellTypeOK, TimingOK, TimingType, NotifyType
<1>7. JobInv' /\ NotifyInv'
  BY <1>2, <1>4 DEF ShellInv, JobInv, NotifyInv, Followed
<1> QED BY <1>2, <1>4, <1>5, <1>6, <1>7 DEF ShellInv, RecordInv

LEMMA AdapterEndsKeeps ==
  ASSUME ShellInv, NEW fulfilled \in BOOLEAN, AdapterEnds(fulfilled)
  PROVE  ShellInv'
<1>1. notify.adapter = "running" /\ UNCHANGED <<job, served, record, resolved>>
  BY DEF AdapterEnds
<1>2. /\ notify # NoNotify
      /\ notify.caller = "waits" => timing.active
      /\ notify.caller # "waits" => timing.finalized
  BY <1>1, Running
<1>3. /\ timing.started /\ notify \in NotifyType /\ (timing.active <=> Followed) /\ OutcomeInv
  BY <1>2, MarksAreKept
<1>4. CASE notify.caller = "waits"
  <2> DEFINE end == IF fulfilled THEN "success" ELSE "failure"
  <2>1. /\ Finalize(end)
        /\ notify' = [notify EXCEPT !.adapter = "ended",
                        !.caller = IF fulfilled THEN "fulfilled" ELSE "rejected"]
    BY <1>4 DEF AdapterEnds
  <2>2. /\ notify' \in NotifyType /\ notify'.last = notify.last
        /\ notify'.caller = IF fulfilled THEN "fulfilled" ELSE "rejected"
    BY <2>1, <1>3 DEF NotifyType
  <2>3. CASE fulfilled
    <3>1. end = "success" /\ notify'.caller = "fulfilled"
      BY <2>2, <2>3
    <3> HIDE DEF end
    <3> QED BY <3>1, <2>1, <2>2, <1>1, <1>2, <1>3, <1>4, WaitEnds
  <2>4. CASE ~fulfilled
    <3>1. end = "failure" /\ notify'.caller = "rejected"
      BY <2>2, <2>4
    <3> HIDE DEF end
    <3> QED BY <3>1, <2>1, <2>2, <1>1, <1>2, <1>3, <1>4, WaitEnds
  <2> QED BY <2>3, <2>4
<1>5. CASE notify.caller # "waits"
  <2>1. notify' = [notify EXCEPT !.adapter = "ended"] /\ timing' = timing
    BY <1>5 DEF AdapterEnds
  <2>2. /\ notify' \in NotifyType /\ notify'.last = notify.last
        /\ notify'.caller = notify.caller /\ notify.caller # "none"
    BY <2>1, <1>1, <1>3, Running DEF NotifyType
  <2>3. ShellTypeOK' /\ TimingOK' /\ JobInv'
    BY <2>1, <2>2, <1>1
    DEF ShellInv, ShellTypeOK, TimingOK, JobInv, Followed, NotifyType
  <2>4. NotifyInv'
    <3>1. notify.caller # "disabled"
      BY <1>1 DEF ShellInv, NotifyInv
    <3> QED BY <3>1, <2>1, <2>2, <1>3, <1>5 DEF NotifyInv
  <2>5. RecordInv'
    BY <2>1, <2>2, <1>1 DEF ShellInv, RecordInv, OutcomeInv
  <2> QED BY <2>3, <2>4, <2>5 DEF ShellInv
<1> QED BY <1>4, <1>5

LEMMA NotifyTimesOutKeeps ==
  ASSUME ShellInv, NotifyTimesOut
  PROVE  ShellInv'
<1>1. /\ Followed /\ notify.caller = "waits" /\ Finalize("timeout")
      /\ notify' = [notify EXCEPT !.caller = "timedOut"]
      /\ UNCHANGED <<job, served, record, resolved>>
  BY DEF NotifyTimesOut
<1>2. notify \in NotifyType
  BY <1>1, MarksAreKept
<1>3. notify' \in NotifyType /\ notify'.last = notify.last /\ notify'.caller = "timedOut"
  BY <1>1, <1>2 DEF NotifyType
<1> QED BY <1>1, <1>3, WaitEnds

\* The response that ends an invocation answers its question if it is a 200.
LEMMA ResponsesAnswer ==
  ASSUME ShellInv, job # NoJob, NEW response \in Responses,
         NEW sent \in Sendings(response)
  PROVE  /\ response.status = 200 =>
              /\ response.body.q = CurrentQuestion(job.messages).q
              /\ response.body.q \in Question
         /\ sent.status = 200 /\ sent.body.kind = "answer" =>
              response.status = 200 /\ sent.body.q = response.body.q
<1>1. job.messages \in Seq(Message)
  BY DEF ShellInv, JobInv
<1>2. \/ response \in {Response(410, ErrorBody), Response(400, ErrorBody),
                       Response(429, ErrorBody), Response(503, ErrorBody),
                       Response(500, Answered(CurrentQuestion(job.messages).q))}
      \/ /\ response = Response(200, Answered(CurrentQuestion(job.messages).q))
         /\ Acceptable(job.messages)
  BY DEF Responses
<1>3. response.status = 200 =>
        /\ response = Response(200, Answered(CurrentQuestion(job.messages).q))
        /\ Acceptable(job.messages)
  BY <1>2 DEF Response
<1>4. ASSUME response.status = 200
      PROVE  /\ response.body.q = CurrentQuestion(job.messages).q
             /\ response.body.q \in Question
  <2>1. CurrentQuestion(job.messages) \in Message
    BY <1>1, <1>3, <1>4, AcceptedQuestion
  <2> QED BY <2>1, <1>3, <1>4 DEF Response, Answered, Message
<1>5. \/ sent = response \/ sent = Response(200, Garbage)
      \/ sent = [response EXCEPT !.body = Garbage]
  BY DEF Sendings
<1>6. \E code, body : response = Response(code, body)
  BY <1>2
<1>7. sent = response \/ sent.body = Garbage
  BY <1>5, <1>6 DEF Response
<1> QED BY <1>4, <1>7 DEF Garbage

LEMMA HandlerEndsKeeps ==
  ASSUME PageOK, ShellInv, HandlerEnds, UNCHANGED uiVars
  PROVE  PageOK' /\ ShellInv'
<1>1. /\ job # NoJob /\ (Followed => notify.caller # "waits")
      /\ job' = NoJob /\ WriteRecord /\ UNCHANGED <<notify, resolved>>
  BY DEF HandlerEnds
<1>2. PICK response \in Responses :
        /\ \E sent \in Sendings(response) : Deliver(sent)
        /\ served' = IF response.status = 200 /\ job.from # NoTab
                     THEN served \cup {response.body.q} ELSE served
  BY DEF HandlerEnds
<1>a. PICK sent \in Sendings(response) : Deliver(sent)
  BY <1>2
<1>3. /\ response.status = 200 =>
           /\ response.body.q = CurrentQuestion(job.messages).q
           /\ response.body.q \in Question
      /\ sent.status = 200 /\ sent.body.kind = "answer" =>
           response.status = 200 /\ sent.body.q = response.body.q
  BY <1>1, ResponsesAnswer
<1>4. served \subseteq served' /\ served' \subseteq Question
  BY <1>2, <1>3 DEF ShellInv, ShellTypeOK
<1>5. job.from # NoTab => job.from \in Tab
  BY <1>1 DEF ShellInv, JobInv
<1>6. ASSUME job.from # NoTab, sent.status = 200, sent.body.kind = "answer"
      PROVE  /\ sent.body.q \in served'
             /\ \A h \in Seq(Message) :
                  h # <<>> /\ Last(h).role = "user" /\ job.messages = BuildRequest(h)
                    => sent.body.q = Last(h).q
  BY <1>2, <1>3, <1>6, RequestEnd
<1>7. PageOK'
  BY <1>1, <1>a, <1>4, <1>5, <1>6, DeliveredKeeps
<1>8. ShellInv'
  <2>1. ~Followed'
    BY <1>1 DEF Followed
  <2>2. ShellTypeOK'
    BY <1>1, <1>4 DEF ShellInv, ShellTypeOK
  <2>3. CASE job.from = NoTab
    <3>1. Followed /\ timing' = [timing EXCEPT !.active = FALSE] /\ record' = Written(timing)
      BY <1>1, <2>3 DEF WriteRecord, Followed
    <3>2. /\ timing.started /\ timing \in TimingType /\ OutcomeInv
          /\ timing.waited = timing.events
          /\ timing.events = (IF resolved <= MaxEvents THEN resolved ELSE MaxEvents)
      BY <3>1, MarksAreKept
    <3>3. /\ timing' \in TimingType /\ timing'.started /\ timing'.active = FALSE
          /\ timing'.outcome = timing.outcome /\ timing'.observed = timing.observed
          /\ timing'.finalized = timing.finalized
          /\ timing'.events = timing.events /\ timing'.waited = timing.waited
      BY <3>1, <3>2 DEF TimingType
    <3>4. Written(timing') = Written(timing)
      BY <3>3 DEF Written
    <3>5. OutcomeInv'
      BY <3>2, <3>3, <1>1 DEF OutcomeInv
    <3>6. RecordInv'
      BY <3>1, <3>2, <3>3, <3>4, <3>5, <1>1 DEF RecordInv
    <3>7. JobInv' /\ NotifyInv' /\ TimingOK'
      BY <3>1, <3>3, <2>1, <1>1 DEF ShellInv, JobInv, NotifyInv, TimingOK, TimingType
    <3> QED BY <3>6, <3>7, <2>2 DEF ShellInv
  <2>4. CASE job.from # NoTab
    <3>1. UNCHANGED <<timing, record>> /\ ~Followed
      BY <1>1, <2>4 DEF WriteRecord, Followed
    <3>2. JobInv' /\ NotifyInv' /\ TimingOK'
      BY <3>1, <2>1, <1>1 DEF ShellInv, JobInv, NotifyInv, TimingOK
    <3>3. RecordInv'
      BY <3>1, <1>1 DEF ShellInv, RecordInv, OutcomeInv
    <3> QED BY <3>2, <3>3, <2>2 DEF ShellInv
  <2> QED BY <2>3, <2>4
<1> QED BY <1>7, <1>8

LEMMA KilledKeeps ==
  ASSUME PageOK, ShellInv, Killed, UNCHANGED uiVars
  PROVE  PageOK' /\ ShellInv'
<1>1. /\ job # NoJob /\ Deliver(Response(504, ErrorBody)) /\ job' = NoJob
      /\ notify' = [notify EXCEPT !.adapter = IF @ = "running" THEN "ended" ELSE @]
      /\ timing' = IF timing.started THEN [timing EXCEPT !.active = FALSE] ELSE timing
      /\ UNCHANGED <<served, record, resolved>>
  BY DEF Killed
<1>2. job.from # NoTab => job.from \in Tab
  BY <1>1 DEF ShellInv, JobInv
<1>3. PageOK'
  <2>1. Response(504, ErrorBody).status # 200
    BY DEF Response
  <2> QED BY <2>1, <1>1, <1>2, DeliveredKeeps
<1>4. notify \in NotifyType
  BY DEF ShellInv, ShellTypeOK, NotifyType
<1>5. /\ notify' \in NotifyType /\ notify'.caller = notify.caller /\ notify'.last = notify.last
      /\ notify'.adapter # "running"
      /\ notify.adapter = "none" => notify'.adapter = "none"
      /\ notify = NoNotify => notify' = NoNotify
  <2>1. CASE notify.adapter = "running"
    BY <2>1, <1>1, <1>4 DEF NotifyType, NoNotify
  <2>2. CASE notify.adapter # "running"
    <3>1. notify' = notify
      BY <2>2, <1>1, <1>4 DEF NotifyType
    <3> QED BY <3>1, <2>2, <1>4
  <2> QED BY <2>1, <2>2
<1>6. ~Followed'
  BY <1>1 DEF Followed
<1>7. ShellTypeOK'
  BY <1>1, <1>5 DEF ShellInv, ShellTypeOK, NotifyType
<1>8. CASE timing.started
  <2>1. timing \in TimingType
    <3>1. TimingOK /\ timing # NotStarted
      BY <1>8 DEF ShellInv, NotStarted
    <3> QED BY <3>1 DEF TimingOK, TimingType
  <2>2. /\ timing' \in TimingType /\ timing'.started /\ timing'.active = FALSE
        /\ timing'.outcome = timing.outcome /\ timing'.observed = timing.observed
        /\ timing'.finalized = timing.finalized
        /\ timing'.events = timing.events /\ timing'.waited = timing.waited
    BY <2>1, <1>1, <1>8 DEF TimingType
  <2>3. Written(timing') = Written(timing)
    BY <2>2 DEF Written
  <2>4. RecordInv'
    <3>1. OutcomeInv /\ timing.waited = timing.events
          /\ timing.events = (IF resolved <= MaxEvents THEN resolved ELSE MaxEvents)
          /\ (record.written => record = Written(timing) /\ notify.caller # "waits")
      BY <1>8 DEF ShellInv, RecordInv
    <3>2. OutcomeInv'
      BY <3>1, <2>2, <1>5 DEF OutcomeInv
    <3> QED BY <3>1, <3>2, <2>2, <2>3, <1>1, <1>5 DEF RecordInv
  <2>5. JobInv' /\ NotifyInv' /\ TimingOK'
    BY <2>2, <1>1, <1>5, <1>6 DEF ShellInv, JobInv, NotifyInv, TimingOK, TimingType
  <2> QED BY <2>4, <2>5, <1>3, <1>7 DEF ShellInv
<1>9. CASE ~timing.started
  <2>1. timing' = timing /\ notify' = notify /\ UNCHANGED <<served, record, resolved>>
    BY <1>1, <1>5, <1>9 DEF ShellInv, NotifyInv
  <2>2. JobInv' /\ NotifyInv' /\ TimingOK' /\ RecordInv'
    BY <2>1, <1>1, <1>5, <1>6, <1>9 DEF ShellInv, JobInv, NotifyInv, TimingOK, RecordInv
  <2> QED BY <2>2, <1>3, <1>7 DEF ShellInv
<1> QED BY <1>3, <1>8, <1>9

-----------------------------------------------------------------------------
(* The theorems *)

LEMMA SessionStep ==
  ASSUME PageOK /\ ShellInv, [SessionNext]_sessionVars
  PROVE  PageOK' /\ ShellInv'
<1>1. CASE UiNext /\ UNCHANGED shellVars
  BY <1>1, UiKeeps, QuietKeeps DEF shellVars
<1>2. CASE ShellNext /\ UNCHANGED uiVars
  <2>1. CASE \E t \in Tab : EnterFromTab(t)
    BY <2>1, <1>2, EnterFromTabKeeps, UnseenKeeps DEF EnterFromTab
  <2>2. CASE EnterFromElsewhere
    BY <2>2, <1>2, EnterFromElsewhereKeeps, UnseenKeeps DEF EnterFromElsewhere
  <2>3. CASE HandlerEnds
    BY <2>3, <1>2, HandlerEndsKeeps
  <2>4. CASE ResolveCredentials
    BY <2>4, <1>2, ResolveCredentialsKeeps, UnseenKeeps DEF ResolveCredentials
  <2>5. CASE StartNotify
    BY <2>5, <1>2, StartNotifyKeeps, UnseenKeeps DEF StartNotify
  <2>d. CASE NotifyDisabled
    BY <2>d, <1>2, NotifyDisabledKeeps, UnseenKeeps DEF NotifyDisabled
  <2>6. CASE NotifyTimesOut
    BY <2>6, <1>2, NotifyTimesOutKeeps, UnseenKeeps DEF NotifyTimesOut
  <2>7. CASE \E outcome \in Outcome : AdapterReports(outcome)
    BY <2>7, <1>2, AdapterReportsKeeps, UnseenKeeps DEF AdapterReports
  <2>8. CASE \E fulfilled \in BOOLEAN : AdapterEnds(fulfilled)
    BY <2>8, <1>2, AdapterEndsKeeps, UnseenKeeps DEF AdapterEnds
  <2>9. CASE Killed
    BY <2>9, <1>2, KilledKeeps
  <2> QED BY <1>2, <2>1, <2>2, <2>3, <2>4, <2>5, <2>d, <2>6, <2>7, <2>8, <2>9 DEF ShellNext
<1>3. CASE UNCHANGED sessionVars
  BY <1>3, UnseenKeeps, QuietKeeps DEF sessionVars, shellVars
<1> QED BY <1>1, <1>2, <1>3 DEF SessionNext

\* The inductive invariant of the page and the shell, whatever the limits.
THEOREM SessionInvariance == SessionSpec => []SessionIInv
<1>1. SessionInit => PageOK /\ ShellInv
  BY PageStart, ShellStart DEF SessionInit
<1>2. (PageOK /\ ShellInv) /\ [SessionNext]_sessionVars => (PageOK /\ ShellInv)'
  BY SessionStep
<1>3. PageOK /\ ShellInv => SessionIInv
  BY PageIs DEF SessionIInv
<1> QED BY <1>1, <1>2, <1>3, PTL DEF SessionSpec

\* A history, in a tab or in the browser's store, is a conversation that took place:
\* each answer stands behind the question that the server answered with it (app.js).
THEOREM Histories == SessionSpec => []HistoriesAreConversations
<1>1. SessionIInv => HistoriesAreConversations
  BY DEF SessionIInv, PageInv
<1> QED BY <1>1, SessionInvariance, PTL

\* What has been cleared with no other tab open is in no tab and not in the store again
\* (app.js, clearBtn).
THEOREM StaysCleared == SessionSpec => []ClearedStaysCleared
<1>1. SessionIInv => ClearedStaysCleared
  BY DEF SessionIInv, PageInv
<1> QED BY <1>1, SessionInvariance, PTL

\* The record of an invocation tells how its own notification ended and holds its own
\* credential events, whatever still ran or ran later (shell-timing.ts).
THEOREM RecordIsTrue == SessionSpec => []RecordIsTheInvocations
<1>1. SessionIInv => RecordIsTheInvocations
  <2> SUFFICES ASSUME SessionIInv, record.written PROVE RecordIsTheInvocations
    BY DEF RecordIsTheInvocations
  <2>1. /\ record = Written(timing) /\ timing.started /\ notify.caller # "waits" /\ OutcomeInv
        /\ timing.waited = timing.events
        /\ timing.events = (IF resolved <= MaxEvents THEN resolved ELSE MaxEvents)
    BY DEF SessionIInv, ShellInv, RecordInv
  <2>2. /\ record.outcome = timing.outcome /\ record.events = timing.events
        /\ record.waited = timing.waited
    BY <2>1 DEF Written
  <2>3. record.outcome =
         CASE notify.caller = "none"     -> "skipped"
           [] notify.caller = "timedOut" -> "timeout"
           [] notify.caller = "rejected" -> "failure"
           [] OTHER -> IF notify.last = "none" THEN "success" ELSE notify.last
    <3>1. CASE notify.caller = "none"
      BY <3>1, <2>1, <2>2 DEF OutcomeInv
    <3>2. CASE notify.caller = "timedOut"
      BY <3>2, <2>1, <2>2 DEF OutcomeInv
    <3>3. CASE notify.caller = "rejected"
      BY <3>3, <2>1, <2>2 DEF OutcomeInv
    <3>4. CASE notify.caller \notin {"none", "timedOut", "rejected"}
      BY <3>4, <2>1, <2>2 DEF OutcomeInv
    <3> QED BY <3>1, <3>2, <3>3, <3>4
  <2> QED BY <2>1, <2>2, <2>3 DEF RecordIsTheInvocations
<1> QED BY <1>1, SessionInvariance, PTL

\* A request of the page is refused only for a question that is longer than the settings
\* allow, and what is accepted passes the remote contract (index.html, maxlength; app.js,
\* buildRequestMessages; handler.ts, sanitizeMessages; remote/contract.ts).
THEOREM OwnRequestsPass == SessionSpec => []OwnRequestsAreAccepted
<1>1. SessionIInv => OwnRequestsAreAccepted
  <2> SUFFICES ASSUME SessionIInv, NEW t \in Tab, wire[t].state = "sent"
               PROVE  LET messages == wire[t].messages IN
                      /\ Acceptable(messages) <=>
                           \A i \in 1..Len(messages) : QuestionChars(messages[i].q) <= MaxChars
                      /\ Acceptable(messages) =>
                           /\ CurrentQuestion(messages) = Last(history[t])
                           /\ AnswerRequestIsValid(messages)
    BY DEF OwnRequestsAreAccepted
  <2>1. PageInv
    BY DEF SessionIInv
  <2>2. t \in busy
    BY <2>1 DEF PageInv, WireInv, NotSent
  <2>3. history[t] \in Seq(Message)
    BY <2>1 DEF PageInv, UiTypeOK
  <2>4. history[t] # <<>> /\ Last(history[t]).role = "user"
    BY <2>1, <2>2 DEF PageInv, WireInv
  <2>5. wire[t] = Sent(BuildRequest(history[t]))
    BY <2>1, <2>2 DEF PageInv, WireInv
  <2>6. wire[t].messages = BuildRequest(history[t])
    BY <2>5 DEF Sent
  <2> QED BY <2>3, <2>4, <2>6, OwnRequest
<1> QED BY <1>1, SessionInvariance, PTL
=============================================================================
