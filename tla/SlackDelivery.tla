---------------------------- MODULE SlackDelivery ----------------------------
(***************************************************************************)
(* The Slack agent end to end: Slack's event deliveries, the ingress       *)
(* Lambda, the SQS FIFO queue with its redrive policy, the worker Lambda   *)
(* (shared/public/slack-worker-core.ts), the idempotency row and the Q&A   *)
(* log row of every event, and what the user sees in the conversation.     *)
(*                                                                         *)
(* Time is explicit: every deadline is a timer that Tick counts down.      *)
(* claim() is one step here; SlackIdempotency takes it apart.              *)
(***************************************************************************)
EXTENDS Naturals, Integers, Sequences

CONSTANTS
  Event,            \* Slack event ids
  Conversation,     \* SQS message groups (effectiveThreadKey)
  ConversationOf,   \* the conversation of an event
  Worker,           \* concurrent invocations of the worker Lambda
  NoWorker, NoEvent,
  SlackDeliveries,  \* how often Slack sends an event at most
  MaxReceiveCount,  \* redrive policy of the queue = QUEUE_MAX_RECEIVE_COUNT
  LambdaTimeout,    \* Timeout of the worker function (60 s)
  Lease,            \* PROCESSING_LEASE_SECONDS (90 s)
  Visibility        \* VisibilityTimeout of the queue (360 s)

ASSUME SlackAssumption ==
  /\ ConversationOf \in [Event -> Conversation]
  /\ NoWorker \notin Worker /\ NoEvent \notin Event
  /\ SlackDeliveries \in Nat \ {0} /\ MaxReceiveCount \in Nat \ {0}
  /\ LambdaTimeout \in Nat \ {0} /\ Lease \in Nat /\ Visibility \in Nat
  /\ LambdaTimeout < Lease /\ LambdaTimeout + Lease < Visibility

VARIABLES
  sent,        \* deliveries Slack has made of each event
  acknowledged,\* Slack saw a 2xx for the event
  dedup,       \* the event id is inside the queue's deduplication window
  queue,       \* messages of each conversation, oldest first
  hidden,      \* ticks until the head message becomes visible again
  receiver,    \* the worker that holds the receipt of the head message
  dlq,         \* events a copy of which went to the dead-letter queue
  row,         \* idempotency row of each event
  leaseLeft,   \* leaseExpiresAt - now of that row; negative: expired
  qaLog,       \* Q&A log row of each event
  worker,      \* the worker invocations
  enqueued,    \* history: deliveries of Slack that became messages, of each event
  answers,     \* history: attempts whose answer is visible in Slack
  notices,     \* history: "could not answer" texts visible in Slack, for each copy
  disabled     \* history: events acknowledged because the agent is disabled

slackVars == <<sent, acknowledged, dedup>>
queueVars == <<queue, hidden, receiver, dlq>>
storeVars == <<row, leaseLeft, qaLog>>
userVars  == <<enqueued, answers, notices, disabled>>
vars == <<slackVars, queueVars, storeVars, worker, userVars>>

-----------------------------------------------------------------------------
\* A message is the copy of an event that the n-th delivery of Slack made; an attempt
\* is one of its receives.
Copy == 1..SlackDeliveries
Message == [ev : Event, copy : Copy, rc : 0..MaxReceiveCount]
Attempt == [copy : Copy, rc : 1..MaxReceiveCount]
NoAttempt == [copy |-> 0, rc |-> 0]

Idle == [pc |-> "idle", ev |-> NoEvent, copy |-> 0, rc |-> 0, age |-> 0,
         session |-> "none", cause |-> "none"]

PC == {"idle", "received", "claimed", "generated", "logged", "answered", "recorded",
       "returning", "failed"}

Row == [state : {"absent", "received", "processing", "posted"},
        owner : Worker \cup {NoWorker}]
LogRow == [status : {"absent", "generated", "posted"}, answer : Attempt \cup {NoAttempt}]
Invocation ==
  [pc : PC, ev : Event \cup {NoEvent}, copy : 0..SlackDeliveries, rc : 0..MaxReceiveCount,
   age : 0..LambdaTimeout, session : {"none", "saved", "skipped"},
   cause : {"none", "error", "busy", "alreadyPosted"}]

TypeOK ==
  /\ sent \in [Event -> 0..SlackDeliveries]
  /\ acknowledged \in [Event -> BOOLEAN]
  /\ dedup \in [Event -> BOOLEAN]
  /\ queue \in [Conversation -> Seq(Message)]
  /\ hidden \in [Conversation -> 0..Visibility]
  /\ receiver \in [Conversation -> Worker \cup {NoWorker}]
  /\ dlq \in SUBSET Event
  /\ row \in [Event -> Row]
  /\ leaseLeft \in [Event -> -1..Lease]
  /\ qaLog \in [Event -> LogRow]
  /\ worker \in [Worker -> Invocation]
  /\ enqueued \in [Event -> SUBSET Copy]
  /\ answers \in [Event -> SUBSET Attempt]
  /\ notices \in [Event -> [Copy -> Nat]]
  /\ disabled \in SUBSET Event

Init ==
  /\ sent = [e \in Event |-> 0]
  /\ acknowledged = [e \in Event |-> FALSE]
  /\ dedup = [e \in Event |-> FALSE]
  /\ queue = [c \in Conversation |-> <<>>]
  /\ hidden = [c \in Conversation |-> 0]
  /\ receiver = [c \in Conversation |-> NoWorker]
  /\ dlq = {}
  /\ row = [e \in Event |-> [state |-> "absent", owner |-> NoWorker]]
  /\ leaseLeft = [e \in Event |-> -1]
  /\ qaLog = [e \in Event |-> [status |-> "absent", answer |-> NoAttempt]]
  /\ worker = [w \in Worker |-> Idle]
  /\ enqueued = [e \in Event |-> {}]
  /\ answers = [e \in Event |-> {}]
  /\ notices = [e \in Event |-> [n \in Copy |-> 0]]
  /\ disabled = {}

Live(w) == worker[w].pc # "idle"
Ev(w) == worker[w].ev
Conv(w) == ConversationOf[Ev(w)]
AttemptOf(w) == [copy |-> worker[w].copy, rc |-> worker[w].rc]

\* The invocation moves on to p, or throws for the given reason.
Goto(w, p) == worker' = [worker EXCEPT ![w].pc = p]
Throw(w, why) == worker' = [worker EXCEPT ![w].pc = "failed", ![w].cause = why]

-----------------------------------------------------------------------------
(* Slack, the ingress Lambda and the queue *)

\* What Slack may see: after an accepted message either outcome, else a 503.
AnswersToSlack(queued) == IF queued THEN BOOLEAN ELSE {FALSE}

Enqueue(e) ==
  /\ queue' = [queue EXCEPT ![ConversationOf[e]] =
       Append(@, [ev |-> e, copy |-> sent[e] + 1, rc |-> 0])]
  /\ enqueued' = [enqueued EXCEPT ![e] = @ \cup {sent[e] + 1}]

\* Slack delivers an event that passes the ingress checks.  Enqueueing fails, or
\* succeeds; a success may be reported too late (the 1.8 s abort answers 503, or
\* Slack gave up after 3 s), so Slack delivers again.  Inside the deduplication
\* window the queue accepts the copy and drops it.
SlackDelivers(e) ==
  /\ sent[e] < SlackDeliveries /\ ~acknowledged[e]
  /\ sent' = [sent EXCEPT ![e] = @ + 1]
  /\ \E queued \in BOOLEAN :
       /\ IF queued /\ ~dedup[e] THEN Enqueue(e) ELSE UNCHANGED <<queue, enqueued>>
       /\ dedup' = [dedup EXCEPT ![e] = @ \/ queued]
       /\ \E ok \in AnswersToSlack(queued) : acknowledged' = [acknowledged EXCEPT ![e] = ok]
  /\ UNCHANGED <<hidden, receiver, dlq, storeVars, worker, answers, notices, disabled>>

\* The queue forgets a deduplication id after five minutes; it matters as long as
\* Slack may deliver the event again.
DedupExpires(e) ==
  /\ dedup[e] /\ sent[e] < SlackDeliveries
  /\ dedup' = [dedup EXCEPT ![e] = FALSE]
  /\ UNCHANGED <<sent, acknowledged, queueVars, storeVars, worker, userVars>>

\* Mutants: a visibility timeout no longer than the lease; a redrive policy off by
\* one.
HideForLease == Lease
NeverExhausted(c) == queue[c] # <<>> /\ hidden[c] = 0 /\ queue[c][1].rc > MaxReceiveCount

Receivable(c) == queue[c] # <<>> /\ hidden[c] = 0 /\ queue[c][1].rc < MaxReceiveCount
Exhausted(c) == queue[c] # <<>> /\ hidden[c] = 0 /\ queue[c][1].rc = MaxReceiveCount
HideFor == Visibility

\* Lambda's event source mapping receives the head of a conversation and invokes
\* the worker with it; the message stays hidden for the visibility timeout.
Receive(w, c) ==
  /\ ~Live(w)
  /\ Receivable(c)
  /\ LET m == queue[c][1] IN
     /\ queue' = [queue EXCEPT ![c][1].rc = @ + 1]
     /\ worker' = [worker EXCEPT ![w] =
          [pc |-> "received", ev |-> m.ev, copy |-> m.copy, rc |-> m.rc + 1, age |-> 0,
           session |-> "none", cause |-> "none"]]
  /\ hidden' = [hidden EXCEPT ![c] = HideFor]
  /\ receiver' = [receiver EXCEPT ![c] = w]
  /\ UNCHANGED <<slackVars, dlq, storeVars, userVars>>

\* A message received MaxReceiveCount times is moved instead of being received.
MoveToDlq(c) ==
  /\ Exhausted(c)
  /\ dlq' = dlq \cup {queue[c][1].ev}
  /\ queue' = [queue EXCEPT ![c] = Tail(@)]
  /\ UNCHANGED <<slackVars, hidden, receiver, storeVars, worker, userVars>>

-----------------------------------------------------------------------------
(* One invocation of the worker: processJob *)

\* Mutant: the condition of the Update forgets the state.
LeaseFreeEvenPosted(e) == leaseLeft[e] < 0

LeaseFree(e) ==
  \/ row[e].state \in {"absent", "received"}
  \/ row[e].state = "processing" /\ leaseLeft[e] < 0

TakeLease(w) ==
  /\ row' = [row EXCEPT ![Ev(w)] = [state |-> "processing", owner |-> w]]
  /\ leaseLeft' = [leaseLeft EXCEPT ![Ev(w)] = Lease]

\* Mutant: a busy event is acknowledged.
AckBusy(w) == Goto(w, "returning")

OnBusy(w) == Throw(w, "busy")

\* claim(): 'claimed', 'posted' (the message is acknowledged), 'busy' (thrown, so
\* that the queue delivers again), or an error of DynamoDB.  A lease whose reply
\* is lost is retried by the SDK and then reported as busy.
Claim(w) ==
  /\ worker[w].pc = "received"
  /\ \/ LeaseFree(Ev(w)) /\ TakeLease(w) /\ Goto(w, "claimed")
     \/ LeaseFree(Ev(w)) /\ TakeLease(w) /\ (OnBusy(w) \/ Throw(w, "error"))
     \/ /\ row[Ev(w)].state = "processing" /\ ~LeaseFree(Ev(w))
        /\ OnBusy(w) /\ UNCHANGED <<row, leaseLeft>>
     \/ /\ row[Ev(w)].state = "posted"
        /\ Goto(w, "returning") /\ UNCHANGED <<row, leaseLeft>>
     \/ /\ row' \in {row} \cup
             {[row EXCEPT ![e].state = "received"] : e \in {x \in {Ev(w)} : row[x].state = "absent"}}
        /\ Throw(w, "error") /\ UNCHANGED leaseLeft
  /\ UNCHANGED <<slackVars, queueVars, qaLog, userVars>>

\* Configuration, history, knowledge base and the model.  A disabled agent is
\* acknowledged without an answer; the row keeps its lease.
Generate(w) ==
  /\ worker[w].pc = "claimed"
  /\ \/ Goto(w, "generated") /\ UNCHANGED disabled
     \/ Throw(w, "error") /\ UNCHANGED disabled
     \/ Goto(w, "returning") /\ disabled' = disabled \cup {Ev(w)}
  /\ UNCHANGED <<slackVars, queueVars, storeVars, enqueued, answers, notices>>

\* Mutant: the log row says `posted' before the answer is posted.
GeneratedLogAsPosted(w) == [status |-> "posted", answer |-> AttemptOf(w)]

GeneratedLog(w) == [status |-> "generated", answer |-> AttemptOf(w)]

\* The conditions of the two writes of the Q&A log row.
QaLogOpen(e) == qaLog[e].status # "posted"
QaLogGenerated(e) == qaLog[e].status = "generated"

\* bestEffortStartQaLog: Put iff the row is absent or still `generated'.  The
\* session is null when the write fails, times out (applied or not) or is off.
StartQaLog(w) ==
  /\ worker[w].pc = "generated"
  /\ LET Session(s) == worker' = [worker EXCEPT ![w].pc = "logged", ![w].session = s]
     IN \/ /\ QaLogOpen(Ev(w))
           /\ qaLog' = [qaLog EXCEPT ![Ev(w)] = GeneratedLog(w)]
           /\ \E s \in {"saved", "none"} : Session(s)
        \/ /\ ~QaLogOpen(Ev(w))
           /\ Session("skipped") /\ UNCHANGED qaLog
        \/ Session("none") /\ UNCHANGED qaLog
  /\ UNCHANGED <<slackVars, queueVars, row, leaseLeft, userVars>>

\* chat.postMessage: one call, never retried.  Slack may have accepted an answer
\* for which the call reports a timeout.
PostAnswer(w) ==
  /\ worker[w].pc = "logged"
  /\ \/ /\ answers' = [answers EXCEPT ![Ev(w)] = @ \cup {AttemptOf(w)}]
        /\ Goto(w, "answered") \/ Throw(w, "error")
     \/ Throw(w, "error") /\ UNCHANGED answers
  /\ UNCHANGED <<slackVars, queueVars, storeVars, enqueued, notices, disabled>>

\* bestEffortMarkQaPosted: only for a row this invocation saved.
MarkQaPosted(w) ==
  /\ worker[w].pc = "answered"
  /\ Goto(w, "recorded")
  /\ \/ /\ worker[w].session = "saved" /\ QaLogGenerated(Ev(w))
        /\ qaLog' = [qaLog EXCEPT ![Ev(w)].status = "posted"]
     \/ UNCHANGED qaLog
  /\ UNCHANGED <<slackVars, queueVars, row, leaseLeft, userVars>>

\* markPosted, fenced by the owner; its failure becomes SlackAnswerAlreadyPosted.
MarkPosted(w) ==
  /\ worker[w].pc = "recorded"
  /\ \/ /\ row[Ev(w)] = [state |-> "processing", owner |-> w]
        /\ row' = [row EXCEPT ![Ev(w)] = [state |-> "posted", owner |-> NoWorker]]
        /\ leaseLeft' = [leaseLeft EXCEPT ![Ev(w)] = -1]
        /\ Goto(w, "returning") \/ Throw(w, "alreadyPosted")
     \/ Throw(w, "alreadyPosted") /\ UNCHANGED <<row, leaseLeft>>
  /\ UNCHANGED <<slackVars, queueVars, qaLog, userVars>>

-----------------------------------------------------------------------------
(* The end of an invocation *)

\* Mutant: QUEUE_MAX_RECEIVE_COUNT one below the redrive policy.
MayNotifyEarly(w) == worker[w].rc >= MaxReceiveCount - 1 /\ worker[w].cause = "error"

MayNotify(w) == worker[w].rc >= MaxReceiveCount /\ worker[w].cause = "error"

\* runSlackAgentWorker rethrows; before the last rethrow of a message it tries to
\* tell the user.  The message stays hidden until its visibility timeout.
Rethrow(w) ==
  /\ worker[w].pc = "failed"
  /\ \/ MayNotify(w) /\ notices' = [notices EXCEPT ![Ev(w)][worker[w].copy] = @ + 1]
     \/ UNCHANGED notices
  /\ worker' = [worker EXCEPT ![w] = Idle]
  /\ UNCHANGED <<slackVars, queueVars, storeVars, enqueued, answers, disabled>>

\* A normal return: the message is deleted under the worker's receipt, unless the
\* receipt is stale or the deletion is lost.
Return(w) ==
  /\ worker[w].pc = "returning"
  /\ \/ /\ receiver[Conv(w)] = w /\ hidden[Conv(w)] > 0
        /\ queue' = [queue EXCEPT ![Conv(w)] = Tail(@)]
        /\ hidden' = [hidden EXCEPT ![Conv(w)] = 0]
        /\ receiver' = [receiver EXCEPT ![Conv(w)] = NoWorker]
     \/ UNCHANGED <<queue, hidden, receiver>>
  /\ worker' = [worker EXCEPT ![w] = Idle]
  /\ UNCHANGED <<slackVars, dlq, storeVars, userVars>>

\* The sandbox dies, or Lambda stops the invocation at its timeout.
Crash(w) ==
  /\ Live(w)
  /\ worker' = [worker EXCEPT ![w] = Idle]
  /\ UNCHANGED <<slackVars, queueVars, storeVars, userVars>>

Down(t, floor) == IF t > floor THEN t - 1 ELSE t

\* Time passes; no invocation gets older than its timeout.
Tick ==
  /\ \A w \in Worker : Live(w) => worker[w].age < LambdaTimeout
  /\ worker' = [w \in Worker |->
       IF Live(w) THEN [worker[w] EXCEPT !.age = @ + 1] ELSE worker[w]]
  /\ leaseLeft' = [e \in Event |-> Down(leaseLeft[e], -1)]
  /\ hidden' = [c \in Conversation |-> Down(hidden[c], 0)]
  /\ receiver' = [c \in Conversation |-> IF hidden[c] <= 1 THEN NoWorker ELSE receiver[c]]
  /\ UNCHANGED <<slackVars, queue, dlq, row, qaLog, userVars>>

-----------------------------------------------------------------------------
WorkerStep(w) ==
  \/ Claim(w) \/ Generate(w) \/ StartQaLog(w) \/ PostAnswer(w)
  \/ MarkQaPosted(w) \/ MarkPosted(w) \/ Rethrow(w) \/ Return(w)

Next ==
  \/ \E e \in Event : SlackDelivers(e) \/ DedupExpires(e)
  \/ \E c \in Conversation : MoveToDlq(c) \/ \E w \in Worker : Receive(w, c)
  \/ \E w \in Worker : WorkerStep(w) \/ Crash(w)
  \/ Tick

Spec == Init /\ [][Next]_vars

\* Lambda runs a started invocation, SQS keeps delivering, time passes.  Crashes,
\* Slack's deliveries and the deduplication window owe nothing.
Fairness ==
  /\ WF_vars(Tick)
  /\ \A w \in Worker : WF_vars(WorkerStep(w))
  /\ \A c \in Conversation : WF_vars(MoveToDlq(c) \/ \E w \in Worker : Receive(w, c))

FairSpec == Spec /\ Fairness

-----------------------------------------------------------------------------
(* Properties *)

\* The promise to the user: SlackPromise, with what the queue and the rows mean.
Promise == INSTANCE SlackPromise WITH
  accepted <- {e \in Event : enqueued[e] # {}},
  shown    <- answers,
  recorded <- {e \in Event : row[e].state = "posted"},
  told     <- notices

\* The pipeline implements the promise.
PromiseKept == Promise!Spec

InConversation(c) == {w \in Worker : Live(w) /\ Conv(w) = c}

\* One conversation is answered by one invocation at a time, in queue order: the
\* message an invocation works on is the head of its conversation.
SerialConversation ==
  \A c \in Conversation : \A w \in InConversation(c) :
    /\ InConversation(c) = {w}
    /\ receiver[c] = w /\ hidden[c] > 0 /\ queue[c] # <<>> /\ queue[c][1].ev = Ev(w)

\* A redelivery never finds the lease of the delivery before it: `busy' is thrown
\* for the invocation's own lease (retried Update) or after a disabled agent.
BusyIsExplained ==
  \A w \in Worker : worker[w].cause = "busy" =>
    row[Ev(w)].owner = w \/ Ev(w) \in disabled

\* Deliveries do not overlap: not their invocations, and not their leases.  Both
\* rest on the same numbers of the template (function timeout, lease, visibility).
DeliveriesDoNotOverlap == SerialConversation /\ BusyIsExplained

\* What the audit log shows as posted is an answer the user really received.
QaLogTellsTheTruth ==
  \A e \in Event : qaLog[e].status = "posted" => qaLog[e].answer \in answers[e]

\* A message leaves the queue only when its event was answered and recorded, went
\* to the dead-letter queue, or was acknowledged for a disabled agent.
NothingDroppedSilently ==
  [][\A c \in Conversation :
       queue[c] # <<>> /\ Len(queue'[c]) < Len(queue[c]) =>
         LET e == queue[c][1].ev
         IN row[e].state = "posted" \/ e \in dlq' \/ e \in disabled]_vars

\* The redrive policy and QUEUE_MAX_RECEIVE_COUNT agree: an invocation that tells
\* the user of a failure is the last one of its message, hence one text per copy.
OneNoticePerCopy ==
  \A e \in Event, n \in Copy : notices[e][n] <= 1

\* slack-worker-core.ts on an answer that was delivered but not recorded: "the
\* answer has already arrived, so even at the final attempt do not go on to send
\* `could not answer'".  The audit row is posted only after such a delivery.
NoFailureNoticeAfterAnswer ==
  [][\A e \in Event : notices'[e] # notices[e] => qaLog[e].status # "posted"]_vars

\* Every message is eventually answered, acknowledged or dead-lettered.
QueuesDrain ==
  \A c \in Conversation : (queue[c] # <<>>) ~> (queue[c] = <<>>)

-----------------------------------------------------------------------------
(* The inductive invariant *)

\* Who is not invoked holds nothing; `busy' is thrown.
IdleInv ==
  \A w \in Worker :
    /\ ~Live(w) => worker[w] = Idle
    /\ worker[w].cause = "busy" => worker[w].pc = "failed"

\* An invocation works on the head of its conversation, under a receipt that is as old
\* as the invocation.
AtHead(w) ==
  /\ Ev(w) \in Event /\ worker[w].rc > 0
  /\ receiver[Conv(w)] = w
  /\ hidden[Conv(w)] + worker[w].age = Visibility
  /\ queue[Conv(w)] # <<>>
  /\ queue[Conv(w)][1] = [ev |-> Ev(w), copy |-> worker[w].copy, rc |-> worker[w].rc]

HeadInv == \A w \in Worker : Live(w) => AtHead(w)

\* A queue holds copies of events of its conversation, each of them once.
Orderly(c) ==
  \A i \in 1..Len(queue[c]) :
    /\ ConversationOf[queue[c][i].ev] = c
    /\ queue[c][i].copy \in enqueued[queue[c][i].ev]
    /\ \A j \in 1..Len(queue[c]) :
         queue[c][j].ev = queue[c][i].ev /\ queue[c][j].copy = queue[c][i].copy => j = i

QueueInv ==
  /\ \A c \in Conversation : Orderly(c)
  /\ \A e \in Event : \A n \in enqueued[e] : n <= sent[e]

Leased(e) == row[e].state = "processing" /\ leaseLeft[e] >= 0

\* The lease of e expires before the message of e at the head of its conversation is
\* seen again.
Covered(e) ==
  LET c == ConversationOf[e]
  IN queue[c] # <<>> /\ queue[c][1].ev = e /\ leaseLeft[e] < hidden[c]

\* An unexpired lease is covered, unless the agent is disabled.
LeaseInv == \A e \in Event : Leased(e) /\ e \notin disabled => Covered(e)

\* What an invocation may rely on about the row of its event.
OwnRow(w) ==
  /\ worker[w].pc = "received" => ~Leased(Ev(w)) \/ Ev(w) \in disabled
  /\ worker[w].pc \in {"claimed", "generated", "logged", "answered", "recorded"} =>
       row[Ev(w)] = [state |-> "processing", owner |-> w]
  /\ worker[w].pc = "returning" => row[Ev(w)].state = "posted" \/ Ev(w) \in disabled

RowInv == \A w \in Worker : OwnRow(w)

\* An answer belongs to a receive that happened, of a copy that was enqueued, and an
\* attempt answers once.
AnswersOfQueue ==
  \A c \in Conversation : \A i \in 1..Len(queue[c]) :
    \A a \in answers[queue[c][i].ev] : a.copy = queue[c][i].copy => a.rc <= queue[c][i].rc

AnswerInv ==
  /\ \A e \in Event : \A a \in answers[e] : a.copy \in enqueued[e]
  /\ AnswersOfQueue
  /\ \A w \in Worker :
       /\ worker[w].pc \in {"received", "claimed", "generated", "logged"} =>
            AttemptOf(w) \notin answers[Ev(w)]
       /\ worker[w].pc \in {"answered", "recorded"} => AttemptOf(w) \in answers[Ev(w)]

\* A row that an invocation has saved is still its own until it is marked.
LogInv ==
  \A w \in Worker :
    worker[w].pc \in {"logged", "answered"} /\ worker[w].session = "saved"
      /\ QaLogGenerated(Ev(w)) => qaLog[Ev(w)].answer = AttemptOf(w)

\* A copy of which the user was told is at its end: no invocation works on it, and it
\* is not received again.
NoticesOfQueue ==
  \A c \in Conversation : \A i \in 1..Len(queue[c]) :
    queue[c][i].rc < MaxReceiveCount => notices[queue[c][i].ev][queue[c][i].copy] = 0

NoticeInv ==
  /\ \A e \in Event : \A n \in Copy \ enqueued[e] : notices[e][n] = 0
  /\ \A w \in Worker : Live(w) => notices[Ev(w)][worker[w].copy] = 0
  /\ NoticesOfQueue

IInv ==
  /\ TypeOK
  /\ IdleInv /\ HeadInv /\ QueueInv /\ LeaseInv /\ RowInv /\ BusyIsExplained
  /\ AnswerInv /\ QaLogTellsTheTruth /\ LogInv /\ NoticeInv /\ OneNoticePerCopy

=============================================================================
