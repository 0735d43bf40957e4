# Verification of the faq-agent backend

This directory specifies the services of the repository (a FAQ chat with its page and a
Slack agent, both on AWS Lambda) in TLA+, checks the specifications on small
instances with TLC and proves the central results for all instances with TLAPS.
Everything is written from the code under `src/`; a document or a comment is used
only where a run shows that the code departs from it.

Paths below are relative to `src/lambda/`; "shared" is `shared/public/`, "faq" is
`functions/faq-chat/`.

## 1. Inventory

| Part | State it keeps | Operations | What is hard | What makes it correct |
| --- | --- | --- | --- | --- |
| Slack ingress (shared `slack-verify.ts`, `slack-ingress-core.ts`; `slack-ingress/handler.ts`, `shared-lite/slack-sqs.ts`) | none; the SQS queue | verify, validate, enqueue, answer Slack | an aborted send may have been accepted; Slack delivers again, and one post under two event ids | one job per post, none for bots, none lost behind a 2xx, one conversation per message group |
| Slack queue and redrive (`template.yaml`) | FIFO messages, receive counts, dead-letter queue | receive, hide, delete, move | visibility timeout, receive limit and lease are set in different places | serial conversations; no message disappears; every message leaves |
| Slack claim store (shared `slack-idempotency.ts`) | one row per event: state, owner, lease | claim, markPosted | concurrent copies, expired leases, lost replies, clock skew | one holder; no answer after `posted` |
| Slack worker (shared `slack-worker-core.ts`) | the invocation | claim, generate, log, post, record, notify of the final failure | partial failure between three stores and Slack | duplicates only after a failure; notices agree with answers |
| Slack Q&A log (shared `slack-agent-qa-log.ts`, `shared-lite/slack-agent-qa-log-dynamo.ts`) | one row per event: delivery status, content | saveGenerated, markPosted | best-effort writes with timeouts, redeliveries | `posted` names an answer that was delivered |
| FAQ request handler (faq `handler.ts`, `envelope.ts`) | one request: time, lease, pending model calls, reply | guards, template, small talk, remote or local answer, log | deadlines, late promises, an exit on every path | only judged text, capacity before spending, a reply in time, nothing carried over |
| FAQ capacity slots (faq `adapters/inflight.ts`) | slot rows with owner and lease | acquire, release | concurrent scans, expired leases, release after expiry | a slot has one worker, except in the last moments before a kill; a leak ends by itself |
| Remote RAG client (faq `adapters/remote/http-client.ts`) | deadline of a call, cached credentials | retrieve, generate, answer, assume role | retries against a deadline, one refresh for many callers | in time, paid once, session outlives the request |
| FAQ Q&A log and notification (faq `handler.ts`, `adapters/production.ts`; `faq-qa-notify-worker/handler.ts`) | log row with delivery state and lease, stream record | put, notify inline, claim, send, complete, release | two possible senders, retries, a crash around the send | one side sends, `sent` is final, every asynchronous row ends |
| Named agents and knowledge (faq `adapters/free/agent-config.ts`, `simple-retrieval.ts`, `dynamodb-entries.ts`) | profile and corpus caches of a warm sandbox, loads in flight | resolve, retrieve | loads that overlap edits, are shared, fail or are cut off | what is served is recent; a failure does not stick |
| Shared agent cache (shared `agent-cache.ts`) | entries in LRU order, loads in flight, token fence | getOrLoad, set, invalidate, clear | a load that ends after a write, or is joined after one | no read answers with what was there before it began; a stale load is not stored |
| Conversation context (shared `slack-worker-core.ts` `selectUserContext`, `slack-api.ts` `getReplies`, `getHistory`) | none | page, select, truncate, shed | limits at their boundary, posts that Slack does not return yet | the question of the job last, before it people's words of its conversation, the newest that fit |
| Request and plan bounds (faq `handler.ts` `sanitizeMessages`, shared `search-plan-bounds.ts`, faq `remote/contract.ts`, `answer-contract.ts`) | none | sanitize, bound, validate | three sets of limits, each in a module of its own | what one accepts, the next one accepts |
| Streaming entry (faq `bootstrap.ts`, `rest-event.ts`) | the response stream | convert, prelude, write, end | a failure between the three | one response; a named route never becomes the default one |
| Shell timing (faq `shell-timing.ts`) | record of an invocation | mark, observe, finalize, write | marks after the caller gave up or the record was written | the record says what its callers saw, once |
| Browser chat (`src/faq/app.js`) | history of a tab and in localStorage, busy flag, abort timer | open, submit, receive, time out, clear, close | late answers, two tabs, a full or expired store | the history is a conversation that took place; a page does not stay busy |
| Scripts, evaluation tools, stub adapter | - | - | - | - |

The parts interact through three tables (settings with the slot rows, Q&A log with
a stream, idempotency and Slack log rows) and two read-only ones (agents,
knowledge entries), the FIFO queue, and HTTP calls (Slack, the model, the remote
RAG service).  Nothing shares memory between invocations, except for what a warm
sandbox keeps in module variables (caches, credentials).

    Slack --> ingress --> SQS FIFO --> worker --> claim row, Q&A row, Slack
                              \--> DLQ     \--> caches, model
    page --> shell --> FAQ handler --> slot rows --> caches, model | remote client --> STS, RAG
                       \--> Q&A row --> stream --> notification worker --> Slack

Every hazard of this code that is hard to test stands in `PROJECT.json` at the line
where it bites, with the properties that would notice it.

## 2. Modules

| Module | Models | Composes |
| --- | --- | --- |
| `SlackPromise` | the abstract promise about an event: accept, show, record, tell | - |
| `SlackIdempotency` | `claim()` and `markPosted()` call by call | - |
| `SlackDelivery` | deliveries of Slack, queue, worker, the two rows, the user's view | ingress, queue, worker, claim row, log row; implements `SlackPromise` |
| `SlackIngress` | posts, events, requests, the decision table, jobs and answers | ingress, Slack's view of conversations |
| `FaqInflight` | the capacity slots under concurrent scans | - |
| `FaqRequest` | one request of the FAQ handler against time | handler, slot, gates, remote or local answer, log |
| `FaqQaNotify` | one row of the Q&A log from put to `sent` | handler's log writer, stream, notification worker |
| `RemoteClient` | concurrent calls of the remote client and its credentials | three operations, one credential provider |
| `AgentKnowledge` | profile and corpus caches of one sandbox during edits | resolver, retrieval, tables |
| `SlackContext` | pages of a history and `selectUserContext` as functions | extends `SlackIngress`: evaluated for every job of its queue |
| `AgentRegister` | the abstract register of an agent: a read is no older than its beginning | - |
| `AgentCache` | `AgentScopedCache` between its awaits | callers, loader; implements `AgentRegister` |
| `ChatApi` | messages of a request, `sanitizeMessages`, `boundPlanTexts`, what remote-v1 accepts | - |
| `ChatUi` | tabs of one browser with their shared store | extends `ChatApi` |
| `FaqShell` | both entries of the FAQ Lambda, the record of an invocation | extends `ChatApi` |
| `ChatSession` | page and shell joined by the requests on the wire | `ChatUi`, `FaqShell` |
| `XProofs` | theorems about module X; `AgentKnowledgeProofs` also covers `AgentCache`, `FaqRequestProofs` also `ChatSession` with its parts, `SlackIngressProofs` also `SlackContext` | extends what it is about: the modules keep their names apart for that |
| `MCX` | instance of X for TLC | |

A module never stands for a component alone when the hazard lies between two: the
claim store is taken apart in `SlackIdempotency` and is one step in
`SlackDelivery`; the slot is taken apart in `FaqInflight` and is one step in
`FaqRequest`; the handler is taken apart in `FaqRequest` and is one step of
`ChatSession`.

### State and actions against the code

The table `map` of `PROJECT.json` gives every definition the lines it stands for.
The correspondence in short:

**SlackIdempotency.** `row` is the DynamoDB item of one event, `pc[o]` the point
in `claim()` where invocation o stands, `seen[o]` the one reading of its clock.
`BeginClaim`, `PutReceived`, `TryLease`, `ReadBack` are the three calls of `claim()`
and what surrounds them; each may apply without its reply arriving (the SDK then
repeats it, or the invocation fails).  `PostAnswer` is chat.postMessage, `MarkPosted`
the fenced update; `Stop` a crash or Lambda's timeout in any state.

**SlackDelivery.** `queue[c]` is a message group, `hidden` and `receiver` the
visibility of its head and who holds the receipt, `row`/`leaseLeft` the claim row,
`qaLog` the log row, `answers` and `notices` what the user sees.  Each delivery of Slack
that reaches the queue is a copy of its own (`enqueued`), each receive of a copy an
attempt; `SlackPromise` speaks of copies and attempts only.  The actions follow
`processJob` in order: `Claim`, `Generate`, `StartQaLog`, `PostAnswer`,
`MarkQaPosted`, `MarkPosted`, then `Return` (message deleted) or `Rethrow` (message
hidden until its timeout, final notice if the rules of `runSlackAgentWorker` allow).
`Crash` may strike between any two.  `SlackDelivers` is Slack plus the whole ingress
for an event that passes its checks.

**SlackIngress.** `posts` is what Slack shows, `Emitted` the events Slack makes of
it (a channel mention gives a `message` and an `app_mention`, with ids of their own),
`Handle` the whole of `runSlackIngress`: `Signed` and the other checks of
`verifySlackRequestSignature`, `Verdict` for `validateSlackEvent`, `Job` and `Group`
for the message, `Enqueue` with its ambiguous failure, `AckedIf` for the reply.
`Deploy` and `VerifyUrl` let the ingress run before it is configured, as Slack's setup
does.  Answers are posted back into `posts`, so that the agent's own words come back
as events.

**SlackContext.** Functions only, on sets of posts: `ts` gives the posts of a conversation
their times, and every cut of the code (a page, the last messages, what is shed from the
front) is a set of posts that no other one is newer than.  `LoadConversation` is what
`getReplies` (oldest page first, nothing if the pages do not reach the end) or `getHistory`
(one page, newest first) returns, `UserContext` the selection, `Prompt` what the model is
shown.  The property quantifies over every job that the ingress can queue, every order,
every part of the history that Slack returns and every size of its pages.

**FaqInflight.** `slot` is the table, `scan[i]` the locals of `acquire()`.  Every
probe of a slot is one conditional write with the outcomes taken, lost reply, refused
and failed; release is one conditional removal of the lease; Lambda kills at `deadline`.
The paid work of a request has two states.  In `calling` the router, the generator, the
judge or retrieval is under way: their timeouts are fixed or missing, nobody asks how much
lifetime is left, and only the kill ends them for certain.  In `answering` it is the remote
service or the answer model, whose budget is what remains before the reserve; only there
`Tick` knows an end before the deadline.  A sandbox whose clock is ahead can therefore take
the slot of another one in the last `2 * MaxSkew` before the kill.  The properties say
precisely this: they hold for who is answering, and for who is not in that window (`Steady`).

**FaqRequest.** `pc` walks through `createFaqHandler`, `handleNamedAgentRequest` and
`handleFaqRequest`.  `now` is the time of the invocation in units of 100 ms with the
code's own constants, `pending` the end of the last model call that was raced against
its timeout and abandoned, `gates` what a generated text has passed, `calls` what was
spent.  `Conclude` is the exit that settles and logs, `Return` the exit that does
neither; which exit a branch takes is copied branch by branch, because the finding
`faq_unsettled` lives there.  `cause` is a history variable: what the request came to (a
truncated generation, a broken envelope, no entries, ...), set where that happens.  The
reply's text and its `retryable` are chosen by the branches of the code, and
`HonestReplies` judges both against the cause.

**FaqQaNotify.** `row` is the log row; `mode` names its sender.  The shell's put may
be repeated by the SDK or land after the shell stopped waiting (`put`).  A delivery
reads its clock, claims, posts, completes or releases, one call at a time; the row may
be deleted at any time; deliveries overlap.  `underway` holds the messages that were sent and
that Slack may still take in, also after their sender was aborted, crashed or ended.

**RemoteClient.** One action per await of `retrieve`/`generate`/`answer`: `Begin`,
`StartAttempt` (credentials), `Send` (signing and fetch), `Receive`, `Wake` (after the
pause), `Abort` (the attempt's timer).  `RefreshSucceeds`, `RefreshFallsBack` and
`RefreshFails` settle the one AssumeRole refresh for whoever still waits.

**AgentKnowledge.** `row` and `public` are the tables, `until`, `hidden` and `shown`
remember when what they said ended; `profiles` and `corpora` are the caches with their
expiry and order, `loading` the loads that later calls join.  `ReadRow`/`StoreProfile`
are the two sides of the await in `resolveAgentProfile`, `ScanPage` one page of the
scan, `Settle` and `Resume` the end of a load for the one who started it and for those
who joined.  `Killed` is the timeout of the function, which takes the sandbox with it.

**AgentCache.** `order` and `entry` are the Map of values, `inFlight` the Map of loads,
`asked` the `getOrLoad()` calls under way.  `gen` counts the writes of an agent, and a
value carries the generation its loader read, or was set in; the token fence of the code
appears as the comparison it makes.  The step that starts a load, the one that ends it
(for everybody who joined), the continuations, `set`, `invalidate` and `clear` are what
runs between two awaits.  `Register` is `AgentRegister` with a read from the beginning of
the call to its answer.

**ChatApi, ChatUi, FaqShell, ChatSession.** `ChatApi` holds the functions of a request:
`Among` is a loop that pushes some elements in their order, `TotalChars` the length of a
joined text, `FrameChars(n)` what the handler writes around n earlier questions.  `wire[t]` is the request of a tab and its
response.  In `ChatUi` one action is one handler of a page event or the whole chain of
promises behind a response (`ReceiveAnswer`, `ReceiveError`, `NetworkFails`, `Aborts`,
each with the last link `Finish`); `Save` may keep the old store, because it is full, and
`Clear` may fail to remove it.  `MaxInput` is the `maxlength` of the page's text field.
In `FaqShell` an invocation comes in through the buffered or the streaming entry, and
`HandlerEnds` is everything from the handler's reply to the last write: the reply is one
of those that `sanitizeMessages`, the retired routes and the handler allow, `Sendings`
what a broken stream makes of it.  The record of one invocation is followed past its end:
its notification may report and settle while later invocations run.

## 3. Runs

| Run | Bounds | What it shows |
| --- | --- | --- |
| `slack_claim` | 3 invocations, timeout 1, lease 3, skew 1, time 6 | one holder, duplicates only after a failure, nothing after `posted`. Lease = timeout + 2 x skew exactly: one tick less and `ExclusiveHolder` falls |
| `slack_event` | 1 event, 2 deliveries of Slack, 2 receives each, 2 workers; timeout 1 < lease 2, visibility 4 | the pipeline implements `SlackPromise`; the deliveries of a group do not overlap, `busy` has a cause; log row and notices are truthful; nothing leaves the queue unaccounted for; `QueuesDrain` under fairness |
| `slack_notice` | 1 event, 1 delivery, 2 receives | finding: a failure notice follows a delivered answer |
| `slack_ingress` | 3 posts of 11 wordings in 3 kinds of channel; contexts of 2 messages, 2 posts a page, 1 page | the four properties of the ingress, and `ContextIsTheConversation` for every job |
| `inflight` | 2 invocations, 2 slots, timeout 4, reserve 2, skew 1, time 7 | a slot has one worker outside the last moments of an invocation, and one remote or answer call always; `busy` needs a full scan, only faults leak a slot, and only for the lifetime of an invocation |
| `faq_request` | 1 request, all deployments, the code's timeouts; slow calls of 0, 6.8 or 6.9 s, release 0 or 0.8 s | publication, spending under a slot, a reply that says what the request came to, answer in time |
| `faq_unsettled` | the default deployment with a remote service | finding: an abandoned call outlives its reply |
| `notify_row` | 3 deliveries (2 of the source, 1 replay), 2 puts, timeout 2, lease 5, skew 1, time 6; messages taken in late | one sender, one claim, every message accounted for, `sent` and deleted rows final, time for complete(), every asynchronous row ends. Lease = timeout + 2 x skew + 1 exactly |
| `remote_client` | 2 calls, budgets 2 and 4, 2 retries, window 4, session 5, time 8 | deadline, number of requests, life of the session, one refresh |
| `agent_knowledge` | 1 agent, 2 entries, 2 calls, TTLs 1, lifetime 1, caches of one entry, 1 edit, time 3 | what is served is recent, failures do not stick |
| `agent_cache` | 2 agents, 2 callers, TTL 1, 1 entry, 2 writes of an agent, time 1 | the cache implements `AgentRegister`, liveness included; callers of one load share it |
| `chat_session` | 2 tabs, one without AbortController; 3 questions, the first of which is too long; contexts and histories of 2, a store of 3; retired routes; one followed invocation with 2 marks | histories are conversations, what was cleared stays cleared, own requests are refused for a question longer than the settings allow and for nothing else, and later contracts take what is accepted; the record is the invocation's, a page does not stay busy |

Why the bounds are enough to be interesting:

- `slack_claim` and `notify_row` need two that race and a third that comes after both;
  time lasts until the first lease has expired on every clock.
- `slack_event` is the smallest instance in which a copy outside the deduplication
  window, a redelivery and the redrive all occur together; two workers overlap because
  a crashed or timed-out one leaves its lease behind.  For the order of a group the two
  copies of the event stand for two messages: a group has one head, whatever it holds.
- `slack_ingress` has a question, its answer and a post that replies in their thread;
  there is one wording per reason of the decision table.  Two earlier posts reach every
  limit of the context from both sides: count, characters, pages.
- `inflight` hands a slot over early (release), late (expiry), while a release of
  the former owner is under way, and while the former owner still works in its last
  moments; with two slots the scan wraps around.  Reserve = 2 x skew exactly, and a lifetime
  of twice that leaves time for work on both sides of either limit.
- `faq_request` takes the durations whose sums fall on both sides of what the handler
  can afford (`SlowAllowance`); shorter ones change nothing, because each timeout is
  an outcome by itself.
- `remote_client` has a session that is fresh, then in its refresh window, then expired
  within the life of the two calls, and a server that asks for a pause that fits and one
  that does not.
- `agent_knowledge` has one edit per life of a cache entry; each hazard needs one edit
  between two pages, before a load or after it.  Caches of one entry force the
  eviction.
- `agent_cache` needs two callers to join and two writes to overtake the load, one of them
  before and one after the join; one entry forces the eviction, one tick the expiry.
- `chat_session` needs three questions for a context of two to lose one, and two tabs for
  a store to be overwritten behind a tab's back.  Every kind of response exists on either
  entry; with the routes retired, the buffered entry gives 410 and the streaming one serves.
  The invocation whose record is followed is not of a tab; beside it, `MaxMixed` bounds the
  questions, since a later invocation is all that a late mark can meet.

Deadlock checking is off in every configuration: the deliveries, the clock and the
requests are bounded, and the system then really stops.  Symmetry is declared only
where no liveness property is checked; the permuted constants are interchangeable
identities (owners, workers, invocations, calls, posts).

### Fairness

`SlackDelivery!FairSpec`: time passes (the queue's visibility timeouts and leases are
clocks), a started invocation goes on (`WorkerStep`; Lambda runs it until it ends or is
killed), and a visible message is received or moved (the event source polls, the
redrive policy is SQS's).  Not fair: crashes, errors, the deliveries of Slack, the end
of the deduplication window.  A worker that throws every time is covered: the receive
count then drives the message to the dead-letter queue.

`FaqQaNotify!FairSpec`: the SDK ends its attempts at the put, a delivery that was
started goes on (or is killed by its timeout), and the event source delivers a pending
record until it is acknowledged or given up.  Slack, DynamoDB, the operator and time
promise nothing: `AsyncRowIsSettled` rests on the count of deliveries alone.

`AgentCache!CacheFairSpec`: a loader settles and the continuations behind a settled promise
run; both are what the abstract register's answer in the end stands on.  Callers, writes
and time are free.

`ChatSession!SessionFairSpec`: the timer of an open page fires (`UiFairness`).  Nothing is assumed
of the network or the Lambda: `BusyEnds` holds in browsers with AbortController although the
server may never answer.

### What the code does differently from what it says

Two runs end in a violation on purpose; each states what a comment of the source
promises.

1. `slack_notice`: "the answer has already arrived, so do not go on to send `could not
   answer'" (shared `slack-worker-core.ts:462`) holds only within the invocation that
   posted.  If that invocation cannot record its answer and the final attempt fails
   before it posts, the user gets the failure text after the answer.
2. `faq_unsettled`: "always settled before the reply is returned" (faq
   `handler.ts:1792`).  A `busy` of the remote service returns without settling, and
   the `finally` settles only when a slot is held.  `CallsAreUnderASlot` states, and
   the proof confirms, that this is the only such exit.

Two comments on the margin of an abandoned call disagree, and no run depends on either:
`handler.ts:213` calls it an upper bound of the time in flight, `anthropic-smalltalk.ts:87`
says that the schema fallback may double that time.  `FaqRequest` models the second.

A question that is too long stays in the history of the page, so the next
`MAX_CONTEXT_QUESTIONS - 1` requests carry it along and are refused too.
`OwnRequestsAreAccepted` is stated so that it bounds this: a request is refused exactly as long
as such a question is in its context.  The limit on the whole of a request is no second reason:
it is fixed (8000 characters), and six questions of the 1000 characters that the text field
takes stay below it whatever the settings (which may allow 4000 characters a message).
Requests that other clients of the API make may meet it; they are not modelled.

## 4. Proofs

Each theorem is `Spec => []P`, `Spec => [][A]_vars`, or the refinement of an abstract
specification, for every value of the constants that satisfies the module's ASSUMEs.  The
pattern is the same throughout: an inductive invariant `IInv` (`CacheIInv`, `SessionIInv`)
in the component's module (TLC confirmed it before it was proved; it is no property of a
run, since the proof says more), one lemma per action that the action keeps it,
`Invariance` from these by temporal reasoning, and every property as a consequence of the
invariant or of the invariant and one step.

Every safety property that a passing run checks is proved.

| Module | Proved | Assumptions that carry it | Why `IInv` is more than the property |
| --- | --- | --- | --- |
| `SlackIdempotencyProofs` | `IInv`, type correctness, `ExclusiveHolder`, `DuplicateNeedsAFailure`, `NoAnswerAfterPosted` | `LambdaTimeout + 2 * MaxSkew <= Lease` | a holder must still own the row: `HolderInv` bounds its lease from below by its start, `ClockInv` ties the clocks it read to real time |
| `SlackDeliveryProofs` | `IInv`, type correctness, `DeliveriesDoNotOverlap`, `QaLogTellsTheTruth`, `OneNoticePerCopy`, `NothingDroppedSilently`, and `PromiseKept`: the refinement of `SlackPromise` | `LambdaTimeout < Lease` and `LambdaTimeout + Lease < Visibility` (60, 90 and 360 s) | `HeadInv` ties an invocation to the head of its queue and its age to the visibility left, `LeaseInv` says that a lease ends before its message is seen again; without both, `busy` has no cause. `Orderly` keeps the copies of a queue apart, `AnswerInv`, `LogInv` and `NoticeInv` say what the stores may know of a copy |
| `SlackIngressProofs` on `SlackIngress` | `IInv`, `OneJobPerPost`, `OnlyPeopleAreAnswered`, `WantedIsQueued`, `GroupsAreConversations` | none of the unsigned requests carries Slack's signature | `QueueInv`: a job is the job of the carrier event of a wanted post; `AckInv`: a 2xx for it implies the job |
| `SlackIngressProofs` on `SlackContext` | `ContextIsTheConversation` | the limits are positive | follows from `IInv` and from the posts being finitely many, which is an invariant of its own; the rest are lemmas on cutting a finite set by time (`NewestIs` and its like). `Size` stays closed: the argument holds for any measure of the texts |
| `FaqInflightProofs` | `IInv`, `SlotsAreExclusive`, capacity, `LeasesComeBack`, `WorkerKeepsItsSlot`, `BusyProbedEverySlot` | `2 * MaxSkew <= Reserve` | `HolderInv`: who holds owns its row until its deadline less twice the skew, and a remote or answer call ends a reserve before the deadline. Nothing is claimed of the other calls in the rest of a lifetime, where two workers may share a slot; `WithinCapacity` counts accordingly; `OwnInv`: a row names an owner that took it, and until when |
| `FaqRequestProofs` on `FaqRequest` | `IInv`, `OnlyJudgedTextIsPublished`, `InjectionStopsAtTheRouter`, `CallsAreUnderASlot`, `HonestReplies`, `AnsweredInTime` | a release is within the log margin, that within the reserve; the router's timeout is below those of generator and judge | `GateInv`, `RouteInv`, `SettleInv`, `ClockInv` say what each step of the handler stands for |
| `FaqRequestProofs` on `ChatSession` | `SessionIInv`, `HistoriesAreConversations`, `ClearedStaysCleared`, `OwnRequestsAreAccepted`, `RecordIsTheInvocations` | `ApiAssumption`: the page's longest questions with what the handler writes around them fit in the handler's total (6 of 1000 characters in 8000, constants of the code), and the limits of the remote contract are not below the settings. Any settings of `MaxHistory` and `MaxChars` will do. `HintsHold`, about search plans, needs no state and stands by itself; TLC evaluates it as an assumption of `MCChatSession` | `WireInv`: the request of a busy page asks the last question of its history, and a response that will be shown answers it; `ForgottenInv`: what was cleared had been asked; `OutcomeInv`, `RecordInv`: the record follows the wait of the handler state by state |
| `FaqQaNotifyProofs` | `IInv`, `OneSender`, `MessagesAreAccountedFor`, `FinalRowsStay`, `CompletionHasItsTime` | lease longer than the worker's timeout plus twice the skew | as for the claim store, plus `SideInv`: the row's mode decides who may ever hold it; `SendInv`: the budget of a send leaves the time of complete(); `HistoryInv`: a message, under way or taken in, is one of a delivery that came to send |
| `RemoteClientProofs` | `IInv`, `ReturnsInTime`, `PaidOnce`, `SessionIsSound` | no budget exceeds the refresh window | `WaitInv` bounds the pause by the deadline before it starts, `SendInv` counts requests against attempts |
| `AgentKnowledgeProofs` on `AgentKnowledge` | `IInv`, `WhatIsServedIsRecent`, `FailuresDoNotStick` | TTLs are positive | `LoadsOK`: a half-read scan is truthful since its start; `WaitersOK`: nobody waits longer than the function's lifetime |
| `AgentKnowledgeProofs` on `AgentCache` | `CacheIInv`, `CacheTypeOK` with the bound of the Map, `LoadsAreShared`, and `NothingStale`: the safety part of `AgentRegister` | TTL and bound are positive | `EntriesAreCurrent`: a stored value is of the last write; `FlightsAreRegistered`, `LoadsStayRegistered`: the load that later calls may join is the one that may store |

The prover has no induction over data.  Where a sum, a subsequence or a least place is
needed, the proofs take the least counterexample, which the well-foundedness of `<` on the
naturals provides: `PlaceExists` (the k-th element of a set of places), `SumsExist` and
`SumBounds` (a sum along a sequence), `OldestExists` (the first of a set of posts).  The
models are written for that: subsequences by the set of their places, sums by recursive
functions, no RECURSIVE operator.

Not proved, checked by TLC only: liveness.  `QueuesDrain`, `AsyncRowIsSettled`, `BusyEnds`
and the last conjunct of `AgentRegister!Spec` (every read is answered) rest on fairness, and
the prover does not handle ENABLED.  So of `RegisterKept` the theorem `CacheIsRegister` has
the safety part, and the run the rest.

Not proved because they are false: the two properties of the findings.

## 5. What is not modelled

- Texts: prompts, patterns, escaping, ranking of knowledge entries, layout.  Where a
  property depends on the outcome, the outcome is a nondeterministic choice (what the
  router decides, whether the guard accepts).  Lengths of texts are modelled where limits
  of different modules meet (`ChatApi`, `SlackContext`); the limits on remote responses
  are not: exceeding one is a refusal like any other.
- DynamoDB and SQS are taken at their word: conditional writes are atomic, a FIFO group
  is in order, a scan page shows the table at that moment.  The eventual consistency of
  scans adds its lag to the ages in `AgentKnowledge`; it is not in the model.
- TTL deletions of the claim row (14 days) and the Slack log row: the queue keeps a
  message for 4 days, so no copy in it meets a deleted row.  A redrive of the Slack
  dead-letter queue by hand is not modelled.  The deletion of FAQ log rows is in
  `FaqQaNotify`, because an operator may replay a record from the dead-letter queue.
- AgentKnowledge takes the clock of a sandbox as real time and starts with a new one;
  caches of different sandboxes share nothing.
- An AssumeRole promise that never settles: `RemoteClient` shows that the
  calls return; whether later calls of the same sandbox ever succeed is up to the SDK.
- What a cut between two surrogates of a Slack text leaves (its length is modelled), the optional notice of a saved
  answer (the policy of this repository switches it off), the drawing of the page.
- The shared agent cache is modelled although no entry point of this repository uses it;
  it is published and tested here.  The caches in use are those of `AgentKnowledge`.
- The durations in the shell's record, telemetry, the stub adapter (fixed data for local
  runs), the operator scripts (single sequential commands, whose effect on the tables is
  the edits of `AgentKnowledge`), and the evaluation tools (offline, no part of the
  service).

## 6. Plan

Done, in this order: the claim store and the Slack pipeline with its abstract promise;
the ingress; the capacity slots; the FAQ request; the notification of a log row; the
remote client; the named agents and the knowledge caches; the proofs listed above; the
conversation context; the shared agent cache with its abstract register; the page and
the shell with their composition; the proofs about the Slack pipeline with the refinement
of its promise, the conversation context, the shared cache, and page and shell.

Next:

1. An abstract claim (free, held until, posted) that `SlackIdempotency` implements, and
   that is the one step `Claim` of `SlackDelivery`; the same for a slot of `FaqInflight`
   and `Acquire` of `FaqRequest`.
2. The lemmas behind the liveness properties that need no ENABLED: the measures that every
   fair step decreases (receives left in a queue, deliveries left of a record).
