------------------------------- MODULE FaqShell -------------------------------
(***************************************************************************)
(* The shell around the FAQ handler in one Lambda sandbox: the buffered    *)
(* and the streaming entry (bootstrap.ts, rest-event.ts, createFaqHandler) *)
(* and the record of an invocation (shell-timing.ts).                      *)
(*                                                                         *)
(* What happens inside the handler is in FaqRequest; here it is an outcome *)
(* and the marks that it, its credentials and its notification adapter put *)
(* on the record.  The record of one request, not of a tab, is followed;   *)
(* later invocations run beside what that one left behind.                 *)
(***************************************************************************)
EXTENDS ChatApi

CONSTANTS
  NoTab,      \* the sender of a request that is not of a tab
  MaxEvents,  \* credential events a record holds
  MaxMarks,   \* bound: credential resolutions of an invocation
  RoutesEnabled  \* FAQ_HTTP_API_FAQ_ROUTES_ENABLED is not `false'

ASSUME ShellAssumption ==
  /\ NoTab \notin Tab
  /\ MaxEvents \in Nat \ {0} /\ MaxMarks \in Nat
  /\ RoutesEnabled \in BOOLEAN

VARIABLES
  job,        \* the invocation under way
  served,     \* history: questions that the handler has answered with a 200
  timing,     \* TimingState of the invocation that is followed
  record,     \* its line in the log
  notify,     \* its notification: what the handler and the adapter still do
  resolved    \* history: its credential resolutions

shellVars == <<job, served, timing, record, notify, resolved>>

Entrance == {"http-api", "rest-stream"}

\* A gateway event: fit to be served on the default or a named route, or not.
Kind == {"default", "named", "withoutAgentId", "malformed", "base64"}

NoJob == [running |-> FALSE]
Job(from, entrance, messages) ==
  [running |-> TRUE, from |-> from, entrance |-> entrance, messages |-> messages]

\* What a notification adapter reports; its `timeout' and `disabled' are treated alike.
Outcome == {"success", "failure"}

NotStarted == [started |-> FALSE]
Started == [started |-> TRUE, active |-> TRUE, outcome |-> "skipped", observed |-> FALSE,
            finalized |-> FALSE, events |-> 0, waited |-> 0]

NoRecord == [written |-> FALSE]
Written(s) == [written |-> TRUE, outcome |-> s.outcome, events |-> s.events, waited |-> s.waited]

\* caller: whether the handler waits for the notification, or how its wait has ended;
\* last: what was reported until then.
NoNotify == [caller |-> "none", adapter |-> "none", last |-> "none"]

ShellTypeOK ==
  /\ job = NoJob \/ job.from \in Tab \cup {NoTab}
  /\ served \subseteq Question
  /\ notify \in [caller  : {"none", "disabled", "waits", "fulfilled", "rejected", "timedOut"},
                 adapter : {"none", "running", "ended"},
                 last    : {"none", "disabled"} \cup Outcome]
  /\ resolved \in 0..MaxMarks

ShellInit ==
  /\ job = NoJob /\ served = {}
  /\ timing = NotStarted /\ record = NoRecord /\ notify = NoNotify /\ resolved = 0

-----------------------------------------------------------------------------
(* The record *)

Followed == job # NoJob /\ job.from = NoTab

\* A 410 before anything else is done.
Retired == job.entrance = "http-api" /\ ~RoutesEnabled

\* activeState(): only marks of a running invocation count.
Mark(state) == timing' = IF timing.active THEN state ELSE timing

\* Mutant: the adapter has the last word.
ObserveAlways(outcome) == Mark([timing EXCEPT !.outcome = outcome, !.observed = TRUE])

\* recordFaqQaNotifyOutcome
Observe(outcome) ==
  Mark(IF timing.finalized THEN timing
       ELSE [timing EXCEPT !.outcome = outcome, !.observed = TRUE])

\* finalizeFaqQaNotifyOutcome: the caller's timeout or failure wins, its success only
\* speaks when the adapter has not.
Finalize(outcome) ==
  Mark(IF outcome # "success" \/ ~timing.observed
       THEN [timing EXCEPT !.outcome = outcome, !.finalized = TRUE]
       ELSE [timing EXCEPT !.finalized = TRUE])

\* recordFaqCredentialTiming; every resolution waits for one unit.
ResolveCredentials ==
  /\ Followed /\ ~Retired /\ resolved < MaxMarks /\ notify.caller = "none"
  /\ resolved' = resolved + 1
  /\ Mark(IF timing.events >= MaxEvents THEN timing
          ELSE [timing EXCEPT !.events = @ + 1, !.waited = @ + 1])
  /\ UNCHANGED <<job, served, record, notify, wire>>

\* logFaqQa: the notification is sent and waited for.
StartNotify ==
  /\ Followed /\ ~Retired /\ notify.caller = "none"
  /\ notify' = [caller |-> "waits", adapter |-> "running", last |-> "none"]
  /\ UNCHANGED <<job, served, timing, record, resolved, wire>>

\* logFaqQa: the storage port has no adapter; the deployed ones have.
NotifyDisabled ==
  /\ Followed /\ ~Retired /\ notify.caller = "none"
  /\ notify' = [caller |-> "disabled", adapter |-> "none", last |-> "disabled"]
  /\ Observe("disabled")
  /\ UNCHANGED <<job, served, record, resolved, wire>>

\* The adapter has something to report, in time or while a later invocation runs.
AdapterReports(outcome) ==
  /\ job # NoJob /\ notify.adapter = "running"
  /\ notify' = [notify EXCEPT !.last = IF notify.caller = "waits" THEN outcome ELSE @]
  /\ Observe(outcome)
  /\ UNCHANGED <<job, served, record, resolved, wire>>

\* The adapter's promise settles; the handler goes on if it still waits.
AdapterEnds(fulfilled) ==
  /\ job # NoJob /\ notify.adapter = "running"
  /\ IF notify.caller = "waits"
     THEN /\ Finalize(IF fulfilled THEN "success" ELSE "failure")
          /\ notify' = [notify EXCEPT !.adapter = "ended",
                          !.caller = IF fulfilled THEN "fulfilled" ELSE "rejected"]
     ELSE /\ notify' = [notify EXCEPT !.adapter = "ended"]
          /\ UNCHANGED timing
  /\ UNCHANGED <<job, served, record, resolved, wire>>

NotifyTimesOut ==
  /\ Followed /\ notify.caller = "waits"
  /\ Finalize("timeout")
  /\ notify' = [notify EXCEPT !.caller = "timedOut"]
  /\ UNCHANGED <<job, served, record, resolved, wire>>

\* The finally block of runFaqShellTiming.
WriteRecord ==
  IF job.from = NoTab
  THEN /\ timing' = [timing EXCEPT !.active = FALSE]
       /\ record' = Written(timing)
  ELSE UNCHANGED <<timing, record>>

-----------------------------------------------------------------------------
(* The entries.  Conversion and the start of the handler are one turn, and  *)
(* so are the end of the handler and everything that is sent.               *)

EnterFromTab(t) ==
  /\ job = NoJob /\ wire[t].state = "sent"
  /\ \E entrance \in Entrance : job' = Job(t, entrance, wire[t].messages)
  /\ UNCHANGED <<served, timing, record, notify, resolved, wire>>

\* toFaqHttpApiEvent: what does not convert is a 400 without an invocation of the
\* handler; a named route that has lost its agent is not served as the default one.
Convertible(kind) == kind \in {"default", "named"}

EnterFromElsewhere ==
  /\ job = NoJob /\ timing = NotStarted
  /\ \E kind \in Kind, entrance \in Entrance :
       /\ entrance = "rest-stream" => Convertible(kind)
       /\ job' = Job(NoTab, entrance, <<User(1)>>)
  /\ timing' = Started
  /\ UNCHANGED <<served, record, notify, resolved, wire>>

Response(status, body) == [status |-> status, body |-> body]

\* What the handler may come back with; a 500 and what replaces an exception hold the
\* technical text, which is an `answer', too.
Responses ==
  IF Retired THEN {Response(410, ErrorBody)}
  ELSE IF ~Acceptable(job.messages) THEN {Response(400, ErrorBody)}
  ELSE {Response(200, Answered(CurrentQuestion(job.messages).q)),
        Response(429, ErrorBody), Response(503, ErrorBody),
        Response(500, Answered(CurrentQuestion(job.messages).q))}

\* Sending a stream may fail: without HttpResponseStream.from it ends empty, which is a
\* 200; without a whole body it is no JSON.
Sendings(response) ==
  IF job.entrance = "http-api" THEN {response}
  ELSE {response, [response EXCEPT !.body = Garbage], Response(200, Garbage)}

\* The tab gets it, unless it has given up the request meanwhile.
Deliver(response) ==
  wire' = IF job.from # NoTab /\ wire[job.from] = Sent(job.messages)
          THEN [wire EXCEPT ![job.from] = Replied(response.status, response.body)]
          ELSE wire

HandlerEnds ==
  /\ job # NoJob
  /\ Followed => notify.caller # "waits"
  /\ \E response \in Responses :
       /\ \E sent \in Sendings(response) : Deliver(sent)
       /\ served' = IF response.status = 200 /\ job.from # NoTab
                    THEN served \cup {response.body.q} ELSE served
  /\ job' = NoJob
  /\ WriteRecord
  /\ UNCHANGED <<notify, resolved>>

\* Lambda ends the sandbox: an error of the gateway.
Killed ==
  /\ job # NoJob
  /\ Deliver(Response(504, ErrorBody))
  /\ job' = NoJob
  /\ notify' = [notify EXCEPT !.adapter = IF @ = "running" THEN "ended" ELSE @]
  /\ timing' = IF timing.started THEN [timing EXCEPT !.active = FALSE] ELSE timing
  /\ UNCHANGED <<served, record, resolved>>

ShellNext ==
  \/ \E t \in Tab : EnterFromTab(t)
  \/ EnterFromElsewhere
  \/ HandlerEnds
  \/ ResolveCredentials \/ StartNotify \/ NotifyDisabled \/ NotifyTimesOut
  \/ \E outcome \in Outcome : AdapterReports(outcome)
  \/ \E fulfilled \in BOOLEAN : AdapterEnds(fulfilled)
  \/ Killed
=============================================================================
