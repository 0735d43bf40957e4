------------------------------ MODULE ChatSession ------------------------------
(***************************************************************************)
(* The chat page and the shell that serves it: tabs that ask, give up,     *)
(* clear and are closed, and a sandbox that answers, fails, breaks off and *)
(* is ended, joined by the requests on the wire.                           *)
(***************************************************************************)
EXTENDS ChatUi, FaqShell

CONSTANT MaxMixed  \* bound: questions in a behaviour with a followed invocation

sessionVars == <<uiVars, shellVars, wire>>

SessionInit == UiInit /\ ShellInit

SessionNext ==
  /\ \/ UiNext /\ UNCHANGED shellVars
     \/ ShellNext /\ UNCHANGED uiVars
  /\ timing'.started => asked' <= MaxMixed

SessionSpec == SessionInit /\ [][SessionNext]_sessionVars

\* Of the sandbox nothing is assumed: the page does not depend on it.
SessionFairSpec == SessionSpec /\ UiFairness

-----------------------------------------------------------------------------
(* Properties *)

\* An answer stands behind its question; at the head of a history it may stand alone
\* when older messages have been cut off.
Conversation(messages) ==
  \A i \in 1..Len(messages) : messages[i].role = "assistant" =>
    /\ messages[i].q \in served
    /\ IF i = 1 THEN Len(messages) >= MaxStored ELSE messages[i - 1] = User(messages[i].q)

\* What a tab shows or the browser keeps is a conversation that took place: each answer
\* is the server's answer to the question before it, whatever broke off, came late, was
\* cleared, saved in part or taken over from another tab; and `answering' is on the page
\* exactly while the page is busy.
HistoriesAreConversations ==
  /\ \A t \in open : Conversation(history[t])
  /\ store.kind = "present" => Conversation(store.messages)
  /\ typing = busy

Kept ==
  {m.q : m \in UNION {ToSet(history[t]) : t \in Tab}}
    \cup (IF store.kind = "present" THEN {m.q : m \in ToSet(store.messages)} ELSE {})

\* What has been cleared, with no other tab open to remember it and no failure of the store
\* to remove it, is seen no more: no answer under way and no later tab brings it back.
ClearedStaysCleared == forgotten \cap Kept = {}

\* A page does not stay busy, although the server may never answer.
BusyEnds == \A t \in CanAbort : t \in busy ~> t \notin busy

\* The page, the settings, the handler and the remote contract each limit lengths and counts
\* on their own. A request of the page is refused exactly if it repeats a question that is
\* longer than the settings allow, so a refused question does no harm once it has left the
\* last MaxContext ones; what is accepted asks the question the page shows last, and what
\* the handler sends on is valid remote-v1.
OwnRequestsAreAccepted ==
  \A t \in Tab : wire[t].state = "sent" =>
    LET messages == wire[t].messages IN
    /\ Acceptable(messages) <=>
         \A i \in 1..Len(messages) : QuestionChars(messages[i].q) <= MaxChars
    /\ Acceptable(messages) =>
         CurrentQuestion(messages) = Last(history[t]) /\ AnswerRequestIsValid(messages)

\* The record of an invocation is the one its callers saw: how the handler's wait for
\* the notification ended, or what the adapter said while it waited; its totals are the
\* sums of its events; and what is still running when it is written changes nothing.
RecordIsTheInvocations ==
  record.written =>
    /\ record = Written(timing)
    /\ record.outcome =
         CASE notify.caller = "none"     -> "skipped"
           [] notify.caller = "timedOut" -> "timeout"
           [] notify.caller = "rejected" -> "failure"
           [] OTHER -> IF notify.last = "none" THEN "success" ELSE notify.last
    /\ record.waited = record.events
    /\ record.events = (IF resolved <= MaxEvents THEN resolved ELSE MaxEvents)
-----------------------------------------------------------------------------
(* The inductive invariant behind the four invariants                     *)

StoreOK ==
  store \in {Nothing} \cup [kind : {"present"}, savedAt : 0..MaxDay, messages : Seq(Message)]

\* A page that is closed has forgotten its history.
ClosedInv == \A t \in Tab \ open : history[t] = <<>>

\* A page is busy as long as its request is on the wire: the request asks the last
\* question of the history, and a response that will be shown answers that question.
WireInv ==
  /\ wire = [t \in Tab |-> wire[t]]
  /\ \A t \in Tab \ busy : wire[t] = NotSent
  /\ \A t \in busy :
       /\ history[t] # <<>> /\ Last(history[t]).role = "user"
       /\ \/ wire[t] = Sent(BuildRequest(history[t]))
          \/ /\ wire[t].state = "replied"
             /\ Shows(wire[t]) =>
                  wire[t].body.q \in served /\ wire[t].body.q = Last(history[t]).q

\* Only questions that were asked are forgotten.
ForgottenInv == forgotten \subseteq 1..asked

PageInv ==
  /\ UiTypeOK /\ StoreOK /\ ClosedInv /\ WireInv /\ ForgottenInv
  /\ HistoriesAreConversations /\ ClearedStaysCleared

\* An invocation under way is of a tab, or it is the one that is followed; whose marks
\* count exactly as long as it runs.
JobInv ==
  /\ job # NoJob => job.from \in Tab \cup {NoTab} /\ job.messages \in Seq(Message)
  /\ Followed => timing.started
  /\ timing.started => (timing.active <=> Followed)

\* While the handler waits, what the adapter said last; then how the wait has ended; and
\* `disabled' where there is no adapter.
OutcomeInv ==
  /\ timing.finalized <=> notify.caller \in {"timedOut", "rejected", "fulfilled"}
  /\ timing.observed <=> notify.last # "none"
  /\ timing.outcome =
       CASE notify.caller = "none"     -> "skipped"
         [] notify.caller = "timedOut" -> "timeout"
         [] notify.caller = "rejected" -> "failure"
         [] OTHER -> IF notify.last # "none" THEN notify.last
                     ELSE IF notify.caller = "waits" THEN "skipped" ELSE "success"

NotifyInv ==
  /\ notify.caller = "none" => notify = NoNotify
  /\ notify.caller = "waits" /\ notify.adapter = "running" => Followed
  /\ notify.caller = "disabled" => notify.adapter = "none"
  /\ ~timing.started => notify = NoNotify /\ resolved = 0 /\ timing = NotStarted /\ record = NoRecord

RecordInv ==
  /\ timing.started =>
       /\ OutcomeInv
       /\ timing.waited = timing.events
       /\ timing.events = (IF resolved <= MaxEvents THEN resolved ELSE MaxEvents)
  /\ record.written =>
       record = Written(timing) /\ timing.started /\ ~timing.active /\ notify.caller # "waits"

TimingOK ==
  \/ timing = NotStarted
  \/ timing \in [started : {TRUE}, active : BOOLEAN,
                 outcome : {"skipped", "disabled", "success", "failure", "timeout"},
                 observed : BOOLEAN, finalized : BOOLEAN, events : Nat, waited : Nat]

ShellInv == ShellTypeOK /\ TimingOK /\ JobInv /\ NotifyInv /\ RecordInv

SessionIInv == PageInv /\ ShellInv
=============================================================================
