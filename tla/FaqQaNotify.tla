---------------------------- MODULE FaqQaNotify ----------------------------
(***************************************************************************)
(* The Slack notification of one row of the FAQ Q&A log, from the shell    *)
(* that writes the row (faq-chat/handler.ts logFaqQa, adapters/            *)
(* production.ts) to the DynamoDB Streams worker                           *)
(* (faq-qa-notify-worker/handler.ts) that delivers it when the row is an   *)
(* asynchronous one.                                                       *)
(*                                                                         *)
(* The row names its sender: `sync' rows are notified by the shell, once   *)
(* and best effort, `async' rows by the worker, which claims the row for   *)
(* 60 s, posts, and marks it sent.  Deliveries of the stream record may    *)
(* overlap (the event source is at-least-once and an operator may replay a *)
(* record), so every delivery is an owner of its own.  Each call to        *)
(* DynamoDB or Slack is a step; a sandbox clock is at most MaxSkew ticks   *)
(* from real time `now'.                                                   *)
(***************************************************************************)
EXTENDS Integers

CONSTANTS
  Delivery,         \* deliveries of the stream record, replays included
  Shell,            \* the FAQ invocation that writes the row
  NoOwner,          \* qaNotifyOwner is absent
  PutAttempts,      \* how often the SDK sends the put
  MaxDeliveries,    \* MaximumRetryAttempts + 1: deliveries before the DLQ
  LambdaTimeout,    \* Timeout of the worker function (15 s)
  CompleteReserve,  \* COMPLETE_RESERVE_MS (2 s)
  SendMax,          \* STREAM_NOTIFY_TIMEOUT_MS (10 s)
  Lease,            \* NOTIFY_LEASE_MS (60 s)
  MaxSkew,          \* how far a sandbox clock may be from real time
  MaxTime           \* bound of the model: the last tick

ASSUME NameAssumption == NoOwner \notin Delivery /\ Shell \notin Delivery

ASSUME CountAssumption == PutAttempts \in Nat \ {0} /\ MaxDeliveries \in Nat

\* NOTIFY_LEASE_MS is "longer than the entire Lambda timeout", and by enough for
\* two sandbox clocks.
ASSUME TimingAssumption ==
  /\ LambdaTimeout \in Nat /\ CompleteReserve \in Nat /\ SendMax \in Nat
  /\ Lease \in Nat /\ MaxSkew \in Nat /\ MaxTime \in Nat
  /\ LambdaTimeout + 2 * MaxSkew < Lease

VARIABLES
  now,     \* real time
  mode,    \* qaNotifyDelivery that the environment of the shell stands for
  shell,   \* where logFaqQa stands
  put,     \* attempts at the put that are still to land
  row,     \* the item of the Q&A log table
  stream,  \* what the event source mapping did with the INSERT record
  tries,   \* how often it delivered the record
  pc,      \* where each delivery stands
  start,   \* real time at which it was invoked
  seen,    \* the clock it read for its claim
  until,   \* real time at which its send is aborted
  underway, \* messages on their way to Slack, by sender
  posts     \* history: the senders whose message Slack accepted

shellVars == <<mode, shell, put>>
sourceVars == <<stream, tries>>
slackVars == <<underway, posts>>
vars == <<now, mode, shell, put, row, stream, tries, pc, start, seen, until, underway, posts>>

-----------------------------------------------------------------------------
Mode == {"disabled", "sync", "async"}
NoRow == [state |-> "none", status |-> "none", owner |-> NoOwner, lease |-> 0]
Deleted == [NoRow EXCEPT !.state = "deleted"]

Row == [state : {"none", "present", "deleted"},
        status : {"none", "sending", "sent"},
        owner : Delivery \cup {NoOwner},
        lease : Int]

Working == {"invoked", "claim", "readback", "claimed", "sending", "delivered", "release"}
Ended == {"skipped", "duplicate", "done", "released", "failed"}

TypeOK ==
  /\ now \in Nat
  /\ mode \in Mode
  /\ shell \in {"begin", "waiting", "written", "sending", "ended"}
  /\ put \in 0..PutAttempts
  /\ row \in Row
  /\ stream \in {"none", "pending", "acked", "dlq"}
  /\ tries \in 0..MaxDeliveries
  /\ pc \in [Delivery -> {"idle"} \cup Working \cup Ended]
  /\ start \in [Delivery -> Nat]
  /\ seen \in [Delivery -> Int]
  /\ until \in [Delivery -> Int]
  /\ underway \in SUBSET (Delivery \cup {Shell})
  /\ posts \in SUBSET (Delivery \cup {Shell})

Live(d) == pc[d] \in Working

\* The claim returned `claimed' and the delivery still works on it.
Holding(d) == pc[d] \in {"claimed", "sending", "delivered", "release"}

\* Past the filter of the handler.
Claiming(d) == pc[d] \in {"claim", "readback"} \/ Holding(d)

Init ==
  /\ now = 0
  /\ mode \in Mode
  /\ shell = "begin"
  /\ put = 0
  /\ row = NoRow
  /\ stream = "none"
  /\ tries = 0
  /\ pc = [d \in Delivery |-> "idle"]
  /\ start = [d \in Delivery |-> 0]
  /\ seen = [d \in Delivery |-> 0]
  /\ until = [d \in Delivery |-> 0]
  /\ underway = {} /\ posts = {}

-----------------------------------------------------------------------------
(* The shell: logFaqQa, putQaLog and notifyQaLog *)

\* logFaqQa either has no budget left for the write or starts the put.
StartPut ==
  /\ shell = "begin"
  /\ \/ shell' = "waiting" /\ put' = PutAttempts
     \/ shell' = "ended" /\ UNCHANGED put
  /\ UNCHANGED <<now, mode, row, sourceVars, pc, start, seen, until, slackVars>>

\* Mutant: the event source carries the synchronous rows.
CarriedSync(delivery) == delivery = "sync"

\* FilterCriteria of the event source: INSERT of an async row.
Carried(delivery) == delivery = "async"

Inserted == [NoRow EXCEPT !.state = "present"]

\* Mutant: the put is not conditional.
PutRowAlways == row' = Inserted /\ stream' = IF Carried(mode) THEN "pending" ELSE stream

\* The conditional put: it writes the row only where none exists.
PutRow ==
  IF row.state = "none"
    THEN row' = Inserted /\ stream' = IF Carried(mode) THEN "pending" ELSE stream
    ELSE UNCHANGED <<row, stream>>

\* logFaqQa hears of the put only while it still waits for it.
Answer(s) == shell' = IF shell = "waiting" THEN s ELSE shell

\* One attempt at the put.  A lost reply (or a request that never arrived) makes
\* the SDK send it again, and the second attempt may meet the row of the first.
PutLands ==
  /\ put > 0
  /\ \/ /\ PutRow
        /\ put' = 0
        /\ Answer(IF row.state = "none" THEN "written" ELSE "ended")
     \/ /\ PutRow \/ UNCHANGED <<row, stream>>
        /\ put' = put - 1
        /\ IF put = 1 THEN Answer("ended") ELSE UNCHANGED shell
  /\ UNCHANGED <<now, mode, tries, pc, start, seen, until, slackVars>>

\* The write budget ends first: the answer goes out, the put may still land.
PutTimesOut ==
  /\ shell = "waiting"
  /\ shell' = "ended"
  /\ UNCHANGED <<now, mode, put, row, sourceVars, pc, start, seen, until, slackVars>>

\* Mutant: notifyQaLog does not look at the flag.
ShellSendsAlways == mode # "disabled"

ShellSends == mode = "sync"

\* notifyQaLog: without budget, or when the row is not its own, it sends nothing.
NotifyQaLog ==
  /\ shell = "written"
  /\ \/ ShellSends /\ shell' = "sending"
     \/ shell' = "ended"
  /\ UNCHANGED <<now, mode, put, row, sourceVars, pc, start, seen, until, slackVars>>

\* The one synchronous post; whatever comes of it, the shell is through.
ShellPosts ==
  /\ shell = "sending"
  /\ shell' = "ended"
  /\ underway' = underway \cup {Shell} /\ UNCHANGED posts
  /\ UNCHANGED <<now, mode, put, row, sourceVars, pc, start, seen, until>>

\* TTL or an operator removes the row, long after the last attempt at the put.
DeleteRow ==
  /\ row.state = "present" /\ put = 0 /\ shell = "ended"
  /\ row' = Deleted
  /\ UNCHANGED <<now, shellVars, sourceVars, pc, start, seen, until, slackVars>>

-----------------------------------------------------------------------------
(* The event source mapping and the operator *)

Goto(d, s) == pc' = [pc EXCEPT ![d] = s]

Invoked(d) ==
  /\ pc[d] = "idle"
  /\ Goto(d, "invoked")
  /\ start' = [start EXCEPT ![d] = now]
  /\ UNCHANGED <<now, shellVars, row, stream, seen, until, slackVars>>

\* A delivery of the record; an earlier one may still run.
Deliver(d) ==
  /\ stream = "pending" /\ tries < MaxDeliveries
  /\ tries' = tries + 1
  /\ Invoked(d)

\* The operator sends a record again: one from the DLQ, or by mistake one of a
\* row that never was asynchronous.
Replay(d) ==
  /\ stream = "dlq" \/ (stream = "none" /\ row.state = "present")
  /\ UNCHANGED tries
  /\ Invoked(d)

\* The retries are used up: the record goes to the failure destination.
Discard ==
  /\ stream = "pending" /\ tries = MaxDeliveries
  /\ \A d \in Delivery : ~Live(d)
  /\ stream' = "dlq"
  /\ UNCHANGED <<now, shellVars, row, tries, pc, start, seen, until, slackVars>>

-----------------------------------------------------------------------------
(* The worker *)

\* An empty batchItemFailures acknowledges the record, anything else does not.
Finish(d, s) ==
  /\ Goto(d, s)
  /\ stream' = IF s \in {"duplicate", "done"} THEN "acked" ELSE stream
  /\ start' = [start EXCEPT ![d] = 0]
  /\ seen' = [seen EXCEPT ![d] = 0]
  /\ until' = [until EXCEPT ![d] = 0]

Fail(d) == Finish(d, "failed")

\* The handler ignores a row that is not its own, else it reads the clock.
BeginClaim(d) ==
  /\ pc[d] = "invoked"
  /\ \/ mode # "async" /\ Finish(d, "skipped")
     \/ /\ mode = "async"
        /\ \E t \in (now - MaxSkew)..(now + MaxSkew) : seen' = [seen EXCEPT ![d] = t]
        /\ Goto(d, "claim")
        /\ UNCHANGED <<stream, start, until>>
  /\ UNCHANGED <<now, shellVars, row, tries, slackVars>>

\* Mutant: a row that was sent can be claimed again.
ClaimableSent(t) ==
  /\ row.state = "present"
  /\ row.status \in {"none", "sent"} \/ (row.status = "sending" /\ row.lease <= t)

Claimable(t) ==
  /\ row.state = "present"
  /\ row.status = "none" \/ (row.status = "sending" /\ row.lease <= t)

ClaimedBy(d) ==
  [state |-> "present", status |-> "sending", owner |-> d, lease |-> seen[d] + Lease]

\* The conditional update.  When its reply is lost the SDK repeats it, meets its
\* own lease, and the delivery takes the branch of a conditional failure.
TryClaim(d) ==
  /\ pc[d] = "claim"
  /\ \/ /\ Claimable(seen[d])
        /\ row' = ClaimedBy(d)
        /\ \/ Goto(d, "claimed") /\ UNCHANGED <<stream, start, seen, until>>
           \/ Goto(d, "readback") /\ UNCHANGED <<stream, start, seen, until>>
           \/ Fail(d)
     \/ /\ ~Claimable(seen[d])
        /\ Goto(d, "readback")
        /\ UNCHANGED <<row, stream, start, seen, until>>
     \/ Fail(d) /\ UNCHANGED row
  /\ UNCHANGED <<now, shellVars, tries, slackVars>>

DeliveredRow == row.state = "present" /\ row.status = "sent"

\* The consistent read: `sent' acknowledges, `busy' and a missing row do not.
ReadBack(d) ==
  /\ pc[d] = "readback"
  /\ \/ DeliveredRow /\ Finish(d, "duplicate")
     \/ Fail(d)
  /\ UNCHANGED <<now, shellVars, row, tries, slackVars>>

\* Mutant: the time that the claim took is not deducted.
BudgetFixed(d) == SendMax

\* What the send may take: STREAM_NOTIFY_TIMEOUT_MS, or what is left of the
\* invocation without the reserve for complete().
Budget(d) ==
  LET left == start[d] + LambdaTimeout - now - CompleteReserve
  IN  IF left < SendMax THEN left ELSE SendMax

StartSend(d) ==
  /\ pc[d] = "claimed"
  /\ \/ /\ Budget(d) > 0
        /\ until' = [until EXCEPT ![d] = now + Budget(d)]
        /\ underway' = underway \cup {d}
        /\ Goto(d, "sending")
     \/ Budget(d) <= 0 /\ Goto(d, "release") /\ UNCHANGED <<until, underway>>
  /\ UNCHANGED <<now, shellVars, row, sourceVars, start, seen, posts>>

\* Slack takes a message in at once, late, when its sender has long given up, or never.
SlackAccepts(s) ==
  /\ s \in underway
  /\ underway' = underway \ {s}
  /\ posts' = posts \cup {s}
  /\ UNCHANGED <<now, shellVars, row, sourceVars, pc, start, seen, until>>

Succeeded(d) == d \in posts

\* notifyFaqQaLog returns: success only for an accepted message, any other
\* outcome (a timeout included) also after one that was accepted.
SendReturns(d) ==
  /\ pc[d] = "sending"
  /\ \/ Succeeded(d) /\ Goto(d, "delivered")
     \/ Goto(d, "release")
  /\ UNCHANGED <<now, shellVars, row, sourceVars, start, seen, until, slackVars>>

Owns(d) == row.state = "present" /\ row.status = "sending" /\ row.owner = d

SentRow == [state |-> "present", status |-> "sent", owner |-> NoOwner, lease |-> 0]

\* complete(): a repeated update whose first reply was lost fails its condition,
\* so the delivery may fail although the row says `sent'.
Complete(d) ==
  /\ pc[d] = "delivered"
  /\ \/ /\ Owns(d)
        /\ row' = SentRow
        /\ Finish(d, "done") \/ Fail(d)
     \/ Fail(d) /\ UNCHANGED row
  /\ UNCHANGED <<now, shellVars, tries, slackVars>>

ReleasedRow == [row EXCEPT !.lease = 0]

\* release() after a send that did not succeed; the delivery fails either way.
Release(d) ==
  /\ pc[d] = "release"
  /\ \/ /\ Owns(d)
        /\ row' = ReleasedRow
        /\ Finish(d, "released") \/ Fail(d)
     \/ Fail(d) /\ UNCHANGED row
  /\ UNCHANGED <<now, shellVars, tries, slackVars>>

\* A crash of the sandbox, or Lambda stopping it at its timeout.
Stop(d) ==
  /\ Live(d)
  /\ Fail(d)
  /\ UNCHANGED <<now, shellVars, row, tries, slackVars>>

-----------------------------------------------------------------------------
\* No delivery outlives the Lambda timeout and no send its budget.
Tick ==
  /\ now < MaxTime
  /\ \A d \in Delivery : Live(d) => now < start[d] + LambdaTimeout
  /\ \A d \in Delivery : pc[d] = "sending" => now < until[d]
  /\ now' = now + 1
  /\ UNCHANGED <<shellVars, row, sourceVars, pc, start, seen, until, slackVars>>

ShellStep ==
  \/ StartPut \/ PutLands \/ PutTimesOut \/ NotifyQaLog \/ ShellPosts

Work(d) ==
  \/ BeginClaim(d) \/ TryClaim(d) \/ ReadBack(d) \/ StartSend(d)
  \/ SendReturns(d) \/ Complete(d) \/ Release(d)

Next ==
  \/ Tick \/ ShellStep \/ DeleteRow \/ Discard
  \/ \E d \in Delivery :
       Deliver(d) \/ Replay(d) \/ Work(d) \/ Stop(d)
  \/ \E s \in Delivery \cup {Shell} : SlackAccepts(s)

Spec == Init /\ [][Next]_vars

\* The event source delivers a pending record until it is acknowledged or given
\* up, an invocation ends, and the SDK ends its attempts.  Slack, DynamoDB, the
\* operator and time promise nothing.
FairSpec ==
  /\ Spec
  /\ WF_vars(PutLands)
  /\ WF_vars(Discard)
  /\ \A d \in Delivery : WF_vars(Deliver(d)) /\ WF_vars(Work(d))

-----------------------------------------------------------------------------
(* Properties *)

\* NOTIFY_LEASE_MS: "a crashed owner becomes retryable without overlapping a
\* still-running sender".  No two deliveries work on a claim of the row at once.
ExclusiveSender ==
  \A d, e \in Delivery : Holding(d) /\ Holding(e) => d = e

\* qaNotifyDelivery: one side only sends a row, whatever lands late, is replayed
\* or redeployed: where the shell has sent a message no delivery sends one, and conversely.
OneSideSends == Shell \in underway \cup posts => underway \cup posts = {Shell}

\* A row has one sender at a time, whoever of shell, deliveries and replays it is.
OneSender == ExclusiveSender /\ OneSideSends

\* Slack sees a row twice only when a delivery that had posted it ended without
\* recording it (a crash, an ambiguous send, a complete() that failed).
DuplicateNeedsAFailure ==
  \A d, e \in posts \ {Shell} : d # e =>
    \E x \in {d, e} : pc[x] \in {"release", "released", "failed"}

\* The worker acknowledges a record only when Slack has the message; never for a
\* row that is busy, missing or was not sent.
AckMeansPosted == stream = "acked" => posts # {}

\* What Slack got is accounted for: at least one message behind an acknowledged record,
\* a second one only behind a failure.
MessagesAreAccountedFor == AckMeansPosted /\ DuplicateNeedsAFailure

\* `sent' is final: nothing but its deletion changes the row (a repeated put least
\* of all), and no message is sent any more; one that is under way may arrive. A deleted row is final, too: no write
\* of the shell or the worker brings it back, not even as a partial item.
FinalRowsStay ==
  [][/\ row.status = "sent" => row' \in {row, Deleted} /\ underway' \subseteq underway
     /\ row.state = "deleted" => row' = row]_vars

\* A send that succeeds leaves complete() the time reserved for it, however long
\* the claim took.
CompletionHasItsTime ==
  [][\A d \in Delivery : pc[d] = "sending" /\ pc'[d] = "delivered" =>
       now + CompleteReserve <= start[d] + LambdaTimeout]_vars

\* Every asynchronous row that was written, also by a put that landed after the
\* answer, ends as acknowledged or in the dead-letter queue.
AsyncRowIsSettled ==
  (row.state = "present" /\ mode = "async") ~> (stream \in {"acked", "dlq"})

-----------------------------------------------------------------------------
(* The inductive invariant behind the safety properties *)

ClockInv ==
  \A d \in Delivery : Live(d) =>
    /\ start[d] <= now /\ now <= start[d] + LambdaTimeout
    /\ pc[d] # "invoked" => start[d] - MaxSkew <= seen[d] /\ seen[d] <= now + MaxSkew

\* Until somebody deletes the row, a working delivery finds its own claim in it.
HolderInv ==
  \A d \in Delivery : Holding(d) =>
    /\ row.state # "none" /\ row.status # "sent"
    /\ row.state = "present" =>
         /\ row.status = "sending" /\ row.owner = d
         /\ start[d] - MaxSkew + Lease <= row.lease

RowInv ==
  /\ row.state = "none" => row = NoRow
  /\ row.state = "deleted" => row = Deleted
  /\ row.status = "sent" => posts # {}
  /\ row.state = "deleted" => put = 0 /\ shell = "ended"

\* A send is aborted in time for complete(), and until then it may return.
SendInv ==
  \A d \in Delivery : pc[d] = "sending" =>
    now <= until[d] /\ until[d] + CompleteReserve <= start[d] + LambdaTimeout

\* A delivery that gave its claim back left the row free for the next one.
ReleasedIsRetryable ==
  \A d \in Delivery : pc[d] = "released" /\ row.owner = d => row.lease = 0

SideInv ==
  /\ shell \in {"begin", "written", "sending"} => put = 0
  /\ shell = "sending" => mode = "sync"
  /\ Shell \in underway \cup posts => mode = "sync"
  /\ row.status # "none" => mode = "async"
  /\ \A d \in Delivery : Claiming(d) \/ d \in underway \cup posts => mode = "async"

HistoryInv ==
  /\ \A d \in (underway \cup posts) \ {Shell} :
       pc[d] \in {"sending", "delivered", "done", "release", "released", "failed"}
  /\ \A d \in Delivery : pc[d] \in {"delivered", "done"} => d \in posts
  /\ \A d \in Delivery : pc[d] = "done" => row.status = "sent" \/ row.state = "deleted"
  /\ \A d, e \in Delivery : pc[d] = "done" /\ (pc[e] = "done" \/ Holding(e)) => d = e

IInv ==
  /\ TypeOK /\ ClockInv /\ HolderInv /\ RowInv /\ SideInv /\ HistoryInv
  /\ ExclusiveSender /\ AckMeansPosted /\ ReleasedIsRetryable /\ SendInv
=============================================================================
