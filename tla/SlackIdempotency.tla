-------------------------- MODULE SlackIdempotency --------------------------
(***************************************************************************)
(* The claim protocol of shared/public/slack-idempotency.ts for one Slack  *)
(* event, i.e. one row of the idempotency table.  Every invocation of the  *)
(* worker Lambda that receives a copy of the event is an owner of its own  *)
(* (`awsRequestId:messageId`).  The three DynamoDB calls of claim() are    *)
(* three steps, so owners interleave inside it; nothing here relies on the *)
(* FIFO queue to keep two invocations apart.                               *)
(*                                                                         *)
(* Time is counted in abstract ticks.  A Lambda sandbox reads its own      *)
(* clock, at most MaxSkew ticks away from real time `now'.                 *)
(***************************************************************************)
EXTENDS Integers

CONSTANTS
  Owner,          \* invocations that receive a copy of the event
  NoOwner,        \* processingOwner is absent from the row
  LambdaTimeout,  \* Timeout of the worker function (60 s)
  Lease,          \* PROCESSING_LEASE_SECONDS (90 s)
  MaxSkew,        \* how far a sandbox clock may be from real time
  MaxTime         \* bound of the model: the last tick

ASSUME OwnerAssumption == NoOwner \notin Owner

\* The comment at PROCESSING_LEASE_SECONDS asks for a lease longer than the Lambda
\* timeout; what it is longer by (30 s) absorbs the skew of two sandbox clocks.
ASSUME TimingAssumption ==
  /\ LambdaTimeout \in Nat /\ Lease \in Nat /\ MaxSkew \in Nat /\ MaxTime \in Nat
  /\ LambdaTimeout + 2 * MaxSkew <= Lease

VARIABLES
  now,     \* real time
  row,     \* the item of the idempotency table
  pc,      \* where each invocation stands
  start,   \* real time at which it was invoked
  seen,    \* the `now' that claim() read once, on the invocation's clock
  posts    \* history: invocations whose answer Slack accepted

vars == <<now, row, pc, start, seen, posts>>

-----------------------------------------------------------------------------
Absent == [state |-> "absent", owner |-> NoOwner, lease |-> 0]

Row == [state : {"absent", "received", "processing", "posted"},
        owner : Owner \cup {NoOwner},
        lease : Int]

Ended == {"acked", "busy", "done", "failed"}
Working == {"started", "put", "update", "readback", "claimed", "answered"}

TypeOK ==
  /\ now \in Nat
  /\ row \in Row
  /\ pc \in [Owner -> {"idle"} \cup Working \cup Ended]
  /\ start \in [Owner -> Nat]
  /\ seen \in [Owner -> Int]
  /\ posts \in SUBSET Owner

Live(o) == pc[o] \in Working

\* The invocation came back from claim() with 'claimed' and still works on it.
Holding(o) == pc[o] \in {"claimed", "answered"}

Init ==
  /\ now = 0
  /\ row = Absent
  /\ pc = [o \in Owner |-> "idle"]
  /\ start = [o \in Owner |-> 0]
  /\ seen = [o \in Owner |-> 0]
  /\ posts = {}

Goto(o, p) == pc' = [pc EXCEPT ![o] = p]

-----------------------------------------------------------------------------
Invoke(o) ==
  /\ pc[o] = "idle"
  /\ Goto(o, "started")
  /\ start' = [start EXCEPT ![o] = now]
  /\ UNCHANGED <<now, row, seen, posts>>

\* claim() reads the clock once; every condition below compares with it.
BeginClaim(o) ==
  /\ pc[o] = "started"
  /\ \E t \in (now - MaxSkew)..(now + MaxSkew) : seen' = [seen EXCEPT ![o] = t]
  /\ Goto(o, "put")
  /\ UNCHANGED <<now, row, start, posts>>

\* Put `received' iff the row does not exist.  A conditional failure is ignored,
\* any other error leaves claim(), whether or not the write was applied.
PutReceived(o) ==
  /\ pc[o] = "put"
  /\ \/ /\ row' = IF row.state = "absent" THEN [row EXCEPT !.state = "received"] ELSE row
        /\ pc' \in {[pc EXCEPT ![o] = p] : p \in {"update", "failed"}}
     \/ Goto(o, "failed") /\ UNCHANGED row
  /\ UNCHANGED <<now, start, seen, posts>>

\* Mutants: the expiry is not compared; the state is not.
LeaseFreeUnexpired(t) == row.state \in {"received", "processing"}
LeaseFreeEvenPosted(t) == row.state \in {"received", "posted"} \/ row.lease < t

LeaseFree(t) ==
  \/ row.state = "received"
  \/ row.state = "processing" /\ row.lease < t

LeasedBy(o) == [state |-> "processing", owner |-> o, lease |-> seen[o] + Lease]

\* The conditional Update.  When its reply is lost the SDK sends it again and
\* meets its own lease: the caller then takes the conditional-failure branch.
TryLease(o) ==
  /\ pc[o] = "update"
  /\ \/ /\ LeaseFree(seen[o])
        /\ row' = LeasedBy(o)
        /\ pc' \in {[pc EXCEPT ![o] = p] : p \in {"claimed", "readback", "failed"}}
     \/ /\ ~LeaseFree(seen[o])
        /\ Goto(o, "readback") /\ UNCHANGED row
     \/ Goto(o, "failed") /\ UNCHANGED row
  /\ UNCHANGED <<now, start, seen, posts>>

\* The consistent Get that tells a finished event from one being processed.
ReadBack(o) ==
  /\ pc[o] = "readback"
  /\ \/ row.state = "posted" /\ Goto(o, "acked")
     \/ row.state \in {"received", "processing"} /\ Goto(o, "busy")
     \/ Goto(o, "failed")
  /\ UNCHANGED <<now, row, start, seen, posts>>

\* Everything between 'claimed' and the reply of chat.postMessage.  Slack may
\* have accepted an answer whose reply the invocation never sees.
PostAnswer(o) ==
  /\ pc[o] = "claimed"
  /\ \/ /\ posts' = posts \cup {o}
        /\ pc' \in {[pc EXCEPT ![o] = p] : p \in {"answered", "failed"}}
     \/ Goto(o, "failed") /\ UNCHANGED posts
  /\ UNCHANGED <<now, row, start, seen>>

PostedRow == [state |-> "posted", owner |-> NoOwner, lease |-> 0]

\* The owner-fenced Update that ends the protocol.
MarkPosted(o) ==
  /\ pc[o] = "answered"
  /\ \/ /\ row.state = "processing" /\ row.owner = o
        /\ row' = PostedRow
        /\ pc' \in {[pc EXCEPT ![o] = p] : p \in {"done", "failed"}}
     \/ Goto(o, "failed") /\ UNCHANGED row
  /\ UNCHANGED <<now, start, seen, posts>>

\* A crash of the sandbox, or Lambda stopping it at its timeout.
Stop(o) ==
  /\ Live(o)
  /\ Goto(o, "failed")
  /\ UNCHANGED <<now, row, start, seen, posts>>

\* Lambda lets no invocation live longer than its timeout.
Tick ==
  /\ now < MaxTime
  /\ \A o \in Owner : Live(o) => now < start[o] + LambdaTimeout
  /\ now' = now + 1
  /\ UNCHANGED <<row, pc, start, seen, posts>>

Step(o) ==
  \/ Invoke(o) \/ BeginClaim(o) \/ PutReceived(o) \/ TryLease(o)
  \/ ReadBack(o) \/ PostAnswer(o) \/ MarkPosted(o) \/ Stop(o)

Next == Tick \/ \E o \in Owner : Step(o)

Spec == Init /\ [][Next]_vars

-----------------------------------------------------------------------------
(* Properties *)

\* Two invocations never both believe they may answer the event
\* (slack-idempotency.ts, "prevent concurrent reprocessing of the same event").
ExclusiveHolder ==
  \A o, p \in Owner : Holding(o) /\ Holding(p) => o = p

\* Two answers to one event only if one of the invocations that sent them ended
\* without recording it (crash, lost reply, markPosted failure).
DuplicateNeedsAFailure ==
  \A o, p \in posts : o # p => pc[o] = "failed" \/ pc[p] = "failed"

\* The row says `posted' only when an answer reached Slack.
PostedMeansAnswered == row.state = "posted" => posts # {}

\* claim() falls back to reading the row only once the row has been leased: the
\* answers "record disappeared" and "busy because received" never occur.
ReadBackFindsALease ==
  \A o \in Owner : pc[o] = "readback" => row.state \in {"processing", "posted"}

\* Once the row is `posted' it stays so and nobody posts another answer, not even
\* an invocation that had claimed the event before.
NoAnswerAfterPosted ==
  [][row.state = "posted" => row' = row /\ posts' = posts]_vars

-----------------------------------------------------------------------------
(* The inductive invariant behind the properties *)

ClockInv ==
  \A o \in Owner : Live(o) =>
    /\ start[o] <= now /\ now <= start[o] + LambdaTimeout
    /\ pc[o] # "started" => start[o] - MaxSkew <= seen[o] /\ seen[o] <= now + MaxSkew

HolderInv ==
  \A o \in Owner : Holding(o) =>
    /\ row.state = "processing" /\ row.owner = o
    /\ start[o] - MaxSkew + Lease <= row.lease

ProgressInv ==
  /\ \A o \in Owner : pc[o] = "update" => row.state # "absent"
  /\ ReadBackFindsALease
  /\ \A o \in Owner : pc[o] = "done" => row.state = "posted"

HistoryInv ==
  /\ \A o \in posts : pc[o] \in {"answered", "done", "failed"}
  /\ \A o \in Owner : pc[o] \in {"answered", "done"} => o \in posts
  /\ \A o, p \in Owner : pc[o] = "done" /\ pc[p] = "done" => o = p
  /\ PostedMeansAnswered

IInv == TypeOK /\ ClockInv /\ HolderInv /\ ProgressInv /\ HistoryInv

=============================================================================
