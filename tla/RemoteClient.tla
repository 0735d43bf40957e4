---------------------------- MODULE RemoteClient ----------------------------
(***************************************************************************)
(* The HTTP client of the managed FAQ service (adapters/remote/            *)
(* http-client.ts): calls of retrieve, generate or answer that share one   *)
(* provider of assumed-role credentials.  A call has one deadline; it may  *)
(* retry only a retrieve, and its timer stops the waiting for credentials, *)
(* signing, headers and body, but neither the pause between two attempts   *)
(* nor the AssumeRole refresh, which other calls may share.                *)
(*                                                                         *)
(* Time is counted in ticks.  The event loop is taken to be punctual: a    *)
(* timer that is due fires before time moves on.                           *)
(***************************************************************************)
EXTENDS Integers

CONSTANTS
  Call,        \* calls made on one client
  Op,          \* what they may be: retrieve and generate share a client, answer has its own
  Budget,      \* remainingMs of a request
  Margin,      \* abortSafetyMarginMs
  MaxRetries,  \* retrieveMaxRetries
  Pause,       \* backoff plus jitter between two attempts
  RetryAfter,  \* retryAfterMs of a quota_exceeded reply
  Window,      \* credentialRefreshWindowMs
  Duration,    \* what STS grants from the moment it answers
  MaxTime      \* bound of the model: the last tick

ASSUME OpAssumption == Op \subseteq {"retrieve", "generate", "answer"}

ASSUME TimeAssumption ==
  /\ Budget \subseteq Nat /\ Pause \subseteq Nat /\ RetryAfter \subseteq Nat
  /\ Margin \in Nat /\ MaxRetries \in Nat /\ Window \in Nat /\ Duration \in Nat
  /\ MaxTime \in Nat

\* remainingMs is at most REMOTE_V1_LIMITS.remainingMs, which is the refresh window.
ASSUME WindowAssumption == \A b \in Budget : b <= Window

VARIABLES
  now,       \* the clock of the sandbox
  cached,    \* expiry of the cached session, 0: none
  inFlight,  \* the provider remembers a refresh
  flights,   \* history: AssumeRole calls that run
  pc,        \* where each call stands
  op,        \* what it is
  deadline,  \* deadlineAt
  attempt,   \* the attempt it is at, from 0
  wake,      \* end of the pause before the next attempt
  cred,      \* expiry of the credentials it signs with
  from,      \* history: where these came from
  sends      \* history: requests it sent

credVars == <<cached, inFlight, flights>>
callVars == <<pc, op, deadline, attempt, wake, cred, from, sends>>
vars == <<now, credVars, callVars>>

-----------------------------------------------------------------------------
TypeOK ==
  /\ now \in Nat
  /\ cached \in Int
  /\ inFlight \in BOOLEAN
  /\ flights \in Nat
  /\ pc \in [Call -> {"idle", "attempt", "credentials", "sign", "http", "pause", "returned"}]
  /\ op \in [Call -> Op \cup {"none"}]
  /\ deadline \in [Call -> Nat]
  /\ attempt \in [Call -> 0..MaxRetries]
  /\ wake \in [Call -> Nat]
  /\ cred \in [Call -> Int]
  /\ from \in [Call -> {"none", "hit", "refresh", "fallback"}]
  /\ sends \in [Call -> Nat]

Live(c) == pc[c] \notin {"idle", "returned"}

\* What the abort signal of an attempt interrupts.
Abortable(c) == pc[c] \in {"credentials", "sign", "http"}

\* deadline_exceeded is what any failure is called from here on.
Late(c) == now + Margin >= deadline[c]

Init ==
  /\ now = 0
  /\ cached = 0
  /\ inFlight = FALSE
  /\ flights = 0
  /\ pc = [c \in Call |-> "idle"]
  /\ op = [c \in Call |-> "none"]
  /\ deadline = [c \in Call |-> 0]
  /\ attempt = [c \in Call |-> 0]
  /\ wake = [c \in Call |-> 0]
  /\ cred = [c \in Call |-> 0]
  /\ from = [c \in Call |-> "none"]
  /\ sends = [c \in Call |-> 0]

-----------------------------------------------------------------------------
Goto(c, s) == pc' = [pc EXCEPT ![c] = s]

\* No late event resumes a call that has returned, with a result or an error.
Return(c) == Goto(c, "returned")

\* retrieve(), generate() or answer() is called; a request that breaks the
\* contract, or leaves no time, goes no further.
Begin(c) ==
  /\ pc[c] = "idle"
  /\ \E o \in Op, b \in Budget :
       /\ op' = [op EXCEPT ![c] = o]
       /\ deadline' = [deadline EXCEPT ![c] = now + b]
       /\ \/ b > Margin /\ Goto(c, "attempt")
          \/ Return(c)
  /\ UNCHANGED <<now, credVars, attempt, wake, cred, from, sends>>

\* Mutant: a cached session is used until it expires.
FreshNow == cached > now

\* A cached session that outlives the refresh window.
Fresh == cached - Window > now

\* An attempt starts: a cached session is used at once, else the call joins the
\* refresh that runs or starts one.
StartAttempt(c) ==
  /\ pc[c] = "attempt"
  /\ \/ Late(c) /\ Return(c) /\ UNCHANGED <<credVars, cred, from>>
     \/ /\ ~Late(c) /\ Fresh
        /\ cred' = [cred EXCEPT ![c] = cached]
        /\ from' = [from EXCEPT ![c] = "hit"]
        /\ Goto(c, "sign") /\ UNCHANGED credVars
     \/ /\ ~Late(c) /\ ~Fresh
        /\ flights' = IF inFlight THEN flights ELSE flights + 1
        /\ inFlight' = TRUE
        /\ Goto(c, "credentials") /\ UNCHANGED <<cached, cred, from>>
  /\ UNCHANGED <<now, op, deadline, attempt, wake, sends>>

Waiting == {c \in Call : pc[c] = "credentials"}

\* The credentials of an attempt go with it.
Drop(c) ==
  cred' = [cred EXCEPT ![c] = 0] /\ from' = [from EXCEPT ![c] = "none"]

\* The refresh settles for everybody who still waits for it.
Settle(expiry, source) ==
  /\ flights > 0
  /\ flights' = flights - 1
  /\ inFlight' = FALSE
  /\ pc' = [c \in Call |-> IF c \in Waiting THEN "sign" ELSE pc[c]]
  /\ cred' = [c \in Call |-> IF c \in Waiting THEN expiry ELSE cred[c]]
  /\ from' = [c \in Call |-> IF c \in Waiting THEN source ELSE from[c]]
  /\ UNCHANGED <<now, op, deadline, attempt, wake, sends>>

RefreshSucceeds == Settle(now + Duration, "refresh") /\ cached' = now + Duration

Usable == cached > now

\* AssumeRole fails, or grants what has expired: the old session serves as long as
\* it lasts.
RefreshFallsBack == Usable /\ Settle(cached, "fallback") /\ UNCHANGED cached

\* Without an old session everybody who waits fails.
RefreshFails ==
  /\ flights > 0 /\ ~Usable
  /\ flights' = flights - 1
  /\ inFlight' = FALSE
  /\ pc' = [c \in Call |-> IF c \in Waiting THEN "returned" ELSE pc[c]]
  /\ UNCHANGED <<now, cached, op, deadline, attempt, wake, cred, from, sends>>

\* The refresh of a call that gives up goes on for the others.
LeaveRefresh(c) == UNCHANGED inFlight

\* The timer of the attempt fires.
Abort(c) ==
  /\ Abortable(c) /\ Late(c)
  /\ Return(c)
  /\ LeaveRefresh(c) /\ Drop(c)
  /\ UNCHANGED <<now, cached, flights, op, deadline, attempt, wake, sends>>

\* Signing may fail; otherwise the request leaves.
Send(c) ==
  /\ pc[c] = "sign"
  /\ \/ Return(c) /\ Drop(c) /\ UNCHANGED sends
     \/ /\ ~Late(c)
        /\ sends' = [sends EXCEPT ![c] = @ + 1]
        /\ Goto(c, "http") /\ UNCHANGED <<cred, from>>
  /\ UNCHANGED <<now, credVars, op, deadline, attempt, wake>>

\* Mutants: an attempt that failed is repeated whatever it asked for; the pause is
\* not held against the deadline.
RetriesAll(c) == attempt[c] < MaxRetries
FitsNow(c, d) == ~Late(c)

\* Only a retrieve is sent again: repeating a generate could charge twice.
Retries(c) == op[c] = "retrieve" /\ attempt[c] < MaxRetries

\* The pause must leave time for another attempt.
Fits(c, d) == now + d + Margin < deadline[c]

\* A retryable outcome: pause and try again, or return it.
RetryOr(c, d) ==
  \/ /\ Retries(c) /\ Fits(c, d)
     /\ wake' = [wake EXCEPT ![c] = now + d]
     /\ Goto(c, "pause")
  \/ ~(Retries(c) /\ Fits(c, d)) /\ Return(c) /\ UNCHANGED wake

Longer(x, y) == IF x > y THEN x ELSE y

\* What comes back: a transport failure, an unreadable or wrong answer (of a server
\* in trouble or not), an error DTO (to be repeated or not), or a result.
Receive(c) ==
  /\ pc[c] = "http"
  /\ \/ Return(c) /\ UNCHANGED wake
     \/ ~Late(c) /\ \E d \in Pause : RetryOr(c, d)
     \/ ~Late(c) /\ \E d \in Pause, a \in RetryAfter : RetryOr(c, Longer(d, a))
  /\ Drop(c)
  /\ UNCHANGED <<now, credVars, op, deadline, attempt, sends>>

\* The pause ends; nothing but its own length bounds it.
Wake(c) ==
  /\ pc[c] = "pause" /\ now >= wake[c]
  /\ attempt' = [attempt EXCEPT ![c] = @ + 1]
  /\ Goto(c, "attempt")
  /\ UNCHANGED <<now, credVars, op, deadline, wake, cred, from, sends>>

Tick ==
  /\ now < MaxTime
  /\ \A c \in Call :
       /\ pc[c] # "attempt"
       /\ Abortable(c) => ~Late(c)
       /\ pc[c] = "pause" => now < wake[c]
  /\ now' = now + 1
  /\ UNCHANGED <<credVars, callVars>>

Step(c) ==
  \/ Begin(c) \/ StartAttempt(c) \/ Abort(c) \/ Send(c) \/ Receive(c) \/ Wake(c)

Next ==
  \/ Tick \/ RefreshSucceeds \/ RefreshFallsBack \/ RefreshFails
  \/ \E c \in Call : Step(c)

Spec == Init /\ [][Next]_vars

-----------------------------------------------------------------------------
(* Properties *)

\* A call ends by deadlineAt - abortSafetyMarginMs, whatever STS, the network and
\* the retries do; the pause, which no signal interrupts, never outlasts it.
ReturnsInTime == \A c \in Call : Live(c) => now + Margin <= deadline[c]

\* "Retrying can double-charge the provider": generate and answer send one request,
\* and a retrieve at most MaxRetries more.
PaidOnce ==
  \A c \in Call : sends[c] <= (IF op[c] = "retrieve" THEN MaxRetries + 1 ELSE 1)

\* A request signed with the cached session reaches its deadline before the session
\* expires; one signed with a stale session after a failed refresh was still good
\* when it was resolved.
SessionOutlivesTheRequest ==
  \A c \in Call : pc[c] = "http" /\ from[c] = "hit" => cred[c] > deadline[c]

\* One refresh at a time, also after every call that waited for it has given up, so
\* a slow one never replaces the session of a later one.
OneRefresh == flights <= 1 /\ (inFlight <=> flights = 1)

\* The shared session is sound: one refresh makes it, and it outlives every request
\* that is signed with it.
SessionIsSound == SessionOutlivesTheRequest /\ OneRefresh

-----------------------------------------------------------------------------
(* The inductive invariant *)

WaitInv ==
  /\ \A c \in Call : Live(c) => op[c] \in Op /\ deadline[c] <= now + Window
  /\ \A c \in Call : pc[c] = "credentials" => inFlight
  /\ \A c \in Call : pc[c] = "pause" =>
       /\ now <= wake[c] /\ wake[c] + Margin < deadline[c]
       /\ attempt[c] < MaxRetries /\ op[c] = "retrieve"

\* Requests sent are attempts made.
SendInv ==
  \A c \in Call :
    /\ pc[c] = "idle" => sends[c] = 0 /\ attempt[c] = 0
    /\ pc[c] \in {"attempt", "credentials", "sign"} => sends[c] <= attempt[c]
    /\ sends[c] <= attempt[c] + 1
    /\ op[c] # "retrieve" => attempt[c] = 0

HitInv ==
  \A c \in Call : pc[c] \in {"sign", "http"} /\ from[c] = "hit" => cred[c] > deadline[c]

IInv ==
  /\ TypeOK /\ ReturnsInTime /\ WaitInv /\ SendInv /\ HitInv /\ OneRefresh
=============================================================================
