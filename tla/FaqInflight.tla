---------------------------- MODULE FaqInflight ----------------------------
(***************************************************************************)
(* The capacity slots of the FAQ shell (adapters/inflight.ts) and the part *)
(* of handleFaqRequest that takes and gives back a slot.  A slot is one    *)
(* row of the Settings table; an invocation scans the slots from an offset *)
(* of its own, one conditional write each, and holds the first that is     *)
(* free or expired for as long as its Lambda may still run.  Invocations   *)
(* interleave between any two of these writes.                             *)
(*                                                                         *)
(* Time is counted in abstract ticks and every sandbox reads its own       *)
(* clock, at most MaxSkew ticks away from real time `now'.                 *)
(***************************************************************************)
EXTENDS Integers, FiniteSets

CONSTANTS
  Invocation,     \* invocations of the FAQ function that reach acquire()
  NoOwner,        \* ownerToken is absent from the row
  MaxInflight,    \* FAQ_MAX_INFLIGHT, 0 (no slots at all) being another port
  LambdaTimeout,  \* FaqChatFunctionTimeoutSeconds
  Reserve,        \* MODEL_RESPONSE_RESERVE_MS: no remote or answer-model call runs later
  MaxSkew,        \* how far a sandbox clock may be from real time
  MaxTime         \* bound of the model: the last tick

ASSUME InvocationAssumption == NoOwner \notin Invocation

ASSUME CapacityAssumption == MaxInflight \in 1..10

\* A lease ends with the Lambda, not after it.  The response reserve (2.5 s) exceeds
\* what two sandbox clocks differ by; only the calls that honour it profit from that.
ASSUME SkewAssumption ==
  /\ LambdaTimeout \in Nat /\ Reserve \in Nat /\ MaxSkew \in Nat /\ MaxTime \in Nat
  /\ 2 * MaxSkew <= Reserve

VARIABLES
  now,       \* real time
  slot,      \* the rows faq_inflight_slot#0 .. #(MaxInflight-1)
  pc,        \* where each invocation stands
  deadline,  \* real time at which Lambda stops it
  scan,      \* the locals of its acquire(): startedAt, leaseUntil, offset, attempt
  held,      \* the slot acquire() returned to it
  faulty     \* history: a call of it failed, lost its reply or was cut off

vars == <<now, slot, pc, deadline, scan, held, faulty>>

-----------------------------------------------------------------------------
Slot == 0..(MaxInflight - 1)

SlotRow == [owner : Invocation \cup {NoOwner}, leased : BOOLEAN, until : Int]

Scan == [at : Int, until : Int, offset : Slot, attempt : 0..MaxInflight]

NoScan == [at |-> 0, until |-> 0, offset |-> 0, attempt |-> 0]

Holding == {"acquired", "calling", "answering", "unwinding"}
Live == {"started", "scanning"} \cup Holding
Over == {"busy", "failed", "done"}

TypeOK ==
  /\ now \in Nat
  /\ slot \in [Slot -> SlotRow]
  /\ pc \in [Invocation -> {"idle"} \cup Live \cup Over]
  /\ deadline \in [Invocation -> Nat]
  /\ scan \in [Invocation -> Scan]
  /\ held \in [Invocation -> Slot]
  /\ faulty \in [Invocation -> BOOLEAN]

Init ==
  /\ now = 0
  /\ slot = [s \in Slot |-> [owner |-> NoOwner, leased |-> FALSE, until |-> 0]]
  /\ pc = [i \in Invocation |-> "idle"]
  /\ deadline = [i \in Invocation |-> 0]
  /\ scan = [i \in Invocation |-> NoScan]
  /\ held = [i \in Invocation |-> 0]
  /\ faulty = [i \in Invocation |-> FALSE]

Goto(i, p) == pc' = [pc EXCEPT ![i] = p]

EndScan(i) == scan' = [scan EXCEPT ![i] = NoScan]

Fault(i) == faulty' = [faulty EXCEPT ![i] = TRUE]

-----------------------------------------------------------------------------
Invoke(i) ==
  /\ pc[i] = "idle"
  /\ Goto(i, "started")
  /\ deadline' = [deadline EXCEPT ![i] = now + LambdaTimeout]
  /\ UNCHANGED <<now, slot, scan, held, faulty>>

LeaseUntil(i, t) == t + (deadline[i] - now)

\* acquire() refuses to work without remaining lifetime; it reads the clock once
\* and every condition of the scan compares with that reading.
BeginScan(i) ==
  /\ pc[i] = "started"
  /\ deadline[i] > now
  /\ \E t \in (now - MaxSkew)..(now + MaxSkew), o \in Slot :
       scan' = [scan EXCEPT ![i] =
                  [at |-> t, until |-> LeaseUntil(i, t), offset |-> o, attempt |-> 0]]
  /\ Goto(i, "scanning")
  /\ UNCHANGED <<now, slot, deadline, held, faulty>>

\* Mutants: the expiry is compared with <=; the scan forgets its last slot.
FreeAtExpiry(s, t) == ~slot[s].leased \/ slot[s].until <= t
LastAttemptEarly == MaxInflight - 1

Free(s, t) == ~slot[s].leased \/ slot[s].until < t

LastAttempt == MaxInflight

Probe(i, attempt) == (scan[i].offset + attempt) % MaxInflight

Scanning(i) == pc[i] = "scanning" /\ scan[i].attempt < LastAttempt

NextAttempt(i) == scan' = [scan EXCEPT ![i].attempt = @ + 1]

Leased(i) == [owner |-> i, leased |-> TRUE, until |-> scan[i].until]

\* The slot is free and the conditional write is applied.  If its reply is lost the
\* SDK repeats the write, meets its own lease and the scan goes on; if the retries
\* are used up acquire() throws and nobody knows of the lease.
TakeSlot(i) ==
  LET s == Probe(i, scan[i].attempt) IN
  /\ Scanning(i) /\ Free(s, scan[i].at)
  /\ slot' = [slot EXCEPT ![s] = Leased(i)]
  /\ \/ Goto(i, "acquired") /\ EndScan(i) /\ held' = [held EXCEPT ![i] = s] /\ UNCHANGED faulty
     \/ NextAttempt(i) /\ Fault(i) /\ UNCHANGED <<pc, held>>
     \/ Goto(i, "failed") /\ EndScan(i) /\ Fault(i) /\ UNCHANGED held
  /\ UNCHANGED <<now, deadline>>

\* The condition fails: the next slot of the scan.
SkipSlot(i) ==
  /\ Scanning(i) /\ ~Free(Probe(i, scan[i].attempt), scan[i].at)
  /\ NextAttempt(i)
  /\ UNCHANGED <<now, slot, pc, deadline, held, faulty>>

\* The write fails before it is applied: acquire() throws and the caller is told 503.
ScanFails(i) ==
  /\ Scanning(i)
  /\ Goto(i, "failed") /\ EndScan(i) /\ Fault(i)
  /\ UNCHANGED <<now, slot, deadline, held>>

\* No slot was free: 429 with Retry-After.
Busy(i) ==
  /\ pc[i] = "scanning" /\ scan[i].attempt = LastAttempt
  /\ Goto(i, "busy") /\ EndScan(i)
  /\ UNCHANGED <<now, slot, deadline, held, faulty>>

\* Router, generator, judge and retrieval: their timeouts are fixed, or missing, and
\* nobody looks at the lifetime that is left.
BeginCalls(i) ==
  /\ pc[i] = "acquired"
  /\ Goto(i, "calling")
  /\ UNCHANGED <<now, slot, deadline, scan, held, faulty>>

\* The remote service or the answer model, whose timeout is what is left before the
\* reserve.
BeginAnswer(i) ==
  /\ pc[i] \in {"acquired", "calling"} /\ now < deadline[i] - Reserve
  /\ Goto(i, "answering")
  /\ UNCHANGED <<now, slot, deadline, scan, held, faulty>>

\* The end of the request, by an answer, an exception or without any paid call: the
\* finally block settles the abandoned router calls, still under the slot.
EndWork(i) ==
  /\ pc[i] \in {"acquired", "calling", "answering"}
  /\ Goto(i, "unwinding")
  /\ UNCHANGED <<now, slot, deadline, scan, held, faulty>>

\* Mutants: the lease is removed whoever owns it, or only once it has expired.
OwnsUnfenced(i, s) == TRUE
OwnsExpired(i, s) == slot[s].owner = i /\ slot[s].until < now

Owns(i, s) == slot[s].owner = i

\* The owner-fenced REMOVE leaseUntil.  Nobody waits for a second try: a failure is
\* logged and the lease expires.
Release(i) ==
  LET s == held[i]
      removed == IF Owns(i, s) THEN [slot EXCEPT ![s].leased = FALSE] ELSE slot
  IN
  /\ pc[i] = "unwinding"
  /\ \/ slot' = removed /\ UNCHANGED faulty
     \/ slot' \in {slot, removed} /\ Fault(i)
  /\ Goto(i, "done")
  /\ UNCHANGED <<now, deadline, scan, held>>

\* A crash of the sandbox, or Lambda stopping it at its timeout.
Stop(i) ==
  /\ pc[i] \in Live
  /\ Goto(i, "failed") /\ EndScan(i) /\ Fault(i)
  /\ UNCHANGED <<now, slot, deadline, held>>

\* Lambda stops an invocation at its deadline; only the timeout of a remote or
\* answer-model call ends it before the reserve begins.
Tick ==
  /\ now < MaxTime
  /\ \A i \in Invocation :
       /\ pc[i] \in Live => now < deadline[i]
       /\ pc[i] = "answering" => now < deadline[i] - Reserve
  /\ now' = now + 1
  /\ UNCHANGED <<slot, pc, deadline, scan, held, faulty>>

Step(i) ==
  \/ Invoke(i) \/ BeginScan(i) \/ TakeSlot(i) \/ SkipSlot(i) \/ ScanFails(i)
  \/ Busy(i) \/ BeginCalls(i) \/ BeginAnswer(i) \/ EndWork(i) \/ Release(i) \/ Stop(i)

Next == Tick \/ \E i \in Invocation : Step(i)

Spec == Init /\ [][Next]_vars

-----------------------------------------------------------------------------
(* Properties *)

\* An invocation that holds a slot and is not so close to its deadline that another
\* sandbox, whose clock is ahead, may already think the lease expired.
Steady == {i \in Invocation : pc[i] \in Holding /\ now <= deadline[i] - 2 * MaxSkew}

\* A remote call or an answer model is under way.
Answering == {i \in Invocation : pc[i] = "answering"}

\* However scans, expiries and clocks interleave, two invocations that wait for the
\* remote service or the answer model, or that are not in the last moments before
\* Lambda stops them, hold two different slots.  A router, generator, judge or
\* retrieval call in those last moments may share its slot.
SlotsAreExclusive ==
  \A i, j \in Steady \cup Answering : i # j => held[i] # held[j]

\* FAQ_MAX_INFLIGHT bounds the same invocations: those that may spend beyond it are in
\* the last moments before Lambda stops them.
WithinCapacity == Cardinality(Steady \cup Answering) <= MaxInflight

\* A lease that its invocation leaked (crash, lost reply, failed release) ends with the
\* lifetime of that invocation: no slot is lost for ever.
LeasesEndWithTheirOwner ==
  \A s \in Slot : slot[s].leased =>
    slot[s].owner \in Invocation /\ slot[s].until <= deadline[slot[s].owner] + MaxSkew

\* An invocation that met no fault leaves no lease behind, in no slot.
CleanEndLeavesNoLease ==
  \A i \in Invocation : pc[i] \in {"done", "busy"} /\ ~faulty[i] =>
    \A s \in Slot : ~(slot[s].leased /\ slot[s].owner = i)

\* Capacity comes back: at once after a clean end, and after any other end when the
\* lifetime of the invocation is over.
LeasesComeBack == LeasesEndWithTheirOwner /\ CleanEndLeavesNoLease

\* Nobody's step frees or shortens what another one holds: a late release() finds that
\* the slot changed hands, and the row of an owner changes hands only in the last
\* moments before Lambda stops it, never while it waits for the remote service or the
\* answer model.
WorkerKeepsItsSlot ==
  [][\A i \in Invocation :
       LET s == held[i] IN
       pc[i] \in Holding /\ pc'[i] \in Holding /\ slot[s].owner = i /\ slot'[s] # slot[s] =>
         i \notin Steady \cup Answering /\ slot'[s].leased]_vars

\* 429 is answered only after a scan that probed every slot once.
BusyProbedEverySlot ==
  [][\A i \in Invocation : pc[i] # "busy" /\ pc'[i] = "busy" =>
       Slot \subseteq {Probe(i, a) : a \in 0..(scan[i].attempt - 1)}]_vars

-----------------------------------------------------------------------------
(* The inductive invariant behind the properties *)

ClockInv ==
  \A i \in Invocation :
    /\ pc[i] \in Live => now <= deadline[i]
    /\ pc[i] = "answering" => now <= deadline[i] - Reserve
    /\ pc[i] = "scanning" =>
         /\ scan[i].at <= now + MaxSkew
         /\ deadline[i] - MaxSkew <= scan[i].until /\ scan[i].until <= deadline[i] + MaxSkew

\* A holder owns its slot until the clocks allow somebody else to think it expired.
HolderInv ==
  \A i \in Invocation : pc[i] \in Holding =>
    \/ /\ Owns(i, held[i]) /\ slot[held[i]].leased
       /\ deadline[i] - MaxSkew <= slot[held[i]].until
    \/ now > deadline[i] - 2 * MaxSkew

\* An invocation leaves no trace in a row before its scan.
FreshInv ==
  \A i \in Invocation : pc[i] \in {"idle", "started"} =>
    \A t \in Slot : slot[t].owner # i

\* Until a fault an invocation has no other lease than that of the slot it holds.
OwnInv ==
  \A i \in Invocation, s \in Slot :
    ~faulty[i] /\ slot[s].leased /\ slot[s].owner = i => pc[i] \in Holding /\ held[i] = s

IInv == TypeOK /\ ClockInv /\ HolderInv /\ LeasesEndWithTheirOwner /\ FreshInv /\ OwnInv

=============================================================================
