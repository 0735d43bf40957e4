------------------------- MODULE FaqInflightProofs -------------------------
(***************************************************************************)
(* Proofs about FaqInflight, for any number of invocations, any number of  *)
(* slots and any timing that satisfies SkewAssumption.                     *)
(***************************************************************************)
EXTENDS FaqInflight, FiniteSetTheorems, TLAPS

LEMMA SlotNonEmpty == 0 \in Slot /\ MaxInflight \in Nat
BY CapacityAssumption DEF Slot

\* A scan only ever addresses slots that exist.
LEMMA ProbeInSlot ==
  ASSUME TypeOK, NEW i \in Invocation, NEW a \in 0..MaxInflight
  PROVE  Probe(i, a) \in Slot
<1>1. scan[i].offset + a \in Nat
  BY CapacityAssumption DEF TypeOK, Scan, Slot
<1>2. MaxInflight \in Nat /\ MaxInflight > 0
  BY CapacityAssumption
<1> QED BY <1>1, <1>2 DEF Probe, Slot

LEMMA InitIInv == Init => IInv
<1> SUFFICES ASSUME Init PROVE IInv
  OBVIOUS
<1>1. TypeOK
  BY SkewAssumption, SlotNonEmpty DEF Init, TypeOK, SlotRow, Scan, NoScan, Live, Holding, Over
<1>2. ClockInv /\ HolderInv /\ LeasesEndWithTheirOwner
  BY DEF Init, ClockInv, HolderInv, LeasesEndWithTheirOwner, Live, Holding
<1>3. FreshInv /\ OwnInv
  BY InvocationAssumption DEF Init, FreshInv, OwnInv
<1> QED BY <1>1, <1>2, <1>3 DEF IInv

LEMMA TypeStep == TypeOK /\ [Next]_vars => TypeOK'
<1> SUFFICES ASSUME TypeOK, [Next]_vars PROVE TypeOK'
  OBVIOUS
<1> USE SkewAssumption, SlotNonEmpty
    DEF TypeOK, SlotRow, Scan, NoScan, Live, Holding, Over, Goto, Fault, EndScan
<1>1. CASE Tick
  BY <1>1 DEF Tick
<1>2. ASSUME NEW i \in Invocation, Step(i) PROVE TypeOK'
  <2>1. CASE Invoke(i)
    BY <2>1 DEF Invoke
  <2>2. CASE BeginScan(i)
    BY <2>2 DEF BeginScan, LeaseUntil
  <2>3. CASE TakeSlot(i)
    <3>1. Probe(i, scan[i].attempt) \in Slot
      BY ProbeInSlot
    <3>2. scan[i].attempt + 1 \in 0..MaxInflight
      BY <2>3 DEF TakeSlot, Scanning, LastAttempt
    <3>3. Leased(i) \in SlotRow
      BY DEF Leased
    <3>4. slot' \in [Slot -> SlotRow]
      BY <2>3, <3>1, <3>3 DEF TakeSlot
    <3>5. scan' \in [Invocation -> Scan]
      <4>1. CASE NextAttempt(i)
        BY <4>1, <3>2 DEF NextAttempt
      <4>2. CASE EndScan(i)
        BY <4>2
      <4> QED BY <2>3, <4>1, <4>2 DEF TakeSlot
    <3>6. held' \in [Invocation -> Slot]
      BY <2>3, <3>1 DEF TakeSlot
    <3> QED BY <2>3, <3>4, <3>5, <3>6, ZenonT(40) DEF TakeSlot
  <2>4. CASE SkipSlot(i)
    BY <2>4 DEF SkipSlot, Scanning, LastAttempt, NextAttempt
  <2>5. CASE ScanFails(i)
    BY <2>5 DEF ScanFails
  <2>6. CASE Busy(i)
    BY <2>6 DEF Busy
  <2>7. CASE BeginCalls(i) \/ BeginAnswer(i)
    BY <2>7 DEF BeginCalls, BeginAnswer
  <2>8. CASE EndWork(i)
    BY <2>8 DEF EndWork
  <2>9. CASE Release(i)
    <3>1. held[i] \in Slot
      BY DEF TypeOK
    <3>2. slot' \in [Slot -> SlotRow]
      <4>1. CASE slot' = slot
        BY <4>1
      <4>2. CASE slot' = [slot EXCEPT ![held[i]].leased = FALSE]
        BY <4>2, <3>1, ZenonT(40)
      <4> QED BY <2>9, <4>1, <4>2 DEF Release
    <3> QED BY <2>9, <3>2 DEF Release
  <2>10. CASE Stop(i)
    BY <2>10 DEF Stop
  <2> QED BY <1>2, <2>1, <2>2, <2>3, <2>4, <2>5, <2>6, <2>7, <2>8, <2>9, <2>10 DEF Step
<1>3. CASE UNCHANGED vars
  BY <1>3 DEF vars
<1> QED BY <1>1, <1>2, <1>3 DEF Next

LEMMA ClockStep == IInv /\ [Next]_vars => ClockInv'
<1> SUFFICES ASSUME IInv, [Next]_vars PROVE ClockInv'
  OBVIOUS
<1> USE SkewAssumption, SlotNonEmpty
    DEF IInv, TypeOK, SlotRow, Scan, NoScan, ClockInv, Live, Holding, Over, Goto, EndScan
<1>1. CASE Tick
  BY <1>1 DEF Tick
<1>2. ASSUME NEW i \in Invocation, Step(i) PROVE ClockInv'
  <2>1. CASE Invoke(i)
    BY <2>1 DEF Invoke
  <2>2. CASE BeginScan(i)
    BY <2>2 DEF BeginScan, LeaseUntil
  <2>3. CASE TakeSlot(i)
    BY <2>3, ZenonT(40) DEF TakeSlot, Scanning, NextAttempt
  <2>4. CASE SkipSlot(i)
    BY <2>4 DEF SkipSlot, Scanning, NextAttempt
  <2>5. CASE ScanFails(i)
    BY <2>5 DEF ScanFails
  <2>6. CASE Busy(i)
    BY <2>6 DEF Busy
  <2>7. CASE BeginCalls(i)
    BY <2>7 DEF BeginCalls
  <2>a. CASE BeginAnswer(i)
    <3>1. now <= deadline[i] - Reserve
      BY <2>a DEF BeginAnswer
    <3>2. /\ pc[i] \in Live /\ pc' = [pc EXCEPT ![i] = "answering"]
          /\ UNCHANGED <<now, deadline, scan>>
      BY <2>a DEF BeginAnswer
    <3> QED BY <3>1, <3>2
  <2>8. CASE EndWork(i)
    BY <2>8 DEF EndWork
  <2>9. CASE Release(i)
    BY <2>9 DEF Release
  <2>10. CASE Stop(i)
    BY <2>10 DEF Stop
  <2> QED BY <1>2, <2>1, <2>2, <2>3, <2>4, <2>5, <2>6, <2>7, <2>a, <2>8, <2>9, <2>10 DEF Step
<1>3. CASE UNCHANGED vars
  BY <1>3 DEF vars
<1> QED BY <1>1, <1>2, <1>3 DEF Next

\* The heart of the argument: a scan finds a held slot free only when the holder is in
\* the last moments before its deadline.
LEMMA TakenOverLate ==
  ASSUME IInv, NEW i \in Invocation, pc[i] = "scanning",
         NEW s \in Slot, Free(s, scan[i].at),
         NEW j \in Invocation, pc[j] \in Holding, held[j] = s
  PROVE  now > deadline[j] - 2 * MaxSkew
<1> SUFFICES ASSUME slot[s].leased, deadline[j] - MaxSkew <= slot[s].until
             PROVE  now > deadline[j] - 2 * MaxSkew
  BY DEF IInv, HolderInv
<1>1. slot[s].until < scan[i].at
  BY DEF Free
<1>2. scan[i].at <= now + MaxSkew
  BY DEF IInv, ClockInv
<1>3. /\ now \in Int /\ deadline[j] \in Int /\ slot[s].until \in Int /\ scan[i].at \in Int
  BY DEF IInv, TypeOK, SlotRow, Scan
<1> QED BY <1>1, <1>2, <1>3, SkewAssumption

LEMMA HolderStep == IInv /\ [Next]_vars => HolderInv'
<1> SUFFICES ASSUME IInv, [Next]_vars, NEW j \in Invocation, pc'[j] \in Holding
             PROVE  \/ /\ slot'[held'[j]].owner = j /\ slot'[held'[j]].leased
                       /\ deadline'[j] - MaxSkew <= slot'[held'[j]].until
                    \/ now' > deadline'[j] - 2 * MaxSkew
  BY DEF HolderInv, Owns
<1> DEFINE Held == \/ /\ slot[held[j]].owner = j /\ slot[held[j]].leased
                      /\ deadline[j] - MaxSkew <= slot[held[j]].until
                   \/ now > deadline[j] - 2 * MaxSkew
           Goal == \/ /\ slot'[held'[j]].owner = j /\ slot'[held'[j]].leased
                      /\ deadline'[j] - MaxSkew <= slot'[held'[j]].until
                   \/ now' > deadline'[j] - 2 * MaxSkew
<1>0. pc[j] \in Holding => Held
  BY DEF IInv, HolderInv, Owns
<1>t. TypeOK /\ TypeOK'
  BY TypeStep DEF IInv
<1> HIDE DEF Held
<1>1. CASE Tick
  <2>1. Held /\ now' = now + 1 /\ UNCHANGED <<slot, held, deadline>>
    BY <1>0, <1>1 DEF Tick
  <2> QED BY <2>1, <1>t, SkewAssumption DEF Held, TypeOK
<1>2. ASSUME NEW i \in Invocation, Step(i) PROVE Goal
  <2>1. ASSUME UNCHANGED <<now, slot, held>>, deadline'[j] = deadline[j], pc[j] \in Holding
        PROVE  Goal
    BY <2>1, <1>0 DEF Held
  <2>2. CASE Invoke(i)
    BY <2>2, <2>1, <1>t DEF Invoke, Goto, TypeOK, Holding
  <2>3. CASE BeginScan(i)
    BY <2>3, <2>1, <1>t DEF BeginScan, Goto, TypeOK, Holding
  <2>4. CASE TakeSlot(i)
    <3> DEFINE s == Probe(i, scan[i].attempt)
    <3>1. /\ pc[i] = "scanning" /\ Free(s, scan[i].at)
          /\ s \in Slot
          /\ slot' = [slot EXCEPT ![s] = Leased(i)]
          /\ UNCHANGED <<now, deadline>>
          /\ \/ held' = [held EXCEPT ![i] = s]
             \/ UNCHANGED held /\ pc'[i] \notin Holding
      BY <2>4, <1>t, ProbeInSlot DEF TakeSlot, Scanning, Goto, TypeOK, Scan, Holding
    <3>2. CASE j = i
      <4>1. held'[j] = s /\ slot'[s] = Leased(i)
        BY <3>1, <3>2, <1>t DEF TypeOK
      <4>2. deadline[i] - MaxSkew <= scan[i].until
        BY <3>1 DEF IInv, ClockInv
      <4> QED BY <4>1, <4>2, <3>1, <3>2 DEF Leased
    <3>3. CASE j # i
      <4>1. held'[j] = held[j] /\ pc[j] \in Holding /\ held[j] \in Slot
        BY <2>4, <3>1, <3>3, <1>t DEF TakeSlot, Goto, TypeOK
      <4>2. CASE held[j] = s
        <5>1. now > deadline[j] - 2 * MaxSkew
          BY <4>1, <4>2, <3>1, TakenOverLate
        <5> QED BY <5>1, <3>1
      <4>3. CASE held[j] # s
        <5>1. slot'[held[j]] = slot[held[j]]
          BY <4>1, <4>3, <3>1, <1>t DEF TypeOK
        <5> QED BY <5>1, <4>1, <3>1, <1>0 DEF Held
      <4> QED BY <4>2, <4>3
    <3> QED BY <3>2, <3>3
  <2>5. CASE SkipSlot(i)
    BY <2>5, <2>1 DEF SkipSlot
  <2>6. CASE ScanFails(i)
    BY <2>6, <2>1, <1>t DEF ScanFails, Goto, TypeOK, Holding
  <2>7. CASE Busy(i)
    BY <2>7, <2>1, <1>t DEF Busy, Goto, TypeOK, Holding
  <2>8. CASE BeginCalls(i) \/ BeginAnswer(i)
    BY <2>8, <2>1, <1>t DEF BeginCalls, BeginAnswer, Goto, TypeOK, Holding
  <2>9. CASE EndWork(i)
    BY <2>9, <2>1, <1>t DEF EndWork, Goto, TypeOK, Holding
  <2>10. CASE Release(i)
    <3>1. /\ j # i /\ pc[j] \in Holding
          /\ UNCHANGED <<now, deadline, held>>
      BY <2>10, <1>t DEF Release, Goto, TypeOK, Holding
    <3>2. slot' = slot \/ (slot[held[i]].owner = i /\ slot' = [slot EXCEPT ![held[i]].leased = FALSE])
      BY <2>10 DEF Release, Owns
    <3>3. CASE slot' = slot
      BY <3>1, <3>3, <2>1
    <3>4. CASE slot[held[i]].owner = i /\ slot' = [slot EXCEPT ![held[i]].leased = FALSE]
      <4>1. CASE now > deadline[j] - 2 * MaxSkew
        BY <4>1, <3>1
      <4>2. CASE ~(now > deadline[j] - 2 * MaxSkew)
        <5>1. slot[held[j]].owner = j
          BY <4>2, <3>1, <1>0 DEF Held
        <5>2. held[j] # held[i] /\ held[j] \in Slot
          BY <5>1, <3>1, <3>4, <1>t DEF TypeOK
        <5>3. slot'[held[j]] = slot[held[j]]
          BY <5>2, <3>4, <1>t DEF TypeOK
        <5> QED BY <5>3, <3>1, <1>0 DEF Held
      <4> QED BY <4>1, <4>2
    <3> QED BY <3>2, <3>3, <3>4
  <2>11. CASE Stop(i)
    BY <2>11, <2>1, <1>t DEF Stop, Goto, TypeOK, Holding
  <2> QED BY <1>2, <2>2, <2>3, <2>4, <2>5, <2>6, <2>7, <2>8, <2>9, <2>10, <2>11 DEF Step
<1>3. CASE UNCHANGED vars
  BY <1>3, <1>0 DEF vars, Held
<1> QED BY <1>1, <1>2, <1>3 DEF Next

LEMMA LeaseStep == IInv /\ [Next]_vars => LeasesEndWithTheirOwner'
<1> SUFFICES ASSUME IInv, [Next]_vars, NEW s \in Slot, slot'[s].leased
             PROVE  /\ slot'[s].owner \in Invocation
                    /\ slot'[s].until <= deadline'[slot'[s].owner] + MaxSkew
  BY DEF LeasesEndWithTheirOwner
<1> DEFINE Goal == /\ slot'[s].owner \in Invocation
                   /\ slot'[s].until <= deadline'[slot'[s].owner] + MaxSkew
<1>t. TypeOK
  BY DEF IInv
<1>0. slot[s].leased => /\ slot[s].owner \in Invocation
                        /\ slot[s].until <= deadline[slot[s].owner] + MaxSkew
  BY DEF IInv, LeasesEndWithTheirOwner
<1>1. CASE UNCHANGED <<slot, deadline>>
  BY <1>0, <1>1
<1>2. ASSUME NEW i \in Invocation, Step(i) PROVE Goal
  <2>1. CASE Invoke(i)
    <3>1. /\ slot' = slot /\ deadline' = [deadline EXCEPT ![i] = now + LambdaTimeout]
          /\ pc[i] = "idle"
      BY <2>1 DEF Invoke
    <3>2. slot[s].owner # i => deadline'[slot[s].owner] = deadline[slot[s].owner]
      BY <3>1, <1>0, <1>t DEF TypeOK
    <3>3. CASE slot[s].owner # i
      BY <3>1, <3>2, <3>3, <1>0
    <3>4. CASE slot[s].owner = i
      BY <3>1, <3>4, <1>t DEF IInv, FreshInv
    <3> QED BY <3>3, <3>4
  <2>2. CASE TakeSlot(i)
    <3>1. /\ pc[i] = "scanning" /\ deadline' = deadline
          /\ \E t \in Slot : slot' = [slot EXCEPT ![t] = Leased(i)]
      BY <2>2, <1>t, ProbeInSlot DEF TakeSlot, Scanning, TypeOK, Scan
    <3>2. scan[i].until <= deadline[i] + MaxSkew
      BY <3>1 DEF IInv, ClockInv
    <3>3. slot'[s] = slot[s] \/ slot'[s] = Leased(i)
      BY <3>1, <1>t DEF TypeOK
    <3> QED BY <3>1, <3>2, <3>3, <1>0 DEF Leased
  <2>3. CASE Release(i)
    <3>1. deadline' = deadline /\ (slot' = slot \/ slot' = [slot EXCEPT ![held[i]].leased = FALSE])
      BY <2>3 DEF Release
    <3>2. slot'[s] = slot[s]
      BY <3>1, <1>t DEF TypeOK, SlotRow
    <3> QED BY <3>1, <3>2, <1>0
  <2> QED
    BY <1>2, <1>1, <2>1, <2>2, <2>3
       DEF Step, BeginScan, SkipSlot, ScanFails, Busy, BeginCalls, BeginAnswer, EndWork, Stop
<1> QED BY <1>1, <1>2 DEF Next, Tick, vars

LEMMA FreshStep == IInv /\ [Next]_vars => FreshInv'
<1> SUFFICES ASSUME IInv, [Next]_vars, NEW j \in Invocation, pc'[j] \in {"idle", "started"},
                    NEW t \in Slot
             PROVE  slot'[t].owner # j
  BY DEF FreshInv
<1>t. TypeOK
  BY DEF IInv
<1>0. pc[j] \in {"idle", "started"} => slot[t].owner # j
  BY DEF IInv, FreshInv
<1>1. ASSUME NEW i \in Invocation, Step(i) PROVE pc[j] \in {"idle", "started"} /\ (i = j => slot' = slot)
  BY <1>1, <1>t DEF TypeOK, Step, Goto, Invoke, BeginScan, TakeSlot, Scanning, SkipSlot, ScanFails,
     Busy, BeginCalls, BeginAnswer, EndWork, Release, Stop, Live, Holding
<1>2. ASSUME NEW i \in Invocation, Step(i) PROVE slot'[t].owner \in {slot[t].owner, i}
  <2>1. CASE TakeSlot(i)
    <3>1. \E u \in Slot : slot' = [slot EXCEPT ![u] = Leased(i)]
      BY <2>1, <1>t, ProbeInSlot DEF TakeSlot, TypeOK, Scan
    <3>2. slot'[t] = slot[t] \/ slot'[t] = Leased(i)
      BY <3>1, <1>t DEF TypeOK
    <3> QED BY <3>2 DEF Leased
  <2>2. CASE Release(i)
    <3>1. slot' = slot \/ slot' = [slot EXCEPT ![held[i]].leased = FALSE]
      BY <2>2 DEF Release
    <3> QED BY <3>1, <1>t DEF TypeOK, SlotRow
  <2> QED
    BY <1>2, <2>1, <2>2 DEF Step, Invoke, BeginScan, SkipSlot, ScanFails, Busy, BeginCalls, BeginAnswer, EndWork, Stop
<1>3. CASE Tick \/ UNCHANGED vars
  BY <1>3, <1>0 DEF Tick, vars
<1>4. ASSUME NEW i \in Invocation, Step(i) PROVE slot'[t].owner # j
  BY <1>0, <1>1, <1>2, <1>4
<1> QED BY <1>3, <1>4 DEF Next

LEMMA OwnStep == IInv /\ [Next]_vars => OwnInv'
<1> SUFFICES ASSUME IInv, [Next]_vars, NEW j \in Invocation, NEW s \in Slot,
                    ~faulty'[j], slot'[s].leased, slot'[s].owner = j
             PROVE  pc'[j] \in Holding /\ held'[j] = s
  BY DEF OwnInv
<1> DEFINE Goal == pc'[j] \in Holding /\ held'[j] = s
<1>t. TypeOK
  BY DEF IInv
<1>0. ~faulty[j] /\ slot[s].leased /\ slot[s].owner = j => pc[j] \in Holding /\ held[j] = s
  BY DEF IInv, OwnInv
<1>1. ASSUME NEW i \in Invocation, Step(i) PROVE Goal
  <2>1. CASE i # j
    <3>1. UNCHANGED <<pc[j], held[j], faulty[j]>>
      BY <1>1, <1>t, <2>1 DEF TypeOK, Step, Goto, Fault, Invoke, BeginScan, TakeSlot, SkipSlot,
         ScanFails, Busy, BeginCalls, BeginAnswer, EndWork, Release, Stop
    <3>2. CASE slot' = slot
      BY <3>1, <3>2, <1>0
    <3>3. CASE TakeSlot(i)
      <4>1. \E t \in Slot : slot' = [slot EXCEPT ![t] = Leased(i)]
        BY <3>3, <1>t, ProbeInSlot DEF TakeSlot, TypeOK, Scan
      <4>2. slot'[s] = slot[s]
        BY <4>1, <2>1, <1>t DEF TypeOK, Leased
      <4> QED BY <4>2, <3>1, <1>0
    <3>4. CASE Release(i)
      <4>1. slot' = slot \/ slot' = [slot EXCEPT ![held[i]].leased = FALSE]
        BY <3>4 DEF Release
      <4>2. slot'[s] = slot[s]
        BY <4>1, <1>t DEF TypeOK, SlotRow
      <4> QED BY <4>2, <3>1, <1>0
    <3> QED
      BY <1>1, <3>2, <3>3, <3>4 DEF Step, Invoke, BeginScan, SkipSlot, ScanFails, Busy,
         BeginCalls, BeginAnswer, EndWork, Stop
  <2>2. CASE i = j
    <3>1. CASE TakeSlot(i)
      <4>1. ~faulty[i] /\ pc[i] = "scanning"
        BY <3>1, <2>2, <1>t DEF TakeSlot, Scanning, Fault, TypeOK
      <4>2. ~(slot[s].leased /\ slot[s].owner = j)
        BY <4>1, <2>2, <1>0 DEF Holding
      <4>3. /\ Probe(i, scan[i].attempt) \in Slot
            /\ slot' = [slot EXCEPT ![Probe(i, scan[i].attempt)] = Leased(i)]
        BY <3>1, <1>t, ProbeInSlot DEF TakeSlot, TypeOK, Scan
      <4>4. s = Probe(i, scan[i].attempt)
        BY <4>2, <4>3, <1>t DEF TypeOK
      <4>5. pc'[i] = "acquired" /\ held'[i] = Probe(i, scan[i].attempt)
        BY <3>1, <2>2, <1>t DEF TakeSlot, Fault, Goto, TypeOK
      <4> QED BY <4>4, <4>5, <2>2 DEF Holding
    <3>2. CASE Release(i)
      <4>1. ~faulty[i] /\ (slot[s].leased /\ slot[s].owner = j => held[i] = s)
        BY <3>2, <2>2, <1>t, <1>0 DEF Release, Fault, TypeOK
      <4>2. slot' = IF slot[held[i]].owner = i THEN [slot EXCEPT ![held[i]].leased = FALSE] ELSE slot
        BY <3>2, <2>2, <1>t DEF Release, Fault, Owns, TypeOK
      <4>3. held[i] \in Slot
        BY <1>t DEF TypeOK
      <4>4. CASE slot[held[i]].owner = i
        <5>1. slot'[held[i]].leased = FALSE
          BY <4>2, <4>3, <4>4, <1>t DEF TypeOK, SlotRow
        <5>2. s # held[i] => slot'[s] = slot[s]
          BY <4>2, <4>3, <4>4, <1>t DEF TypeOK
        <5> QED BY <4>1, <5>1, <5>2
      <4>5. CASE slot[held[i]].owner # i
        BY <4>1, <4>2, <4>5, <2>2
      <4> QED BY <4>4, <4>5
    <3>3. CASE Invoke(i)
      BY <3>3, <2>2 DEF Invoke, IInv, FreshInv
    <3>4. CASE BeginScan(i) \/ SkipSlot(i) \/ Busy(i)
      BY <3>4, <2>2, <1>0 DEF BeginScan, SkipSlot, Scanning, Busy, Holding
    <3>5. CASE ScanFails(i) \/ Stop(i)
      BY <3>5, <2>2, <1>t DEF ScanFails, Stop, Fault, TypeOK
    <3>6. CASE BeginCalls(i) \/ BeginAnswer(i) \/ EndWork(i)
      BY <3>6, <2>2, <1>0, <1>t DEF BeginCalls, BeginAnswer, EndWork, Goto, Holding, TypeOK
    <3> QED BY <1>1, <3>1, <3>2, <3>3, <3>4, <3>5, <3>6 DEF Step
  <2> QED BY <2>1, <2>2
<1>2. CASE Tick \/ UNCHANGED vars
  BY <1>2, <1>0 DEF Tick, vars
<1> QED BY <1>1, <1>2 DEF Next

\* The inductive invariant holds in every reachable state.
THEOREM Invariance == Spec => []IInv
<1>1. IInv /\ [Next]_vars => IInv'
  BY TypeStep, ClockStep, HolderStep, LeaseStep, FreshStep, OwnStep DEF IInv
<1> QED BY InitIInv, <1>1, PTL DEF Spec

\* Who waits for the remote service or the answer model is not yet in the last moments,
\* and who is not owns the row of its slot.
LEMMA SteadyOwns ==
  ASSUME IInv, NEW i \in Steady \cup Answering
  PROVE  /\ i \in Invocation /\ pc[i] \in Holding
         /\ ~(now > deadline[i] - 2 * MaxSkew)
         /\ slot[held[i]].owner = i
<1>1. i \in Invocation /\ pc[i] \in Holding
  BY DEF Steady, Answering, Holding
<1>2. ~(now > deadline[i] - 2 * MaxSkew)
  <2>1. now \in Int /\ deadline[i] \in Int
    BY <1>1 DEF IInv, TypeOK
  <2>2. CASE i \in Steady
    BY <2>1, <2>2, SkewAssumption DEF Steady
  <2>3. CASE i \in Answering
    BY <1>1, <2>1, <2>3, SkewAssumption DEF Answering, IInv, ClockInv
  <2> QED BY <2>2, <2>3
<1> QED BY <1>1, <1>2 DEF IInv, HolderInv, Owns

\* Two invocations that wait for the remote service or the answer model, or are not in
\* the last moments before their deadline, hold two different slots.
LEMMA IInvExclusive == IInv => SlotsAreExclusive
BY SteadyOwns DEF SlotsAreExclusive

THEOREM Exclusive == Spec => []SlotsAreExclusive
BY Invariance, IInvExclusive, PTL

\* FAQ_MAX_INFLIGHT is a bound: the slots are as many, and the map from these
\* invocations to slots is one-to-one.
LEMMA IInvCapacity == IInv => WithinCapacity
<1> DEFINE Spenders == Steady \cup Answering
<1> SUFFICES ASSUME IInv PROVE Cardinality(Spenders) <= MaxInflight
  BY DEF WithinCapacity
<1> DEFINE f == [i \in Spenders |-> held[i]]
<1>1. f \in Injection(Spenders, Slot)
  <2>1. \A i \in Spenders : held[i] \in Slot
    BY DEF Steady, Answering, IInv, TypeOK
  <2>2. \A i, j \in Spenders : held[i] = held[j] => i = j
    BY IInvExclusive DEF SlotsAreExclusive
  <2> QED BY <2>1, <2>2 DEF Injection, IsInjective
<1>2. IsFiniteSet(Slot) /\ Cardinality(Slot) = MaxInflight
  <2>1. MaxInflight - 1 \in Int /\ ~(0 > MaxInflight - 1) /\ (MaxInflight - 1) - 0 + 1 = MaxInflight
    BY CapacityAssumption
  <2> QED BY <2>1, FS_Interval DEF Slot
<1> HIDE DEF Spenders
<1> QED BY <1>1, <1>2, FS_Injection

THEOREM Capacity == Spec => []WithinCapacity
BY Invariance, IInvCapacity, PTL

\* The row of an owner is touched by nobody but a scan, and by a scan only in the last
\* moments before the deadline of the owner.
THEOREM SlotKept == Spec => WorkerKeepsItsSlot
<1> DEFINE Kept ==
      \A i \in Invocation :
        LET s == held[i] IN
        pc[i] \in Holding /\ pc'[i] \in Holding /\ slot[s].owner = i /\ slot'[s] # slot[s] =>
          i \notin Steady \cup Answering /\ slot'[s].leased
<1>1. IInv /\ [Next]_vars => [Kept]_vars
  <2> SUFFICES ASSUME IInv, Next, NEW i \in Invocation,
                      pc[i] \in Holding, pc'[i] \in Holding,
                      slot[held[i]].owner = i, slot'[held[i]] # slot[held[i]]
               PROVE  i \notin Steady \cup Answering /\ slot'[held[i]].leased
    OBVIOUS
  <2>t. TypeOK /\ held[i] \in Slot
    BY DEF IInv, TypeOK
  <2>1. ASSUME NEW j \in Invocation, TakeSlot(j)
        PROVE  now > deadline[i] - 2 * MaxSkew /\ slot'[held[i]].leased
    <3> DEFINE s == Probe(j, scan[j].attempt)
    <3>1. pc[j] = "scanning" /\ s \in Slot /\ Free(s, scan[j].at) /\ slot' = [slot EXCEPT ![s] = Leased(j)]
      BY <2>1, <2>t, ProbeInSlot DEF TakeSlot, Scanning, TypeOK, Scan
    <3> HIDE DEF s
    <3>2. held[i] = s
      BY <3>1, <2>t DEF TypeOK
    <3>3. slot'[held[i]] = Leased(j)
      BY <3>1, <3>2, <2>t DEF TypeOK
    <3> QED BY <3>1, <3>2, <3>3, TakenOverLate DEF Leased
  <2>2. ASSUME NEW j \in Invocation, Release(j) PROVE FALSE
    <3>1. j # i
      BY <2>2, <2>t DEF Release, Goto, TypeOK, Holding
    <3>2. slot' = slot \/ (slot[held[j]].owner = j /\ slot' = [slot EXCEPT ![held[j]].leased = FALSE])
      BY <2>2 DEF Release, Owns
    <3> QED BY <3>1, <3>2, <2>t DEF TypeOK
  <2>3. \/ \E j \in Invocation : TakeSlot(j)
        \/ \E j \in Invocation : Release(j)
    BY DEF Next, Step, Tick, Invoke, BeginScan, SkipSlot, ScanFails, Busy, BeginCalls,
           BeginAnswer, EndWork, Stop
  <2> QED BY <2>1, <2>2, <2>3, SteadyOwns
<1> QED BY Invariance, <1>1, PTL DEF Spec, WorkerKeepsItsSlot

\* Every lease ends, at once after a clean end and with the lifetime of its invocation
\* otherwise.
THEOREM ComesBack == Spec => []LeasesComeBack
<1>1. IInv => CleanEndLeavesNoLease
  BY DEF IInv, OwnInv, CleanEndLeavesNoLease, Holding
<1>2. IInv => LeasesComeBack
  BY <1>1 DEF IInv, LeasesComeBack
<1> QED BY Invariance, <1>2, PTL

\* Going once around the slots from any offset meets every slot.
LEMMA ScanGoesAround ==
  ASSUME NEW o \in Slot, NEW s \in Slot
  PROVE  \E a \in 0..(MaxInflight - 1) : (o + a) % MaxInflight = s
<1>1. MaxInflight \in Nat /\ MaxInflight > 0 /\ o \in Nat /\ s \in Nat
      /\ o < MaxInflight /\ s < MaxInflight
  BY CapacityAssumption DEF Slot
<1>2. s % MaxInflight = s /\ (s + MaxInflight) % MaxInflight = s
  BY <1>1, Z3
<1>3. CASE o <= s
  <2>1. s - o \in 0..(MaxInflight - 1) /\ o + (s - o) = s
    BY <1>1, <1>3
  <2> QED BY <1>2, <2>1
<1>4. CASE s < o
  <2>1. s - o + MaxInflight \in 0..(MaxInflight - 1) /\ o + (s - o + MaxInflight) = s + MaxInflight
    BY <1>1, <1>4
  <2> QED BY <1>2, <2>1
<1> QED BY <1>1, <1>3, <1>4

\* The caller is told that all slots are taken only after every slot was probed.
THEOREM BusyIsEarned == Spec => BusyProbedEverySlot
<1> DEFINE Probed(i) == Slot \subseteq {Probe(i, a) : a \in 0..(scan[i].attempt - 1)}
           Earned == \A i \in Invocation : pc[i] # "busy" /\ pc'[i] = "busy" => Probed(i)
<1>1. IInv /\ [Next]_vars => [Earned]_vars
  <2> SUFFICES ASSUME IInv, Next, NEW i \in Invocation, pc[i] # "busy", pc'[i] = "busy"
               PROVE  Probed(i)
    OBVIOUS
  <2>1. pc \in [Invocation -> {"idle"} \cup Live \cup Over] /\ scan[i].offset \in Slot
    BY DEF IInv, TypeOK, Scan
  <2>2. Busy(i)
    <3>1. ASSUME NEW j \in Invocation, NEW p, p # "busy", Goto(j, p) PROVE FALSE
      BY <2>1, <3>1 DEF Goto
    <3>2. ASSUME NEW j \in Invocation, Busy(j) PROVE j = i
      BY <2>1, <3>2 DEF Busy, Goto
    <3>3. pc' # pc
      OBVIOUS
    <3> QED BY <3>1, <3>2, <3>3 DEF Next, Tick, Step, Invoke, BeginScan, TakeSlot, SkipSlot,
            ScanFails, BeginCalls, BeginAnswer, EndWork, Release, Stop
  <2>3. scan[i].attempt = MaxInflight
    BY <2>2 DEF Busy, LastAttempt
  <2>4. ASSUME NEW s \in Slot PROVE s \in {Probe(i, a) : a \in 0..(scan[i].attempt - 1)}
    BY <2>1, <2>3, ScanGoesAround DEF Probe
  <2> QED BY <2>4
<1> QED BY Invariance, <1>1, PTL DEF Spec, BusyProbedEverySlot
=============================================================================
