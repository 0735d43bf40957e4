----------------------- MODULE SlackIdempotencyProofs -----------------------
(***************************************************************************)
(* Proofs about SlackIdempotency, for any number of invocations and any    *)
(* timing constants that satisfy TimingAssumption.                         *)
(***************************************************************************)
EXTENDS SlackIdempotency, TLAPS

LEMMA InitIInv == Init => IInv
<1>1. Init => TypeOK
  BY TimingAssumption DEF Init, TypeOK, Row, Absent
<1>2. Init => ClockInv /\ HolderInv /\ ProgressInv /\ HistoryInv
  BY OwnerAssumption DEF Init, ClockInv, HolderInv, ProgressInv, HistoryInv, Live, Working,
     Holding, ReadBackFindsALease, PostedMeansAnswered, Absent
<1> QED BY <1>1, <1>2 DEF IInv

LEMMA TypeStep == TypeOK /\ [Next]_vars => TypeOK'
<1> SUFFICES ASSUME TypeOK, [Next]_vars PROVE TypeOK'
  OBVIOUS
<1> USE TimingAssumption DEF TypeOK, Row, Working, Ended, Goto
<1>1. CASE Tick
  BY <1>1 DEF Tick
<1>2. ASSUME NEW o \in Owner, Step(o) PROVE TypeOK'
  <2>1. CASE Invoke(o)
    BY <2>1 DEF Invoke
  <2>2. CASE BeginClaim(o)
    BY <2>2 DEF BeginClaim
  <2>3. CASE PutReceived(o)
    BY <2>3 DEF PutReceived
  <2>4. CASE TryLease(o)
    BY <2>4 DEF TryLease, LeasedBy
  <2>5. CASE ReadBack(o)
    BY <2>5 DEF ReadBack
  <2>6. CASE PostAnswer(o)
    BY <2>6 DEF PostAnswer
  <2>7. CASE MarkPosted(o)
    BY <2>7 DEF MarkPosted, PostedRow
  <2>8. CASE Stop(o)
    BY <2>8 DEF Stop
  <2> QED BY <1>2, <2>1, <2>2, <2>3, <2>4, <2>5, <2>6, <2>7, <2>8 DEF Step
<1>3. CASE UNCHANGED vars
  BY <1>3 DEF vars
<1> QED BY <1>1, <1>2, <1>3 DEF Next

\* The heart of the protocol: when an invocation finds the lease free, no other
\* invocation is working under that lease.
LEMMA FreeLeaseHasNoHolder ==
  ASSUME IInv, NEW p \in Owner, pc[p] = "update", LeaseFree(seen[p]), NEW o \in Owner
  PROVE  ~Holding(o)
<1> SUFFICES ASSUME Holding(o) PROVE FALSE
  OBVIOUS
<1>1. row.state = "processing" /\ start[o] - MaxSkew + Lease <= row.lease
  BY DEF IInv, HolderInv
<1>2. row.lease < seen[p]
  BY <1>1 DEF LeaseFree
<1>3. seen[p] <= now + MaxSkew
  BY DEF IInv, ClockInv, Live, Working
<1>4. now <= start[o] + LambdaTimeout
  BY DEF IInv, ClockInv, Holding, Live, Working
<1>5. /\ now \in Int /\ start[o] \in Int /\ seen[p] \in Int /\ row.lease \in Int
  BY DEF IInv, TypeOK, Row
<1> QED BY <1>1, <1>2, <1>3, <1>4, <1>5, TimingAssumption

LEMMA ClockStep == IInv /\ [Next]_vars => ClockInv'
<1> SUFFICES ASSUME IInv, [Next]_vars, NEW q \in Owner, Live(q)'
             PROVE  /\ start'[q] <= now' /\ now' <= start'[q] + LambdaTimeout
                    /\ pc'[q] # "started" =>
                         start'[q] - MaxSkew <= seen'[q] /\ seen'[q] <= now' + MaxSkew
  BY DEF ClockInv
<1> USE TimingAssumption DEF IInv, TypeOK, ClockInv, Live, Working, Ended, Goto
<1>1. CASE Tick
  BY <1>1 DEF Tick
<1>2. ASSUME NEW o \in Owner, Step(o)
      PROVE  /\ start'[q] <= now' /\ now' <= start'[q] + LambdaTimeout
             /\ pc'[q] # "started" =>
                  start'[q] - MaxSkew <= seen'[q] /\ seen'[q] <= now' + MaxSkew
  <2>1. CASE Invoke(o)
    BY <2>1 DEF Invoke
  <2>2. CASE BeginClaim(o)
    BY <2>2 DEF BeginClaim
  <2>3. CASE PutReceived(o)
    BY <2>3 DEF PutReceived
  <2>4. CASE TryLease(o)
    BY <2>4 DEF TryLease
  <2>5. CASE ReadBack(o)
    BY <2>5 DEF ReadBack
  <2>6. CASE PostAnswer(o)
    BY <2>6 DEF PostAnswer
  <2>7. CASE MarkPosted(o)
    BY <2>7 DEF MarkPosted
  <2>8. CASE Stop(o)
    BY <2>8 DEF Stop
  <2> QED BY <1>2, <2>1, <2>2, <2>3, <2>4, <2>5, <2>6, <2>7, <2>8 DEF Step
<1>3. CASE UNCHANGED vars
  BY <1>3 DEF vars
<1> QED BY <1>1, <1>2, <1>3 DEF Next

LEMMA HolderStep == IInv /\ [Next]_vars => HolderInv'
<1> SUFFICES ASSUME IInv, [Next]_vars, NEW q \in Owner, Holding(q)'
             PROVE  /\ row'.state = "processing" /\ row'.owner = q
                    /\ start'[q] - MaxSkew + Lease <= row'.lease
  BY DEF HolderInv
<1> USE DEF IInv, TypeOK, HolderInv, Holding, Working, Ended, Goto
<1>1. CASE Tick
  BY <1>1 DEF Tick
<1>2. ASSUME NEW o \in Owner, Step(o)
      PROVE  /\ row'.state = "processing" /\ row'.owner = q
             /\ start'[q] - MaxSkew + Lease <= row'.lease
  <2>1. CASE Invoke(o)
    BY <2>1 DEF Invoke
  <2>2. CASE BeginClaim(o)
    BY <2>2 DEF BeginClaim
  <2>3. CASE PutReceived(o)
    BY <2>3 DEF PutReceived
  <2>4. CASE TryLease(o)
    <3>1. CASE row' = row /\ (Goto(o, "readback") \/ Goto(o, "failed"))
      <4>1. Holding(q) /\ start' = start
        BY <2>4, <3>1 DEF TryLease
      <4> QED BY <3>1, <4>1
    <3>2. CASE LeaseFree(seen[o]) /\ row' = LeasedBy(o)
      <4>1. ~Holding(q)
        BY <2>4, <3>2, FreeLeaseHasNoHolder DEF TryLease
      <4>2. q = o /\ start' = start
        BY <2>4, <4>1 DEF TryLease
      <4>3. start[o] - MaxSkew <= seen[o]
        BY <2>4 DEF TryLease, ClockInv, Live
      <4>4. start[o] - MaxSkew + Lease <= seen[o] + Lease
        BY <4>3, TimingAssumption
      <4> QED BY <3>2, <4>2, <4>4 DEF LeasedBy
    <3> QED BY <2>4, <3>1, <3>2 DEF TryLease
  <2>5. CASE ReadBack(o)
    BY <2>5 DEF ReadBack
  <2>6. CASE PostAnswer(o)
    BY <2>6 DEF PostAnswer
  <2>7. CASE MarkPosted(o)
    BY <2>7 DEF MarkPosted, PostedRow
  <2>8. CASE Stop(o)
    BY <2>8 DEF Stop
  <2> QED BY <1>2, <2>1, <2>2, <2>3, <2>4, <2>5, <2>6, <2>7, <2>8 DEF Step
<1>3. CASE UNCHANGED vars
  BY <1>3 DEF vars
<1> QED BY <1>1, <1>2, <1>3 DEF Next

LEMMA ProgressStep == IInv /\ [Next]_vars => ProgressInv'
<1> SUFFICES ASSUME IInv, [Next]_vars PROVE ProgressInv'
  OBVIOUS
<1> USE DEF IInv, TypeOK, ProgressInv, ReadBackFindsALease, Working, Ended, Goto
<1>1. CASE Tick
  BY <1>1 DEF Tick
<1>2. ASSUME NEW o \in Owner, Step(o) PROVE ProgressInv'
  <2>1. CASE Invoke(o)
    BY <2>1 DEF Invoke
  <2>2. CASE BeginClaim(o)
    BY <2>2 DEF BeginClaim
  <2>3. CASE PutReceived(o)
    BY <2>3 DEF PutReceived, Row
  <2>4. CASE TryLease(o)
    BY <2>4 DEF TryLease, LeasedBy, LeaseFree, Row
  <2>5. CASE ReadBack(o)
    BY <2>5 DEF ReadBack
  <2>6. CASE PostAnswer(o)
    BY <2>6 DEF PostAnswer
  <2>7. CASE MarkPosted(o)
    BY <2>7 DEF MarkPosted, PostedRow
  <2>8. CASE Stop(o)
    BY <2>8 DEF Stop
  <2> QED BY <1>2, <2>1, <2>2, <2>3, <2>4, <2>5, <2>6, <2>7, <2>8 DEF Step
<1>3. CASE UNCHANGED vars
  BY <1>3 DEF vars
<1> QED BY <1>1, <1>2, <1>3 DEF Next

LEMMA HistoryStep == IInv /\ [Next]_vars => HistoryInv'
<1> SUFFICES ASSUME IInv, [Next]_vars PROVE HistoryInv'
  OBVIOUS
<1> USE DEF IInv, TypeOK, HistoryInv, PostedMeansAnswered, Working, Ended, Goto
<1>1. CASE Tick
  BY <1>1 DEF Tick
<1>2. ASSUME NEW o \in Owner, Step(o) PROVE HistoryInv'
  <2>1. CASE Invoke(o)
    BY <2>1 DEF Invoke
  <2>2. CASE BeginClaim(o)
    BY <2>2 DEF BeginClaim
  <2>3. CASE PutReceived(o)
    BY <2>3 DEF PutReceived, Row
  <2>4. CASE TryLease(o)
    BY <2>4 DEF TryLease, LeasedBy
  <2>5. CASE ReadBack(o)
    BY <2>5 DEF ReadBack
  <2>6. CASE PostAnswer(o)
    BY <2>6 DEF PostAnswer, HolderInv, Holding
  <2>7. CASE MarkPosted(o)
    BY <2>7 DEF MarkPosted, PostedRow, ProgressInv
  <2>8. CASE Stop(o)
    BY <2>8 DEF Stop, Live
  <2> QED BY <1>2, <2>1, <2>2, <2>3, <2>4, <2>5, <2>6, <2>7, <2>8 DEF Step
<1>3. CASE UNCHANGED vars
  BY <1>3 DEF vars
<1> QED BY <1>1, <1>2, <1>3 DEF Next

\* IInv holds in every reachable state of the claim protocol: the row, the clocks
\* and the program counters of all invocations stay consistent.
THEOREM Invariance == Spec => []IInv
<1>1. IInv /\ [Next]_vars => IInv'
  BY TypeStep, ClockStep, HolderStep, ProgressStep, HistoryStep DEF IInv
<1> QED BY InitIInv, <1>1, PTL DEF Spec

\* Every variable of the claim protocol keeps its type (slack-idempotency.ts).
THEOREM TypeCorrect == Spec => []TypeOK
<1>1. IInv => TypeOK
  BY DEF IInv
<1> QED BY Invariance, <1>1, PTL

\* At most one invocation at a time may answer the event, whatever the number of
\* copies, crashes and clock skew within the margin of the lease.
THEOREM Exclusive == Spec => []ExclusiveHolder
<1>1. IInv => ExclusiveHolder
  BY DEF IInv, HolderInv, ExclusiveHolder
<1> QED BY Invariance, <1>1, PTL

\* A second answer needs an invocation that sent one and failed to record it.
THEOREM DuplicatesExplained == Spec => []DuplicateNeedsAFailure
<1>1. IInv => DuplicateNeedsAFailure
  <2> SUFFICES ASSUME IInv, NEW o \in posts, NEW p \in posts, o # p,
                      pc[o] # "failed", pc[p] # "failed"
               PROVE  FALSE
    BY DEF DuplicateNeedsAFailure
  <2>1. o \in Owner /\ p \in Owner
    BY DEF IInv, TypeOK
  <2>2. pc[o] \in {"answered", "done"} /\ pc[p] \in {"answered", "done"}
    BY DEF IInv, HistoryInv
  <2>3. CASE pc[o] = "done" /\ pc[p] = "done"
    BY <2>1, <2>3 DEF IInv, HistoryInv
  <2>4. CASE pc[o] = "answered"
    BY <2>1, <2>2, <2>4 DEF IInv, HolderInv, Holding, ProgressInv
  <2>5. CASE pc[p] = "answered"
    BY <2>1, <2>2, <2>5 DEF IInv, HolderInv, Holding, ProgressInv
  <2> QED BY <2>2, <2>3, <2>4, <2>5
<1> QED BY Invariance, <1>1, PTL

\* After `posted' the row is frozen and no answer is sent any more.
THEOREM PostedIsFinal == Spec => NoAnswerAfterPosted
<1>1. IInv /\ [Next]_vars => [row.state = "posted" => row' = row /\ posts' = posts]_vars
  <2> SUFFICES ASSUME IInv, Next, row.state = "posted"
               PROVE  row' = row /\ posts' = posts
    OBVIOUS
  <2>1. \A o \in Owner : ~Holding(o)
    BY DEF IInv, HolderInv
  <2>2. CASE Tick
    BY <2>2 DEF Tick
  <2>3. ASSUME NEW o \in Owner, Step(o) PROVE row' = row /\ posts' = posts
    BY <2>1, <2>3 DEF Step, Invoke, BeginClaim, PutReceived, TryLease, LeaseFree, ReadBack,
       PostAnswer, MarkPosted, Stop, Holding
  <2> QED BY <2>2, <2>3 DEF Next
<1> QED BY Invariance, <1>1, PTL DEF Spec, NoAnswerAfterPosted

=============================================================================
