------------------------- MODULE FaqQaNotifyProofs -------------------------
(***************************************************************************)
(* Proofs about FaqQaNotify, for any number of deliveries and attempts and *)
(* any timing constants that satisfy TimingAssumption.                     *)
(***************************************************************************)
EXTENDS FaqQaNotify, TLAPS

LEMMA InitIInv == Init => IInv
<1> SUFFICES ASSUME Init PROVE IInv
  OBVIOUS
<1> USE NameAssumption, CountAssumption, TimingAssumption DEF Init, NoRow
<1>1. TypeOK
  BY DEF TypeOK, Mode, Row
<1>2. ClockInv /\ HolderInv /\ ExclusiveSender
  BY DEF ClockInv, HolderInv, ExclusiveSender, Live, Working, Holding
<1>3. RowInv
  BY DEF RowInv, Deleted
<1>4. SideInv /\ HistoryInv
  BY DEF SideInv, HistoryInv, Claiming, Holding
<1>5. AckMeansPosted /\ ReleasedIsRetryable /\ SendInv
  BY DEF AckMeansPosted, ReleasedIsRetryable, SendInv
<1> QED BY <1>1, <1>2, <1>3, <1>4, <1>5 DEF IInv

\* The heart of the protocol: a delivery that finds the row claimable finds
\* nobody working on it.
LEMMA ClaimableHasNoHolder ==
  ASSUME IInv, NEW d \in Delivery, pc[d] = "claim", Claimable(seen[d]), NEW e \in Delivery
  PROVE  ~Holding(e)
<1> SUFFICES ASSUME Holding(e) PROVE FALSE
  OBVIOUS
<1>1. row.status = "sending" /\ start[e] - MaxSkew + Lease <= row.lease
  BY DEF IInv, HolderInv, Claimable
<1>2. row.lease <= seen[d]
  BY <1>1 DEF Claimable
<1>3. seen[d] <= now + MaxSkew
  BY DEF IInv, ClockInv, Live, Working
<1>4. now <= start[e] + LambdaTimeout
  BY DEF IInv, ClockInv, Holding, Live, Working
<1>5. now \in Int /\ start[e] \in Int /\ seen[d] \in Int /\ row.lease \in Int
  BY DEF IInv, TypeOK, Row
<1> QED BY <1>1, <1>2, <1>3, <1>4, <1>5, TimingAssumption

LEMMA TickKeeps ==
  ASSUME IInv, Tick
  PROVE  IInv'
<1> USE NameAssumption, CountAssumption, TimingAssumption DEF IInv, TypeOK, Row, Mode,
       Working, Ended, shellVars, sourceVars, slackVars, Tick
<1>1. TypeOK'
  OBVIOUS
<1>2. ClockInv'
  BY DEF ClockInv, Live
<1>3. HolderInv'
  BY DEF HolderInv, Holding
<1>4. RowInv'
  BY DEF RowInv, NoRow, Deleted
<1>5. SideInv'
  BY DEF SideInv, Claiming, Holding
<1>6. HistoryInv'
  BY DEF HistoryInv, Holding
<1>7. ExclusiveSender'
  BY DEF ExclusiveSender, Holding
<1>8. AckMeansPosted'
  BY DEF AckMeansPosted, HistoryInv, RowInv
<1>9. ReleasedIsRetryable'
  BY DEF ReleasedIsRetryable
<1>10. SendInv'
  BY DEF SendInv
<1> QED BY <1>1, <1>2, <1>3, <1>4, <1>5, <1>6, <1>7, <1>8, <1>9, <1>10

LEMMA StartPutKeeps ==
  ASSUME IInv, StartPut
  PROVE  IInv'
<1> USE NameAssumption, CountAssumption, TimingAssumption DEF IInv, TypeOK, Row, Mode,
       Working, Ended, shellVars, sourceVars, slackVars, StartPut
<1>1. TypeOK'
  OBVIOUS
<1>2. ClockInv'
  BY DEF ClockInv, Live
<1>3. HolderInv'
  BY DEF HolderInv, Holding
<1>4. RowInv'
  BY DEF RowInv, NoRow, Deleted
<1>5. SideInv'
  BY DEF SideInv, Claiming, Holding
<1>6. HistoryInv'
  BY DEF HistoryInv, Holding
<1>7. ExclusiveSender'
  BY DEF ExclusiveSender, Holding
<1>8. AckMeansPosted'
  BY DEF AckMeansPosted, HistoryInv, RowInv
<1>9. ReleasedIsRetryable'
  BY DEF ReleasedIsRetryable
<1>10. SendInv'
  BY DEF SendInv
<1> QED BY <1>1, <1>2, <1>3, <1>4, <1>5, <1>6, <1>7, <1>8, <1>9, <1>10

LEMMA PutLandsKeeps ==
  ASSUME IInv, PutLands
  PROVE  IInv'
<1> USE NameAssumption, CountAssumption, TimingAssumption DEF IInv, TypeOK, Row, Mode,
       Working, Ended, shellVars, sourceVars, slackVars, PutLands, PutRow, Inserted, Carried, Answer,
       NoRow
<1>1. TypeOK'
  OBVIOUS
<1>2. ClockInv'
  BY DEF ClockInv, Live
<1>3. HolderInv'
  BY DEF HolderInv, Holding
<1>4. RowInv'
  BY DEF RowInv, Deleted
<1>5. SideInv'
  BY DEF SideInv, Claiming, Holding
<1>6. HistoryInv'
  BY DEF HistoryInv, RowInv, Holding
<1>7. ExclusiveSender'
  BY DEF ExclusiveSender, Holding
<1>8. AckMeansPosted'
  BY DEF AckMeansPosted, HistoryInv, RowInv
<1>9. ReleasedIsRetryable'
  BY DEF ReleasedIsRetryable
<1>10. SendInv'
  BY DEF SendInv
<1> QED BY <1>1, <1>2, <1>3, <1>4, <1>5, <1>6, <1>7, <1>8, <1>9, <1>10

LEMMA PutTimesOutKeeps ==
  ASSUME IInv, PutTimesOut
  PROVE  IInv'
<1> USE NameAssumption, CountAssumption, TimingAssumption DEF IInv, TypeOK, Row, Mode,
       Working, Ended, shellVars, sourceVars, slackVars, PutTimesOut
<1>1. TypeOK'
  OBVIOUS
<1>2. ClockInv'
  BY DEF ClockInv, Live
<1>3. HolderInv'
  BY DEF HolderInv, Holding
<1>4. RowInv'
  BY DEF RowInv, NoRow, Deleted
<1>5. SideInv'
  BY DEF SideInv, Claiming, Holding
<1>6. HistoryInv'
  BY DEF HistoryInv, Holding
<1>7. ExclusiveSender'
  BY DEF ExclusiveSender, Holding
<1>8. AckMeansPosted'
  BY DEF AckMeansPosted, HistoryInv, RowInv
<1>9. ReleasedIsRetryable'
  BY DEF ReleasedIsRetryable
<1>10. SendInv'
  BY DEF SendInv
<1> QED BY <1>1, <1>2, <1>3, <1>4, <1>5, <1>6, <1>7, <1>8, <1>9, <1>10

LEMMA NotifyQaLogKeeps ==
  ASSUME IInv, NotifyQaLog
  PROVE  IInv'
<1> USE NameAssumption, CountAssumption, TimingAssumption DEF IInv, TypeOK, Row, Mode,
       Working, Ended, shellVars, sourceVars, slackVars, NotifyQaLog, ShellSends
<1>1. TypeOK'
  OBVIOUS
<1>2. ClockInv'
  BY DEF ClockInv, Live
<1>3. HolderInv'
  BY DEF HolderInv, Holding
<1>4. RowInv'
  BY DEF RowInv, NoRow, Deleted
<1>5. SideInv'
  BY DEF SideInv, Claiming, Holding
<1>6. HistoryInv'
  BY DEF HistoryInv, Holding
<1>7. ExclusiveSender'
  BY DEF ExclusiveSender, Holding
<1>8. AckMeansPosted'
  BY DEF AckMeansPosted, HistoryInv, RowInv
<1>9. ReleasedIsRetryable'
  BY DEF ReleasedIsRetryable
<1>10. SendInv'
  BY DEF SendInv
<1> QED BY <1>1, <1>2, <1>3, <1>4, <1>5, <1>6, <1>7, <1>8, <1>9, <1>10

LEMMA ShellPostsKeeps ==
  ASSUME IInv, ShellPosts
  PROVE  IInv'
<1> USE NameAssumption, CountAssumption, TimingAssumption DEF IInv, TypeOK, Row, Mode,
       Working, Ended, shellVars, sourceVars, slackVars, ShellPosts
<1>1. TypeOK'
  OBVIOUS
<1>2. ClockInv'
  BY DEF ClockInv, Live
<1>3. HolderInv'
  BY DEF HolderInv, Holding
<1>4. RowInv'
  BY DEF RowInv, NoRow, Deleted
<1>5. SideInv'
  BY DEF SideInv, Claiming, Holding
<1>6. HistoryInv'
  BY DEF HistoryInv, Holding
<1>7. ExclusiveSender'
  BY DEF ExclusiveSender, Holding
<1>8. AckMeansPosted'
  BY DEF AckMeansPosted, HistoryInv, RowInv
<1>9. ReleasedIsRetryable'
  BY DEF ReleasedIsRetryable
<1>10. SendInv'
  BY DEF SendInv
<1> QED BY <1>1, <1>2, <1>3, <1>4, <1>5, <1>6, <1>7, <1>8, <1>9, <1>10

LEMMA DeleteRowKeeps ==
  ASSUME IInv, DeleteRow
  PROVE  IInv'
<1> USE NameAssumption, CountAssumption, TimingAssumption DEF IInv, TypeOK, Row, Mode,
       Working, Ended, shellVars, sourceVars, slackVars, DeleteRow, Deleted, NoRow
<1>1. TypeOK'
  OBVIOUS
<1>2. ClockInv'
  BY DEF ClockInv, Live
<1>3. HolderInv'
  BY DEF HolderInv, Holding
<1>4. RowInv'
  BY DEF RowInv
<1>5. SideInv'
  BY DEF SideInv, Claiming, Holding
<1>6. HistoryInv'
  BY DEF HistoryInv, Holding
<1>7. ExclusiveSender'
  BY DEF ExclusiveSender, Holding
<1>8. AckMeansPosted'
  BY DEF AckMeansPosted, HistoryInv, RowInv
<1>9. ReleasedIsRetryable'
  BY DEF ReleasedIsRetryable
<1>10. SendInv'
  BY DEF SendInv
<1> QED BY <1>1, <1>2, <1>3, <1>4, <1>5, <1>6, <1>7, <1>8, <1>9, <1>10

LEMMA DiscardKeeps ==
  ASSUME IInv, Discard
  PROVE  IInv'
<1> USE NameAssumption, CountAssumption, TimingAssumption DEF IInv, TypeOK, Row, Mode,
       Working, Ended, shellVars, sourceVars, slackVars, Discard
<1>1. TypeOK'
  OBVIOUS
<1>2. ClockInv'
  BY DEF ClockInv, Live
<1>3. HolderInv'
  BY DEF HolderInv, Holding
<1>4. RowInv'
  BY DEF RowInv, NoRow, Deleted
<1>5. SideInv'
  BY DEF SideInv, Claiming, Holding
<1>6. HistoryInv'
  BY DEF HistoryInv, Holding
<1>7. ExclusiveSender'
  BY DEF ExclusiveSender, Holding
<1>8. AckMeansPosted'
  BY DEF AckMeansPosted, HistoryInv, RowInv
<1>9. ReleasedIsRetryable'
  BY DEF ReleasedIsRetryable
<1>10. SendInv'
  BY DEF SendInv
<1> QED BY <1>1, <1>2, <1>3, <1>4, <1>5, <1>6, <1>7, <1>8, <1>9, <1>10

LEMMA DeliverKeeps ==
  ASSUME IInv, NEW d \in Delivery, Deliver(d)
  PROVE  IInv'
<1> USE NameAssumption, CountAssumption, TimingAssumption DEF IInv, TypeOK, Row, Mode,
       Working, Ended, shellVars, sourceVars, slackVars, Deliver, Goto, Invoked
<1>1. TypeOK'
  OBVIOUS
<1>2. ClockInv'
  BY DEF ClockInv, Live
<1>3. HolderInv'
  BY DEF HolderInv, Holding
<1>4. RowInv'
  BY DEF RowInv, NoRow, Deleted
<1>5. SideInv'
  BY DEF SideInv, Claiming, Holding
<1>6. HistoryInv'
  BY DEF HistoryInv, Holding
<1>7. ExclusiveSender'
  BY DEF ExclusiveSender, Holding
<1>8. AckMeansPosted'
  BY DEF AckMeansPosted, HistoryInv, RowInv
<1>9. ReleasedIsRetryable'
  BY DEF ReleasedIsRetryable
<1>10. SendInv'
  BY DEF SendInv
<1> QED BY <1>1, <1>2, <1>3, <1>4, <1>5, <1>6, <1>7, <1>8, <1>9, <1>10

LEMMA ReplayKeeps ==
  ASSUME IInv, NEW d \in Delivery, Replay(d)
  PROVE  IInv'
<1> USE NameAssumption, CountAssumption, TimingAssumption DEF IInv, TypeOK, Row, Mode,
       Working, Ended, shellVars, sourceVars, slackVars, Replay, Goto, Invoked
<1>1. TypeOK'
  OBVIOUS
<1>2. ClockInv'
  BY DEF ClockInv, Live
<1>3. HolderInv'
  BY DEF HolderInv, Holding
<1>4. RowInv'
  BY DEF RowInv, NoRow, Deleted
<1>5. SideInv'
  BY DEF SideInv, Claiming, Holding
<1>6. HistoryInv'
  BY DEF HistoryInv, Holding
<1>7. ExclusiveSender'
  BY DEF ExclusiveSender, Holding
<1>8. AckMeansPosted'
  BY DEF AckMeansPosted, HistoryInv, RowInv
<1>9. ReleasedIsRetryable'
  BY DEF ReleasedIsRetryable
<1>10. SendInv'
  BY DEF SendInv
<1> QED BY <1>1, <1>2, <1>3, <1>4, <1>5, <1>6, <1>7, <1>8, <1>9, <1>10

LEMMA BeginClaimKeeps ==
  ASSUME IInv, NEW d \in Delivery, BeginClaim(d)
  PROVE  IInv'
<1> USE NameAssumption, CountAssumption, TimingAssumption DEF IInv, TypeOK, Row, Mode,
       Working, Ended, shellVars, sourceVars, slackVars, BeginClaim, Goto, Finish
<1>1. TypeOK'
  OBVIOUS
<1>2. ClockInv'
  BY DEF ClockInv, Live
<1>3. HolderInv'
  BY DEF HolderInv, Holding
<1>4. RowInv'
  BY DEF RowInv, NoRow, Deleted
<1>5. SideInv'
  BY DEF SideInv, Claiming, Holding
<1>6. HistoryInv'
  BY DEF HistoryInv, Holding
<1>7. ExclusiveSender'
  BY DEF ExclusiveSender, Holding
<1>8. AckMeansPosted'
  BY DEF AckMeansPosted, HistoryInv, RowInv
<1>9. ReleasedIsRetryable'
  BY DEF ReleasedIsRetryable
<1>10. SendInv'
  BY DEF SendInv
<1> QED BY <1>1, <1>2, <1>3, <1>4, <1>5, <1>6, <1>7, <1>8, <1>9, <1>10

LEMMA TryClaimKeeps ==
  ASSUME IInv, NEW d \in Delivery, TryClaim(d)
  PROVE  IInv'
<1> USE NameAssumption, CountAssumption, TimingAssumption DEF IInv, TypeOK, Row, Mode,
       Working, Ended, shellVars, sourceVars, slackVars, TryClaim, Goto, ClaimedBy, Fail, Finish
<1>1. TypeOK'
  OBVIOUS
<1>2. ClockInv'
  BY DEF ClockInv, Live
<1>3. HolderInv'
  <2> SUFFICES ASSUME NEW e \in Delivery, Holding(e)'
               PROVE  /\ row'.state # "none" /\ row'.status # "sent"
                      /\ row'.state = "present" =>
                           /\ row'.status = "sending" /\ row'.owner = e
                           /\ start'[e] - MaxSkew + Lease <= row'.lease
    BY DEF HolderInv
  <2>1. CASE row' = row /\ pc'[d] \in {"readback", "failed"}
    <3>1. e # d /\ Holding(e)
      BY <2>1 DEF Holding
    <3> QED BY <2>1, <3>1 DEF HolderInv
  <2>2. CASE Claimable(seen[d]) /\ row' = ClaimedBy(d)
    <3>1. e = d /\ pc'[d] = "claimed"
      BY <2>2, ClaimableHasNoHolder DEF Holding
    <3>2. start[d] - MaxSkew <= seen[d] /\ start'[d] = start[d]
      BY <3>1 DEF ClockInv, Live
    <3>3. start[d] \in Int /\ seen[d] \in Int
      OBVIOUS
    <3> HIDE DEF IInv, TypeOK, TryClaim
    <3>4. row' = [state |-> "present", status |-> "sending", owner |-> d, lease |-> seen[d]
       + Lease]
      BY <2>2
    <3>5. /\ row'.state = "present" /\ row'.status = "sending"
          /\ row'.owner = d /\ row'.lease = seen[d] + Lease
      BY <3>4
    <3> QED BY <3>1, <3>2, <3>3, <3>5
  <2> QED BY <2>1, <2>2
<1>4. RowInv'
  BY DEF RowInv, NoRow, Deleted
<1>5. SideInv'
  BY DEF SideInv, Claiming, Holding
<1>6. HistoryInv'
  <2>1. CASE row' = row /\ pc'[d] \in {"readback", "failed"}
    BY <2>1 DEF HistoryInv, Holding
  <2>2. CASE Claimable(seen[d]) /\ row' = ClaimedBy(d)
    <3>1. \A e \in Delivery : pc[e] # "done"
      BY <2>2 DEF HistoryInv, RowInv, Claimable
    <3> QED BY <2>2, <3>1 DEF HistoryInv, Holding
  <2> QED BY <2>1, <2>2
<1>7. ExclusiveSender'
  BY ClaimableHasNoHolder DEF ExclusiveSender, Holding
<1>8. AckMeansPosted'
  BY DEF AckMeansPosted, HistoryInv, RowInv
<1>9. ReleasedIsRetryable'
  BY DEF ReleasedIsRetryable
<1>10. SendInv'
  BY DEF SendInv
<1> QED BY <1>1, <1>2, <1>3, <1>4, <1>5, <1>6, <1>7, <1>8, <1>9, <1>10

LEMMA ReadBackKeeps ==
  ASSUME IInv, NEW d \in Delivery, ReadBack(d)
  PROVE  IInv'
<1> USE NameAssumption, CountAssumption, TimingAssumption DEF IInv, TypeOK, Row, Mode,
       Working, Ended, shellVars, sourceVars, slackVars, ReadBack, Goto, DeliveredRow, Fail, Finish
<1>1. TypeOK'
  OBVIOUS
<1>2. ClockInv'
  BY DEF ClockInv, Live
<1>3. HolderInv'
  BY DEF HolderInv, Holding
<1>4. RowInv'
  BY DEF RowInv, NoRow, Deleted
<1>5. SideInv'
  BY DEF SideInv, Claiming, Holding
<1>6. HistoryInv'
  BY DEF HistoryInv, Holding
<1>7. ExclusiveSender'
  BY DEF ExclusiveSender, Holding
<1>8. AckMeansPosted'
  BY DEF AckMeansPosted, HistoryInv, RowInv
<1>9. ReleasedIsRetryable'
  BY DEF ReleasedIsRetryable
<1>10. SendInv'
  BY DEF SendInv
<1> QED BY <1>1, <1>2, <1>3, <1>4, <1>5, <1>6, <1>7, <1>8, <1>9, <1>10

LEMMA StartSendKeeps ==
  ASSUME IInv, NEW d \in Delivery, StartSend(d)
  PROVE  IInv'
<1> USE NameAssumption, CountAssumption, TimingAssumption DEF IInv, TypeOK, Row, Mode,
       Working, Ended, shellVars, sourceVars, slackVars, StartSend, Goto, Budget
<1>1. TypeOK'
  OBVIOUS
<1>2. ClockInv'
  BY DEF ClockInv, Live
<1>3. HolderInv'
  BY DEF HolderInv, Holding
<1>4. RowInv'
  BY DEF RowInv, NoRow, Deleted
<1>5. SideInv'
  BY DEF SideInv, Claiming, Holding
<1>6. HistoryInv'
  BY DEF HistoryInv, Holding
<1>7. ExclusiveSender'
  BY DEF ExclusiveSender, Holding
<1>8. AckMeansPosted'
  BY DEF AckMeansPosted, HistoryInv, RowInv
<1>9. ReleasedIsRetryable'
  BY DEF ReleasedIsRetryable
<1>10. SendInv'
  BY DEF SendInv
<1> QED BY <1>1, <1>2, <1>3, <1>4, <1>5, <1>6, <1>7, <1>8, <1>9, <1>10

LEMMA SlackAcceptsKeeps ==
  ASSUME IInv, NEW s \in Delivery \cup {Shell}, SlackAccepts(s)
  PROVE  IInv'
<1> USE NameAssumption, CountAssumption, TimingAssumption DEF IInv, TypeOK, Row, Mode,
       Working, Ended, shellVars, sourceVars, slackVars, SlackAccepts, Goto
<1>1. TypeOK'
  OBVIOUS
<1>2. ClockInv'
  BY DEF ClockInv, Live
<1>3. HolderInv'
  BY DEF HolderInv, Holding
<1>4. RowInv'
  BY DEF RowInv, NoRow, Deleted
<1>5. SideInv'
  BY DEF SideInv, Claiming, Holding
<1>6. HistoryInv'
  BY DEF HistoryInv, Holding
<1>7. ExclusiveSender'
  BY DEF ExclusiveSender, Holding
<1>8. AckMeansPosted'
  BY DEF AckMeansPosted, HistoryInv, RowInv
<1>9. ReleasedIsRetryable'
  BY DEF ReleasedIsRetryable
<1>10. SendInv'
  BY DEF SendInv
<1> QED BY <1>1, <1>2, <1>3, <1>4, <1>5, <1>6, <1>7, <1>8, <1>9, <1>10

LEMMA SendReturnsKeeps ==
  ASSUME IInv, NEW d \in Delivery, SendReturns(d)
  PROVE  IInv'
<1> USE NameAssumption, CountAssumption, TimingAssumption DEF IInv, TypeOK, Row, Mode,
       Working, Ended, shellVars, sourceVars, slackVars, SendReturns, Goto, Succeeded
<1>1. TypeOK'
  OBVIOUS
<1>2. ClockInv'
  BY DEF ClockInv, Live
<1>3. HolderInv'
  BY DEF HolderInv, Holding
<1>4. RowInv'
  BY DEF RowInv, NoRow, Deleted
<1>5. SideInv'
  BY DEF SideInv, Claiming, Holding
<1>6. HistoryInv'
  BY DEF HistoryInv, Holding
<1>7. ExclusiveSender'
  BY DEF ExclusiveSender, Holding
<1>8. AckMeansPosted'
  BY DEF AckMeansPosted, HistoryInv, RowInv
<1>9. ReleasedIsRetryable'
  BY DEF ReleasedIsRetryable
<1>10. SendInv'
  BY DEF SendInv
<1> QED BY <1>1, <1>2, <1>3, <1>4, <1>5, <1>6, <1>7, <1>8, <1>9, <1>10

LEMMA CompleteKeeps ==
  ASSUME IInv, NEW d \in Delivery, Complete(d)
  PROVE  IInv'
<1> USE NameAssumption, CountAssumption, TimingAssumption DEF IInv, TypeOK, Row, Mode,
       Working, Ended, shellVars, sourceVars, slackVars, Complete, Goto, Owns, SentRow, Fail, Finish
<1>1. TypeOK'
  OBVIOUS
<1>2. ClockInv'
  BY DEF ClockInv, Live
<1>3. HolderInv'
  BY DEF HolderInv, Holding
<1>4. RowInv'
  <2>1. posts # {}
    BY DEF HistoryInv
  <2> QED BY <2>1 DEF RowInv, NoRow, Deleted
<1>5. SideInv'
  BY DEF SideInv, Claiming, Holding
<1>6. HistoryInv'
  <2>1. \A e \in Delivery : pc[e] = "done" => ~Owns(d)
    BY DEF HistoryInv, RowInv, Deleted
  <2>2. \A e \in Delivery : Holding(e) => e = d
    BY DEF ExclusiveSender, Holding
  <2> QED BY <2>1, <2>2 DEF HistoryInv, RowInv, Holding
<1>7. ExclusiveSender'
  BY DEF ExclusiveSender, Holding
<1>8. AckMeansPosted'
  BY DEF AckMeansPosted, HistoryInv, RowInv
<1>9. ReleasedIsRetryable'
  BY DEF ReleasedIsRetryable
<1>10. SendInv'
  BY DEF SendInv
<1> QED BY <1>1, <1>2, <1>3, <1>4, <1>5, <1>6, <1>7, <1>8, <1>9, <1>10

LEMMA ReleaseKeeps ==
  ASSUME IInv, NEW d \in Delivery, Release(d)
  PROVE  IInv'
<1> USE NameAssumption, CountAssumption, TimingAssumption DEF IInv, TypeOK, Row, Mode,
       Working, Ended, shellVars, sourceVars, slackVars, Release, Goto, Owns, ReleasedRow, Fail, Finish
<1>1. TypeOK'
  OBVIOUS
<1>2. ClockInv'
  BY DEF ClockInv, Live
<1>3. HolderInv'
  BY DEF HolderInv, Holding
<1>4. RowInv'
  BY DEF RowInv, NoRow, Deleted
<1>5. SideInv'
  BY DEF SideInv, Claiming, Holding
<1>6. HistoryInv'
  BY DEF HistoryInv, Holding
<1>7. ExclusiveSender'
  BY DEF ExclusiveSender, Holding
<1>8. AckMeansPosted'
  BY DEF AckMeansPosted, HistoryInv, RowInv
<1>9. ReleasedIsRetryable'
  BY DEF ReleasedIsRetryable
<1>10. SendInv'
  BY DEF SendInv
<1> QED BY <1>1, <1>2, <1>3, <1>4, <1>5, <1>6, <1>7, <1>8, <1>9, <1>10

LEMMA StopKeeps ==
  ASSUME IInv, NEW d \in Delivery, Stop(d)
  PROVE  IInv'
<1> USE NameAssumption, CountAssumption, TimingAssumption DEF IInv, TypeOK, Row, Mode,
       Working, Ended, shellVars, sourceVars, slackVars, Stop, Goto, Fail, Finish
<1>1. TypeOK'
  OBVIOUS
<1>2. ClockInv'
  BY DEF ClockInv, Live
<1>3. HolderInv'
  BY DEF HolderInv, Holding
<1>4. RowInv'
  BY DEF RowInv, NoRow, Deleted
<1>5. SideInv'
  BY DEF SideInv, Claiming, Holding
<1>6. HistoryInv'
  BY DEF HistoryInv, Holding
<1>7. ExclusiveSender'
  BY DEF ExclusiveSender, Holding
<1>8. AckMeansPosted'
  BY DEF AckMeansPosted, HistoryInv, RowInv
<1>9. ReleasedIsRetryable'
  BY DEF ReleasedIsRetryable
<1>10. SendInv'
  BY DEF SendInv
<1> QED BY <1>1, <1>2, <1>3, <1>4, <1>5, <1>6, <1>7, <1>8, <1>9, <1>10

LEMMA StutterKeeps ==
  ASSUME IInv, UNCHANGED vars
  PROVE  IInv'
BY DEF vars, shellVars, sourceVars, slackVars, IInv, TypeOK, ClockInv, HolderInv, RowInv, SideInv, HistoryInv,
  ExclusiveSender, AckMeansPosted, ReleasedIsRetryable, SendInv, Live, Holding, Claiming

\* Type correctness and the inductive invariant, whatever the shell's put, the
\* event source, Slack and DynamoDB do, and whichever sandbox crashes.
THEOREM Invariance == Spec => []IInv
<1>1. IInv /\ [Next]_vars => IInv'
  BY TickKeeps, StartPutKeeps, PutLandsKeeps, PutTimesOutKeeps, NotifyQaLogKeeps,
     ShellPostsKeeps, DeleteRowKeeps, DiscardKeeps, DeliverKeeps, ReplayKeeps,
     BeginClaimKeeps, TryClaimKeeps, ReadBackKeeps, StartSendKeeps, SlackAcceptsKeeps,
     SendReturnsKeeps, CompleteKeeps, ReleaseKeeps, StopKeeps, StutterKeeps
     DEF Next, ShellStep, Work
<1> QED BY InitIInv, <1>1, PTL DEF Spec

\* Two deliveries of one row never work on a claim of it at the same time.
THEOREM Exclusive == Spec => []ExclusiveSender
<1>1. IInv => ExclusiveSender
  BY DEF IInv
<1> QED BY Invariance, <1>1, PTL

\* The shell and the worker never both post a row.
THEOREM OneSide == Spec => []OneSideSends
<1>1. IInv => OneSideSends
  BY DEF IInv, TypeOK, SideInv, OneSideSends
<1> QED BY Invariance, <1>1, PTL

\* A message is repeated only after a delivery that posted it and ended badly.
THEOREM Duplicates == Spec => []DuplicateNeedsAFailure
<1>1. IInv => DuplicateNeedsAFailure
  <2> SUFFICES ASSUME IInv, NEW d \in posts \ {Shell}, NEW e \in posts \ {Shell}, d # e
               PROVE  \E x \in {d, e} : pc[x] \in {"release", "released", "failed"}
    BY DEF DuplicateNeedsAFailure
  <2>1. d \in Delivery /\ e \in Delivery
    BY DEF IInv, TypeOK
  <2>2. ~(Holding(d) /\ Holding(e))
    BY <2>1 DEF IInv, ExclusiveSender
  <2>3. ~(pc[d] = "done" /\ (pc[e] = "done" \/ Holding(e)))
    BY <2>1 DEF IInv, HistoryInv
  <2>4. ~(pc[e] = "done" /\ Holding(d))
    BY <2>1 DEF IInv, HistoryInv
  <2> QED BY <2>1, <2>2, <2>3, <2>4 DEF IInv, HistoryInv, Holding
<1> QED BY Invariance, <1>1, PTL

\* An acknowledged record reached Slack.
THEOREM Acknowledged == Spec => []AckMeansPosted
<1>1. IInv => AckMeansPosted
  BY DEF IInv
<1> QED BY Invariance, <1>1, PTL

\* `sent' and `deleted' are final: the conditions of put, claim, complete and release
\* let nothing but a deletion through.
THEOREM Finality == Spec => FinalRowsStay
<1>1. IInv /\ Next /\ row.status = "sent" => row' \in {row, Deleted} /\ underway' \subseteq underway
  <2> SUFFICES ASSUME IInv, Next, row.status = "sent"
               PROVE  row' \in {row, Deleted} /\ underway' \subseteq underway
    OBVIOUS
  <2>1. row.state = "present" /\ \A d \in Delivery : ~Holding(d)
    BY DEF IInv, HolderInv, RowInv, NoRow, Deleted, TypeOK, Row
  <2>2. shell # "sending"
    BY DEF IInv, SideInv, RowInv
  <2>3. CASE Tick
    BY <2>3 DEF Tick, slackVars
  <2>4. CASE ShellStep
    BY <2>4, <2>1, <2>2 DEF slackVars, ShellStep, StartPut, PutLands, PutRow, PutTimesOut, NotifyQaLog, ShellPosts
  <2>5. CASE DeleteRow \/ Discard
    BY <2>5 DEF slackVars, DeleteRow, Discard
  <2>6. ASSUME NEW d \in Delivery, Deliver(d) \/ Replay(d) \/ Work(d) \/ Stop(d)
        PROVE  row' \in {row, Deleted} /\ underway' \subseteq underway
    <3>1. CASE Deliver(d) \/ Replay(d) \/ Stop(d)
      BY <3>1 DEF slackVars, Deliver, Replay, Invoked, Stop
    <3>2. CASE BeginClaim(d) \/ ReadBack(d)
      BY <3>2 DEF slackVars, BeginClaim, ReadBack
    <3>3. CASE TryClaim(d)
      BY <3>3 DEF slackVars, TryClaim, Claimable
    <3>4. CASE StartSend(d) \/ SendReturns(d) \/ Complete(d) \/ Release(d)
      BY <3>4, <2>1 DEF slackVars, StartSend, SendReturns, Complete, Release, Holding
    <3> QED BY <2>6, <3>1, <3>2, <3>3, <3>4 DEF Work
  <2>7. ASSUME NEW s \in Delivery \cup {Shell}, SlackAccepts(s)
        PROVE  row' \in {row, Deleted} /\ underway' \subseteq underway
    BY <2>7 DEF SlackAccepts
  <2> QED BY <2>3, <2>4, <2>5, <2>6, <2>7 DEF Next
<1>2. IInv /\ Next /\ row.state = "deleted" => row' = row
  <2> SUFFICES ASSUME IInv, Next, row.state = "deleted"
               PROVE  row' = row
    OBVIOUS
  <2>1. CASE Tick \/ DeleteRow \/ Discard
    BY <2>1 DEF Tick, DeleteRow, Discard
  <2>2. CASE ShellStep
    BY <2>2 DEF ShellStep, StartPut, PutLands, PutRow, PutTimesOut, NotifyQaLog, ShellPosts
  <2>3. ASSUME NEW d \in Delivery, Deliver(d) \/ Replay(d) \/ Work(d) \/ Stop(d)
        PROVE  row' = row
    BY <2>3 DEF Deliver, Replay, Invoked, Stop, Work, BeginClaim, TryClaim, Claimable,
       ReadBack, StartSend, SendReturns, Complete, Release, Owns
  <2> QED BY <2>1, <2>2, <2>3 DEF Next, SlackAccepts
<1>3. IInv /\ [Next]_vars =>
        [/\ row.status = "sent" => row' \in {row, Deleted} /\ underway' \subseteq underway
         /\ row.state = "deleted" => row' = row]_vars
  BY <1>1, <1>2
<1> QED BY Invariance, <1>3, PTL DEF Spec, FinalRowsStay

\* A send that succeeds returns before its abort, and the budget that set the abort
\* left complete() its reserve.
THEOREM CompletionInTime == Spec => CompletionHasItsTime
<1>1. ASSUME IInv, Next, NEW d \in Delivery, pc[d] = "sending", pc'[d] = "delivered"
      PROVE  now + CompleteReserve <= start[d] + LambdaTimeout
  <2>1. now <= until[d] /\ until[d] + CompleteReserve <= start[d] + LambdaTimeout
    BY <1>1 DEF IInv, SendInv
  <2>2. now \in Int /\ until[d] \in Int /\ start[d] \in Int
    BY <1>1 DEF IInv, TypeOK
  <2> QED BY <2>1, <2>2, TimingAssumption
<1>2. IInv /\ [Next]_vars =>
        [\A d \in Delivery : pc[d] = "sending" /\ pc'[d] = "delivered" =>
           now + CompleteReserve <= start[d] + LambdaTimeout]_vars
  BY <1>1
<1> QED BY Invariance, <1>2, PTL DEF Spec, CompletionHasItsTime

\* An acknowledged record was posted, and a repeated message needs a failure.
THEOREM AccountedFor == Spec => []MessagesAreAccountedFor
BY Acknowledged, Duplicates, PTL DEF MessagesAreAccountedFor

\* Neither two deliveries nor the two sides send a row at the same time.
THEOREM SingleSender == Spec => []OneSender
BY Exclusive, OneSide, PTL DEF OneSender

=============================================================================
