------------------------ MODULE SlackDeliveryProofs ------------------------
(***************************************************************************)
(* Proofs about SlackDelivery, for any number of events, conversations,    *)
(* invocations, deliveries and receives, and any timing that satisfies     *)
(* SlackAssumption: its invariants, and that it implements SlackPromise.   *)
(***************************************************************************)
EXTENDS SlackDelivery, SequenceTheorems, TLAPS

LEMMA Numbers ==
  /\ SlackDeliveries \in Nat /\ SlackDeliveries > 0
  /\ MaxReceiveCount \in Nat /\ MaxReceiveCount > 0
  /\ LambdaTimeout \in Nat /\ LambdaTimeout > 0 /\ Lease \in Nat /\ Visibility \in Nat
  /\ LambdaTimeout < Lease /\ LambdaTimeout + Lease < Visibility
BY SlackAssumption

LEMMA EventIsNotNone == NoEvent \notin Event /\ NoWorker \notin Worker
BY SlackAssumption

LEMMA Update ==
  ASSUME NEW S, NEW T, NEW f \in [S -> T], NEW x, NEW v \in T
  PROVE  [f EXCEPT ![x] = v] \in [S -> T]
OBVIOUS

LEMMA ConversationOfType == \A e \in Event : ConversationOf[e] \in Conversation
BY SlackAssumption

-----------------------------------------------------------------------------
(* What the three operations do to a queue *)

\* The queue of one conversation changes to s and stays a sequence of messages.
LEMMA QueueUpdate ==
  ASSUME TypeOK, NEW c \in Conversation, NEW s \in Seq(Message),
         queue' = [queue EXCEPT ![c] = s]
  PROVE  /\ queue' \in [Conversation -> Seq(Message)]
         /\ queue'[c] = s
         /\ \A d \in Conversation \ {c} : queue'[d] = queue[d]
BY DEF TypeOK

LEMMA HeadOfQueue ==
  ASSUME TypeOK, NEW c \in Conversation, queue[c] # <<>>
  PROVE  /\ queue[c] \in Seq(Message) /\ Len(queue[c]) \in Nat /\ Len(queue[c]) >= 1
         /\ 1 \in 1..Len(queue[c])
         /\ queue[c][1] \in Message
<1>1. queue[c] \in Seq(Message)
  BY DEF TypeOK
<1>2. Len(queue[c]) \in Nat \ {0}
  BY <1>1, EmptySeq
<1>3. 1 \in 1..Len(queue[c])
  BY <1>2
<1> QED BY <1>1, <1>2, <1>3, ElementOfSeq

LEMMA EnqueueEffect ==
  ASSUME TypeOK, NEW e \in Event, sent[e] < SlackDeliveries, Enqueue(e)
  PROVE  LET c == ConversationOf[e] IN
         /\ queue' \in [Conversation -> Seq(Message)]
         /\ \A d \in Conversation \ {c} : queue'[d] = queue[d]
         /\ queue'[c] # <<>>
         /\ Len(queue'[c]) = Len(queue[c]) + 1
         /\ \A i \in 1..Len(queue[c]) : queue'[c][i] = queue[c][i]
         /\ queue'[c][Len(queue[c]) + 1] = [ev |-> e, copy |-> sent[e] + 1, rc |-> 0]
<1> DEFINE c == ConversationOf[e]
           m == [ev |-> e, copy |-> sent[e] + 1, rc |-> 0]
<1>1. c \in Conversation
  BY ConversationOfType
<1>2. m \in Message
  BY Numbers DEF TypeOK, Message, Copy
<1>3. queue[c] \in Seq(Message)
  BY <1>1 DEF TypeOK
<1>4. queue' = [queue EXCEPT ![c] = Append(queue[c], m)]
  BY DEF Enqueue
<1> HIDE DEF c, m
<1>5. /\ Append(queue[c], m) \in Seq(Message)
      /\ Append(queue[c], m) # <<>>
      /\ Len(Append(queue[c], m)) = Len(queue[c]) + 1
      /\ \A i \in 1..Len(queue[c]) : Append(queue[c], m)[i] = queue[c][i]
      /\ Append(queue[c], m)[Len(queue[c]) + 1] = m
  BY <1>2, <1>3, AppendProperties
<1>6. /\ queue' \in [Conversation -> Seq(Message)]
      /\ queue'[c] = Append(queue[c], m)
      /\ \A d \in Conversation \ {c} : queue'[d] = queue[d]
  BY <1>1, <1>4, <1>5, QueueUpdate
<1>7. /\ queue' \in [Conversation -> Seq(Message)]
      /\ \A d \in Conversation \ {c} : queue'[d] = queue[d]
      /\ queue'[c] # <<>>
      /\ Len(queue'[c]) = Len(queue[c]) + 1
      /\ \A i \in 1..Len(queue[c]) : queue'[c][i] = queue[c][i]
      /\ queue'[c][Len(queue[c]) + 1] = m
  BY <1>5, <1>6
<1> QED BY <1>7 DEF c, m

LEMMA ReceiveEffect ==
  ASSUME TypeOK, NEW w \in Worker, NEW c \in Conversation, Receive(w, c)
  PROVE  /\ queue' \in [Conversation -> Seq(Message)]
         /\ \A d \in Conversation \ {c} : queue'[d] = queue[d]
         /\ queue'[c] # <<>>
         /\ Len(queue'[c]) = Len(queue[c])
         /\ queue'[c][1] = [queue[c][1] EXCEPT !.rc = @ + 1]
         /\ \A i \in 2..Len(queue[c]) : queue'[c][i] = queue[c][i]
<1> DEFINE m == [queue[c][1] EXCEPT !.rc = @ + 1]
           s == [queue[c] EXCEPT ![1] = m]
<1>1. queue[c] # <<>> /\ queue[c][1].rc < MaxReceiveCount
  BY DEF Receive, Receivable
<1>2. /\ queue[c] \in Seq(Message) /\ Len(queue[c]) \in Nat
      /\ 1 \in 1..Len(queue[c]) /\ queue[c][1] \in Message
  BY <1>1, HeadOfQueue
<1>3. m \in Message
  <2>1. queue[c][1].rc \in 0..MaxReceiveCount
    BY <1>2 DEF Message
  <2>2. queue[c][1].rc + 1 \in 0..MaxReceiveCount
    BY <1>1, <2>1, Numbers
  <2> QED BY <1>2, <2>2 DEF Message
<1>4. queue' = [queue EXCEPT ![c] = s]
  BY DEF Receive
<1> HIDE DEF m
<1>5. /\ s \in Seq(Message) /\ Len(s) = Len(queue[c])
      /\ \A j \in 1..Len(queue[c]) : s[j] = IF j = 1 THEN m ELSE queue[c][j]
  BY <1>2, <1>3, ExceptSeq
<1> HIDE DEF s
<1>6. s # <<>>
  BY <1>2, <1>5, EmptySeq
<1>7. /\ queue' \in [Conversation -> Seq(Message)]
      /\ queue'[c] = s
      /\ \A d \in Conversation \ {c} : queue'[d] = queue[d]
  BY <1>4, <1>5, QueueUpdate
<1>8. s[1] = m /\ \A i \in 2..Len(queue[c]) : s[i] = queue[c][i]
  BY <1>2, <1>5
<1> QED BY <1>5, <1>6, <1>7, <1>8 DEF m

LEMMA DropEffect ==
  ASSUME TypeOK, NEW c \in Conversation, queue[c] # <<>>,
         queue' = [queue EXCEPT ![c] = Tail(@)]
  PROVE  /\ queue' \in [Conversation -> Seq(Message)]
         /\ \A d \in Conversation \ {c} : queue'[d] = queue[d]
         /\ Len(queue'[c]) = Len(queue[c]) - 1
         /\ \A i \in 1..Len(queue'[c]) : queue'[c][i] = queue[c][i + 1] /\ i + 1 \in 1..Len(queue[c])
<1>1. queue[c] \in Seq(Message) /\ Len(queue[c]) \in Nat
  BY HeadOfQueue
<1>2. /\ Tail(queue[c]) \in Seq(Message)
      /\ Len(Tail(queue[c])) = Len(queue[c]) - 1
      /\ \A i \in 1..Len(Tail(queue[c])) : Tail(queue[c])[i] = queue[c][i + 1]
  BY <1>1, HeadTailProperties
<1>3. /\ queue' \in [Conversation -> Seq(Message)]
      /\ queue'[c] = Tail(queue[c])
      /\ \A d \in Conversation \ {c} : queue'[d] = queue[d]
  BY <1>2, QueueUpdate
<1>4. \A i \in 1..Len(queue'[c]) : i + 1 \in 1..Len(queue[c])
  BY <1>1, <1>2, <1>3
<1> QED BY <1>2, <1>3, <1>4

-----------------------------------------------------------------------------
(* Types *)

LEMMA InitIInv == Init => IInv
<1> SUFFICES ASSUME Init PROVE IInv
  OBVIOUS
<1> USE Numbers, EventIsNotNone
<1>1. TypeOK
  <2>1. queue \in [Conversation -> Seq(Message)]
    BY EmptySeq DEF Init
  <2>2. Idle \in Invocation
    BY DEF Idle, Invocation, PC
  <2>3. worker \in [Worker -> Invocation]
    BY <2>2 DEF Init
  <2> QED BY <2>1, <2>3 DEF Init, TypeOK, Row, LogRow, NoAttempt
<1>2. IdleInv /\ HeadInv /\ RowInv /\ BusyIsExplained /\ LogInv
  BY DEF Init, IdleInv, HeadInv, RowInv, OwnRow, BusyIsExplained, LogInv, Live, Idle
<1>3. LeaseInv /\ QaLogTellsTheTruth /\ OneNoticePerCopy
  BY DEF Init, LeaseInv, Leased, QaLogTellsTheTruth, OneNoticePerCopy
<1>4. \A c \in Conversation : Len(queue[c]) = 0
  BY EmptySeq DEF Init
<1>5. QueueInv /\ AnswerInv /\ NoticeInv
  BY <1>4 DEF Init, QueueInv, Orderly, AnswerInv, AnswersOfQueue, NoticeInv, NoticesOfQueue,
     Live, Idle
<1> QED BY <1>1, <1>2, <1>3, <1>5 DEF IInv

LEMMA GotoType ==
  ASSUME TypeOK, NEW w \in Worker, NEW p \in PC, Goto(w, p)
  PROVE  worker' \in [Worker -> Invocation]
<1>1. worker[w] \in Invocation
  BY DEF TypeOK
<1>2. [worker[w] EXCEPT !.pc = p] \in Invocation
  BY <1>1 DEF Invocation
<1> QED BY <1>2 DEF TypeOK, Goto

LEMMA ThrowType ==
  ASSUME TypeOK, NEW w \in Worker, NEW why \in {"error", "busy", "alreadyPosted"}, Throw(w, why)
  PROVE  worker' \in [Worker -> Invocation]
<1>1. worker[w] \in Invocation
  BY DEF TypeOK
<1>2. [worker[w] EXCEPT !.pc = "failed", !.cause = why] \in Invocation
  BY <1>1 DEF Invocation, PC
<1> QED BY <1>2 DEF TypeOK, Throw

LEMMA IdleType ==
  ASSUME TypeOK, NEW w \in Worker, worker' = [worker EXCEPT ![w] = Idle]
  PROVE  worker' \in [Worker -> Invocation]
BY Numbers DEF TypeOK, Idle, Invocation, PC

\* A live invocation holds an attempt: a copy that was enqueued and received.
LEMMA AttemptType ==
  ASSUME IInv, NEW w \in Worker, Live(w)
  PROVE  /\ Ev(w) \in Event /\ Conv(w) \in Conversation
         /\ worker[w].copy \in Copy /\ worker[w].copy \in enqueued[Ev(w)]
         /\ worker[w].rc \in 1..MaxReceiveCount
         /\ AttemptOf(w) \in Attempt
<1>1. Ev(w) \in Event /\ Conv(w) \in Conversation
  BY ConversationOfType DEF IInv, HeadInv, AtHead, Conv
<1>2. queue[Conv(w)] # <<>>
  BY DEF IInv, HeadInv, AtHead
<1>3. 1 \in 1..Len(queue[Conv(w)]) /\ queue[Conv(w)][1] \in Message
  BY <1>1, <1>2, HeadOfQueue DEF IInv
<1>4. queue[Conv(w)][1].copy \in enqueued[queue[Conv(w)][1].ev]
  BY <1>1, <1>3 DEF IInv, QueueInv, Orderly
<1>5. queue[Conv(w)][1] = [ev |-> Ev(w), copy |-> worker[w].copy, rc |-> worker[w].rc]
  BY DEF IInv, HeadInv, AtHead
<1>6. worker[w].copy \in Copy /\ worker[w].rc \in 1..MaxReceiveCount
  <2>1. worker[w].copy \in Copy /\ worker[w].rc \in 0..MaxReceiveCount
    BY <1>3, <1>5 DEF Message
  <2>2. worker[w].rc > 0
    BY DEF IInv, HeadInv, AtHead
  <2> QED BY <2>1, <2>2, Numbers
<1> QED BY <1>1, <1>4, <1>5, <1>6 DEF AttemptOf, Attempt

LEMMA TypeStep == IInv /\ [Next]_vars => TypeOK'
<1> SUFFICES ASSUME IInv, [Next]_vars PROVE TypeOK'
  OBVIOUS
<1>0. TypeOK
  BY DEF IInv
<1> USE Numbers, EventIsNotNone
<1>1. ASSUME NEW e \in Event, SlackDelivers(e) PROVE TypeOK'
  <2>1. queue' \in [Conversation -> Seq(Message)] /\ enqueued' \in [Event -> SUBSET Copy]
    <3>1. CASE Enqueue(e)
      <4>1. queue' \in [Conversation -> Seq(Message)]
        BY <1>0, <1>1, <3>1, EnqueueEffect DEF SlackDelivers
      <4>2. sent[e] + 1 \in Copy
        BY <1>0, <1>1 DEF SlackDelivers, TypeOK, Copy
      <4> QED BY <1>0, <3>1, <4>1, <4>2 DEF Enqueue, TypeOK
    <3>2. CASE UNCHANGED <<queue, enqueued>>
      BY <1>0, <3>2 DEF TypeOK
    <3> QED BY <1>1, <3>1, <3>2 DEF SlackDelivers
  <2>2. acknowledged' \in [Event -> BOOLEAN]
    BY <1>0, <1>1 DEF SlackDelivers, AnswersToSlack, TypeOK
  <2>3. dedup' \in [Event -> BOOLEAN]
    BY <1>0, <1>1 DEF SlackDelivers, TypeOK
  <2>4. sent' \in [Event -> 0..SlackDeliveries]
    BY <1>0, <1>1 DEF SlackDelivers, TypeOK
  <2> QED BY <1>0, <1>1, <2>1, <2>2, <2>3, <2>4 DEF SlackDelivers, TypeOK, storeVars
<1>2. ASSUME NEW e \in Event, DedupExpires(e) PROVE TypeOK'
  BY <1>0, <1>2 DEF DedupExpires, TypeOK, queueVars, storeVars, userVars
<1>3. ASSUME NEW c \in Conversation, MoveToDlq(c) PROVE TypeOK'
  <2>1. queue[c] # <<>> /\ queue[c][1] \in Message
    BY <1>0, <1>3, HeadOfQueue DEF MoveToDlq, Exhausted
  <2>2. queue' \in [Conversation -> Seq(Message)]
    BY <1>0, <1>3, <2>1, DropEffect DEF MoveToDlq
  <2>3. queue[c][1].ev \in Event
    BY <2>1 DEF Message
  <2> QED BY <1>0, <1>3, <2>2, <2>3 DEF MoveToDlq, TypeOK, slackVars, storeVars, userVars
<1>4. ASSUME NEW w \in Worker, NEW c \in Conversation, Receive(w, c) PROVE TypeOK'
  <2>1. queue' \in [Conversation -> Seq(Message)]
    BY <1>0, <1>4, ReceiveEffect
  <2>2. queue[c][1] \in Message /\ queue[c][1].rc < MaxReceiveCount
    BY <1>0, <1>4, HeadOfQueue DEF Receive, Receivable
  <2>3. worker' \in [Worker -> Invocation]
    <3> DEFINE r == [pc |-> "received", ev |-> queue[c][1].ev, copy |-> queue[c][1].copy,
                     rc |-> queue[c][1].rc + 1, age |-> 0, session |-> "none", cause |-> "none"]
    <3>1. worker' = [worker EXCEPT ![w] = r]
      BY <1>4 DEF Receive
    <3>2. /\ queue[c][1].ev \in Event /\ queue[c][1].copy \in 0..SlackDeliveries
          /\ queue[c][1].rc + 1 \in 0..MaxReceiveCount
      BY <2>2 DEF Message, Copy
    <3>3. r \in Invocation
      <4>1. 0 \in 0..LambdaTimeout /\ "received" \in PC
        BY DEF PC
      <4> QED BY <3>2, <4>1 DEF Invocation
    <3> QED BY <1>0, <3>1, <3>3 DEF TypeOK
  <2> QED BY <1>0, <1>4, <2>1, <2>3
          DEF Receive, HideFor, TypeOK, slackVars, storeVars, userVars
<1>5. ASSUME NEW w \in Worker, Claim(w) PROVE TypeOK'
  <2>1. worker' \in [Worker -> Invocation]
    BY <1>0, <1>5, GotoType, ThrowType DEF Claim, OnBusy, PC
  <2>2. row' \in [Event -> Row] /\ leaseLeft' \in [Event -> -1..Lease]
    <3>1. CASE TakeLease(w)
      <4>1. [state |-> "processing", owner |-> w] \in Row /\ Lease \in -1..Lease
        BY DEF Row
      <4> QED BY <1>0, <3>1, <4>1, Update DEF TakeLease, TypeOK
    <3>2. CASE UNCHANGED <<row, leaseLeft>>
      BY <1>0, <3>2 DEF TypeOK
    <3>3. CASE row' = [row EXCEPT ![Ev(w)].state = "received"] /\ UNCHANGED leaseLeft
      <4>1. row[Ev(w)] \in Row
        BY <1>0, <1>5, AttemptType DEF Claim, Live, TypeOK
      <4>2. [row[Ev(w)] EXCEPT !.state = "received"] \in Row
        BY <4>1 DEF Row
      <4> QED BY <1>0, <3>3, <4>2, Update DEF TypeOK
    <3> QED BY <1>5, <3>1, <3>2, <3>3 DEF Claim
  <2> QED BY <1>0, <1>5, <2>1, <2>2 DEF Claim, TypeOK, slackVars, queueVars, userVars
<1>6. ASSUME NEW w \in Worker, Generate(w) PROVE TypeOK'
  <2>1. worker' \in [Worker -> Invocation]
    BY <1>0, <1>6, GotoType, ThrowType DEF Generate, PC
  <2>2. Ev(w) \in Event
    BY <1>6 DEF IInv, HeadInv, AtHead, Live, Generate
  <2> QED BY <1>0, <1>6, <2>1, <2>2 DEF Generate, TypeOK, slackVars, queueVars, storeVars
<1>7. ASSUME NEW w \in Worker, StartQaLog(w) PROVE TypeOK'
  <2>1. worker' \in [Worker -> Invocation]
    <3>1. worker[w] \in Invocation
      BY <1>0 DEF TypeOK
    <3>2. \A x \in {"saved", "skipped", "none"} :
            [worker[w] EXCEPT !.pc = "logged", !.session = x] \in Invocation
      BY <3>1 DEF Invocation, PC
    <3>3. PICK x \in {"saved", "skipped", "none"} :
            worker' = [worker EXCEPT ![w].pc = "logged", ![w].session = x]
      BY <1>7 DEF StartQaLog
    <3>4. worker' = [worker EXCEPT ![w] = [worker[w] EXCEPT !.pc = "logged", !.session = x]]
      BY <3>3
    <3> QED BY <1>0, <3>2, <3>4 DEF TypeOK
  <2>2. AttemptOf(w) \in Attempt
    BY <1>7, AttemptType DEF StartQaLog, Live
  <2>3. qaLog' \in [Event -> LogRow]
    BY <1>0, <1>7, <2>2 DEF StartQaLog, GeneratedLog, TypeOK, LogRow
  <2> QED BY <1>0, <1>7, <2>1, <2>3 DEF StartQaLog, TypeOK, slackVars, queueVars, userVars
<1>8. ASSUME NEW w \in Worker, PostAnswer(w) PROVE TypeOK'
  <2>1. worker' \in [Worker -> Invocation]
    BY <1>0, <1>8, GotoType, ThrowType DEF PostAnswer, PC
  <2>2. AttemptOf(w) \in Attempt
    BY <1>8, AttemptType DEF PostAnswer, Live
  <2>3. answers' \in [Event -> SUBSET Attempt]
    <3>1. Ev(w) \in Event
      BY <1>8, AttemptType DEF PostAnswer, Live
    <3>2. answers[Ev(w)] \cup {AttemptOf(w)} \in SUBSET Attempt
      BY <1>0, <2>2, <3>1 DEF TypeOK
    <3> QED BY <1>0, <1>8, <3>2 DEF PostAnswer, TypeOK
  <2> QED BY <1>0, <1>8, <2>1, <2>3 DEF PostAnswer, TypeOK, slackVars, queueVars, storeVars
<1>9. ASSUME NEW w \in Worker, MarkQaPosted(w) PROVE TypeOK'
  <2>1. worker' \in [Worker -> Invocation]
    BY <1>0, <1>9, GotoType DEF MarkQaPosted, PC
  <2>2. qaLog' \in [Event -> LogRow]
    <3>1. qaLog[Ev(w)] \in LogRow
      BY <1>0, <1>9, AttemptType DEF MarkQaPosted, Live, TypeOK
    <3>2. [qaLog[Ev(w)] EXCEPT !.status = "posted"] \in LogRow
      BY <3>1 DEF LogRow
    <3> QED BY <1>0, <1>9, <3>2, Update DEF MarkQaPosted, TypeOK
  <2> QED BY <1>0, <1>9, <2>1, <2>2 DEF MarkQaPosted, TypeOK, slackVars, queueVars, userVars
<1>10. ASSUME NEW w \in Worker, MarkPosted(w) PROVE TypeOK'
  <2>1. worker' \in [Worker -> Invocation]
    BY <1>0, <1>10, GotoType, ThrowType DEF MarkPosted, PC
  <2>2. row' \in [Event -> Row] /\ leaseLeft' \in [Event -> -1..Lease]
    <3>1. [state |-> "posted", owner |-> NoWorker] \in Row /\ -1 \in -1..Lease
      BY DEF Row
    <3> QED BY <1>0, <1>10, <3>1, Update DEF MarkPosted, TypeOK
  <2> QED BY <1>0, <1>10, <2>1, <2>2 DEF MarkPosted, TypeOK, slackVars, queueVars, userVars
<1>11. ASSUME NEW w \in Worker, Rethrow(w) PROVE TypeOK'
  <2>1. worker' \in [Worker -> Invocation]
    BY <1>0, <1>11, IdleType DEF Rethrow
  <2>2. notices' \in [Event -> [Copy -> Nat]]
    <3> DEFINE n == worker[w].copy
    <3>1. notices[Ev(w)] \in [Copy -> Nat] /\ n \in Copy
      BY <1>0, <1>11, AttemptType DEF Rethrow, Live, TypeOK
    <3>2. [notices[Ev(w)] EXCEPT ![n] = notices[Ev(w)][n] + 1] \in [Copy -> Nat]
      BY <3>1
    <3>3. CASE UNCHANGED notices
      BY <1>0, <3>3 DEF TypeOK
    <3>4. CASE notices' = [notices EXCEPT ![Ev(w)] =
                             [notices[Ev(w)] EXCEPT ![n] = notices[Ev(w)][n] + 1]]
      BY <1>0, <3>2, <3>4, Update DEF TypeOK
    <3> QED BY <1>11, <3>3, <3>4 DEF Rethrow
  <2> QED BY <1>0, <1>11, <2>1, <2>2 DEF Rethrow, TypeOK, slackVars, queueVars, storeVars
<1>12. ASSUME NEW w \in Worker, Return(w) PROVE TypeOK'
  <2>1. worker' \in [Worker -> Invocation]
    BY <1>0, <1>12, IdleType DEF Return
  <2>2. Conv(w) \in Conversation /\ queue[Conv(w)] # <<>>
    BY <1>12, ConversationOfType DEF IInv, HeadInv, AtHead, Live, Return, Conv
  <2>3. /\ queue' \in [Conversation -> Seq(Message)]
        /\ hidden' \in [Conversation -> 0..Visibility]
        /\ receiver' \in [Conversation -> Worker \cup {NoWorker}]
    <3>1. CASE queue' = [queue EXCEPT ![Conv(w)] = Tail(@)]
      <4>1. queue' \in [Conversation -> Seq(Message)]
        BY <1>0, <2>2, <3>1, DropEffect
      <4>2. hidden' \in [Conversation -> 0..Visibility]
        BY <1>0, <1>12, Update DEF Return, TypeOK
      <4>3. receiver' \in [Conversation -> Worker \cup {NoWorker}]
        BY <1>0, <1>12, Update DEF Return, TypeOK
      <4> QED BY <4>1, <4>2, <4>3
    <3>2. CASE UNCHANGED <<queue, hidden, receiver>>
      BY <1>0, <3>2 DEF TypeOK
    <3> QED BY <1>12, <3>1, <3>2 DEF Return
  <2> QED BY <1>0, <1>12, <2>1, <2>3 DEF Return, TypeOK, slackVars, storeVars, userVars
<1>13. ASSUME NEW w \in Worker, Crash(w) PROVE TypeOK'
  BY <1>0, <1>13, IdleType DEF Crash, TypeOK, slackVars, queueVars, storeVars, userVars
<1>14. CASE Tick
  <2>1. worker' \in [Worker -> Invocation]
    <3>1. ASSUME NEW w \in Worker, Live(w)
          PROVE  [worker[w] EXCEPT !.age = @ + 1] \in Invocation
      <4>1. worker[w] \in Invocation
        BY <1>0 DEF TypeOK
      <4>2. worker[w].age + 1 \in 0..LambdaTimeout
        BY <1>14, <3>1, <4>1 DEF Tick, Invocation
      <4> QED BY <4>1, <4>2 DEF Invocation
    <3> QED BY <1>0, <1>14, <3>1 DEF Tick, TypeOK
  <2> QED BY <1>0, <1>14, <2>1 DEF Tick, Down, TypeOK, slackVars, userVars
<1>15. CASE UNCHANGED vars
  BY <1>0, <1>15 DEF TypeOK, vars, slackVars, queueVars, storeVars, userVars
<1> QED BY <1>1, <1>2, <1>3, <1>4, <1>5, <1>6, <1>7, <1>8, <1>9, <1>10, <1>11, <1>12,
           <1>13, <1>14, <1>15 DEF Next, WorkerStep

-----------------------------------------------------------------------------
(* The frame: what a step of an invocation leaves alone *)

\* The steps between receive and end, and the ends that leave the queue alone.
Moves(w) ==
  \/ Claim(w) \/ Generate(w) \/ StartQaLog(w)
  \/ PostAnswer(w) \/ MarkQaPosted(w) \/ MarkPosted(w)
Ends(w) == Rethrow(w) \/ Crash(w)

\* A live invocation is the only one of its conversation.
LEMMA Alone ==
  ASSUME IInv, NEW v \in Worker, NEW w \in Worker, Live(v), Live(w), Conv(v) = Conv(w)
  PROVE  v = w
<1>1. receiver[Conv(v)] = v
  BY DEF IInv, HeadInv, AtHead
<1>2. receiver[Conv(w)] = w
  BY DEF IInv, HeadInv, AtHead
<1> QED BY <1>1, <1>2

\* What a move does to the record of the invocation.
LEMMA MovesWorker ==
  ASSUME IInv, NEW w \in Worker, Moves(w)
  PROVE  /\ Live(w) /\ worker'[w].pc # "idle"
         /\ \A v \in Worker \ {w} : worker'[v] = worker[v]
         /\ worker'[w].ev = worker[w].ev /\ worker'[w].copy = worker[w].copy
         /\ worker'[w].rc = worker[w].rc /\ worker'[w].age = worker[w].age
<1>0. worker \in [Worker -> Invocation] /\ worker[w] \in Invocation
  BY DEF IInv, TypeOK
<1>1. ASSUME NEW p, p # "idle", worker[w].pc # "idle", Goto(w, p)
      PROVE  /\ worker'[w].pc # "idle"
             /\ \A v \in Worker \ {w} : worker'[v] = worker[v]
             /\ worker'[w].ev = worker[w].ev /\ worker'[w].copy = worker[w].copy
             /\ worker'[w].rc = worker[w].rc /\ worker'[w].age = worker[w].age
  BY <1>0, <1>1 DEF Goto, Invocation
<1>2. ASSUME NEW why, worker[w].pc # "idle", Throw(w, why)
      PROVE  /\ worker'[w].pc # "idle"
             /\ \A v \in Worker \ {w} : worker'[v] = worker[v]
             /\ worker'[w].ev = worker[w].ev /\ worker'[w].copy = worker[w].copy
             /\ worker'[w].rc = worker[w].rc /\ worker'[w].age = worker[w].age
  BY <1>0, <1>2 DEF Throw, Invocation
<1>3. CASE Claim(w)
  BY <1>1, <1>2, <1>3 DEF Claim, OnBusy, Live
<1>4. CASE Generate(w)
  BY <1>1, <1>2, <1>4 DEF Generate, Live
<1>5. CASE StartQaLog(w)
  BY <1>0, <1>5 DEF StartQaLog, Live, Invocation
<1>6. CASE PostAnswer(w)
  BY <1>1, <1>2, <1>6 DEF PostAnswer, Live
<1>7. CASE MarkQaPosted(w)
  BY <1>1, <1>7 DEF MarkQaPosted, Live
<1>8. CASE MarkPosted(w)
  BY <1>1, <1>2, <1>8 DEF MarkPosted, Live
<1> QED BY <1>3, <1>4, <1>5, <1>6, <1>7, <1>8 DEF Moves

\* A move touches what the stores hold for its own event only.
LEMMA MovesStores ==
  ASSUME IInv, NEW w \in Worker, Moves(w)
  PROVE  /\ UNCHANGED <<slackVars, queueVars, enqueued, notices>>
         /\ disabled \subseteq disabled'
         /\ \A e \in Event \ {Ev(w)} :
              /\ row'[e] = row[e] /\ leaseLeft'[e] = leaseLeft[e]
              /\ qaLog'[e] = qaLog[e] /\ answers'[e] = answers[e]
<1>0. TypeOK
  BY DEF IInv
<1>1. CASE Claim(w)
  <2>1. UNCHANGED <<slackVars, queueVars, qaLog, userVars>>
    BY <1>1 DEF Claim
  <2>2. \/ TakeLease(w) \/ UNCHANGED <<row, leaseLeft>>
        \/ row' = [row EXCEPT ![Ev(w)].state = "received"] /\ UNCHANGED leaseLeft
    BY <1>1 DEF Claim
  <2>3. \A e \in Event \ {Ev(w)} : row'[e] = row[e] /\ leaseLeft'[e] = leaseLeft[e]
    BY <1>0, <2>2 DEF TakeLease, TypeOK
  <2> QED BY <2>1, <2>3 DEF userVars
<1>2. CASE Generate(w)
  BY <1>2 DEF Generate, storeVars
<1>3. CASE StartQaLog(w)
  BY <1>0, <1>3 DEF StartQaLog, userVars, TypeOK
<1>4. CASE PostAnswer(w)
  BY <1>0, <1>4 DEF PostAnswer, storeVars, TypeOK
<1>5. CASE MarkQaPosted(w)
  BY <1>0, <1>5 DEF MarkQaPosted, userVars, TypeOK
<1>6. CASE MarkPosted(w)
  BY <1>0, <1>6 DEF MarkPosted, userVars, TypeOK
<1> QED BY <1>1, <1>2, <1>3, <1>4, <1>5, <1>6 DEF Moves

LEMMA EndsFrame ==
  ASSUME IInv, NEW w \in Worker, Ends(w)
  PROVE  /\ Live(w) /\ worker'[w] = Idle
         /\ \A v \in Worker \ {w} : worker'[v] = worker[v]
         /\ UNCHANGED <<slackVars, queueVars, storeVars, enqueued, answers, disabled>>
BY DEF IInv, TypeOK, Ends, Rethrow, Crash, Live, userVars

\* A step is one of these.
LEMMA StepKinds ==
  ASSUME [Next]_vars
  PROVE  \/ \E e \in Event : SlackDelivers(e)
         \/ \E e \in Event : DedupExpires(e)
         \/ \E c \in Conversation : MoveToDlq(c)
         \/ \E w \in Worker, c \in Conversation : Receive(w, c)
         \/ \E w \in Worker : Moves(w)
         \/ \E w \in Worker : Ends(w)
         \/ \E w \in Worker : Return(w)
         \/ Tick
         \/ UNCHANGED vars
BY DEF Next, WorkerStep, Moves, Ends

-----------------------------------------------------------------------------
(* The queue *)

\* A return finds the message at the head of the conversation, under its receipt.
LEMMA ReturnFrame ==
  ASSUME IInv, NEW w \in Worker, Return(w)
  PROVE  /\ Live(w) /\ worker'[w] = Idle
         /\ \A v \in Worker \ {w} : worker'[v] = worker[v]
         /\ UNCHANGED <<slackVars, dlq, storeVars, userVars>>
         /\ Ev(w) \in Event /\ Conv(w) \in Conversation
         /\ queue[Conv(w)] # <<>> /\ queue[Conv(w)][1].ev = Ev(w)
         /\ \A c \in Conversation \ {Conv(w)} :
              hidden'[c] = hidden[c] /\ receiver'[c] = receiver[c] /\ queue'[c] = queue[c]
         /\ \/ UNCHANGED <<queue, hidden, receiver>>
            \/ queue' = [queue EXCEPT ![Conv(w)] = Tail(@)]
<1>1. Live(w)
  BY DEF Return, Live
<1>2. Ev(w) \in Event /\ Conv(w) \in Conversation
  BY <1>1, AttemptType
<1>3. /\ queue[Conv(w)] # <<>>
      /\ queue[Conv(w)][1] = [ev |-> Ev(w), copy |-> worker[w].copy, rc |-> worker[w].rc]
  BY <1>1 DEF IInv, HeadInv, AtHead
<1>4. queue[Conv(w)][1].ev = Ev(w)
  BY <1>3
<1> QED BY <1>1, <1>2, <1>3, <1>4 DEF IInv, TypeOK, Return

LEMMA IdleStep == IInv /\ [Next]_vars => IdleInv'
<1> SUFFICES ASSUME IInv, [Next]_vars PROVE IdleInv'
  OBVIOUS
<1>0. IdleInv /\ TypeOK
  BY DEF IInv
<1>1. ASSUME NEW e \in Event, SlackDelivers(e) PROVE IdleInv'
  BY <1>0, <1>1 DEF SlackDelivers, IdleInv, Live
<1>2. ASSUME NEW e \in Event, DedupExpires(e) PROVE IdleInv'
  BY <1>0, <1>2 DEF DedupExpires, IdleInv, Live
<1>3. ASSUME NEW c \in Conversation, MoveToDlq(c) PROVE IdleInv'
  BY <1>0, <1>3 DEF MoveToDlq, IdleInv, Live
<1>4. ASSUME NEW w \in Worker, NEW c \in Conversation, Receive(w, c) PROVE IdleInv'
  BY <1>0, <1>4 DEF Receive, IdleInv, Live, TypeOK
<1>5. ASSUME NEW w \in Worker, Moves(w) PROVE IdleInv'
  <2>1. worker'[w].pc # "idle" /\ \A v \in Worker \ {w} : worker'[v] = worker[v]
    BY <1>5, MovesWorker
  <2>2. worker[w] \in Invocation /\ worker[w].cause # "busy"
    BY <1>0, <1>5 DEF IdleInv, TypeOK, Moves, Claim, Generate, StartQaLog, PostAnswer,
       MarkQaPosted, MarkPosted
  <2>3. worker'[w].cause = "busy" => worker'[w].pc = "failed"
    <3>1. ASSUME NEW p, Goto(w, p) PROVE worker'[w].cause # "busy"
      BY <1>0, <2>2, <3>1 DEF Goto, TypeOK, Invocation
    <3>2. ASSUME NEW why, Throw(w, why) PROVE worker'[w].pc = "failed"
      BY <1>0, <2>2, <3>2 DEF Throw, TypeOK, Invocation
    <3>3. CASE StartQaLog(w)
      BY <1>0, <2>2, <3>3 DEF StartQaLog, TypeOK, Invocation
    <3> QED BY <1>5, <3>1, <3>2, <3>3
            DEF Moves, Claim, OnBusy, Generate, PostAnswer, MarkQaPosted, MarkPosted
  <2> QED BY <1>0, <2>1, <2>3 DEF IdleInv, Live
<1>6. ASSUME NEW w \in Worker, Ends(w) PROVE IdleInv'
  BY <1>0, <1>6, EndsFrame DEF IdleInv, Live, Idle
<1>7. ASSUME NEW w \in Worker, Return(w) PROVE IdleInv'
  BY <1>0, <1>7, ReturnFrame DEF IdleInv, Live, Idle
<1>8. CASE Tick
  BY <1>0, <1>8 DEF Tick, IdleInv, Live, TypeOK, Invocation
<1>9. CASE UNCHANGED vars
  BY <1>0, <1>9 DEF vars, IdleInv, Live
<1> QED BY <1>1, <1>2, <1>3, <1>4, <1>5, <1>6, <1>7, <1>8, <1>9, StepKinds

\* While an invocation lives its message is hidden, longer than a new lease lasts.
LEMMA HiddenWhileLive ==
  ASSUME IInv, NEW w \in Worker, Live(w)
  PROVE  hidden[Conv(w)] \in Nat /\ hidden[Conv(w)] > Lease
<1>1. AtHead(w)
  BY DEF IInv, HeadInv
<1>2. hidden[Conv(w)] \in 0..Visibility
  BY AttemptType DEF IInv, TypeOK
<1>3. worker[w].age \in 0..LambdaTimeout
  BY DEF IInv, TypeOK, Invocation
<1>4. hidden[Conv(w)] + worker[w].age = Visibility
  BY <1>1 DEF AtHead
<1> QED BY <1>2, <1>3, <1>4, Numbers

LEMMA HeadStep == IInv /\ [Next]_vars => HeadInv'
<1> SUFFICES ASSUME IInv, [Next]_vars PROVE HeadInv'
  OBVIOUS
<1>0. TypeOK
  BY DEF IInv
<1>a. ASSUME NEW v \in Worker, Live(v)
      PROVE  AtHead(v) /\ Ev(v) \in Event /\ Conv(v) \in Conversation /\ hidden[Conv(v)] > 0
  <2>1. AtHead(v)
    BY <1>a DEF IInv, HeadInv
  <2> QED BY <1>a, <2>1, HiddenWhileLive, AttemptType, Numbers
\* Whoever keeps its record, its receipt and its head is still at the head.
<1>b. ASSUME NEW v \in Worker, Live(v),
             worker'[v].ev = worker[v].ev, worker'[v].copy = worker[v].copy,
             worker'[v].rc = worker[v].rc, worker'[v].age = worker[v].age,
             receiver'[Conv(v)] = receiver[Conv(v)], hidden'[Conv(v)] = hidden[Conv(v)],
             queue'[Conv(v)] # <<>>, queue'[Conv(v)][1] = queue[Conv(v)][1]
      PROVE  AtHead(v)'
  <2>1. Ev(v)' = Ev(v) /\ Conv(v)' = Conv(v)
    BY <1>b DEF Ev, Conv
  <2>2. AtHead(v)
    BY <1>a, <1>b
  <2> QED BY <1>b, <2>1, <2>2 DEF AtHead
<1>1. ASSUME NEW e \in Event, SlackDelivers(e) PROVE HeadInv'
  <2> SUFFICES ASSUME NEW v \in Worker, Live(v)' PROVE AtHead(v)'
    BY DEF HeadInv
  <2>1. worker' = worker /\ hidden' = hidden /\ receiver' = receiver
    BY <1>1 DEF SlackDelivers
  <2>2. Live(v)
    BY <2>1 DEF Live
  <2>3. queue[Conv(v)] # <<>> /\ Conv(v) \in Conversation
    BY <1>a, <2>2 DEF AtHead
  <2>4. queue'[Conv(v)] # <<>> /\ queue'[Conv(v)][1] = queue[Conv(v)][1]
    <3>1. CASE Enqueue(e)
      <4>1. 1 \in 1..Len(queue[Conv(v)])
        BY <1>0, <2>3, HeadOfQueue
      <4>2. CASE Conv(v) = ConversationOf[e]
        <5>1. /\ queue'[ConversationOf[e]] # <<>>
              /\ \A i \in 1..Len(queue[ConversationOf[e]]) :
                   queue'[ConversationOf[e]][i] = queue[ConversationOf[e]][i]
          BY <1>0, <1>1, <3>1, EnqueueEffect DEF SlackDelivers
        <5> QED BY <4>1, <4>2, <5>1
      <4>3. CASE Conv(v) # ConversationOf[e]
        <5>1. \A d \in Conversation \ {ConversationOf[e]} : queue'[d] = queue[d]
          BY <1>0, <1>1, <3>1, EnqueueEffect DEF SlackDelivers
        <5>2. queue'[Conv(v)] = queue[Conv(v)]
          BY <2>3, <4>3, <5>1
        <5> QED BY <2>3, <5>2
      <4> QED BY <4>2, <4>3
    <3>2. CASE UNCHANGED queue
      BY <2>3, <3>2
    <3> QED BY <1>1, <3>1, <3>2 DEF SlackDelivers
  <2> QED BY <1>b, <2>1, <2>2, <2>4
<1>2. ASSUME NEW e \in Event, DedupExpires(e) PROVE HeadInv'
  <2>1. UNCHANGED <<worker, queue, hidden, receiver>>
    BY <1>2 DEF DedupExpires, queueVars
  <2> QED BY <1>a, <1>b, <2>1 DEF HeadInv, Live, AtHead
<1>3. ASSUME NEW c \in Conversation, MoveToDlq(c) PROVE HeadInv'
  <2> SUFFICES ASSUME NEW v \in Worker, Live(v)' PROVE AtHead(v)'
    BY DEF HeadInv
  <2>1. worker' = worker /\ hidden' = hidden /\ receiver' = receiver /\ hidden[c] = 0
    BY <1>3 DEF MoveToDlq, Exhausted
  <2>2. Live(v)
    BY <2>1 DEF Live
  <2>3. Conv(v) # c /\ Conv(v) \in Conversation /\ queue[Conv(v)] # <<>>
    <3>1. hidden[Conv(v)] > 0 /\ Conv(v) \in Conversation /\ AtHead(v)
      BY <1>a, <2>2
    <3> QED BY <2>1, <3>1 DEF AtHead
  <2>4. queue'[Conv(v)] = queue[Conv(v)]
    BY <1>0, <1>3, <2>3 DEF MoveToDlq, TypeOK
  <2> QED BY <1>b, <2>1, <2>2, <2>3, <2>4
<1>4. ASSUME NEW w \in Worker, NEW c \in Conversation, Receive(w, c) PROVE HeadInv'
  <2> SUFFICES ASSUME NEW v \in Worker, Live(v)' PROVE AtHead(v)'
    BY DEF HeadInv
  <2>1. hidden[c] = 0 /\ queue[c] # <<>>
    BY <1>4 DEF Receive, Receivable
  <2>2. CASE v = w
    <3>1. 1 \in 1..Len(queue[c]) /\ queue[c][1] \in Message
      BY <1>0, <2>1, HeadOfQueue
    <3>2. /\ worker'[w].ev = queue[c][1].ev /\ worker'[w].copy = queue[c][1].copy
          /\ worker'[w].rc = queue[c][1].rc + 1 /\ worker'[w].age = 0
      BY <1>0, <1>4 DEF Receive, TypeOK
    <3>3. queue[c][1].ev \in Event /\ ConversationOf[queue[c][1].ev] = c
      BY <3>1 DEF IInv, QueueInv, Orderly, Message
    <3>4. Ev(w)' = queue[c][1].ev /\ Conv(w)' = c
      BY <3>2, <3>3 DEF Ev, Conv
    <3>5. hidden'[c] = Visibility /\ receiver'[c] = w
      BY <1>0, <1>4 DEF Receive, HideFor, TypeOK
    <3>6. queue'[c] # <<>> /\ queue'[c][1] = [queue[c][1] EXCEPT !.rc = @ + 1]
      BY <1>0, <1>4, ReceiveEffect
    <3>7. queue'[c][1] = [ev |-> worker'[w].ev, copy |-> worker'[w].copy, rc |-> worker'[w].rc]
      BY <3>1, <3>2, <3>6 DEF Message
    <3>8. worker'[w].rc > 0
      BY <3>1, <3>2 DEF Message
    <3>9. hidden'[c] + worker'[w].age = Visibility
      BY <3>2, <3>5, Numbers
    <3> QED BY <2>2, <3>3, <3>4, <3>5, <3>6, <3>7, <3>8, <3>9 DEF AtHead, Ev
  <2>3. CASE v # w
    <3>1. worker'[v] = worker[v]
      BY <1>0, <1>4, <2>3 DEF Receive, TypeOK
    <3>2. Live(v)
      BY <3>1 DEF Live
    <3>3. Conv(v) # c /\ Conv(v) \in Conversation /\ queue[Conv(v)] # <<>>
      <4>1. hidden[Conv(v)] > 0 /\ Conv(v) \in Conversation /\ AtHead(v)
        BY <1>a, <3>2
      <4> QED BY <2>1, <4>1 DEF AtHead
    <3>4. queue'[Conv(v)] = queue[Conv(v)]
      BY <1>0, <1>4, <3>3, ReceiveEffect
    <3>5. hidden'[Conv(v)] = hidden[Conv(v)] /\ receiver'[Conv(v)] = receiver[Conv(v)]
      BY <1>0, <1>4, <3>3 DEF Receive, TypeOK
    <3> QED BY <1>b, <3>1, <3>2, <3>3, <3>4, <3>5
  <2> QED BY <2>2, <2>3
<1>5. ASSUME NEW w \in Worker, Moves(w) PROVE HeadInv'
  <2> SUFFICES ASSUME NEW v \in Worker, Live(v)' PROVE AtHead(v)'
    BY DEF HeadInv
  <2>1. UNCHANGED <<queue, hidden, receiver>>
    BY <1>5, MovesStores DEF queueVars
  <2>2. Live(v)
    BY <1>5, MovesWorker DEF Live
  <2>3. queue[Conv(v)] # <<>>
    BY <1>a, <2>2 DEF AtHead
  <2>4. /\ worker'[v].ev = worker[v].ev /\ worker'[v].copy = worker[v].copy
        /\ worker'[v].rc = worker[v].rc /\ worker'[v].age = worker[v].age
    BY <1>5, MovesWorker
  <2> QED BY <1>b, <2>1, <2>2, <2>3, <2>4
<1>6. ASSUME NEW w \in Worker, Ends(w) PROVE HeadInv'
  <2> SUFFICES ASSUME NEW v \in Worker, Live(v)' PROVE AtHead(v)'
    BY DEF HeadInv
  <2>1. UNCHANGED <<queue, hidden, receiver>>
    BY <1>6, EndsFrame DEF queueVars
  <2>2. Live(v) /\ worker'[v] = worker[v]
    BY <1>6, EndsFrame DEF Live, Idle
  <2>3. queue[Conv(v)] # <<>>
    BY <1>a, <2>2 DEF AtHead
  <2> QED BY <1>b, <2>1, <2>2, <2>3
<1>7. ASSUME NEW w \in Worker, Return(w) PROVE HeadInv'
  <2> SUFFICES ASSUME NEW v \in Worker, Live(v)' PROVE AtHead(v)'
    BY DEF HeadInv
  <2>1. v # w /\ worker'[v] = worker[v] /\ Live(v) /\ Live(w)
    BY <1>7, ReturnFrame DEF Live, Idle
  <2>2. Conv(v) # Conv(w) /\ Conv(v) \in Conversation /\ queue[Conv(v)] # <<>>
    BY <1>a, <2>1, Alone DEF AtHead
  <2>3. /\ hidden'[Conv(v)] = hidden[Conv(v)] /\ receiver'[Conv(v)] = receiver[Conv(v)]
        /\ queue'[Conv(v)] = queue[Conv(v)]
    BY <1>7, <2>2, ReturnFrame
  <2> QED BY <1>b, <2>1, <2>2, <2>3
<1>8. CASE Tick
  <2> SUFFICES ASSUME NEW v \in Worker, Live(v)' PROVE AtHead(v)'
    BY DEF HeadInv
  <2>1. worker[v] \in Invocation
    BY <1>0 DEF TypeOK
  <2>2. Live(v)
    BY <1>0, <1>8, <2>1 DEF Tick, Live, TypeOK, Invocation
  <2>3. /\ worker'[v].ev = worker[v].ev /\ worker'[v].copy = worker[v].copy
        /\ worker'[v].rc = worker[v].rc /\ worker'[v].age = worker[v].age + 1
    BY <1>0, <1>8, <2>1, <2>2 DEF Tick, TypeOK, Invocation
  <2>4. worker[v].age < LambdaTimeout /\ worker[v].age \in Nat
    BY <1>8, <2>1, <2>2 DEF Tick, Invocation
  <2>5. AtHead(v) /\ Conv(v) \in Conversation /\ hidden[Conv(v)] \in Nat
    BY <1>0, <1>a, <2>2 DEF TypeOK
  <2>6. hidden[Conv(v)] > 1
    BY <2>4, <2>5, Numbers DEF AtHead
  <2>7. hidden'[Conv(v)] = hidden[Conv(v)] - 1 /\ receiver'[Conv(v)] = receiver[Conv(v)]
    BY <1>8, <2>5, <2>6 DEF Tick, Down
  <2>8. queue' = queue
    BY <1>8 DEF Tick
  <2>9. hidden'[Conv(v)] + worker'[v].age = Visibility
    BY <2>3, <2>4, <2>5, <2>7 DEF AtHead
  <2>10. Ev(v)' = Ev(v) /\ Conv(v)' = Conv(v)
    BY <2>3 DEF Ev, Conv
  <2> QED BY <2>3, <2>5, <2>7, <2>8, <2>9, <2>10 DEF AtHead
<1>9. CASE UNCHANGED vars
  <2>1. UNCHANGED <<worker, queue, hidden, receiver>>
    BY <1>9 DEF vars, queueVars
  <2> QED BY <1>a, <1>b, <2>1 DEF HeadInv, Live, AtHead
<1> QED BY <1>1, <1>2, <1>3, <1>4, <1>5, <1>6, <1>7, <1>8, <1>9, StepKinds

\* Taking the head off a queue leaves the rest in order.
LEMMA DropKeepsOrder ==
  ASSUME TypeOK, NEW c \in Conversation, queue[c] # <<>>, Orderly(c),
         queue' = [queue EXCEPT ![c] = Tail(@)], UNCHANGED enqueued
  PROVE  Orderly(c)'
<1>1. \A i \in 1..Len(queue'[c]) : queue'[c][i] = queue[c][i + 1] /\ i + 1 \in 1..Len(queue[c])
  BY DropEffect
<1>2. ASSUME NEW i \in 1..Len(queue'[c])
      PROVE  /\ ConversationOf[queue'[c][i].ev] = c
             /\ queue'[c][i].copy \in enqueued'[queue'[c][i].ev]
  BY <1>1, SMTT(30) DEF Orderly
<1>3. ASSUME NEW i \in 1..Len(queue'[c]), NEW j \in 1..Len(queue'[c]),
             queue'[c][j].ev = queue'[c][i].ev, queue'[c][j].copy = queue'[c][i].copy
      PROVE  j = i
  <2>1. j + 1 = i + 1
    BY <1>1, <1>3 DEF Orderly
  <2>2. i \in Int /\ j \in Int
    OBVIOUS
  <2> QED BY <2>1, <2>2
<1> QED BY <1>2, <1>3 DEF Orderly

LEMMA QueueStep == IInv /\ [Next]_vars => QueueInv'
<1> SUFFICES ASSUME IInv, [Next]_vars PROVE QueueInv'
  OBVIOUS
<1>0. TypeOK /\ QueueInv
  BY DEF IInv
<1>a. ASSUME UNCHANGED <<queue, enqueued, sent>> PROVE QueueInv'
  BY <1>0, <1>a DEF QueueInv, Orderly
\* A queue that keeps its messages keeps their order.
<1>b. ASSUME NEW d \in Conversation, queue'[d] = queue[d],
             \A e \in Event : enqueued[e] \subseteq enqueued'[e]
      PROVE  Orderly(d)'
  <2>1. Orderly(d) /\ queue[d] \in Seq(Message)
    BY <1>0 DEF QueueInv, TypeOK
  <2>2. \A i \in 1..Len(queue[d]) : queue[d][i] \in Message
    BY <2>1, ElementOfSeq
  <2>3. \A i \in 1..Len(queue[d]) : queue[d][i].ev \in Event
    BY <2>2 DEF Message
  <2> QED BY <1>b, <2>1, <2>3 DEF Orderly
<1>1. ASSUME NEW e \in Event, SlackDelivers(e) PROVE QueueInv'
  <2>1. sent' = [sent EXCEPT ![e] = @ + 1] /\ sent[e] < SlackDeliveries /\ sent[e] \in Nat
    BY <1>0, <1>1 DEF SlackDelivers, TypeOK
  <2>2. CASE UNCHANGED <<queue, enqueued>>
    <3>1. \A x \in Event : \A n \in enqueued'[x] : n <= sent'[x]
      BY <1>0, <2>1, <2>2 DEF QueueInv, TypeOK, Copy
    <3> QED BY <1>b, <2>2, <3>1 DEF QueueInv
  <2>3. CASE Enqueue(e)
    <3> DEFINE c == ConversationOf[e]
               k == Len(queue[c]) + 1
    <3>1. enqueued' = [enqueued EXCEPT ![e] = @ \cup {sent[e] + 1}]
      BY <2>3 DEF Enqueue
    <3>2. \A x \in Event : enqueued[x] \subseteq enqueued'[x]
      BY <1>0, <3>1 DEF TypeOK
    <3>3. \A x \in Event : \A n \in enqueued'[x] : n <= sent'[x]
      BY <1>0, <2>1, <3>1 DEF QueueInv, TypeOK, Copy
    <3>4. /\ \A d \in Conversation \ {c} : queue'[d] = queue[d]
          /\ Len(queue'[c]) = k
          /\ \A i \in 1..(k - 1) : queue'[c][i] = queue[c][i]
          /\ queue'[c][k] = [ev |-> e, copy |-> sent[e] + 1, rc |-> 0]
      <4>1. c \in Conversation /\ queue[c] \in Seq(Message)
        BY <1>0, ConversationOfType DEF TypeOK
      <4>2. Len(queue[c]) \in Nat
        BY <4>1, LenProperties
      <4> QED BY <1>0, <2>1, <2>3, <4>2, EnqueueEffect, SMTT(30)
    <3>5. c \in Conversation /\ queue[c] \in Seq(Message) /\ k \in Nat /\ Len(queue[c]) = k - 1
      BY <1>0, ConversationOfType, LenProperties DEF TypeOK
    <3>6. Orderly(c)
      BY <1>0, <3>5 DEF QueueInv
    <3> HIDE DEF k
    <3>7. \A i \in 1..(k - 1) : /\ queue[c][i] \in Message
                                /\ ConversationOf[queue[c][i].ev] = c
                                /\ queue[c][i].copy \in enqueued[queue[c][i].ev]
      BY <3>5, <3>6, ElementOfSeq DEF Orderly
    <3>8. \A i \in 1..(k - 1) : queue[c][i].ev = e => queue[c][i].copy # sent[e] + 1
      <4> SUFFICES ASSUME NEW i \in 1..(k - 1), queue[c][i].ev = e,
                          queue[c][i].copy = sent[e] + 1
                   PROVE  FALSE
        OBVIOUS
      <4>1. sent[e] + 1 \in enqueued[e]
        BY <3>7
      <4>2. sent[e] + 1 <= sent[e]
        BY <1>0, <4>1 DEF QueueInv
      <4> QED BY <2>1, <4>2
    <3>9. ASSUME NEW i \in 1..k
          PROVE  /\ ConversationOf[queue'[c][i].ev] = c
                 /\ queue'[c][i].copy \in enqueued'[queue'[c][i].ev]
      <4>1. CASE i = k
        <5>1. queue'[c][i] = [ev |-> e, copy |-> sent[e] + 1, rc |-> 0]
          BY <3>4, <4>1
        <5>2. sent[e] + 1 \in enqueued'[e]
          BY <1>0, <3>1 DEF TypeOK
        <5> QED BY <5>1, <5>2
      <4>2. CASE i # k
        <5>1. i \in 1..(k - 1)
          BY <3>5, <4>2
        <5>2. queue[c][i].ev \in Event
          BY <3>7, <5>1 DEF Message
        <5> QED BY <3>2, <3>4, <3>7, <5>1, <5>2
      <4> QED BY <4>1, <4>2
    <3>10. ASSUME NEW i \in 1..k, NEW j \in 1..k,
                  queue'[c][j].ev = queue'[c][i].ev, queue'[c][j].copy = queue'[c][i].copy
           PROVE  j = i
      <4>1. CASE i \in 1..(k - 1) /\ j \in 1..(k - 1)
        BY <3>4, <3>5, <3>6, <3>10, <4>1 DEF Orderly
      <4>2. CASE i \in 1..(k - 1) /\ j = k
        BY <3>4, <3>8, <3>10, <4>2
      <4>3. CASE i = k /\ j \in 1..(k - 1)
        BY <3>4, <3>8, <3>10, <4>3
      <4>4. CASE i = k /\ j = k
        BY <4>4
      <4> QED BY <3>5, <4>1, <4>2, <4>3, <4>4
    <3>11. Orderly(c)'
      BY <3>4, <3>9, <3>10 DEF Orderly
    <3>12. \A d \in Conversation : Orderly(d)'
      BY <1>b, <3>2, <3>4, <3>11
    <3> QED BY <3>3, <3>12 DEF QueueInv
  <2> QED BY <1>1, <2>2, <2>3 DEF SlackDelivers
<1>2. ASSUME NEW e \in Event, DedupExpires(e) PROVE QueueInv'
  BY <1>2, <1>a DEF DedupExpires, queueVars, userVars
<1>3. ASSUME NEW c \in Conversation, MoveToDlq(c) PROVE QueueInv'
  <2>1. queue[c] # <<>> /\ queue' = [queue EXCEPT ![c] = Tail(@)] /\ UNCHANGED <<sent, enqueued>>
    BY <1>3 DEF MoveToDlq, Exhausted, slackVars, userVars
  <2>2. Orderly(c)'
    BY <1>0, <2>1, DropKeepsOrder DEF QueueInv
  <2>3. \A d \in Conversation \ {c} : Orderly(d)'
    BY <1>0, <1>b, <2>1, DropEffect
  <2> QED BY <1>0, <2>1, <2>2, <2>3 DEF QueueInv
<1>4. ASSUME NEW w \in Worker, NEW c \in Conversation, Receive(w, c) PROVE QueueInv'
  <2>1. UNCHANGED <<sent, enqueued>> /\ queue[c] # <<>>
    BY <1>4 DEF Receive, Receivable, slackVars, userVars
  <2>2. /\ \A d \in Conversation \ {c} : queue'[d] = queue[d]
        /\ Len(queue'[c]) = Len(queue[c])
        /\ queue'[c][1] = [queue[c][1] EXCEPT !.rc = @ + 1]
        /\ \A i \in 2..Len(queue[c]) : queue'[c][i] = queue[c][i]
    BY <1>0, <1>4, ReceiveEffect
  <2>3. Len(queue[c]) \in Nat /\ queue[c][1] \in Message
    BY <1>0, <2>1, HeadOfQueue
  <2>4. \A i \in 1..Len(queue[c]) :
          queue'[c][i].ev = queue[c][i].ev /\ queue'[c][i].copy = queue[c][i].copy
    <3>1. queue'[c][1].ev = queue[c][1].ev /\ queue'[c][1].copy = queue[c][1].copy
      BY <2>2, <2>3 DEF Message
    <3>2. \A i \in 1..Len(queue[c]) : i = 1 \/ i \in 2..Len(queue[c])
      BY <2>3
    <3> QED BY <2>2, <3>1, <3>2
  <2>5. Orderly(c)
    BY <1>0 DEF QueueInv
  <2>6. Orderly(c)'
    BY <2>1, <2>2, <2>4, <2>5 DEF Orderly
  <2>7. \A d \in Conversation \ {c} : Orderly(d)'
    BY <1>b, <2>1, <2>2
  <2> QED BY <1>0, <2>1, <2>6, <2>7 DEF QueueInv
<1>5. ASSUME NEW w \in Worker, Moves(w) PROVE QueueInv'
  BY <1>5, <1>a, MovesStores DEF slackVars, queueVars
<1>6. ASSUME NEW w \in Worker, Ends(w) PROVE QueueInv'
  BY <1>6, <1>a, EndsFrame DEF slackVars, queueVars
<1>7. ASSUME NEW w \in Worker, Return(w) PROVE QueueInv'
  <2>1. UNCHANGED <<sent, enqueued>>
    BY <1>7, ReturnFrame DEF slackVars, userVars
  <2>2. CASE UNCHANGED queue
    BY <1>a, <2>1, <2>2
  <2>3. CASE queue' = [queue EXCEPT ![Conv(w)] = Tail(@)]
    <3>1. Conv(w) \in Conversation /\ queue[Conv(w)] # <<>>
      BY <1>7, ReturnFrame
    <3>2. Orderly(Conv(w))
      BY <1>0, <3>1 DEF QueueInv
    <3> DEFINE c == Conv(w)
    <3> HIDE DEF c
    <3>3. ASSUME NEW x \in Conversation, queue[x] # <<>>, Orderly(x),
                 queue' = [queue EXCEPT ![x] = Tail(@)]
          PROVE  \A d \in Conversation : Orderly(d)'
      <4>1. Orderly(x)'
        BY <1>0, <2>1, <3>3, DropKeepsOrder
      <4>2. \A d \in Conversation \ {x} : Orderly(d)'
        BY <1>0, <1>b, <2>1, <3>3, DropEffect
      <4> QED BY <4>1, <4>2
    <3>4. \A d \in Conversation : Orderly(d)'
      BY <2>3, <3>1, <3>2, <3>3
    <3> QED BY <1>0, <2>1, <3>4 DEF QueueInv
  <2> QED BY <1>7, <2>2, <2>3, ReturnFrame
<1>8. CASE Tick
  BY <1>8, <1>a DEF Tick, slackVars, userVars
<1>9. CASE UNCHANGED vars
  BY <1>9, <1>a DEF vars, slackVars, queueVars, userVars
<1> QED BY <1>1, <1>2, <1>3, <1>4, <1>5, <1>6, <1>7, <1>8, <1>9, StepKinds

-----------------------------------------------------------------------------
(* What the steps of the queue leave alone *)

\* A delivery of Slack puts at most one message behind the others, a new copy.
LEMMA DeliveryEffect ==
  ASSUME IInv, NEW e \in Event, SlackDelivers(e)
  PROVE  /\ UNCHANGED <<hidden, receiver, dlq, storeVars, worker, answers, notices, disabled>>
         /\ \A x \in Event : enqueued[x] \subseteq enqueued'[x]
         /\ \A c \in Conversation :
              /\ queue[c] # <<>> => queue'[c] # <<>>
              /\ \A i \in 1..Len(queue[c]) : queue'[c][i] = queue[c][i]
              /\ \A i \in 1..Len(queue'[c]) \ 1..Len(queue[c]) :
                   queue'[c][i] = [ev |-> e, copy |-> sent[e] + 1, rc |-> 0]
         /\ sent[e] + 1 \notin enqueued[e]
<1>0. TypeOK
  BY DEF IInv
<1>1. UNCHANGED <<hidden, receiver, dlq, storeVars, worker, answers, notices, disabled>>
  BY DEF SlackDelivers
<1>2. sent[e] + 1 \notin enqueued[e]
  <2>1. sent[e] \in Nat
    BY <1>0 DEF TypeOK
  <2>2. sent[e] + 1 \in enqueued[e] => sent[e] + 1 <= sent[e]
    BY DEF IInv, QueueInv
  <2> QED BY <2>1, <2>2
<1>3. CASE UNCHANGED <<queue, enqueued>>
  BY <1>1, <1>2, <1>3
<1>4. CASE Enqueue(e)
  <2> DEFINE d == ConversationOf[e]
  <2>1. d \in Conversation /\ queue[d] \in Seq(Message) /\ Len(queue[d]) \in Nat
    BY <1>0, ConversationOfType, LenProperties DEF TypeOK
  <2>2. /\ \A c \in Conversation \ {d} : queue'[c] = queue[c]
        /\ queue'[d] # <<>>
        /\ Len(queue'[d]) = Len(queue[d]) + 1
        /\ \A i \in 1..Len(queue[d]) : queue'[d][i] = queue[d][i]
        /\ queue'[d][Len(queue[d]) + 1] = [ev |-> e, copy |-> sent[e] + 1, rc |-> 0]
    BY <1>0, <1>4, EnqueueEffect DEF SlackDelivers
  <2>3. \A x \in Event : enqueued[x] \subseteq enqueued'[x]
    BY <1>0, <1>4 DEF Enqueue, TypeOK
  <2> HIDE DEF d
  <2>4. \A i \in 1..Len(queue'[d]) \ 1..Len(queue[d]) : i = Len(queue[d]) + 1
    BY <2>1, <2>2
  <2> QED BY <1>1, <1>2, <2>1, <2>2, <2>3, <2>4
<1> QED BY <1>3, <1>4 DEF SlackDelivers

\* A receive counts on the head and leaves the copies in their places.
LEMMA ReceiveFrame ==
  ASSUME TypeOK, NEW w \in Worker, NEW c \in Conversation, Receive(w, c)
  PROVE  /\ UNCHANGED <<slackVars, dlq, storeVars, userVars>>
         /\ ~Live(w) /\ queue[c] # <<>> /\ hidden[c] = 0 /\ queue[c][1] \in Message
         /\ queue[c][1].rc < MaxReceiveCount
         /\ worker'[w].pc = "received" /\ worker'[w].ev = queue[c][1].ev
         /\ worker'[w].copy = queue[c][1].copy /\ worker'[w].rc = queue[c][1].rc + 1
         /\ worker'[w].cause = "none"
         /\ \A v \in Worker \ {w} : worker'[v] = worker[v]
         /\ \A d \in Conversation \ {c} : queue'[d] = queue[d] /\ hidden'[d] = hidden[d]
         /\ Len(queue'[c]) = Len(queue[c])
         /\ \A i \in 1..Len(queue[c]) :
              /\ queue'[c][i].ev = queue[c][i].ev /\ queue'[c][i].copy = queue[c][i].copy
              /\ queue'[c][i].rc = queue[c][i].rc + (IF i = 1 THEN 1 ELSE 0)
<1>1. UNCHANGED <<slackVars, dlq, storeVars, userVars>>
  BY DEF Receive
<1>2. ~Live(w) /\ queue[c] # <<>> /\ hidden[c] = 0 /\ queue[c][1].rc < MaxReceiveCount
  BY DEF Receive, Receivable
<1>3. /\ queue[c] \in Seq(Message) /\ Len(queue[c]) \in Nat
      /\ queue[c][1] \in Message /\ 1 \in 1..Len(queue[c])
  BY <1>2, HeadOfQueue
<1>4. /\ \A v \in Worker \ {w} : worker'[v] = worker[v]
      /\ worker'[w].pc = "received" /\ worker'[w].ev = queue[c][1].ev
      /\ worker'[w].copy = queue[c][1].copy /\ worker'[w].rc = queue[c][1].rc + 1
      /\ worker'[w].cause = "none"
  BY DEF Receive, TypeOK
<1>5. \A d \in Conversation \ {c} : hidden'[d] = hidden[d]
  BY DEF Receive, TypeOK
<1>6. /\ \A d \in Conversation \ {c} : queue'[d] = queue[d]
      /\ Len(queue'[c]) = Len(queue[c])
      /\ queue'[c][1] = [queue[c][1] EXCEPT !.rc = @ + 1]
      /\ \A i \in 2..Len(queue[c]) : queue'[c][i] = queue[c][i]
  BY ReceiveEffect
<1>7. /\ queue'[c][1].ev = queue[c][1].ev /\ queue'[c][1].copy = queue[c][1].copy
      /\ queue'[c][1].rc = queue[c][1].rc + 1
  BY <1>3, <1>6 DEF Message
<1>8. ASSUME NEW i \in 1..Len(queue[c])
      PROVE  /\ queue'[c][i].ev = queue[c][i].ev /\ queue'[c][i].copy = queue[c][i].copy
             /\ queue'[c][i].rc = queue[c][i].rc + (IF i = 1 THEN 1 ELSE 0)
  <2>1. CASE i = 1
    BY <1>7, <2>1
  <2>2. CASE i # 1
    <3>1. i \in 2..Len(queue[c])
      BY <1>3, <2>2
    <3>2. queue[c][i] \in Message
      BY <1>3, ElementOfSeq
    <3>3. queue[c][i].rc \in Nat
      BY <3>2 DEF Message
    <3> QED BY <1>6, <2>2, <3>1, <3>3
  <2> QED BY <2>1, <2>2
<1> QED BY <1>1, <1>2, <1>3, <1>4, <1>5, <1>6, <1>8

-----------------------------------------------------------------------------
(* The idempotency row *)

LEMMA LeaseStep == IInv /\ [Next]_vars => LeaseInv'
<1> SUFFICES ASSUME IInv, [Next]_vars, NEW x \in Event, Leased(x)', x \notin disabled'
             PROVE  Covered(x)'
  BY DEF LeaseInv
<1>0. TypeOK /\ TypeOK'
  BY TypeStep DEF IInv
<1> DEFINE d == ConversationOf[x]
<1>1. d \in Conversation /\ leaseLeft[x] \in Int /\ hidden[d] \in Nat
  BY <1>0, ConversationOfType DEF TypeOK
<1>2. Leased(x) /\ x \notin disabled => queue[d] # <<>> /\ queue[d][1].ev = x /\ leaseLeft[x] < hidden[d]
  BY DEF IInv, LeaseInv, Covered
<1>3. Leased(x) /\ x \notin disabled => hidden[d] > 0
  BY <1>1, <1>2 DEF Leased
<1>4. ASSUME UNCHANGED <<row, leaseLeft, disabled>>, queue[d] # <<>> => queue'[d] # <<>>,
             queue[d] # <<>> => queue'[d][1] = queue[d][1], hidden'[d] = hidden[d]
      PROVE  Covered(x)'
  BY <1>2, <1>4 DEF Leased, Covered
<1> HIDE DEF d
<1>5. ASSUME NEW e \in Event, SlackDelivers(e) PROVE Covered(x)'
  <2>1. queue[d] # <<>> => 1 \in 1..Len(queue[d])
    BY <1>0, <1>1, HeadOfQueue
  <2> QED BY <1>1, <1>4, <1>5, <2>1, DeliveryEffect DEF storeVars
<1>6. ASSUME NEW e \in Event, DedupExpires(e) PROVE Covered(x)'
  BY <1>6, <1>4 DEF DedupExpires, queueVars, storeVars, userVars
<1>7. ASSUME NEW c \in Conversation, MoveToDlq(c) PROVE Covered(x)'
  <2>1. UNCHANGED <<row, leaseLeft, disabled, hidden>> /\ hidden[c] = 0 /\ queue[c] # <<>>
    BY <1>7 DEF MoveToDlq, Exhausted, storeVars, userVars
  <2>2. d # c
    BY <1>3, <2>1 DEF Leased
  <2>3. queue'[d] = queue[d]
    BY <1>0, <1>1, <1>7, <2>1, <2>2, DropEffect DEF MoveToDlq
  <2> QED BY <1>4, <2>1, <2>3
<1>8. ASSUME NEW w \in Worker, NEW c \in Conversation, Receive(w, c) PROVE Covered(x)'
  <2>1. UNCHANGED <<row, leaseLeft, disabled>> /\ hidden[c] = 0
    BY <1>0, <1>8, ReceiveFrame DEF storeVars, userVars
  <2>2. d # c
    BY <1>3, <2>1 DEF Leased
  <2>3. \A y \in Conversation \ {c} : queue'[y] = queue[y] /\ hidden'[y] = hidden[y]
    BY <1>0, <1>8, ReceiveFrame
  <2> QED BY <1>1, <1>4, <2>1, <2>2, <2>3
<1>9. ASSUME NEW w \in Worker, Moves(w) PROVE Covered(x)'
  <2>1. /\ UNCHANGED <<queue, hidden>> /\ disabled \subseteq disabled' /\ Live(w)
        /\ x # Ev(w) => row'[x] = row[x] /\ leaseLeft'[x] = leaseLeft[x]
    BY <1>9, MovesStores, MovesWorker DEF queueVars
  <2>2. CASE x # Ev(w)
    BY <1>2, <2>1, <2>2 DEF Leased, Covered, d
  <2>3. CASE x = Ev(w)
    <3>1. d = Conv(w)
      BY <2>3 DEF d, Conv
    <3>2. hidden[d] > Lease
      BY <2>1, <3>1, HiddenWhileLive
    <3>3. leaseLeft'[x] \in -1..Lease
      BY <1>0 DEF TypeOK
    <3>4. leaseLeft'[x] < hidden'[d]
      BY <1>1, <2>1, <3>2, <3>3, Numbers
    <3>5. AtHead(w)
      BY <2>1 DEF IInv, HeadInv
    <3>6. queue[d] # <<>> /\ queue[d][1].ev = x
      BY <2>3, <3>1, <3>5 DEF AtHead
    <3> QED BY <2>1, <3>4, <3>6 DEF Covered, d
  <2> QED BY <2>2, <2>3
<1>10. ASSUME NEW w \in Worker, Ends(w) PROVE Covered(x)'
  BY <1>10, <1>4, EndsFrame DEF queueVars, storeVars
<1>11. ASSUME NEW w \in Worker, Return(w) PROVE Covered(x)'
  <2>1. UNCHANGED <<row, leaseLeft, disabled>>
    BY <1>11, ReturnFrame DEF storeVars, userVars
  <2>2. Leased(x) /\ x \notin disabled
    BY <2>1 DEF Leased
  <2>3. d # Conv(w)
    <3> SUFFICES ASSUME d = Conv(w) PROVE FALSE
      OBVIOUS
    <3>1. x = Ev(w)
      BY <1>2, <1>11, <2>2, ReturnFrame
    <3>2. row[x].state = "posted"
      BY <1>11, <2>2, <3>1 DEF IInv, RowInv, OwnRow, Return
    <3> QED BY <2>2, <3>2 DEF Leased
  <2> QED BY <1>1, <1>4, <1>11, <2>1, <2>3, ReturnFrame
<1>12. CASE Tick
  <2>1. /\ UNCHANGED <<row, queue, disabled>>
        /\ leaseLeft'[x] = Down(leaseLeft[x], -1) /\ hidden'[d] = Down(hidden[d], 0)
    BY <1>1, <1>12 DEF Tick, userVars
  <2>2. leaseLeft'[x] >= 0
    BY DEF Leased
  <2>3. leaseLeft[x] > -1 /\ leaseLeft'[x] = leaseLeft[x] - 1
    BY <1>1, <2>1, <2>2 DEF Down
  <2>4. queue[d] # <<>> /\ queue[d][1].ev = x /\ leaseLeft[x] < hidden[d]
    BY <1>1, <1>2, <2>1, <2>3 DEF Leased
  <2>5. leaseLeft'[x] < hidden'[d]
    BY <1>1, <2>1, <2>3, <2>4 DEF Down
  <2> QED BY <2>1, <2>4, <2>5 DEF Covered, d
<1>13. CASE UNCHANGED vars
  BY <1>13, <1>4 DEF vars, queueVars, storeVars, userVars
<1> QED BY <1>5, <1>6, <1>7, <1>8, <1>9, <1>10, <1>11, <1>12, <1>13, StepKinds

\* Invocations of different conversations have different events.
LEMMA OthersEvent ==
  ASSUME IInv, NEW v \in Worker, NEW w \in Worker, Live(v), Live(w), v # w
  PROVE  Ev(v) # Ev(w) /\ Ev(v) \in Event
BY Alone, AttemptType DEF Conv

LEMMA RowStep == IInv /\ [Next]_vars => RowInv'
<1> SUFFICES ASSUME IInv, [Next]_vars, NEW v \in Worker PROVE OwnRow(v)'
  BY DEF RowInv
<1>0. TypeOK /\ OwnRow(v)
  BY DEF IInv, RowInv
\* An invocation that stays where it was relies on what it relied on.
<1>1. ASSUME worker'[v].pc = worker[v].pc, worker'[v].ev = worker[v].ev,
             row'[Ev(v)] = row[Ev(v)], Leased(Ev(v))' => Leased(Ev(v)),
             disabled \subseteq disabled'
      PROVE  OwnRow(v)'
  BY <1>0, <1>1 DEF OwnRow, Ev, Leased
<1>2. ASSUME UNCHANGED <<worker, row, leaseLeft, disabled>> PROVE OwnRow(v)'
  BY <1>1, <1>2 DEF Leased, Ev
<1>3. ASSUME worker'[v] = Idle PROVE OwnRow(v)'
  BY <1>3 DEF OwnRow, Idle
<1>4. ASSUME worker'[v] = worker[v], UNCHANGED <<row, leaseLeft, disabled>> PROVE OwnRow(v)'
  BY <1>1, <1>4 DEF Leased, Ev
<1>5. ASSUME NEW e \in Event, SlackDelivers(e) PROVE OwnRow(v)'
  BY <1>2, <1>5 DEF SlackDelivers, storeVars
<1>6. ASSUME NEW e \in Event, DedupExpires(e) PROVE OwnRow(v)'
  BY <1>2, <1>6 DEF DedupExpires, storeVars, userVars
<1>7. ASSUME NEW c \in Conversation, MoveToDlq(c) PROVE OwnRow(v)'
  BY <1>2, <1>7 DEF MoveToDlq, storeVars, userVars
<1>8. ASSUME NEW w \in Worker, NEW c \in Conversation, Receive(w, c) PROVE OwnRow(v)'
  <2>1. UNCHANGED <<row, leaseLeft, disabled>>
    BY <1>0, <1>8, ReceiveFrame DEF storeVars, userVars
  <2>2. CASE v # w
    <3>1. \A u \in Worker \ {w} : worker'[u] = worker[u]
      BY <1>0, <1>8, ReceiveFrame
    <3> QED BY <1>4, <2>1, <2>2, <3>1
  <2>3. CASE v = w
    <3> DEFINE e == queue[c][1].ev
    <3>1. /\ worker'[w].pc = "received" /\ worker'[w].ev = e /\ hidden[c] = 0
          /\ queue[c] # <<>> /\ queue[c][1] \in Message
      BY <1>0, <1>8, ReceiveFrame
    <3>2. 1 \in 1..Len(queue[c])
      BY <1>0, <3>1, HeadOfQueue
    <3>3. e \in Event /\ ConversationOf[e] = c
      BY <3>1, <3>2 DEF Message, IInv, QueueInv, Orderly
    <3>4. Leased(e) /\ e \notin disabled => leaseLeft[e] < 0
      BY <3>1, <3>3 DEF IInv, LeaseInv, Covered
    <3>5. leaseLeft[e] \in Int
      BY <1>0, <3>3 DEF TypeOK
    <3>6. ~Leased(e) \/ e \in disabled
      BY <3>4, <3>5 DEF Leased
    <3> HIDE DEF e
    <3> QED BY <2>1, <2>3, <3>1, <3>6 DEF OwnRow, Ev, Leased
  <2> QED BY <2>2, <2>3
<1>9. ASSUME NEW w \in Worker, Moves(w) PROVE OwnRow(v)'
  <2>1. Live(w) /\ \A u \in Worker \ {w} : worker'[u] = worker[u]
    BY <1>9, MovesWorker
  <2>2. CASE v # w /\ Live(v)
    <3>1. worker'[v] = worker[v] /\ Ev(v) \in Event \ {Ev(w)}
      BY <2>1, <2>2, OthersEvent
    <3>2. /\ disabled \subseteq disabled'
          /\ row'[Ev(v)] = row[Ev(v)] /\ leaseLeft'[Ev(v)] = leaseLeft[Ev(v)]
      BY <1>9, <3>1, MovesStores
    <3>3. Ev(v)' = Ev(v)
      BY <3>1 DEF Ev
    <3> QED BY <1>1, <3>1, <3>2, <3>3 DEF Leased
  <2>3. CASE v # w /\ ~Live(v)
    BY <2>1, <2>3 DEF OwnRow, Live
  <2>4. CASE v = w
    <3> DEFINE e == Ev(w)
    <3>1. e \in Event /\ Ev(w)' = e
      BY <1>9, <2>1, AttemptType, MovesWorker DEF Ev
    <3>2. worker[w] \in Invocation
      BY <1>0 DEF TypeOK
    <3>3. \A p : Goto(w, p) => worker'[w].pc = p
      BY <1>0, <3>2 DEF Goto, TypeOK, Invocation
    <3>4. \A why : Throw(w, why) => worker'[w].pc = "failed"
      BY <1>0, <3>2 DEF Throw, TypeOK, Invocation
    <3>5. CASE worker'[w].pc = "failed"
      BY <2>4, <3>5 DEF OwnRow
    <3>6. CASE Claim(w)
      <4>1. CASE LeaseFree(e) /\ TakeLease(w) /\ Goto(w, "claimed")
        <5>1. row'[e] = [state |-> "processing", owner |-> w] /\ worker'[w].pc = "claimed"
          BY <1>0, <3>1, <3>3, <4>1 DEF TakeLease, TypeOK
        <5> QED BY <2>4, <3>1, <5>1 DEF OwnRow
      <4>2. CASE row[e].state = "posted" /\ Goto(w, "returning") /\ UNCHANGED <<row, leaseLeft>>
        <5>1. row'[e].state = "posted" /\ worker'[w].pc = "returning"
          BY <3>3, <4>2
        <5> QED BY <2>4, <3>1, <5>1 DEF OwnRow
      <4> QED BY <3>4, <3>5, <3>6, <4>1, <4>2 DEF Claim, OnBusy
    <3>7. CASE Generate(w)
      <4>1. row'[e] = [state |-> "processing", owner |-> w]
        BY <1>0, <2>4, <3>7 DEF Generate, OwnRow, storeVars
      <4>2. CASE Goto(w, "generated")
        <5>1. worker'[w].pc = "generated"
          BY <3>3, <4>2
        <5> QED BY <2>4, <3>1, <4>1, <5>1 DEF OwnRow
      <4>3. CASE Goto(w, "returning") /\ disabled' = disabled \cup {e}
        <5>1. worker'[w].pc = "returning" /\ e \in disabled'
          BY <3>3, <4>3
        <5> QED BY <2>4, <3>1, <5>1 DEF OwnRow
      <4> QED BY <3>4, <3>5, <3>7, <4>2, <4>3 DEF Generate
    <3>8. CASE StartQaLog(w)
      <4>1. row'[e] = [state |-> "processing", owner |-> w]
        BY <1>0, <2>4, <3>8 DEF StartQaLog, OwnRow
      <4>2. worker'[w].pc = "logged"
        BY <1>0, <3>2, <3>8 DEF StartQaLog, TypeOK, Invocation
      <4> QED BY <2>4, <3>1, <4>1, <4>2 DEF OwnRow
    <3>9. CASE PostAnswer(w)
      <4>1. row'[e] = [state |-> "processing", owner |-> w]
        BY <1>0, <2>4, <3>9 DEF PostAnswer, OwnRow, storeVars
      <4>2. CASE Goto(w, "answered")
        <5>1. worker'[w].pc = "answered"
          BY <3>3, <4>2
        <5> QED BY <2>4, <3>1, <4>1, <5>1 DEF OwnRow
      <4> QED BY <3>4, <3>5, <3>9, <4>2 DEF PostAnswer
    <3>10. CASE MarkQaPosted(w)
      <4>1. row'[e] = [state |-> "processing", owner |-> w]
        BY <1>0, <2>4, <3>10 DEF MarkQaPosted, OwnRow
      <4>2. worker'[w].pc = "recorded"
        BY <3>3, <3>10 DEF MarkQaPosted
      <4> QED BY <2>4, <3>1, <4>1, <4>2 DEF OwnRow
    <3>11. CASE MarkPosted(w)
      <4>1. CASE /\ row' = [row EXCEPT ![e] = [state |-> "posted", owner |-> NoWorker]]
                 /\ Goto(w, "returning")
        <5>1. row'[e].state = "posted" /\ worker'[w].pc = "returning"
          BY <1>0, <3>1, <3>3, <4>1 DEF TypeOK
        <5> QED BY <2>4, <3>1, <5>1 DEF OwnRow
      <4> QED BY <3>4, <3>5, <3>11, <4>1 DEF MarkPosted
    <3> QED BY <1>9, <3>6, <3>7, <3>8, <3>9, <3>10, <3>11 DEF Moves
  <2> QED BY <2>2, <2>3, <2>4
<1>10. ASSUME NEW w \in Worker, Ends(w) PROVE OwnRow(v)'
  BY <1>3, <1>4, <1>10, EndsFrame DEF storeVars
<1>11. ASSUME NEW w \in Worker, Return(w) PROVE OwnRow(v)'
  BY <1>3, <1>4, <1>11, ReturnFrame DEF storeVars, userVars
<1>12. CASE Tick
  <2>1. UNCHANGED <<row, disabled>>
    BY <1>12 DEF Tick, userVars
  <2>2. worker'[v].pc = worker[v].pc /\ worker'[v].ev = worker[v].ev
    BY <1>0, <1>12 DEF Tick, TypeOK, Invocation
  <2>3. CASE Ev(v) \in Event
    <3>1. leaseLeft'[Ev(v)] = Down(leaseLeft[Ev(v)], -1) /\ leaseLeft[Ev(v)] \in Int
      BY <1>0, <1>12, <2>3 DEF Tick, TypeOK
    <3>2. Ev(v)' = Ev(v)
      BY <2>2 DEF Ev
    <3>3. leaseLeft'[Ev(v)] >= 0 => leaseLeft[Ev(v)] >= 0
      BY <3>1 DEF Down
    <3>4. Leased(Ev(v))' => Leased(Ev(v))
      BY <2>1, <3>2, <3>3 DEF Leased
    <3> QED BY <1>1, <2>1, <2>2, <3>4
  <2>4. CASE Ev(v) \notin Event
    <3>1. ~Live(v)
      BY <2>4 DEF IInv, HeadInv, AtHead
    <3> QED BY <2>2, <3>1 DEF OwnRow, Live
  <2> QED BY <2>3, <2>4
<1>13. CASE UNCHANGED vars
  BY <1>2, <1>13 DEF vars, storeVars, userVars
<1> QED BY <1>5, <1>6, <1>7, <1>8, <1>9, <1>10, <1>11, <1>12, <1>13, StepKinds

LEMMA BusyStep == IInv /\ [Next]_vars => BusyIsExplained'
<1> SUFFICES ASSUME IInv, [Next]_vars, NEW v \in Worker, worker'[v].cause = "busy"
             PROVE  (row[Ev(v)].owner = v \/ Ev(v) \in disabled)'
  BY DEF BusyIsExplained
<1>0. TypeOK /\ worker[v] \in Invocation
  BY DEF IInv, TypeOK
<1>1. worker[v].cause = "busy" => Live(v) /\ (row[Ev(v)].owner = v \/ Ev(v) \in disabled)
  <2>1. worker[v].cause = "busy" => Live(v)
    BY DEF IInv, IdleInv, Live
  <2> QED BY <2>1 DEF IInv, BusyIsExplained
\* A step that neither makes v busy nor touches the row of its event.
<1>2. ASSUME worker'[v].cause = worker[v].cause, worker'[v].ev = worker[v].ev,
             row'[Ev(v)] = row[Ev(v)], disabled \subseteq disabled'
      PROVE  (row[Ev(v)].owner = v \/ Ev(v) \in disabled)'
  <2>1. Ev(v)' = Ev(v)
    BY <1>2 DEF Ev
  <2> QED BY <1>1, <1>2, <2>1
<1>3. ASSUME worker'[v] = worker[v], UNCHANGED <<row, disabled>>
      PROVE  (row[Ev(v)].owner = v \/ Ev(v) \in disabled)'
  BY <1>2, <1>3
<1>4. worker'[v] # Idle
  BY DEF Idle
<1>5. ASSUME NEW e \in Event, SlackDelivers(e)
      PROVE  (row[Ev(v)].owner = v \/ Ev(v) \in disabled)'
  BY <1>3, <1>5 DEF SlackDelivers, storeVars
<1>6. ASSUME NEW e \in Event, DedupExpires(e)
      PROVE  (row[Ev(v)].owner = v \/ Ev(v) \in disabled)'
  BY <1>3, <1>6 DEF DedupExpires, storeVars, userVars
<1>7. ASSUME NEW c \in Conversation, MoveToDlq(c)
      PROVE  (row[Ev(v)].owner = v \/ Ev(v) \in disabled)'
  BY <1>3, <1>7 DEF MoveToDlq, storeVars, userVars
<1>8. ASSUME NEW w \in Worker, NEW c \in Conversation, Receive(w, c)
      PROVE  (row[Ev(v)].owner = v \/ Ev(v) \in disabled)'
  <2>1. UNCHANGED <<row, disabled>> /\ worker'[w].cause = "none"
    BY <1>0, <1>8, ReceiveFrame DEF storeVars, userVars
  <2>2. \A u \in Worker \ {w} : worker'[u] = worker[u]
    BY <1>0, <1>8, ReceiveFrame
  <2> QED BY <1>3, <2>1, <2>2
<1>9. ASSUME NEW w \in Worker, Moves(w)
      PROVE  (row[Ev(v)].owner = v \/ Ev(v) \in disabled)'
  <2>1. Live(w) /\ \A u \in Worker \ {w} : worker'[u] = worker[u]
    BY <1>9, MovesWorker
  <2>2. CASE v # w
    <3>1. worker'[v] = worker[v] /\ Live(v)
      BY <1>1, <2>1, <2>2
    <3>2. Ev(v) \in Event \ {Ev(w)}
      BY <2>1, <2>2, <3>1, OthersEvent
    <3> QED BY <1>2, <1>9, <3>1, <3>2, MovesStores
  <2>3. CASE v = w
    <3> DEFINE e == Ev(w)
    <3>1. e \in Event /\ Ev(w)' = e
      BY <1>9, <2>1, AttemptType, MovesWorker DEF Ev
    <3>2. worker[w].cause # "busy"
      BY <1>9 DEF IInv, IdleInv, Moves, Claim, Generate, StartQaLog, PostAnswer, MarkQaPosted,
         MarkPosted
    <3>3. \A p : ~Goto(w, p)
      BY <1>0, <2>3, <3>2 DEF Goto, TypeOK, Invocation
    <3>4. \A why : Throw(w, why) => why = "busy"
      BY <1>0, <2>3 DEF Throw, TypeOK, Invocation
    <3>5. ~StartQaLog(w)
      BY <1>0, <2>3, <3>2 DEF StartQaLog, TypeOK, Invocation
    <3>6. Claim(w) /\ worker[w].pc = "received"
      BY <1>9, <3>3, <3>4, <3>5
         DEF Moves, Claim, Generate, PostAnswer, MarkQaPosted, MarkPosted
    <3>7. CASE TakeLease(w)
      <4>1. row'[e].owner = w
        BY <1>0, <3>1, <3>7 DEF TakeLease, TypeOK
      <4> QED BY <2>3, <3>1, <4>1
    <3>8. CASE row[e].state = "processing" /\ ~LeaseFree(e)
      <4>1. leaseLeft[e] \in -1..Lease
        BY <1>0, <3>1 DEF TypeOK
      <4>2. Leased(e)
        BY <3>8, <4>1 DEF LeaseFree, Leased
      <4>3. e \in disabled
        BY <3>6, <4>2 DEF IInv, RowInv, OwnRow
      <4>4. e \in disabled'
        BY <1>9, <4>3, MovesStores
      <4> QED BY <2>3, <3>1, <4>4
    <3> QED BY <3>3, <3>4, <3>6, <3>7, <3>8 DEF Claim
  <2> QED BY <2>2, <2>3
<1>10. ASSUME NEW w \in Worker, Ends(w)
       PROVE  (row[Ev(v)].owner = v \/ Ev(v) \in disabled)'
  BY <1>3, <1>4, <1>10, EndsFrame DEF storeVars
<1>11. ASSUME NEW w \in Worker, Return(w)
       PROVE  (row[Ev(v)].owner = v \/ Ev(v) \in disabled)'
  BY <1>3, <1>4, <1>11, ReturnFrame DEF storeVars, userVars
<1>12. CASE Tick
  <2>1. UNCHANGED <<row, disabled>>
    BY <1>12 DEF Tick, userVars
  <2>2. worker'[v].cause = worker[v].cause /\ worker'[v].ev = worker[v].ev
    BY <1>0, <1>12 DEF Tick, TypeOK, Invocation
  <2> QED BY <1>2, <2>1, <2>2
<1>13. CASE UNCHANGED vars
  BY <1>3, <1>13 DEF vars, storeVars, userVars
<1> QED BY <1>5, <1>6, <1>7, <1>8, <1>9, <1>10, <1>11, <1>12, <1>13, StepKinds

-----------------------------------------------------------------------------
(* The answers *)

\* The copy an invocation works on is in one place: at the head of its conversation.
LEMMA OwnMessage ==
  ASSUME IInv, NEW w \in Worker, Live(w), NEW c \in Conversation, NEW i \in 1..Len(queue[c]),
         queue[c][i].ev = Ev(w), queue[c][i].copy = worker[w].copy
  PROVE  queue[c][i].rc = worker[w].rc
<1>1. c = Conv(w)
  BY DEF IInv, QueueInv, Orderly, Conv
<1>2. /\ queue[c] # <<>>
      /\ queue[c][1] = [ev |-> Ev(w), copy |-> worker[w].copy, rc |-> worker[w].rc]
  BY <1>1 DEF IInv, HeadInv, AtHead
<1>3. 1 \in 1..Len(queue[c])
  BY <1>2, HeadOfQueue DEF IInv
<1>4. queue[c][1].ev = queue[c][i].ev /\ queue[c][1].copy = queue[c][i].copy
  BY <1>2
<1>5. i = 1
  BY <1>3, <1>4 DEF IInv, QueueInv, Orderly
<1> QED BY <1>2, <1>5

\* Only a post adds an answer, and only a message that is there is numbered.
LEMMA AnswersGrow ==
  ASSUME IInv, [Next]_vars
  PROVE  /\ \/ UNCHANGED answers
            \/ \E w \in Worker : PostAnswer(w) /\ answers' =
                 [answers EXCEPT ![Ev(w)] = @ \cup {AttemptOf(w)}]
         /\ \A e \in Event : answers[e] \subseteq answers'[e] /\ enqueued[e] \subseteq enqueued'[e]
<1>0. TypeOK
  BY DEF IInv
<1>1. \/ UNCHANGED answers
      \/ \E w \in Worker : PostAnswer(w) /\ answers' =
           [answers EXCEPT ![Ev(w)] = @ \cup {AttemptOf(w)}]
  <2>1. ASSUME NEW w \in Worker, WorkerStep(w) \/ Crash(w)
        PROVE  \/ UNCHANGED answers
               \/ PostAnswer(w) /\ answers' = [answers EXCEPT ![Ev(w)] = @ \cup {AttemptOf(w)}]
    BY <2>1 DEF WorkerStep, Claim, Generate, StartQaLog, PostAnswer, MarkQaPosted, MarkPosted,
       Rethrow, Return, Crash, userVars
  <2> QED BY <2>1 DEF Next, SlackDelivers, DedupExpires, MoveToDlq, Receive, Tick, vars, userVars
<1>2. \A e \in Event : answers[e] \subseteq answers'[e]
  BY <1>0, <1>1 DEF TypeOK
<1>3. \A e \in Event : enqueued[e] \subseteq enqueued'[e]
  <2>1. ASSUME NEW e \in Event, SlackDelivers(e)
        PROVE  \A x \in Event : enqueued[x] \subseteq enqueued'[x]
    BY <2>1, DeliveryEffect
  <2>2. UNCHANGED enqueued \/ \E e \in Event : SlackDelivers(e)
    BY DEF Next, WorkerStep, DedupExpires, MoveToDlq, Receive, Claim, Generate, StartQaLog,
       PostAnswer, MarkQaPosted, MarkPosted, Rethrow, Return, Crash, Tick, vars, userVars
  <2> QED BY <2>1, <2>2
<1> QED BY <1>1, <1>2, <1>3

\* The messages of a queue after a step, seen from before it.
LEMMA QueueOrigin ==
  ASSUME IInv, [Next]_vars, NEW c \in Conversation, NEW i \in 1..Len(queue'[c])
  PROVE  \/ \E j \in 1..Len(queue[c]) :
              /\ queue[c][j] \in Message
              /\ queue'[c][i].ev = queue[c][j].ev /\ queue'[c][i].copy = queue[c][j].copy
              /\ queue'[c][i].rc >= queue[c][j].rc
         \/ \E e \in Event :
              /\ queue'[c][i].ev = e /\ queue'[c][i].copy \in Copy \ enqueued[e]
<1>0. TypeOK /\ queue[c] \in Seq(Message)
  BY DEF IInv, TypeOK
<1>1. \A j \in 1..Len(queue[c]) : queue[c][j] \in Message
  BY <1>0, ElementOfSeq
<1>2. \A j \in 1..Len(queue[c]) : queue[c][j].rc \in Nat
  BY <1>1 DEF Message
<1>3. CASE queue'[c] = queue[c]
  BY <1>1, <1>2, <1>3
<1>4. ASSUME NEW d \in Conversation, queue[d] # <<>>, queue' = [queue EXCEPT ![d] = Tail(@)]
      PROVE  \E j \in 1..Len(queue[c]) : queue'[c][i] = queue[c][j]
  BY <1>0, <1>4, DropEffect
<1>5. ASSUME NEW j \in 1..Len(queue[c]), queue'[c][i] = queue[c][j]
      PROVE  /\ queue[c][j] \in Message
             /\ queue'[c][i].ev = queue[c][j].ev /\ queue'[c][i].copy = queue[c][j].copy
             /\ queue'[c][i].rc >= queue[c][j].rc
  BY <1>1, <1>2, <1>5
<1>6. ASSUME NEW e \in Event, SlackDelivers(e)
      PROVE  \/ \E j \in 1..Len(queue[c]) : queue'[c][i] = queue[c][j]
             \/ queue'[c][i].ev = e /\ queue'[c][i].copy \in Copy \ enqueued[e]
  <2>1. sent[e] + 1 \in Copy
    BY <1>0, <1>6, Numbers, SMTT(30) DEF SlackDelivers, TypeOK, Copy
  <2>2. CASE i \in 1..Len(queue[c])
    BY <1>6, <2>2, DeliveryEffect
  <2>3. CASE i \notin 1..Len(queue[c])
    <3>1. queue'[c][i] = [ev |-> e, copy |-> sent[e] + 1, rc |-> 0] /\ sent[e] + 1 \notin enqueued[e]
      BY <1>6, <2>3, DeliveryEffect
    <3> QED BY <2>1, <3>1
  <2> QED BY <2>2, <2>3
<1>7. ASSUME NEW d \in Conversation, MoveToDlq(d)
      PROVE  \E j \in 1..Len(queue[c]) : queue'[c][i] = queue[c][j]
  BY <1>4, <1>7 DEF MoveToDlq, Exhausted
<1>8. ASSUME NEW w \in Worker, NEW d \in Conversation, Receive(w, d), d = c
      PROVE  \E j \in 1..Len(queue[c]) :
              /\ queue[c][j] \in Message
              /\ queue'[c][i].ev = queue[c][j].ev /\ queue'[c][i].copy = queue[c][j].copy
              /\ queue'[c][i].rc >= queue[c][j].rc
  <2>1. i \in 1..Len(queue[c])
    BY <1>0, <1>8, ReceiveFrame
  <2>2. /\ queue'[c][i].ev = queue[c][i].ev /\ queue'[c][i].copy = queue[c][i].copy
        /\ queue'[c][i].rc = queue[c][i].rc + (IF i = 1 THEN 1 ELSE 0)
    BY <1>0, <1>8, <2>1, ReceiveFrame
  <2>3. queue'[c][i].rc >= queue[c][i].rc
    BY <1>2, <2>1, <2>2
  <2> QED BY <1>1, <2>1, <2>2, <2>3
<1>9. ASSUME NEW w \in Worker, NEW d \in Conversation, Receive(w, d), d # c
      PROVE  queue'[c] = queue[c]
  BY <1>0, <1>9, ReceiveFrame
<1>10. ASSUME NEW w \in Worker, Return(w)
       PROVE  queue'[c] = queue[c] \/ \E j \in 1..Len(queue[c]) : queue'[c][i] = queue[c][j]
  <2>1. Conv(w) \in Conversation /\ queue[Conv(w)] # <<>>
    BY <1>10, ReturnFrame
  <2>2. UNCHANGED <<queue, hidden, receiver>> \/ queue' = [queue EXCEPT ![Conv(w)] = Tail(@)]
    BY <1>10, ReturnFrame
  <2> QED BY <1>4, <2>1, <2>2
<1>11. ASSUME NEW w \in Worker, Moves(w) \/ Ends(w) PROVE queue'[c] = queue[c]
  BY <1>11, MovesStores, EndsFrame DEF queueVars
<1>12. ASSUME (\E e \in Event : DedupExpires(e)) \/ Tick \/ UNCHANGED vars PROVE queue'[c] = queue[c]
  BY <1>12 DEF DedupExpires, Tick, vars, queueVars
<1> QED BY <1>3, <1>5, <1>6, <1>7, <1>8, <1>9, <1>10, <1>11, <1>12, StepKinds

\* Where the record of an invocation comes from.
LEMMA InvocationOrigin ==
  ASSUME IInv, [Next]_vars, NEW v \in Worker, Live(v)'
  PROVE  \/ /\ Live(v) /\ Moves(v) /\ Ev(v)' = Ev(v) /\ AttemptOf(v)' = AttemptOf(v)
            /\ worker'[v].copy = worker[v].copy
         \/ /\ Live(v) /\ worker'[v].pc = worker[v].pc /\ Ev(v)' = Ev(v)
            /\ worker'[v].session = worker[v].session
            /\ worker'[v].copy = worker[v].copy /\ AttemptOf(v)' = AttemptOf(v)
            /\ \A w \in Worker : Moves(w) => w # v
         \/ \E c \in Conversation : Receive(v, c)
<1>0. TypeOK
  BY DEF IInv
<1>1. ASSUME worker'[v] = worker[v], \A w \in Worker : Moves(w) => w # v
      PROVE  /\ Live(v) /\ worker'[v].pc = worker[v].pc /\ Ev(v)' = Ev(v)
             /\ worker'[v].session = worker[v].session
             /\ worker'[v].copy = worker[v].copy /\ AttemptOf(v)' = AttemptOf(v)
             /\ \A w \in Worker : Moves(w) => w # v
  BY <1>1 DEF Live, Ev, AttemptOf
<1>2. worker'[v] # Idle
  BY DEF Live, Idle
<1>3. CASE Moves(v)
  <2>1. /\ Live(v) /\ worker'[v].ev = worker[v].ev /\ worker'[v].copy = worker[v].copy
        /\ worker'[v].rc = worker[v].rc
    BY <1>3, MovesWorker
  <2> QED BY <1>3, <2>1 DEF Ev, AttemptOf
<1>4. CASE \A w \in Worker : Moves(w) => w # v
  <2>1. CASE \E w \in Worker : Moves(w)
    BY <1>1, <1>4, <2>1, MovesWorker
  <2>2. CASE \E w \in Worker : Ends(w)
    BY <1>1, <1>2, <1>4, <2>2, EndsFrame
  <2>3. CASE \E w \in Worker : Return(w)
    BY <1>1, <1>2, <1>4, <2>3, ReturnFrame
  <2>4. ASSUME NEW w \in Worker, NEW c \in Conversation, Receive(w, c), w # v
        PROVE  worker'[v] = worker[v]
    BY <1>0, <2>4, ReceiveFrame
  <2>5. CASE Tick
    <3>1. /\ worker'[v].pc = worker[v].pc /\ worker'[v].session = worker[v].session
          /\ worker'[v].ev = worker[v].ev /\ worker'[v].copy = worker[v].copy
          /\ worker'[v].rc = worker[v].rc
      BY <1>0, <2>5 DEF Tick, TypeOK, Invocation
    <3> QED BY <1>4, <3>1 DEF Live, Ev, AttemptOf
  <2>6. CASE \/ \E e \in Event : SlackDelivers(e) \/ DedupExpires(e)
             \/ \E c \in Conversation : MoveToDlq(c)
             \/ UNCHANGED vars
    <3>1. worker' = worker
      BY <2>6 DEF SlackDelivers, DedupExpires, MoveToDlq, vars
    <3> QED BY <1>1, <1>4, <3>1
  <2> QED BY <1>1, <1>4, <2>1, <2>2, <2>3, <2>4, <2>5, <2>6, StepKinds
<1> QED BY <1>3, <1>4

LEMMA AnswerStep == IInv /\ [Next]_vars => AnswerInv'
<1> SUFFICES ASSUME IInv, [Next]_vars PROVE AnswerInv'
  OBVIOUS
<1>0. TypeOK /\ AnswerInv /\ TypeOK'
  BY TypeStep DEF IInv
<1>g. /\ \/ UNCHANGED answers
         \/ \E w \in Worker : PostAnswer(w) /\ answers' =
              [answers EXCEPT ![Ev(w)] = @ \cup {AttemptOf(w)}]
      /\ \A e \in Event : answers[e] \subseteq answers'[e] /\ enqueued[e] \subseteq enqueued'[e]
  BY AnswersGrow
\* What a new answer is.
<1>n. ASSUME NEW e \in Event, NEW a \in answers'[e], a \notin answers[e]
      PROVE  \E w \in Worker : /\ PostAnswer(w) /\ Live(w) /\ e = Ev(w) /\ a = AttemptOf(w)
                               /\ worker[w].copy \in enqueued[e]
  <2>1. PICK w \in Worker : /\ PostAnswer(w)
                            /\ answers' = [answers EXCEPT ![Ev(w)] = @ \cup {AttemptOf(w)}]
    BY <1>g, <1>n
  <2>2. e = Ev(w) /\ a = AttemptOf(w)
    BY <1>0, <1>n, <2>1 DEF TypeOK
  <2>3. Live(w)
    BY <2>1 DEF PostAnswer, Live
  <2> QED BY <2>1, <2>2, <2>3, AttemptType
<1>1. \A e \in Event : \A a \in answers'[e] : a.copy \in enqueued'[e]
  <2> SUFFICES ASSUME NEW e \in Event, NEW a \in answers'[e] PROVE a.copy \in enqueued'[e]
    OBVIOUS
  <2>1. CASE a \in answers[e]
    BY <1>0, <1>g, <2>1 DEF AnswerInv
  <2>2. CASE a \notin answers[e]
    BY <1>g, <1>n, <2>2 DEF AttemptOf
  <2> QED BY <2>1, <2>2
<1>2. AnswersOfQueue'
  <2> SUFFICES ASSUME NEW c \in Conversation, NEW i \in 1..Len(queue'[c]),
                      NEW a \in answers'[queue'[c][i].ev], a.copy = queue'[c][i].copy
               PROVE  a.rc <= queue'[c][i].rc
    BY DEF AnswersOfQueue
  <2> DEFINE m == queue'[c][i]
  <2>1. m \in Message
    <3>1. queue'[c] \in Seq(Message)
      BY <1>0 DEF TypeOK
    <3> QED BY <3>1, ElementOfSeq
  <2>2. m.ev \in Event /\ m.rc \in Nat
    BY <2>1 DEF Message
  <2>3. a \in Attempt
    BY <1>0, <2>2 DEF TypeOK
  <2>4. a.rc \in Nat
    BY <2>3 DEF Attempt
  <2> HIDE DEF m
  <2>5. CASE a \in answers[m.ev]
    <3>1. ASSUME NEW j \in 1..Len(queue[c]), queue[c][j] \in Message,
                 m.ev = queue[c][j].ev, m.copy = queue[c][j].copy, m.rc >= queue[c][j].rc
          PROVE  a.rc <= m.rc
      <4>1. a.rc <= queue[c][j].rc
        BY <1>0, <2>5, <3>1 DEF AnswerInv, AnswersOfQueue, m
      <4>2. queue[c][j].rc \in Nat
        BY <3>1 DEF Message
      <4> QED BY <2>2, <2>4, <3>1, <4>1, <4>2
    <3>2. ASSUME NEW e \in Event, m.ev = e, m.copy \in Copy \ enqueued[e]
          PROVE  FALSE
      BY <1>0, <2>5, <3>2 DEF AnswerInv, m
    <3> QED BY <3>1, <3>2, QueueOrigin DEF m
  <2>6. CASE a \notin answers[m.ev]
    <3>1. PICK w \in Worker : PostAnswer(w) /\ Live(w) /\ m.ev = Ev(w) /\ a = AttemptOf(w)
      BY <1>n, <2>2, <2>6 DEF m
    <3>2. queue' = queue
      BY <3>1 DEF PostAnswer, queueVars
    <3>3. m.copy = worker[w].copy /\ a.rc = worker[w].rc
      BY <3>1 DEF AttemptOf, m
    <3>4. m.rc = worker[w].rc
      BY <3>1, <3>2, <3>3, OwnMessage DEF m
    <3> QED BY <2>2, <3>3, <3>4 DEF m
  <2> QED BY <2>5, <2>6 DEF m
<1>3. ASSUME NEW v \in Worker
      PROVE  /\ worker'[v].pc \in {"received", "claimed", "generated", "logged"} =>
                  AttemptOf(v)' \notin answers'[Ev(v)']
             /\ worker'[v].pc \in {"answered", "recorded"} => AttemptOf(v)' \in answers'[Ev(v)']
  <2>1. CASE ~Live(v)'
    BY <2>1 DEF Live
  <2>2. ASSUME Live(v), Ev(v)' = Ev(v), AttemptOf(v)' = AttemptOf(v),
               worker'[v].pc = worker[v].pc, \A w \in Worker : Moves(w) => w # v
        PROVE  /\ worker'[v].pc \in {"received", "claimed", "generated", "logged"} =>
                    AttemptOf(v)' \notin answers'[Ev(v)']
               /\ worker'[v].pc \in {"answered", "recorded"} => AttemptOf(v)' \in answers'[Ev(v)']
    <3>1. Ev(v) \in Event
      BY <2>2, AttemptType
    <3>2. answers'[Ev(v)] = answers[Ev(v)]
      <4>1. ASSUME NEW w \in Worker, PostAnswer(w)
            PROVE  answers'[Ev(v)] = answers[Ev(v)]
        <5>1. Moves(w)
          BY <4>1 DEF Moves
        <5>2. Ev(v) # Ev(w)
          BY <2>2, <5>1, MovesWorker, OthersEvent
        <5> QED BY <3>1, <5>1, <5>2, MovesStores
      <4> QED BY <1>g, <4>1
    <3> QED BY <1>0, <2>2, <3>2 DEF AnswerInv
  <2>3. ASSUME NEW c \in Conversation, Receive(v, c)
        PROVE  worker'[v].pc = "received" /\ AttemptOf(v)' \notin answers'[Ev(v)']
    <3>1. /\ worker'[v].pc = "received" /\ worker'[v].ev = queue[c][1].ev
          /\ worker'[v].copy = queue[c][1].copy /\ worker'[v].rc = queue[c][1].rc + 1
          /\ queue[c] # <<>> /\ UNCHANGED answers
      BY <1>0, <2>3, ReceiveFrame DEF userVars
    <3>2. 1 \in 1..Len(queue[c]) /\ queue[c][1] \in Message
      BY <1>0, <3>1, HeadOfQueue
    <3>3. queue[c][1].rc \in Nat
      BY <3>2 DEF Message
    <3>4. AttemptOf(v)'.copy = queue[c][1].copy /\ AttemptOf(v)'.rc = queue[c][1].rc + 1
      BY <3>1 DEF AttemptOf
    <3>5. \A a \in answers[queue[c][1].ev] : a.copy = queue[c][1].copy => a.rc <= queue[c][1].rc
      BY <1>0, <3>2 DEF AnswerInv, AnswersOfQueue
    <3>6. AttemptOf(v)' \notin answers[queue[c][1].ev]
      BY <3>3, <3>4, <3>5
    <3> QED BY <3>1, <3>6 DEF Ev
  <2>4. ASSUME Live(v), Moves(v), Ev(v)' = Ev(v), AttemptOf(v)' = AttemptOf(v)
        PROVE  /\ worker'[v].pc \in {"received", "claimed", "generated", "logged"} =>
                    AttemptOf(v)' \notin answers'[Ev(v)']
               /\ worker'[v].pc \in {"answered", "recorded"} => AttemptOf(v)' \in answers'[Ev(v)']
    <3>1. worker[v] \in Invocation /\ Ev(v) \in Event
      BY <1>0, <2>4, AttemptType DEF TypeOK
    <3>2. \A p : Goto(v, p) => worker'[v].pc = p
      BY <1>0, <3>1 DEF Goto, TypeOK, Invocation
    <3>3. \A why : Throw(v, why) => worker'[v].pc = "failed"
      BY <1>0, <3>1 DEF Throw, TypeOK, Invocation
    <3>4. CASE worker'[v].pc \in {"failed", "returning"}
      BY <3>4
    <3>5. CASE worker'[v].pc \in {"claimed", "generated", "logged"} /\ UNCHANGED answers
               /\ worker[v].pc \in {"received", "claimed", "generated"}
      BY <1>0, <2>4, <3>5 DEF AnswerInv
    <3>6. CASE Claim(v)
      BY <3>2, <3>3, <3>4, <3>5, <3>6 DEF Claim, OnBusy, userVars
    <3>7. CASE Generate(v)
      BY <3>2, <3>3, <3>4, <3>5, <3>7 DEF Generate
    <3>8. CASE StartQaLog(v)
      <4>1. worker'[v].pc = "logged"
        BY <1>0, <3>1, <3>8 DEF StartQaLog, TypeOK, Invocation
      <4> QED BY <3>5, <3>8, <4>1 DEF StartQaLog, userVars
    <3>9. CASE PostAnswer(v)
      <4>1. CASE Goto(v, "answered") /\ answers' = [answers EXCEPT ![Ev(v)] = @ \cup {AttemptOf(v)}]
        <5>1. AttemptOf(v) \in answers'[Ev(v)]
          BY <1>0, <3>1, <4>1 DEF TypeOK
        <5> QED BY <2>4, <3>2, <4>1, <5>1
      <4> QED BY <3>3, <3>4, <3>9, <4>1 DEF PostAnswer
    <3>10. CASE MarkQaPosted(v)
      <4>1. worker'[v].pc = "recorded" /\ UNCHANGED answers /\ worker[v].pc = "answered"
        BY <3>2, <3>10 DEF MarkQaPosted, userVars
      <4> QED BY <1>0, <2>4, <4>1 DEF AnswerInv
    <3>11. CASE MarkPosted(v)
      BY <3>2, <3>3, <3>4, <3>11 DEF MarkPosted
    <3> QED BY <2>4, <3>6, <3>7, <3>8, <3>9, <3>10, <3>11 DEF Moves
  <2> QED BY <2>1, <2>2, <2>3, <2>4, InvocationOrigin
<1> QED BY <1>1, <1>2, <1>3 DEF AnswerInv

-----------------------------------------------------------------------------
(* The audit log *)

\* The two writes of the log row, each for the event of its invocation.
LEMMA LogWrites ==
  ASSUME IInv, [Next]_vars
  PROVE  \/ UNCHANGED qaLog
         \/ \E w \in Worker : /\ StartQaLog(w)
                              /\ qaLog' = [qaLog EXCEPT ![Ev(w)] = GeneratedLog(w)]
         \/ \E w \in Worker : /\ MarkQaPosted(w)
                              /\ worker[w].session = "saved" /\ QaLogGenerated(Ev(w))
                              /\ qaLog' = [qaLog EXCEPT ![Ev(w)].status = "posted"]
<1>1. ASSUME NEW w \in Worker, WorkerStep(w) \/ Crash(w)
      PROVE  \/ UNCHANGED qaLog
             \/ StartQaLog(w) /\ qaLog' = [qaLog EXCEPT ![Ev(w)] = GeneratedLog(w)]
             \/ /\ MarkQaPosted(w) /\ worker[w].session = "saved" /\ QaLogGenerated(Ev(w))
                /\ qaLog' = [qaLog EXCEPT ![Ev(w)].status = "posted"]
  BY <1>1 DEF WorkerStep, Claim, Generate, StartQaLog, PostAnswer, MarkQaPosted, MarkPosted,
     Rethrow, Return, Crash, storeVars
<1> QED BY <1>1 DEF Next, SlackDelivers, DedupExpires, MoveToDlq, Receive, Tick, vars, storeVars

LEMMA LogTruthStep == IInv /\ [Next]_vars => QaLogTellsTheTruth'
<1> SUFFICES ASSUME IInv, [Next]_vars, NEW e \in Event, qaLog'[e].status = "posted"
             PROVE  qaLog'[e].answer \in answers'[e]
  BY DEF QaLogTellsTheTruth
<1>0. qaLog \in [Event -> LogRow] /\ qaLog[e] \in LogRow
  BY DEF IInv, TypeOK
<1>1. answers[e] \subseteq answers'[e]
  BY AnswersGrow
<1>2. CASE qaLog'[e] = qaLog[e]
  BY <1>1, <1>2 DEF IInv, QaLogTellsTheTruth
<1>3. ASSUME NEW w \in Worker, StartQaLog(w), qaLog' = [qaLog EXCEPT ![Ev(w)] = GeneratedLog(w)]
      PROVE  qaLog'[e] = qaLog[e]
  BY <1>0, <1>3 DEF GeneratedLog
<1>4. ASSUME NEW w \in Worker, MarkQaPosted(w), worker[w].session = "saved", QaLogGenerated(Ev(w)),
             qaLog' = [qaLog EXCEPT ![Ev(w)].status = "posted"], e = Ev(w)
      PROVE  qaLog'[e].answer \in answers'[e]
  <2>1. worker[w].pc = "answered"
    BY <1>4 DEF MarkQaPosted
  <2>2. qaLog[e].answer = AttemptOf(w) /\ AttemptOf(w) \in answers[e]
    BY <1>4, <2>1 DEF IInv, LogInv, AnswerInv
  <2>3. qaLog'[e].answer = qaLog[e].answer
    BY <1>0, <1>4 DEF LogRow
  <2> QED BY <1>1, <2>2, <2>3
<1>5. ASSUME NEW w \in Worker, qaLog' = [qaLog EXCEPT ![Ev(w)].status = "posted"], e # Ev(w)
      PROVE  qaLog'[e] = qaLog[e]
  BY <1>0, <1>5
<1> QED BY <1>2, <1>3, <1>4, <1>5, LogWrites

LEMMA LogStep == IInv /\ [Next]_vars => LogInv'
<1> SUFFICES ASSUME IInv, [Next]_vars, NEW v \in Worker,
                    worker'[v].pc \in {"logged", "answered"}, worker'[v].session = "saved",
                    qaLog'[Ev(v)'].status = "generated"
             PROVE  qaLog'[Ev(v)'].answer = AttemptOf(v)'
  BY DEF LogInv, QaLogGenerated
<1>0. TypeOK
  BY DEF IInv
<1>1. Live(v)'
  BY DEF Live
\* Nobody else writes the row of a live invocation.
<1>2. ASSUME Live(v), \A w \in Worker : StartQaLog(w) \/ MarkQaPosted(w) => w # v
      PROVE  qaLog'[Ev(v)] = qaLog[Ev(v)]
  <2>1. Ev(v) \in Event
    BY <1>2, AttemptType
  <2>2. ASSUME NEW w \in Worker, StartQaLog(w) \/ MarkQaPosted(w)
        PROVE  qaLog'[Ev(v)] = qaLog[Ev(v)]
    <3>1. Moves(w)
      BY <2>2 DEF Moves
    <3>2. Ev(v) # Ev(w)
      BY <1>2, <2>2, <3>1, MovesWorker, OthersEvent
    <3> QED BY <2>1, <3>1, <3>2, MovesStores
  <2> QED BY <2>2, LogWrites
<1>3. ASSUME Live(v), worker'[v].pc = worker[v].pc, Ev(v)' = Ev(v),
             worker'[v].session = worker[v].session, AttemptOf(v)' = AttemptOf(v),
             \A w \in Worker : Moves(w) => w # v
      PROVE  qaLog'[Ev(v)'].answer = AttemptOf(v)'
  <2>1. qaLog'[Ev(v)] = qaLog[Ev(v)]
    BY <1>2, <1>3 DEF Moves
  <2> QED BY <1>3, <2>1 DEF IInv, LogInv, QaLogGenerated
<1>4. ASSUME NEW c \in Conversation, Receive(v, c) PROVE FALSE
  <2>1. worker'[v].pc = "received"
    BY <1>0, <1>4, ReceiveFrame
  <2> QED BY <2>1
<1>5. ASSUME Live(v), Moves(v), Ev(v)' = Ev(v), AttemptOf(v)' = AttemptOf(v)
      PROVE  qaLog'[Ev(v)'].answer = AttemptOf(v)'
  <2>1. worker[v] \in Invocation /\ Ev(v) \in Event /\ qaLog \in [Event -> LogRow]
    BY <1>0, <1>5, AttemptType DEF TypeOK
  <2>2. \A p : Goto(v, p) => worker'[v].pc = p /\ worker'[v].session = worker[v].session
    BY <1>0, <2>1 DEF Goto, TypeOK, Invocation
  <2>3. \A why : Throw(v, why) => worker'[v].pc = "failed"
    BY <1>0, <2>1 DEF Throw, TypeOK, Invocation
  <2>4. StartQaLog(v) \/ PostAnswer(v)
    BY <1>5, <2>2, <2>3 DEF Moves, Claim, OnBusy, Generate, MarkQaPosted, MarkPosted
  <2>5. CASE StartQaLog(v)
    <3>1. PICK s \in {"saved", "skipped", "none"} :
            /\ worker' = [worker EXCEPT ![v].pc = "logged", ![v].session = s]
            /\ s = "saved" => qaLog' = [qaLog EXCEPT ![Ev(v)] = GeneratedLog(v)]
      BY <2>5 DEF StartQaLog
    <3>2. s = "saved"
      BY <1>0, <2>1, <3>1 DEF TypeOK, Invocation
    <3>3. qaLog'[Ev(v)] = GeneratedLog(v)
      BY <2>1, <3>1, <3>2
    <3> QED BY <1>5, <3>3 DEF GeneratedLog
  <2>6. CASE PostAnswer(v)
    <3>1. worker[v].pc = "logged" /\ UNCHANGED qaLog
      BY <2>6 DEF PostAnswer, storeVars
    <3>2. worker[v].session = "saved"
      BY <2>2, <2>3, <2>6 DEF PostAnswer
    <3> QED BY <1>5, <3>1, <3>2 DEF IInv, LogInv, QaLogGenerated
  <2> QED BY <2>4, <2>5, <2>6
<1> QED BY <1>1, <1>3, <1>4, <1>5, InvocationOrigin

-----------------------------------------------------------------------------
(* The notices *)

\* A text goes to the copy of an invocation that ends on its last receive.
LEMMA NoticeGrows ==
  ASSUME IInv, [Next]_vars, NEW e \in Event, NEW n \in Copy, notices'[e][n] # notices[e][n]
  PROVE  \E w \in Worker :
           /\ Rethrow(w) /\ MayNotify(w) /\ Live(w) /\ Ev(w) = e /\ worker[w].copy = n
           /\ notices' = [notices EXCEPT ![e][n] = @ + 1]
           /\ notices'[e][n] = notices[e][n] + 1
<1>1. ASSUME NEW w \in Worker, WorkerStep(w) \/ Crash(w)
      PROVE  \/ UNCHANGED notices
             \/ /\ Rethrow(w) /\ MayNotify(w)
                /\ notices' = [notices EXCEPT ![Ev(w)][worker[w].copy] = @ + 1]
  BY <1>1 DEF WorkerStep, Claim, Generate, StartQaLog, PostAnswer, MarkQaPosted, MarkPosted,
     Rethrow, Return, Crash, userVars
<1>2. PICK w \in Worker : /\ Rethrow(w) /\ MayNotify(w)
                          /\ notices' = [notices EXCEPT ![Ev(w)][worker[w].copy] = @ + 1]
  BY <1>1 DEF Next, SlackDelivers, DedupExpires, MoveToDlq, Receive, Tick, vars, userVars
<1>3. notices \in [Event -> [Copy -> Nat]]
  BY DEF IInv, TypeOK
<1>4. Ev(w) = e /\ worker[w].copy = n
  BY <1>2, <1>3
<1>5. notices'[e][n] = notices[e][n] + 1
  BY <1>2, <1>3, <1>4
<1>6. Live(w)
  BY <1>2 DEF Rethrow, Live
<1> QED BY <1>2, <1>4, <1>5, <1>6

LEMMA OneNoticeStep == IInv /\ [Next]_vars => OneNoticePerCopy'
<1> SUFFICES ASSUME IInv, [Next]_vars, NEW e \in Event, NEW n \in Copy
             PROVE  notices'[e][n] <= 1
  BY DEF OneNoticePerCopy
<1>1. CASE notices'[e][n] = notices[e][n]
  BY <1>1 DEF IInv, OneNoticePerCopy
<1>2. CASE notices'[e][n] # notices[e][n]
  <2>1. notices'[e][n] = notices[e][n] + 1 /\ notices[e][n] = 0
    BY <1>2, NoticeGrows DEF IInv, NoticeInv
  <2> QED BY <2>1
<1> QED BY <1>1, <1>2

LEMMA NoticeStep == IInv /\ [Next]_vars => NoticeInv'
<1> SUFFICES ASSUME IInv, [Next]_vars PROVE NoticeInv'
  OBVIOUS
<1>0. TypeOK /\ NoticeInv /\ TypeOK'
  BY TypeStep DEF IInv
\* A copy of which the user is told was enqueued, belongs to the invocation that ends,
\* and has no receive left.
<1>1. ASSUME NEW e \in Event, NEW n \in Copy, notices[e][n] = 0, notices'[e][n] # 0
      PROVE  \E w \in Worker :
               /\ Rethrow(w) /\ Live(w) /\ Ev(w) = e /\ worker[w].copy = n
               /\ n \in enqueued[e] /\ worker[w].rc >= MaxReceiveCount
  BY <1>1, NoticeGrows, AttemptType DEF MayNotify
<1>2. \A e \in Event : \A n \in Copy \ enqueued'[e] : notices'[e][n] = 0
  BY <1>0, <1>1, AnswersGrow DEF NoticeInv
<1>3. ASSUME NEW v \in Worker, Live(v)'
      PROVE  notices'[Ev(v)'][worker'[v].copy] = 0
  <2>1. CASE Live(v) /\ Ev(v)' = Ev(v) /\ worker'[v].copy = worker[v].copy
    <3>1. Ev(v) \in Event /\ worker[v].copy \in Copy /\ notices[Ev(v)][worker[v].copy] = 0
      BY <1>0, <2>1, AttemptType DEF NoticeInv
    <3>2. ASSUME notices'[Ev(v)][worker[v].copy] # 0 PROVE FALSE
      <4>1. PICK w \in Worker : Rethrow(w) /\ Live(w) /\ Ev(w) = Ev(v)
        BY <1>1, <3>1, <3>2
      <4>2. w = v
        BY <2>1, <4>1, Alone DEF Conv
      <4>3. ~Live(v)'
        BY <4>1, <4>2, EndsFrame DEF Ends, Live, Idle
      <4> QED BY <1>3, <4>3
    <3> QED BY <2>1, <3>2
  <2>2. ASSUME NEW c \in Conversation, Receive(v, c)
        PROVE  notices'[Ev(v)'][worker'[v].copy] = 0
    <3>1. /\ worker'[v].ev = queue[c][1].ev /\ worker'[v].copy = queue[c][1].copy
          /\ queue[c] # <<>> /\ UNCHANGED notices /\ queue[c][1].rc < MaxReceiveCount
      BY <1>0, <2>2, ReceiveFrame DEF userVars
    <3>2. 1 \in 1..Len(queue[c])
      BY <1>0, <3>1, HeadOfQueue
    <3> QED BY <1>0, <3>1, <3>2 DEF NoticeInv, NoticesOfQueue, Ev
  <2> QED BY <1>3, <2>1, <2>2, InvocationOrigin
<1>4. NoticesOfQueue'
  <2> SUFFICES ASSUME NEW c \in Conversation, NEW i \in 1..Len(queue'[c]),
                      queue'[c][i].rc < MaxReceiveCount
               PROVE  notices'[queue'[c][i].ev][queue'[c][i].copy] = 0
    BY DEF NoticesOfQueue
  <2> DEFINE m == queue'[c][i]
  <2>1. m \in Message
    <3>1. queue'[c] \in Seq(Message)
      BY <1>0 DEF TypeOK
    <3> QED BY <3>1, ElementOfSeq
  <2>2. m.ev \in Event /\ m.copy \in Copy /\ m.rc \in Nat
    BY <2>1 DEF Message
  <2> HIDE DEF m
  <2>3. notices[m.ev][m.copy] = 0
    <3>1. ASSUME NEW j \in 1..Len(queue[c]), queue[c][j] \in Message,
                 m.ev = queue[c][j].ev, m.copy = queue[c][j].copy, m.rc >= queue[c][j].rc
          PROVE  notices[m.ev][m.copy] = 0
      <4>1. queue[c][j].rc \in Nat
        BY <3>1 DEF Message
      <4>2. queue[c][j].rc < MaxReceiveCount
        BY <2>2, <3>1, <4>1, Numbers DEF m
      <4> QED BY <1>0, <3>1, <4>2 DEF NoticeInv, NoticesOfQueue
    <3>2. ASSUME NEW e \in Event, m.ev = e, m.copy \in Copy \ enqueued[e]
          PROVE  notices[m.ev][m.copy] = 0
      BY <1>0, <3>2 DEF NoticeInv
    <3> QED BY <3>1, <3>2, QueueOrigin DEF m
  <2>4. ASSUME notices'[m.ev][m.copy] # 0 PROVE FALSE
    <3>1. PICK w \in Worker : /\ Rethrow(w) /\ Live(w) /\ Ev(w) = m.ev
                              /\ worker[w].copy = m.copy /\ worker[w].rc >= MaxReceiveCount
      BY <1>1, <2>2, <2>3, <2>4
    <3>2. queue' = queue
      BY <3>1 DEF Rethrow, queueVars
    <3>3. m.rc = worker[w].rc
      BY <3>1, <3>2, OwnMessage DEF m
    <3> QED BY <2>2, <3>1, <3>3, Numbers DEF m
  <2> QED BY <2>4 DEF m
<1> QED BY <1>2, <1>3, <1>4 DEF NoticeInv

-----------------------------------------------------------------------------
(* The theorems *)

LEMMA IInvStep == IInv /\ [Next]_vars => IInv'
BY TypeStep, IdleStep, HeadStep, QueueStep, LeaseStep, RowStep, BusyStep, AnswerStep,
   LogTruthStep, LogStep, NoticeStep, OneNoticeStep DEF IInv

\* The inductive invariant: types, and what ties the queue, its receipts and timers, the
\* rows and the history of an event to the invocation that works on it.
THEOREM Invariance == Spec => []IInv
BY InitIInv, IInvStep, PTL DEF Spec

\* Every variable keeps its type: no counter of receives or deliveries passes its limit,
\* no age the timeout of the function.
THEOREM TypeCorrect == Spec => []TypeOK
<1>1. IInv => TypeOK
  BY DEF IInv
<1> QED BY Invariance, <1>1, PTL

\* One conversation is answered by one invocation at a time, in queue order, and a
\* redelivery never meets the lease of the delivery before it: for every timeout, lease
\* and visibility with LambdaTimeout < Lease and LambdaTimeout + Lease < Visibility.
THEOREM NoOverlap == Spec => []DeliveriesDoNotOverlap
<1>1. IInv => DeliveriesDoNotOverlap
  <2> SUFFICES ASSUME IInv PROVE DeliveriesDoNotOverlap
    OBVIOUS
  <2>1. SerialConversation
    <3> SUFFICES ASSUME NEW c \in Conversation, NEW w \in Worker, Live(w), Conv(w) = c
                 PROVE  /\ InConversation(c) = {w}
                        /\ receiver[c] = w /\ hidden[c] > 0 /\ queue[c] # <<>>
                        /\ queue[c][1].ev = Ev(w)
      BY DEF SerialConversation, InConversation
    <3>1. InConversation(c) = {w}
      BY Alone DEF InConversation
    <3>2. AtHead(w)
      BY DEF IInv, HeadInv
    <3>3. hidden[c] > 0
      BY HiddenWhileLive, Numbers
    <3> QED BY <3>1, <3>2, <3>3 DEF AtHead
  <2>2. BusyIsExplained
    BY DEF IInv
  <2> QED BY <2>1, <2>2 DEF DeliveriesDoNotOverlap
<1> QED BY Invariance, <1>1, PTL

\* What the audit log shows as posted is an answer that is in Slack.
THEOREM LogIsTrue == Spec => []QaLogTellsTheTruth
<1>1. IInv => QaLogTellsTheTruth
  BY DEF IInv
<1> QED BY Invariance, <1>1, PTL

\* However often a copy of an event is received, the user is told at most once that it
\* has no answer.
THEOREM OneNotice == Spec => []OneNoticePerCopy
<1>1. IInv => OneNoticePerCopy
  BY DEF IInv
<1> QED BY Invariance, <1>1, PTL

\* A message leaves the queue only when its event was answered and recorded, went to the
\* dead-letter queue, or was acknowledged for a disabled agent.
THEOREM NothingDropped == Spec => NothingDroppedSilently
<1> DEFINE Justified(c) ==
      LET e == queue[c][1].ev
      IN row[e].state = "posted" \/ e \in dlq' \/ e \in disabled
           Kept == \A c \in Conversation :
                     queue[c] # <<>> /\ Len(queue'[c]) < Len(queue[c]) => Justified(c)
<1>1. IInv /\ [Next]_vars => Kept
  <2> SUFFICES ASSUME IInv, [Next]_vars, NEW c \in Conversation, queue[c] # <<>>,
                      Len(queue'[c]) < Len(queue[c])
               PROVE  Justified(c)
    OBVIOUS
  <2>0. TypeOK /\ TypeOK' /\ Len(queue[c]) \in Nat
    BY TypeStep, HeadOfQueue DEF IInv
  <2>1. queue'[c] # queue[c] /\ Len(queue'[c]) # Len(queue[c])
    BY <2>0
  <2>2. ASSUME NEW e \in Event, SlackDelivers(e) PROVE FALSE
    <3>1. CASE UNCHANGED queue
      BY <2>1, <3>1
    <3>2. CASE Enqueue(e) /\ c = ConversationOf[e]
      <4>1. Len(queue'[c]) = Len(queue[c]) + 1
        BY <2>0, <2>2, <3>2, EnqueueEffect DEF SlackDelivers
      <4> QED BY <2>0, <4>1
    <3>3. CASE Enqueue(e) /\ c # ConversationOf[e]
      BY <2>0, <2>1, <2>2, <3>3, EnqueueEffect DEF SlackDelivers
    <3> QED BY <2>2, <3>1, <3>2, <3>3 DEF SlackDelivers
  <2>3. ASSUME NEW d \in Conversation, MoveToDlq(d) PROVE Justified(c)
    <3>1. d = c
      BY <2>0, <2>1, <2>3 DEF MoveToDlq, TypeOK
    <3> QED BY <2>3, <3>1 DEF MoveToDlq
  <2>4. ASSUME NEW w \in Worker, NEW d \in Conversation, Receive(w, d) PROVE FALSE
    <3>1. CASE d = c
      BY <2>0, <2>1, <2>4, <3>1, ReceiveFrame
    <3>2. CASE d # c
      BY <2>0, <2>1, <2>4, <3>2, ReceiveFrame
    <3> QED BY <3>1, <3>2
  <2>5. ASSUME NEW w \in Worker, Return(w) PROVE Justified(c)
    <3>1. c = Conv(w) /\ queue[c][1].ev = Ev(w)
      BY <2>1, <2>5, ReturnFrame
    <3>2. row[Ev(w)].state = "posted" \/ Ev(w) \in disabled
      BY <2>5 DEF IInv, RowInv, OwnRow, Return
    <3> QED BY <3>1, <3>2
  <2>6. ASSUME NEW w \in Worker, Moves(w) \/ Ends(w) PROVE FALSE
    BY <2>1, <2>6, MovesStores, EndsFrame DEF queueVars
  <2>7. ASSUME (\E e \in Event : DedupExpires(e)) \/ Tick \/ UNCHANGED vars PROVE FALSE
    BY <2>1, <2>7 DEF DedupExpires, Tick, vars, queueVars
  <2> QED BY <2>2, <2>3, <2>4, <2>5, <2>6, <2>7, StepKinds
<1>2. IInv /\ [Next]_vars => [Kept]_vars
  BY <1>1
<1>3. Spec => [][Kept]_vars
  BY Invariance, <1>2, PTL DEF Spec
<1> QED BY <1>3 DEF NothingDroppedSilently

\* The pipeline implements the promise: a message makes an event accepted, a post shows
\* an answer, the owner's mark records it, a rethrow on the last receive tells of a
\* failure, and every other step changes nothing the promise is about.
THEOREM Implements == Spec => PromiseKept
<1>1. Init => Promise!Init
  BY DEF Init, Promise!Init
<1>2. IInv /\ [Next]_vars => [Promise!Next]_(Promise!promiseVars)
  <2> SUFFICES ASSUME IInv, [Next]_vars
               PROVE  Promise!Next \/ UNCHANGED Promise!promiseVars
    OBVIOUS
  <2>0. TypeOK
    BY DEF IInv
  <2> DEFINE accepted == {e \in Event : enqueued[e] # {}}
             recorded == {e \in Event : row[e].state = "posted"}
  <2>a. ASSUME UNCHANGED <<enqueued, answers, notices>>, recorded' = recorded
        PROVE  UNCHANGED Promise!promiseVars
    BY <2>a DEF Promise!promiseVars
  <2>1. ASSUME NEW e \in Event, SlackDelivers(e) PROVE Promise!Next \/ UNCHANGED Promise!promiseVars
    <3>1. UNCHANGED <<row, answers, notices>>
      BY <2>1 DEF SlackDelivers, storeVars
    <3>2. CASE UNCHANGED enqueued
      BY <2>a, <3>1, <3>2
    <3>3. CASE enqueued' = [enqueued EXCEPT ![e] = @ \cup {sent[e] + 1}]
      <4>1. \A x \in Event : enqueued'[x] # {} <=> enqueued[x] # {} \/ x = e
        BY <2>0, <3>3 DEF TypeOK
      <4>2. accepted' = accepted \cup {e}
        BY <4>1
      <4>3. Promise!Accept(e)
        BY <3>1, <4>2 DEF Promise!Accept
      <4> QED BY <4>3 DEF Promise!Next
    <3> QED BY <2>1, <3>2, <3>3 DEF SlackDelivers, Enqueue
  <2>2. ASSUME NEW w \in Worker, PostAnswer(w) PROVE Promise!Next \/ UNCHANGED Promise!promiseVars
    <3>1. UNCHANGED <<row, enqueued, notices>> /\ Live(w) /\ worker[w].pc = "logged"
      BY <2>2 DEF PostAnswer, storeVars, Live
    <3>2. /\ Ev(w) \in Event /\ AttemptOf(w) \in Attempt /\ enqueued[Ev(w)] # {}
          /\ AttemptOf(w) \notin answers[Ev(w)]
      BY <3>1, AttemptType DEF IInv, AnswerInv
    <3>3. row[Ev(w)].state # "posted"
      <4>1. row[Ev(w)] = [state |-> "processing", owner |-> w]
        BY <3>1 DEF IInv, RowInv, OwnRow
      <4> QED BY <4>1
    <3>4. CASE UNCHANGED answers
      BY <2>a, <3>1, <3>4
    <3>5. CASE answers' = [answers EXCEPT ![Ev(w)] = @ \cup {AttemptOf(w)}]
      <4>1. Promise!Show(Ev(w))
        BY <3>1, <3>2, <3>3, <3>5 DEF Promise!Show
      <4> QED BY <3>2, <4>1 DEF Promise!Next
    <3> QED BY <2>2, <3>4, <3>5 DEF PostAnswer
  <2>3. ASSUME NEW w \in Worker, Claim(w) PROVE UNCHANGED Promise!promiseVars
    <3>1. UNCHANGED <<enqueued, answers, notices>> /\ Live(w)
      BY <2>3 DEF Claim, userVars, Live
    <3>2. Ev(w) \in Event
      BY <3>1, AttemptType
    <3>3. row'[Ev(w)].state = "posted" <=> row[Ev(w)].state = "posted"
      <4>1. row[Ev(w)] \in Row
        BY <2>0, <3>2 DEF TypeOK
      <4>2. CASE LeaseFree(Ev(w)) /\ TakeLease(w)
        BY <2>0, <3>2, <4>2 DEF TakeLease, LeaseFree, TypeOK
      <4>3. CASE UNCHANGED row
        BY <4>3
      <4>4. CASE row' = [row EXCEPT ![Ev(w)].state = "received"] /\ row[Ev(w)].state = "absent"
        BY <2>0, <3>2, <4>1, <4>4 DEF TypeOK, Row
      <4> QED BY <2>3, <4>2, <4>3, <4>4 DEF Claim
    <3>4. \A e \in Event \ {Ev(w)} : row'[e] = row[e]
      BY <2>3, MovesStores DEF Moves
    <3>5. recorded' = recorded
      BY <3>2, <3>3, <3>4
    <3> QED BY <2>a, <3>1, <3>5
  <2>4. ASSUME NEW w \in Worker, MarkPosted(w) PROVE Promise!Next \/ UNCHANGED Promise!promiseVars
    <3>1. UNCHANGED <<enqueued, answers, notices>> /\ Live(w) /\ worker[w].pc = "recorded"
      BY <2>4 DEF MarkPosted, userVars, Live
    <3>2. Ev(w) \in Event /\ answers[Ev(w)] # {}
      BY <3>1, AttemptType DEF IInv, AnswerInv
    <3>3. CASE UNCHANGED row
      BY <2>a, <3>1, <3>3
    <3>4. CASE row' = [row EXCEPT ![Ev(w)] = [state |-> "posted", owner |-> NoWorker]]
      <4>1. PICK e \in Event : e = Ev(w)
        BY <3>2
      <4>2. recorded' = recorded \cup {e}
        BY <2>0, <3>4, <4>1 DEF TypeOK
      <4>3. Promise!Record(e)
        BY <3>1, <3>2, <4>1, <4>2 DEF Promise!Record
      <4> QED BY <4>3 DEF Promise!Next
    <3> QED BY <2>4, <3>3, <3>4 DEF MarkPosted
  <2>5. ASSUME NEW w \in Worker, Ends(w) PROVE Promise!Next \/ UNCHANGED Promise!promiseVars
    <3>1. UNCHANGED <<row, enqueued, answers>> /\ Live(w)
      BY <2>5, EndsFrame DEF storeVars
    <3>2. Ev(w) \in Event /\ worker[w].copy \in Copy /\ enqueued[Ev(w)] # {}
      BY <3>1, AttemptType
    <3>3. CASE UNCHANGED notices
      BY <2>a, <3>1, <3>3
    <3>4. CASE notices' = [notices EXCEPT ![Ev(w)][worker[w].copy] = @ + 1]
      <4> DEFINE n == worker[w].copy
      <4>1. notices[Ev(w)][n] = 0
        BY <3>1 DEF IInv, NoticeInv
      <4>2. notices' = [notices EXCEPT ![Ev(w)][n] = 1]
        BY <3>4, <4>1
      <4>3. Promise!Tell(Ev(w))
        BY <3>1, <3>2, <4>1, <4>2 DEF Promise!Tell
      <4> QED BY <3>2, <4>3 DEF Promise!Next
    <3> QED BY <2>5, <3>3, <3>4 DEF Ends, Rethrow, Crash, userVars
  <2>6. CASE \/ \E e \in Event : DedupExpires(e)
             \/ \E c \in Conversation : MoveToDlq(c)
             \/ \E w \in Worker, c \in Conversation : Receive(w, c)
             \/ \E w \in Worker : Generate(w) \/ StartQaLog(w) \/ MarkQaPosted(w) \/ Return(w)
             \/ Tick
             \/ UNCHANGED vars
    <3>1. UNCHANGED <<row, enqueued, answers, notices>>
      BY <2>6 DEF DedupExpires, MoveToDlq, Receive, Generate, StartQaLog, MarkQaPosted, Return,
         Tick, vars, storeVars, userVars
    <3> QED BY <2>a, <3>1
  <2> QED BY <2>1, <2>2, <2>3, <2>4, <2>5, <2>6, StepKinds DEF Moves
<1> QED BY <1>1, <1>2, Invariance, PTL DEF Spec, PromiseKept, Promise!Spec
=============================================================================
