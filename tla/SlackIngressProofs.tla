------------------------- MODULE SlackIngressProofs -------------------------
(***************************************************************************)
(* Proofs about SlackIngress and SlackContext, for any set of posts and    *)
(* wordings. The inductive invariant says which event carries a post: of   *)
(* all the events Slack emits for it, only the carrier's job can be in the *)
(* queue, and a 2xx for the carrier means that it is there. What a job     *)
(* is answered from then follows from that invariant, from the order of    *)
(* the ts and from the posts being finitely many: an argument about the    *)
(* sets that are cut, for any measure of the texts.                        *)
(***************************************************************************)
EXTENDS SlackContext, FiniteSetTheorems, TLAPS

\* The two ways in which an event is emitted.
LEMMA EmittedCases ==
  ASSUME NEW e \in Emitted
  PROVE  \/ \E p \in Posted : e = Event(p, "message", posts[p], TRUE)
         \/ \E p \in Posted, t \in BOOLEAN :
              posts[p].mention /\ e = Event(p, "app_mention", posts[p], t)
<1>1. CASE e \in EmittedMessages
  BY <1>1 DEF EmittedMessages
<1>2. CASE e \in EmittedMentions
  <2>1. PICK p \in {q \in Posted : posts[q].mention} :
          e \in {Event(p, "app_mention", posts[p], t) : t \in BOOLEAN}
    BY <1>2 DEF EmittedMentions
  <2>2. PICK t \in BOOLEAN : e = Event(p, "app_mention", posts[p], t)
    BY <2>1
  <2> QED BY <2>1, <2>2
<1> QED BY <1>1, <1>2 DEF Emitted

\* What a job's event has passed.
LEMMA JobVerdict ==
  ASSUME NEW e, Verdict(e) = "job"
  PROVE  /\ ~OwnKind(e) /\ Admits(e)
         /\ e.content.flaw \notin {"shared", "noText", "mentionOnly"}
BY DEF Verdict

\* An emitted event passes the decision table only as the carrier of a wanted post.
LEMMA JobOfEmitted ==
  ASSUME TypeOK, NEW e \in Emitted, Verdict(e) = "job"
  PROVE  /\ e.post \in Posted /\ Wanted(posts[e.post])
         /\ Job(e) = Job(Carrier(e.post)) /\ EventId(e) = EventId(Carrier(e.post))
<1>1. CASE \E p \in Posted : e = Event(p, "message", posts[p], TRUE)
  <2>1. PICK p \in Posted : e = Event(p, "message", posts[p], TRUE)
    BY <1>1
  <2>2. e.post = p /\ e.type = "message" /\ e.content = posts[p] /\ e.typed = TRUE
    BY <2>1 DEF Event
  <2>3. posts[p] \in Content
    BY <2>1 DEF TypeOK, Posted
  <2>4. posts[p].channel = "im" /\ Wanted(posts[p])
    <3>0. ~OwnKind(e) /\ e.content.flaw \notin {"shared", "noText", "mentionOnly"}
      BY JobVerdict
    <3>a. ~posts[p].tagged /\ posts[p].flaw # "subtype" /\ posts[p].by # "self"
      BY <2>2, <3>0 DEF OwnKind
    <3>b. posts[p].flaw \in Flaw
      BY <2>3 DEF Content
    <3>1. posts[p].flaw = "none"
      BY <2>2, <3>0, <3>a, <3>b DEF Flaw
    <3>2. Admits(e)
      BY JobVerdict
    <3>3. posts[p].by = "person"
      BY <2>3, <3>a DEF Content
    <3> QED BY <2>2, <2>3, <3>a, <3>1, <3>2, <3>3 DEF Admits, ChannelType, Wanted
  <2>5. Carrier(p) = e
    BY <2>1, <2>4 DEF Carrier
  <2> QED BY <2>1, <2>2, <2>4, <2>5
<1>2. CASE \E p \in Posted, t \in BOOLEAN : posts[p].mention /\ e = Event(p, "app_mention", posts[p], t)
  <2>1. PICK p \in Posted, t \in BOOLEAN :
          posts[p].mention /\ e = Event(p, "app_mention", posts[p], t)
    BY <1>2
  <2>2. e.post = p /\ e.type = "app_mention" /\ e.content = posts[p] /\ e.typed = t
    BY <2>1 DEF Event
  <2>3. posts[p] \in Content
    BY <2>1 DEF TypeOK, Posted
  <2>4. posts[p].channel = "listed" /\ Wanted(posts[p])
    <3>0. ~OwnKind(e) /\ e.content.flaw \notin {"shared", "noText", "mentionOnly"}
      BY JobVerdict
    <3>a. ~posts[p].tagged /\ posts[p].flaw # "subtype" /\ posts[p].by # "self"
      BY <2>2, <3>0 DEF OwnKind
    <3>b. posts[p].flaw \in Flaw
      BY <2>3 DEF Content
    <3>1. posts[p].flaw = "none"
      BY <2>2, <3>0, <3>a, <3>b DEF Flaw
    <3>2. Admits(e)
      BY JobVerdict
    <3>3. posts[p].by = "person"
      BY <2>3, <3>a DEF Content
    <3> QED BY <2>1, <2>2, <2>3, <3>a, <3>1, <3>2, <3>3 DEF Admits, ChannelType, Wanted
  <2>5. Carrier(p) = Event(p, "app_mention", posts[p], FALSE)
    BY <2>4 DEF Carrier
  <2>6. Job(e) = Job(Carrier(p)) /\ EventId(e) = EventId(Carrier(p))
    BY <2>2, <2>4, <2>5 DEF Event, Job, EventId, JobChannelType, ChannelType, ThreadTs
  <2> QED BY <2>1, <2>2, <2>4, <2>6
<1> QED BY <1>1, <1>2, EmittedCases

\* And the carrier of a wanted post does pass.
LEMMA CarrierIsJob ==
  ASSUME TypeOK, NEW e \in Emitted, Wanted(posts[e.post]),
         EventId(e) = EventId(Carrier(e.post))
  PROVE  Verdict(e) = "job"
<1>1. PICK p \in Posted :
        \/ e = Event(p, "message", posts[p], TRUE)
        \/ \E t \in BOOLEAN : e = Event(p, "app_mention", posts[p], t)
  BY EmittedCases
<1>2. e.post = p /\ e.content = posts[p]
  BY <1>1 DEF Event
<1>3. posts[p] \in Content
  BY <1>1 DEF TypeOK, Posted
<1>4. ~OwnKind(e) /\ e.content.flaw = "none"
  BY <1>2, <1>3 DEF Wanted, OwnKind, Content
<1>5. CASE posts[p].channel = "im"
  <2>1. e.type = "message"
    BY <1>2, <1>5 DEF EventId, Carrier, Event
  <2>2. e.typed = TRUE
    BY <1>1, <2>1 DEF Event
  <2> QED BY <1>2, <1>4, <1>5, <2>1, <2>2 DEF Verdict, Admits, ChannelType
<1>6. CASE posts[p].channel = "listed"
  <2>1. e.type = "app_mention"
    BY <1>2, <1>6 DEF EventId, Carrier, Event
  <2> QED BY <1>2, <1>4, <1>6, <2>1 DEF Verdict, Admits, ChannelType
<1> QED BY <1>2, <1>5, <1>6 DEF Wanted

-----------------------------------------------------------------------------
LEMMA InitHolds == Init => IInv
<1> SUFFICES ASSUME Init PROVE IInv
  OBVIOUS
<1>1. Posted = {}
  BY DEF Init, Posted
<1>2. TypeOK
  BY DEF Init, TypeOK
<1> QED BY <1>1, <1>2 DEF Init, IInv, QueueInv, AckInv, AnswerInv

\* Deployments and the handshake touch nothing that the invariant speaks of.
LEMMA DeployKeeps == IInv /\ (Deploy \/ VerifyUrl) => IInv'
<1> SUFFICES ASSUME IInv, Deploy \/ VerifyUrl PROVE IInv'
  OBVIOUS
<1>1. UNCHANGED <<posts, acked, queue, answered>>
  BY DEF Deploy, VerifyUrl
<1>2. config' \in {"missing", "otherApp", "ours"} /\ verified' \in BOOLEAN
  BY DEF Deploy, VerifyUrl, IInv, TypeOK
<1> QED BY <1>1, <1>2
  DEF IInv, TypeOK, QueueInv, AckInv, AnswerInv, Posted, Carrier, ConversationOf

\* A new post changes none of the old ones.
LEMMA PostKeeps ==
  ASSUME IInv, NEW p \in Post, p \notin Posted, NEW c \in Content,
         posts' = [posts EXCEPT ![p] = c], UNCHANGED <<config, verified, acked, queue>>,
         answered \subseteq answered', answered' \subseteq queue,
         ~Wanted(c) \/ EventId(Carrier(p))' \notin acked,
         c.by # "self" \/ \E j \in answered' : Group(j) = ConversationOf(p)'
  PROVE  IInv'
<1> USE PostAssumption
<1>1. posts' \in [Post -> Content \cup {NoPost}]
  BY DEF IInv, TypeOK
<1>2. TypeOK'
  BY <1>1 DEF IInv, TypeOK
<1>3. \A q \in Posted : q # p /\ posts'[q] = posts[q] /\ q \in Posted'
  BY DEF Posted, IInv, TypeOK
<1>4. \A q \in Posted' : q = p \/ q \in Posted
  BY DEF Posted, IInv, TypeOK
<1>5. posts'[p] = c
  BY DEF IInv, TypeOK
<1>6. ASSUME NEW q \in Posted PROVE Carrier(q)' = Carrier(q)
  <2>1. posts'[q] = posts[q]
    BY <1>3
  <2> QED BY <2>1 DEF Carrier, Event
<1>7. QueueInv'
  BY <1>3, <1>6 DEF IInv, QueueInv
<1>8. AckInv'
  BY <1>3, <1>4, <1>5, <1>6 DEF IInv, AckInv
<1>9. AnswerInv'
  <2>1. \A q \in Posted : ConversationOf(q)' = ConversationOf(q)
    BY <1>3 DEF ConversationOf
  <2> QED BY <1>3, <1>4, <1>5, <2>1 DEF IInv, AnswerInv
<1> QED BY <1>2, <1>7, <1>8, <1>9 DEF IInv

\* No event of a post is acknowledged before the post is there.
LEMMA NotYetAcked ==
  ASSUME IInv, NEW p \in Post, p \notin Posted
  PROVE  EventId(Carrier(p))' \notin acked
<1>1. EventId(Carrier(p))'[1] = p
  BY DEF EventId, Carrier, Event
<1> QED BY <1>1 DEF IInv, AckInv

LEMMA WriteKeeps == \A p \in Post : IInv /\ Write(p) => IInv'
<1> SUFFICES ASSUME IInv, NEW p \in Post, Write(p) PROVE IInv'
  OBVIOUS
<1>0. PICK w \in Wordings :
        \E t \in Roots(w.channel) \cup {NoPost} : posts' = [posts EXCEPT ![p] = Text(w, t)]
  BY DEF Write
<1>1. PICK t \in Roots(w.channel) \cup {NoPost} : posts' = [posts EXCEPT ![p] = Text(w, t)]
  BY <1>0
<1>2. w \in Wording /\ t \in Post \cup {NoPost}
  BY <1>1, InputAssumption DEF Roots, Posted
<1>3. Text(w, t) \in Content
  BY <1>2 DEF Text, Content, Wording
<1>4. /\ p \notin Posted /\ UNCHANGED <<config, verified, acked, queue>>
      /\ answered' = answered /\ answered' \subseteq queue
  BY DEF Write, IInv, TypeOK
<1>5. Text(w, t).by # "self"
  BY <1>2 DEF Text, Wording
<1> QED BY <1>1, <1>3, <1>4, <1>5, NotYetAcked, PostKeeps

LEMMA AnswerKeeps == \A j \in queue, p \in Post : IInv /\ Answer(j, p) => IInv'
<1> SUFFICES ASSUME IInv, NEW j \in queue, NEW p \in Post, Answer(j, p) PROVE IInv'
  OBVIOUS
<1> DEFINE c(m, t) == [channel |-> j.channel, by |-> "self", mention |-> m, flaw |-> "none",
                       tagged |-> t, thread |-> AnswerThread(j)]
<1>1. PICK t \in BOOLEAN, m \in BOOLEAN : posts' = [posts EXCEPT ![p] = c(m, t)]
  BY DEF Answer
<1>2. j.post \in Posted /\ j = Job(Carrier(j.post))
  BY DEF IInv, QueueInv
<1>3. posts[j.post] \in Content
  BY <1>2 DEF Posted, IInv, TypeOK
<1>4. Carrier(j.post).content = posts[j.post] /\ Carrier(j.post).post = j.post
  BY DEF Carrier, Event
<1>5. j.channel = posts[j.post].channel /\ j.threadTs = ThreadTs(Carrier(j.post))
  BY <1>2, <1>4 DEF Job
<1>6. j.channel \in Channel
  BY <1>3, <1>5 DEF Content
<1>7. j.threadTs \in Post \cup {NoPost} /\ j.post \in Post
  BY <1>2, <1>3, <1>4, <1>5 DEF ThreadTs, Content, Posted
<1>8. AnswerThread(j) \in Post \cup {NoPost}
  BY <1>7 DEF AnswerThread
<1>9. c(m, t) \in Content
  BY <1>6, <1>8 DEF Content, Flaw
<1>10. ~Wanted(c(m, t))
  BY DEF Wanted
<1>11. /\ p \notin Posted /\ UNCHANGED <<config, verified, acked, queue>>
       /\ answered' = answered \cup {j} /\ answered' \subseteq queue
  BY DEF Answer, IInv, TypeOK
<1>12. Group(j) = ConversationOf(p)'
  <2>1. posts'[p] = c(m, t)
    BY <1>1 DEF IInv, TypeOK
  <2>2. ConversationOf(p)' =
          IF AnswerThread(j) # NoPost THEN <<j.channel, AnswerThread(j)>>
          ELSE IF j.channel = "im" THEN <<"im", NoPost>> ELSE <<j.channel, p>>
    BY <2>1 DEF ConversationOf
  <2>3. j.channelType = "im" <=> j.channel = "im"
    BY <1>2, <1>4, <1>5 DEF Job, JobChannelType, ChannelType, Carrier, Event
  <2>4. j.post # NoPost
    BY <1>7, PostAssumption
  <2> QED BY <2>2, <2>3, <2>4 DEF Group, AnswerThread
<1> QED BY <1>1, <1>9, <1>10, <1>11, <1>12, PostKeeps

\* A request that Slack has not signed changes nothing.
LEMMA OthersKeep ==
  \A r \in Unsigned : \A e : IInv /\ OthersSend(r, e) => IInv'
<1> SUFFICES ASSUME IInv, NEW r \in Unsigned, NEW e, OthersSend(r, e) PROVE IInv'
  OBVIOUS
<1>1. ~Signed(r)
  BY InputAssumption DEF Signed, Request
<1>2. UNCHANGED vars
  BY <1>1 DEF OthersSend, Accepts, vars
<1> QED BY <1>2 DEF vars, IInv, TypeOK, QueueInv, AckInv, AnswerInv, Posted, Carrier, ConversationOf

LEMMA DeliveryKeeps == \A e \in Emitted : IInv /\ SlackDelivers(e) => IInv'
<1> SUFFICES ASSUME IInv, NEW e \in Emitted, SlackDelivers(e) PROVE IInv'
  OBVIOUS
<1>1. PICK r : Handle(r, e)
  BY DEF SlackDelivers
<1>2. UNCHANGED <<config, verified, posts, answered>>
  BY DEF SlackDelivers
<1>3. Posted' = Posted /\ \A p : Carrier(p)' = Carrier(p)
  BY <1>2 DEF Posted, Carrier
<1>4. e.post \in Posted /\ EventId(e) \in Post \X EventType /\ EventId(e)[1] = e.post
  <2>1. PICK p \in Posted : \/ e = Event(p, "message", posts[p], TRUE)
                           \/ \E t \in BOOLEAN : e = Event(p, "app_mention", posts[p], t)
    BY EmittedCases
  <2> QED BY <2>1 DEF Event, EventId, EventType, Posted
<1>5. queue' = queue \/ (Verdict(e) = "job" /\ queue' = queue \cup {Job(e)})
  BY <1>1 DEF Handle, Accepts, Enqueue
<1>6. acked' = acked \/ acked' = acked \cup {EventId(e)}
  BY <1>1 DEF Handle, Enqueue, AckedIf
<1>7. TypeOK'
  BY <1>2, <1>4, <1>5, <1>6 DEF IInv, TypeOK
<1>8. QueueInv'
  <2> SUFFICES ASSUME NEW j \in queue'
               PROVE  j.post \in Posted /\ Wanted(posts[j.post]) /\ j = Job(Carrier(j.post))
    BY <1>2, <1>3 DEF QueueInv
  <2>1. CASE j \in queue
    BY <2>1 DEF IInv, QueueInv
  <2>2. CASE j \notin queue
    <3>1. Verdict(e) = "job" /\ j = Job(e)
      BY <1>5, <2>2
    <3>2. e.post \in Posted /\ Wanted(posts[e.post]) /\ Job(e) = Job(Carrier(e.post))
      BY <3>1, JobOfEmitted DEF IInv
    <3>3. j.post = e.post
      BY <3>1 DEF Job
    <3> QED BY <3>1, <3>2, <3>3
  <2> QED BY <2>1, <2>2
<1>9. AckInv'
  <2>1. \A id \in acked' : id[1] \in Posted'
    BY <1>3, <1>4, <1>6 DEF IInv, AckInv
  <2>2. ASSUME NEW p \in Posted, Wanted(posts[p]), EventId(Carrier(p)) \in acked'
        PROVE  Job(Carrier(p)) \in queue'
    <3>1. CASE EventId(Carrier(p)) \in acked
      BY <1>5, <2>2, <3>1 DEF IInv, AckInv
    <3>2. CASE EventId(Carrier(p)) \notin acked
      <4>1. EventId(Carrier(p)) = EventId(e) /\ acked' # acked
        BY <1>6, <2>2, <3>2
      <4>2. e.post = p
        BY <4>1 DEF EventId, Carrier, Event
      <4>3. Verdict(e) = "job"
        BY <2>2, <4>1, <4>2, CarrierIsJob DEF IInv
      <4>4. Accepts(r, e) /\ Enqueue(e)
        BY <1>1, <4>1, <4>3 DEF Handle, Accepts, Ignores, AckedIf
      <4>5. queue' = queue \cup {Job(e)}
        BY <4>1, <4>4 DEF Enqueue, AckedIf
      <4> QED BY <4>2, <4>3, <4>5, JobOfEmitted DEF IInv
    <3> QED BY <3>1, <3>2
  <2> QED BY <1>2, <1>3, <2>1, <2>2 DEF AckInv
<1>10. AnswerInv'
  BY <1>2, <1>3 DEF IInv, AnswerInv, ConversationOf
<1> QED BY <1>7, <1>8, <1>9, <1>10 DEF IInv

LEMMA StutterKeeps == IInv /\ UNCHANGED vars => IInv'
BY DEF vars, IInv, TypeOK, QueueInv, AckInv, AnswerInv, Posted, Carrier, ConversationOf

\* The inductive invariant of the ingress.
THEOREM Invariance == Spec => []IInv
<1>1. Init => IInv
  BY InitHolds
<1>2. IInv /\ [Next]_vars => IInv'
  <2> SUFFICES ASSUME IInv, [Next]_vars PROVE IInv'
    OBVIOUS
  <2>1. CASE Deploy \/ VerifyUrl
    BY <2>1, DeployKeeps
  <2>2. CASE \E p \in Post : Write(p)
    BY <2>2, WriteKeeps
  <2>3. CASE \E e \in Emitted : SlackDelivers(e)
    BY <2>3, DeliveryKeeps
  <2>4. CASE \E r \in Unsigned, p \in Post, type \in EventType, w \in Wordings :
               OthersSend(r, Event(p, type, Text(w, NoPost), TRUE))
    BY <2>4, OthersKeep
  <2>5. CASE \E j \in queue, p \in Post : Answer(j, p)
    BY <2>5, AnswerKeeps
  <2>6. CASE UNCHANGED vars
    BY <2>6, StutterKeeps
  <2> QED BY <2>1, <2>2, <2>3, <2>4, <2>5, <2>6 DEF Next
<1> QED BY <1>1, <1>2, PTL DEF Spec

\* A post becomes at most one job, however many events Slack emits for it.
THEOREM OneJob == Spec => []OneJobPerPost
<1>1. IInv => OneJobPerPost
  BY DEF IInv, QueueInv, OneJobPerPost
<1> QED BY Invariance, <1>1, PTL

\* The agent answers people, never itself, another bot or a forged event.
THEOREM PeopleOnly == Spec => []OnlyPeopleAreAnswered
<1>1. IInv => OnlyPeopleAreAnswered
  BY DEF IInv, QueueInv, OnlyPeopleAreAnswered
<1> QED BY Invariance, <1>1, PTL

\* No wanted post is dropped behind a 2xx.
THEOREM NothingWantedIsDropped == Spec => []WantedIsQueued
<1>1. ASSUME IInv, NEW p \in Posted, Wanted(posts[p]),
             \A e \in Emitted : e.post = p => EventId(e) \in acked
      PROVE  \E j \in queue : j.post = p
  <2>1. Carrier(p) \in Emitted
    <3>1. CASE posts[p].channel = "im"
      BY <3>1 DEF Carrier, Emitted, EmittedMessages
    <3>2. CASE posts[p].channel # "im"
      <4>1. posts[p].mention /\ Carrier(p) = Event(p, "app_mention", posts[p], FALSE)
        BY <1>1, <3>2 DEF Carrier, Wanted
      <4>2. p \in {q \in Posted : posts[q].mention}
        BY <4>1
      <4>3. Carrier(p) \in {Event(p, "app_mention", posts[p], t) : t \in BOOLEAN}
        BY <4>1
      <4>4. Carrier(p) \in EmittedMentions
        BY <4>2, <4>3 DEF EmittedMentions
      <4> QED BY <4>4 DEF Emitted
    <3> QED BY <3>1, <3>2
  <2>2. Carrier(p).post = p
    BY DEF Carrier, Event
  <2>3. Job(Carrier(p)) \in queue
    BY <1>1, <2>1, <2>2 DEF IInv, AckInv
  <2>4. Job(Carrier(p)).post = p
    BY <2>2 DEF Job
  <2> QED BY <2>3, <2>4
<1>2. IInv => WantedIsQueued
  BY <1>1 DEF WantedIsQueued
<1> QED BY Invariance, <1>2, PTL

\* The group of the queue, the history of the worker and the place of the answer
\* are the conversation that Slack shows.
THEOREM SameConversation == Spec => []GroupsAreConversations
<1>1. ASSUME IInv, NEW j \in queue
      PROVE  Group(j) = ConversationOf(j.post) /\ HistoryOf(j) = Group(j)
  <2>1. j.post \in Posted /\ Wanted(posts[j.post]) /\ j = Job(Carrier(j.post))
    BY <1>1 DEF IInv, QueueInv
  <2>2. Carrier(j.post).content = posts[j.post] /\ Carrier(j.post).post = j.post
    BY DEF Carrier, Event
  <2>3. j.channel = posts[j.post].channel /\ j.threadTs = ThreadTs(Carrier(j.post))
    BY <2>1, <2>2 DEF Job
  <2>4. /\ JobChannelType(Carrier(j.post)) = "im" <=> posts[j.post].channel = "im"
        /\ j.channelType = JobChannelType(Carrier(j.post))
    BY <2>1, <2>2 DEF Job, JobChannelType, ChannelType, Carrier, Event
  <2>5. j.post # NoPost
    BY <2>1, PostAssumption DEF Posted
  <2> QED BY <2>2, <2>3, <2>4, <2>5 DEF Group, HistoryOf, ConversationOf, ThreadTs
<1>2. IInv => GroupsAreConversations
  BY <1>1 DEF GroupsAreConversations, IInv
<1> QED BY Invariance, <1>2, PTL

-----------------------------------------------------------------------------
(* Sets of posts in the order of their ts *)

LEMMA OldestExists ==
  ASSUME NEW C, NEW T \in SUBSET C, T # {}, NEW ts \in [C -> Nat]
  PROVE  \E p \in T : \A q \in T : ts[p] <= ts[q]
<1> DEFINE times == {ts[p] : p \in T}
<1>1. times \subseteq Nat /\ times # {}
  OBVIOUS
<1>2. \E x \in times : \A y \in times : ~(<<y, x>> \in OpToRel(<, Nat))
  <2> HIDE DEF times
  <2> QED BY <1>1, WFMin, NatLessThanWellFounded, Zenon
<1>3. PICK x \in times : \A y \in times : ~(y < x)
  <2> HIDE DEF times
  <2> QED BY <1>1, <1>2, Zenon DEF OpToRel
<1>4. PICK p \in T : x = ts[p]
  OBVIOUS
<1>5. \A q \in T : ~(ts[q] < ts[p])
  BY <1>3, <1>4
<1>6. \A q \in T : ts[q] \in Nat
  OBVIOUS
<1> QED BY <1>5, <1>6

\* The newest posts of a set: nothing that is left out is newer than what is kept.
LEMMA NewestIs ==
  ASSUME NEW C, NEW s \in SUBSET C, IsFiniteSet(s), NEW ts \in [C -> Nat],
         \A p, q \in C : ts[p] = ts[q] => p = q, NEW n \in Nat \ {0}
  PROVE  /\ Newest(s, ts, n) \subseteq s
         /\ \A p \in Newest(s, ts, n), q \in s : ts[p] <= ts[q] => q \in Newest(s, ts, n)
         /\ Cardinality(s) <= n => Newest(s, ts, n) = s
         /\ \A p \in s : UpTo(s, ts, p) = s => p \in Newest(s, ts, n)
<1>1. \A p \in s : /\ IsFiniteSet(Since(s, ts, p)) /\ Cardinality(Since(s, ts, p)) \in Nat
                   /\ Cardinality(Since(s, ts, p)) <= Cardinality(s)
                   /\ Cardinality(s) \in Nat
  <2>1. \A p \in s : Since(s, ts, p) \in SUBSET s
    BY DEF Since
  <2> QED BY <2>1, FS_Subset, FS_CardinalityType
<1>2. ASSUME NEW p \in Newest(s, ts, n), NEW q \in s, ts[p] <= ts[q]
      PROVE  q \in Newest(s, ts, n)
  <2>1. p \in s /\ Cardinality(Since(s, ts, p)) <= n
    BY DEF Newest
  <2>2. ts[p] \in Nat /\ ts[q] \in Nat /\ \A r \in s : ts[r] \in Nat
    BY <2>1
  <2>3. Since(s, ts, q) \in SUBSET Since(s, ts, p)
    BY <1>2, <2>2 DEF Since
  <2>4. Cardinality(Since(s, ts, q)) <= Cardinality(Since(s, ts, p))
    BY <1>1, <2>1, <2>3, FS_Subset
  <2>5. Cardinality(Since(s, ts, q)) <= n
    BY <1>1, <2>1, <2>4
  <2> QED BY <2>5 DEF Newest
<1>3. ASSUME Cardinality(s) <= n PROVE Newest(s, ts, n) = s
  <2>1. \A p \in s : Cardinality(Since(s, ts, p)) <= n
    BY <1>1, <1>3
  <2> QED BY <2>1 DEF Newest
<1>4. ASSUME NEW p \in s, UpTo(s, ts, p) = s PROVE p \in Newest(s, ts, n)
  <2>1. \A q \in s : ts[q] <= ts[p] /\ ts[q] \in Nat /\ ts[p] \in Nat
    BY <1>4 DEF UpTo
  <2>2. Since(s, ts, p) = {p}
    BY <2>1 DEF Since
  <2>3. Cardinality(Since(s, ts, p)) = 1
    BY <2>2, FS_Singleton
  <2> QED BY <2>3 DEF Newest
<1> QED BY <1>2, <1>3, <1>4 DEF Newest

\* What is shed is the oldest part, and there was need to.
LEMMA ShedIs ==
  ASSUME NEW C, NEW s \in SUBSET C, NEW ts \in [C -> Nat],
         \A p, q \in C : ts[p] = ts[q] => p = q,
         NEW last \in s, UpTo(s, ts, last) = s
  PROVE  \E f \in s :
           /\ Shed(s, ts) = Since(s, ts, f)
           /\ Since(s, ts, f) = {f} \/ Size(Since(s, ts, f)) <= MaxTotalChars
           /\ Since(s, ts, f) = s \/ ~(Size(s) <= MaxTotalChars)
<1> DEFINE stops(p) == Since(s, ts, p) = {p} \/ Size(Since(s, ts, p)) <= MaxTotalChars
           first(p) == stops(p) /\ \A q \in s : ts[q] < ts[p] => ~stops(q)
           T == {p \in s : stops(p)}
<1>1. \A p \in s : ts[p] \in Nat
  OBVIOUS
<1>2. Since(s, ts, last) = {last}
  <2>1. \A q \in s : ts[q] <= ts[last]
    BY DEF UpTo
  <2> QED BY <1>1, <2>1 DEF Since
<1>3. \E p \in s : first(p)
  <2>1. T \in SUBSET C /\ T # {}
    BY <1>2
  <2> HIDE DEF T
  <2>2. PICK p \in T : \A q \in T : ts[p] <= ts[q]
    BY <2>1, OldestExists
  <2>3. \A q \in s : ts[q] < ts[p] => q \notin T
    BY <2>2, <2>1, <1>1
  <2> QED BY <2>2, <2>3 DEF T
<1> DEFINE f == CHOOSE p \in s : first(p)
<1>4. f \in s /\ first(f)
  BY <1>3
<1>5. Shed(s, ts) = Since(s, ts, f)
  BY DEF Shed
<1> HIDE DEF f
<1>6. ASSUME Since(s, ts, f) # s PROVE ~(Size(s) <= MaxTotalChars)
  <2>1. PICK o \in s : \A q \in s : ts[o] <= ts[q]
    BY OldestExists
  <2>2. Since(s, ts, o) = s
    BY <2>1, <1>1 DEF Since
  <2>3. ts[o] < ts[f]
    <3>1. o # f
      BY <2>2, <1>6
    <3>2. ts[o] # ts[f]
      BY <3>1, <1>4
    <3> QED BY <3>2, <2>1, <1>1, <1>4
  <2>4. ~stops(o)
    BY <2>3, <1>4
  <2> QED BY <2>2, <2>4
<1> QED BY <1>4, <1>5, <1>6

-----------------------------------------------------------------------------
(* The posts of a conversation *)

LEMMA TimestampsAre ==
  ASSUME NEW C, IsFiniteSet(C), NEW ts \in Timestamps(C)
  PROVE  /\ ts \in [C -> Nat]
         /\ \A p, q \in C : ts[p] = ts[q] => p = q
<1>1. Cardinality(C) \in Nat
  BY FS_CardinalityType
<1>2. ts \in [C -> 1..Cardinality(C)] /\ IsInjective(ts)
  BY DEF Timestamps, Injection
<1> QED BY <1>1, <1>2 DEF IsInjective

\* What of a conversation was said before a question, and may be shown with it.
LEMMA QuestionIsShown ==
  ASSUME IInv, NEW j \in queue
  PROVE  /\ j.post \in ConversationPosts(j) /\ HasWords(posts[j.post])
         /\ \A p \in ConversationPosts(j) \ {j.post} :
              ConversationOf(p) = ConversationOf(j.post) \/ posts[j.post].thread = p
<1>1. j.post \in Posted /\ Wanted(posts[j.post]) /\ j = Job(Carrier(j.post))
  BY DEF IInv, QueueInv
<1>2. Carrier(j.post).content = posts[j.post] /\ Carrier(j.post).post = j.post
  BY DEF Carrier, Event
<1>3. j.channel = posts[j.post].channel /\ j.threadTs = ThreadTs(Carrier(j.post))
  BY <1>1, <1>2 DEF Job
<1>4. /\ JobChannelType(Carrier(j.post)) = "im" <=> posts[j.post].channel = "im"
      /\ j.channelType = JobChannelType(Carrier(j.post))
  BY <1>1, <1>2 DEF Job, JobChannelType, ChannelType, Carrier, Event
<1>5. NoPost \notin Posted
  BY PostAssumption DEF Posted
<1>6. CASE posts[j.post].thread # NoPost
  <2>1. HistoryOf(j)[2] = posts[j.post].thread
    BY <1>2, <1>3, <1>6 DEF HistoryOf, ThreadTs
  <2> QED BY <2>1, <1>1, <1>3, <1>5, <1>6
          DEF ConversationPosts, ConversationOf, HasWords, Wanted
<1>7. CASE posts[j.post].thread = NoPost /\ posts[j.post].channel = "im"
  <2>1. HistoryOf(j)[2] = NoPost
    BY <1>2, <1>3, <1>4, <1>7 DEF HistoryOf, ThreadTs
  <2> QED BY <2>1, <1>1, <1>3, <1>5, <1>7
          DEF ConversationPosts, ConversationOf, HasWords, Wanted
<1>8. CASE posts[j.post].thread = NoPost /\ posts[j.post].channel # "im"
  <2>1. HistoryOf(j)[2] = j.post
    BY <1>1, <1>2, <1>3, <1>4, <1>5, <1>8 DEF HistoryOf, ThreadTs
  <2> QED BY <2>1, <1>1, <1>3, <1>5, <1>8
          DEF ConversationPosts, ConversationOf, HasWords, Wanted
<1> QED BY <1>6, <1>7, <1>8

\* What Slack returns up to the question.
LEMMA LoadedIs ==
  ASSUME NEW j, NEW C, NEW seen \in SUBSET C, IsFiniteSet(C), NEW ts \in [C -> Nat],
         \A p, q \in C : ts[p] = ts[q] => p = q, NEW reach \in Nat
  PROVE  LET found  == UpTo(seen, ts, j.post)
             loaded == LoadConversation(j, ts, seen, reach)
         IN /\ loaded \subseteq found
            /\ \A p \in loaded, q \in found : ts[p] <= ts[q] => q \in loaded
            /\ \/ loaded = found
               \/ Cardinality(seen) > (IF TopLevel(j) THEN HistoryLimit ELSE reach)
<1> DEFINE found  == UpTo(seen, ts, j.post)
           loaded == LoadConversation(j, ts, seen, reach)
<1>1. found \in SUBSET seen /\ found \in SUBSET C /\ seen \in SUBSET C
  BY DEF UpTo
<1>2. /\ IsFiniteSet(seen) /\ IsFiniteSet(found)
      /\ Cardinality(seen) \in Nat /\ Cardinality(found) \in Nat
      /\ Cardinality(found) <= Cardinality(seen)
  <2>1. IsFiniteSet(seen)
    BY FS_Subset
  <2> HIDE DEF found
  <2>2. IsFiniteSet(found) /\ Cardinality(found) <= Cardinality(seen)
    BY <2>1, <1>1, FS_Subset
  <2> QED BY <2>1, <2>2, FS_CardinalityType
<1>3. HistoryLimit \in Nat \ {0}
  BY ContextAssumption
<1>4. CASE TopLevel(j)
  <2>1. loaded = Newest(found, ts, HistoryLimit)
    BY <1>4 DEF LoadConversation, NewestPage
  <2> HIDE DEF found, loaded
  <2>2. /\ loaded \subseteq found
        /\ \A p \in loaded, q \in found : ts[p] <= ts[q] => q \in loaded
        /\ Cardinality(found) <= HistoryLimit => loaded = found
    BY <2>1, <1>1, <1>2, <1>3, NewestIs
  <2>3. loaded = found \/ Cardinality(seen) > HistoryLimit
    BY <2>2, <1>2, <1>3
  <2> QED BY <2>2, <2>3, <1>4 DEF found, loaded
<1>5. CASE ~TopLevel(j)
  <2>1. loaded = IF Cardinality(found) <= reach THEN found ELSE {}
    BY <1>5 DEF LoadConversation, AllPages
  <2> HIDE DEF found, loaded
  <2>2. loaded = found \/ (loaded = {} /\ Cardinality(seen) > reach)
    <3>1. CASE Cardinality(found) <= reach
      BY <2>1, <3>1
    <3>2. CASE ~(Cardinality(found) <= reach)
      <4>1. Cardinality(seen) > reach
        BY <1>2, <3>2
      <4> QED BY <2>1, <3>2, <4>1
    <3> QED BY <3>1, <3>2
  <2> QED BY <2>2, <1>5 DEF found, loaded
<1> QED BY <1>4, <1>5

LEMMA PromptIs ==
  ASSUME NEW C, NEW context \in SUBSET C, NEW ts \in [C -> Nat],
         \A p, q \in C : ts[p] = ts[q] => p = q,
         NEW last \in context, UpTo(context, ts, last) = context
  PROVE  Prompt(context, ts) = [question |-> last, prior |-> context \ {last}]
<1>1. \A p \in context : UpTo(context, ts, p) = context => p = last
  <2> SUFFICES ASSUME NEW p \in context, UpTo(context, ts, p) = context PROVE p = last
    OBVIOUS
  <2>1. ts[last] <= ts[p] /\ ts[p] <= ts[last] /\ ts[p] \in Nat /\ ts[last] \in Nat
    BY DEF UpTo
  <2> QED BY <2>1
<1>2. (CHOOSE p \in context : UpTo(context, ts, p) = context) = last
  BY <1>1
<1> QED BY <1>2 DEF Prompt

\* What the model is asked, for one job, one order of the posts and one part of them.
LEMMA PromptIsTheConversation ==
  ASSUME IInv, IsFiniteSet(Posted), NEW j \in queue,
         NEW ts \in Timestamps(ConversationPosts(j)),
         NEW seen \in SUBSET ConversationPosts(j), NEW reach \in Reaches
  PROVE  LET prompt == Prompt(UserContext(j, ts, seen, reach), ts)
             prior  == prompt.prior
             other  == Relevant(j, ts, seen)
         IN /\ prompt.question = j.post
            /\ prior \subseteq other
            /\ \A p \in prior, q \in other : ts[p] < ts[q] => q \in prior
            /\ prior = {} \/ Size(prior \cup {j.post}) <= MaxTotalChars
            /\ \/ prior = other
               \/ Cardinality(other) >= MaxContextMessages
               \/ Cardinality(seen) > (IF TopLevel(j) THEN HistoryLimit ELSE reach)
               \/ ~(Size(other \cup {j.post}) <= MaxTotalChars)
<1> DEFINE C      == ConversationPosts(j)
           q0     == j.post
           found  == UpTo(seen, ts, q0)
           loaded == LoadConversation(j, ts, seen, reach)
           words  == {p \in loaded : HasWords(posts[p])}
           W      == words \cup {q0}
           N      == Newest(W, ts, MaxContextMessages)
           S      == Shed(N, ts)
           other  == Relevant(j, ts, seen)
<1>1. q0 \in C /\ HasWords(posts[q0]) /\ C \subseteq Posted
      /\ \A p \in C \ {q0} : ConversationOf(p) = ConversationOf(q0) \/ posts[q0].thread = p
  BY QuestionIsShown DEF ConversationPosts
<1>2. IsFiniteSet(C)
  BY <1>1, FS_Subset
<1>3. ts \in [C -> Nat] /\ \A p, q \in C : ts[p] = ts[q] => p = q
  BY <1>2, TimestampsAre
<1>4. reach \in Nat /\ MaxContextMessages \in Nat \ {0}
  BY ContextAssumption DEF Reaches
<1>5. UserContext(j, ts, seen, reach) = S
  BY DEF UserContext
<1> HIDE DEF C
<1>6. seen \in SUBSET C
  BY DEF C
<1>7. /\ loaded \subseteq found
      /\ \A p \in loaded, q \in found : ts[p] <= ts[q] => q \in loaded
      /\ \/ loaded = found
         \/ Cardinality(seen) > (IF TopLevel(j) THEN HistoryLimit ELSE reach)
  BY <1>2, <1>3, <1>4, <1>6, LoadedIs
<1>8. found \subseteq seen /\ \A p \in found : ts[p] <= ts[q0]
  BY DEF UpTo
<1> HIDE DEF found, loaded
<1>9. \A p \in C : ts[p] \in Nat
  BY <1>3
\* What may be shown is what was found, but for the question.
<1>10. other = {p \in found \ {q0} : HasWords(posts[p])}
  <2>1. \A p \in seen \ {q0} : p \in found <=> ts[p] < ts[q0]
    BY <1>1, <1>3, <1>6, <1>9 DEF found, UpTo
  <2>2. \A p \in seen \ {q0} : ConversationOf(p) = ConversationOf(q0) \/ posts[q0].thread = p
    BY <1>1, <1>6
  <2> QED BY <2>1, <2>2, <1>8 DEF Relevant
<1> HIDE DEF other
<1>11. /\ words \ {q0} \subseteq other
       /\ \A p \in words, q \in other : ts[p] <= ts[q] => q \in words
       /\ loaded = found => words \ {q0} = other
  BY <1>7, <1>10
<1>12. W \in SUBSET C /\ q0 \in W /\ UpTo(W, ts, q0) = W
  <2>1. W \subseteq C
    BY <1>1, <1>6, <1>7, <1>8
  <2>2. \A p \in W : ts[p] <= ts[q0]
    BY <1>1, <1>7, <1>8, <1>9
  <2> QED BY <2>1, <2>2 DEF UpTo
<1> HIDE DEF words
<1>13. IsFiniteSet(W)
  BY <1>2, <1>12, FS_Subset
<1>14. \A p \in other : p \in C /\ p # q0
  BY <1>6, <1>8, <1>10
<1> HIDE DEF W
<1>15. /\ N \subseteq W
       /\ \A p \in N, q \in W : ts[p] <= ts[q] => q \in N
       /\ Cardinality(W) <= MaxContextMessages => N = W
       /\ q0 \in N
  BY <1>3, <1>4, <1>12, <1>13, NewestIs
<1> HIDE DEF N
<1>16. N \in SUBSET C /\ UpTo(N, ts, q0) = N
  BY <1>12, <1>15 DEF UpTo
<1>17. PICK f \in N : /\ S = Since(N, ts, f)
                      /\ Since(N, ts, f) = {f} \/ Size(Since(N, ts, f)) <= MaxTotalChars
                      /\ Since(N, ts, f) = N \/ ~(Size(N) <= MaxTotalChars)
  BY <1>3, <1>15, <1>16, ShedIs
<1> HIDE DEF S
<1>18. /\ S \subseteq N /\ q0 \in S /\ UpTo(S, ts, q0) = S
       /\ \A p \in S, q \in N : ts[p] <= ts[q] => q \in S
       /\ S = {q0} \/ Size(S) <= MaxTotalChars
       /\ S = N \/ ~(Size(N) <= MaxTotalChars)
  <2>1. \A p \in N : ts[p] \in Nat /\ ts[p] <= ts[q0]
    BY <1>9, <1>16 DEF UpTo
  <2>2. S \subseteq N /\ q0 \in S
    BY <2>1, <1>15, <1>17 DEF Since
  <2>3. UpTo(S, ts, q0) = S
    BY <2>1, <2>2 DEF UpTo
  <2>4. \A p \in S, q \in N : ts[p] <= ts[q] => q \in S
    BY <2>1, <1>17 DEF Since
  <2> QED BY <2>2, <2>3, <2>4, <1>17
<1>19. Prompt(S, ts) = [question |-> q0, prior |-> S \ {q0}]
  <2>1. S \in SUBSET C
    BY <1>16, <1>18
  <2> QED BY <2>1, <1>3, <1>18, PromptIs
<1> DEFINE prior == S \ {q0}
<1>20. prior \subseteq other
  BY <1>11, <1>15, <1>18 DEF W
<1>21. ASSUME NEW p \in prior, NEW q \in other, ts[p] < ts[q] PROVE q \in prior
  <2>1. p \in words /\ p \in N /\ p \in S /\ p \in C
    BY <1>15, <1>16, <1>18 DEF W
  <2>2. q \in C /\ q # q0 /\ ts[p] <= ts[q]
    BY <2>1, <1>9, <1>14, <1>21
  <2>3. q \in words
    BY <2>1, <2>2, <1>11
  <2>4. q \in W
    BY <2>3 DEF W
  <2>5. q \in N
    BY <2>1, <2>2, <2>4, <1>15
  <2> QED BY <2>1, <2>2, <2>5, <1>18
<1>22. prior = {} \/ Size(prior \cup {q0}) <= MaxTotalChars
  <2>1. prior \cup {q0} = S
    BY <1>18
  <2> QED BY <2>1, <1>18
<1>23. \/ prior = other
       \/ Cardinality(other) >= MaxContextMessages
       \/ Cardinality(seen) > (IF TopLevel(j) THEN HistoryLimit ELSE reach)
       \/ ~(Size(other \cup {q0}) <= MaxTotalChars)
  <2> SUFFICES ASSUME loaded = found, prior # other, Size(other \cup {q0}) <= MaxTotalChars
               PROVE  Cardinality(other) >= MaxContextMessages
    BY <1>7
  <2>1. W = other \cup {q0}
    BY <1>11 DEF W
  <2>2. N # W
    <3> SUFFICES ASSUME N = W PROVE FALSE
      OBVIOUS
    <3>1. S = W
      BY <2>1, <1>18
    <3> QED BY <3>1, <2>1, <1>14
  <2>3. IsFiniteSet(other) /\ Cardinality(other) \in Nat
    <3>1. other \in SUBSET W
      BY <2>1
    <3> QED BY <3>1, <1>13, FS_Subset, FS_CardinalityType
  <2>4. Cardinality(W) = Cardinality(other) + 1
    BY <2>1, <2>3, <1>14, FS_AddElement
  <2>5. ~(Cardinality(W) <= MaxContextMessages)
    BY <2>2, <1>15
  <2> QED BY <2>3, <2>4, <2>5, <1>4
<1> HIDE DEF prior
<1>24. Prompt(S, ts).question = q0 /\ Prompt(S, ts).prior = prior
  BY <1>19 DEF prior
<1> QED BY <1>5, <1>20, <1>21, <1>22, <1>23, <1>24 DEF other

-----------------------------------------------------------------------------
\* Posts are written one by one.
LEMMA PostedIsFinite == Spec => []IsFiniteSet(Posted)
<1>1. Init => IsFiniteSet(Posted)
  <2>1. Init => Posted = {}
    BY DEF Init, Posted
  <2> QED BY <2>1, FS_EmptySet
<1>2. IsFiniteSet(Posted) /\ [Next]_vars => IsFiniteSet(Posted)'
  <2> SUFFICES ASSUME IsFiniteSet(Posted), [Next]_vars PROVE IsFiniteSet(Posted')
    OBVIOUS
  <2>1. CASE posts' = posts
    <3>1. Posted' = Posted
      BY <2>1 DEF Posted
    <3> QED BY <3>1
  <2>2. CASE \E p \in Post : \E x : posts' = [posts EXCEPT ![p] = x]
    <3>1. PICK p \in Post : \E x : posts' = [posts EXCEPT ![p] = x]
      BY <2>2
    <3>2. Posted' \in SUBSET (Posted \cup {p})
      BY <3>1 DEF Posted
    <3>3. IsFiniteSet(Posted \cup {p})
      BY FS_AddElement
    <3> QED BY <3>2, <3>3, FS_Subset
  <2> QED BY <2>1, <2>2
          DEF Next, vars, Deploy, VerifyUrl, Write, SlackDelivers, OthersSend, Answer
<1> QED BY <1>1, <1>2, PTL DEF Spec

\* The model is asked the question of the job, with earlier words of people of the same
\* conversation, the newest that fit, whatever Slack returns of it (slack-worker-core.ts,
\* selectUserContext; slack-api.ts).
THEOREM AskedInContext == Spec => []ContextIsTheConversation
<1>1. IInv /\ IsFiniteSet(Posted) => ContextIsTheConversation
  BY PromptIsTheConversation DEF ContextIsTheConversation
<1> QED BY <1>1, Invariance, PostedIsFinite, PTL
=============================================================================
