---------------------------- MODULE SlackIngress ----------------------------
(***************************************************************************)
(* What becomes a job of the Slack agent: posts in Slack, the events Slack *)
(* emits for them, the HTTP requests that reach the ingress Lambda         *)
(* (functions/slack-ingress/handler.ts), its decision table                *)
(* (shared/public/slack-verify.ts and slack-ingress-core.ts) and the       *)
(* answers the worker posts, which Slack reports like any other post.      *)
(*                                                                         *)
(* SlackDelivery follows a job from here through queue and worker; here    *)
(* the queue is the set of the jobs it has accepted.                       *)
(***************************************************************************)
EXTENDS FiniteSets

CONSTANTS
  Post,        \* posts; a post is also its `ts'
  NoPost,      \* no thread_ts; also: not posted yet
  Wordings,    \* what people and other bots may write, of the set Wording
  Unsigned     \* requests without a signature of Slack, of the set Request

Channel == {"listed", "unlisted", "im"}  \* in ALLOWED_CHANNEL_IDS or not; a direct message

Flaw == {"none", "noText", "mentionOnly", "subtype", "shared"}

Wording == [channel : Channel,
            by      : {"person", "app"},     \* app: another bot
            mention : BOOLEAN,               \* <@EXPECTED_BOT_USER_ID>
            flaw    : Flaw]

\* tagged: the event has a bot_id, as posts of other bots always do.
Content ==
  {c \in [channel : Channel, by : {"person", "app", "self"}, mention : BOOLEAN,
          flaw : Flaw, tagged : BOOLEAN, thread : Post \cup {NoPost}] :
     c.by = "app" => c.tagged}

\* sig "right" is the HMAC of this stamp and these bytes under the signing secret.
Request == [body : {"absent", "notBase64", "notUtf8", "bytes"},
            stamp : {"absent", "malformed", "outOfRange", "recent"},
            sig : {"absent", "other", "right"}]

ASSUME PostAssumption == NoPost \notin Post /\ NoPost \notin Content

ASSUME InputAssumption ==
  /\ Wordings \subseteq Wording
  /\ Unsigned \subseteq {r \in Request : r.sig # "right"}

VARIABLES
  config,    \* environment of the deployed ingress
  verified,  \* Slack has accepted the Request URL and sends events
  posts,     \* what has been posted
  acked,     \* events for which Slack saw a 2xx: it does not resend them
  queue,     \* jobs that the SQS queue has accepted
  answered   \* posts that the worker has answered

vars == <<config, verified, posts, acked, queue, answered>>

-----------------------------------------------------------------------------
(* Posts and the events Slack emits for them.                              *)

Posted == {p \in Post : posts[p] # NoPost}

EventType == {"message", "app_mention"}

\* An event_callback of the post p. typed: channel_type is there.
Event(p, type, content, typed) ==
  [post |-> p, type |-> type, content |-> content, typed |-> typed]

\* Slack sends `message' for every post of a channel it is subscribed to and, under
\* another event_id and with or without channel_type, `app_mention' for a mention.
EmittedMessages == {Event(p, "message", posts[p], TRUE) : p \in Posted}

EmittedMentions ==
  UNION {{Event(p, "app_mention", posts[p], t) : t \in BOOLEAN} :
           p \in {q \in Posted : posts[q].mention}}

Emitted == EmittedMessages \cup EmittedMentions

EventId(e) == <<e.post, e.type>>

-----------------------------------------------------------------------------
(* The decision table.                                                     *)

\* verifySlackRequestSignature; whatever is wrong is a 401.
Signed(r) == r.body = "bytes" /\ r.stamp = "recent" /\ r.sig = "right"

\* validateSlackEvent for event_callback, after the app and the team have matched.
ChannelType(e) == IF ~e.typed THEN "none"
                  ELSE IF e.content.channel = "im" THEN "im" ELSE "channel"

OwnKindTag(e) == e.content.by = "self" \/ e.content.flaw = "subtype"

OwnKind(e) == e.content.tagged \/ e.content.flaw = "subtype" \/ e.content.by = "self"

\* The free edition has no DM-only trust class (requiresLiteSlackDirectMessage).
AdmitsAnyType(e) == ChannelType(e) = "im" \/ (e.content.channel = "listed" /\ e.content.mention)
AdmitsMentions(e) == e.type = "app_mention" /\ e.content.channel # "unlisted"

Admits(e) ==
  IF ChannelType(e) = "im"
  THEN e.type = "message"
  ELSE e.type = "app_mention" /\ e.content.channel = "listed"

Verdict(e) ==
  IF e.content.flaw = "shared" \/ OwnKind(e) THEN "ignored"
  ELSE IF e.content.flaw = "noText" THEN "rejected"             \* a 400
  ELSE IF Admits(e) /\ e.content.flaw # "mentionOnly" THEN "job"
  ELSE "ignored"

-----------------------------------------------------------------------------
(* The job, its message group, and what the worker makes of it.            *)

JobChannelType(e) == IF ChannelType(e) = "im" THEN "im" ELSE "channel"

ThreadTs(e) ==
  IF e.content.thread # NoPost THEN e.content.thread
  ELSE IF JobChannelType(e) = "im" THEN NoPost ELSE e.post

GroupPerPost(j) == <<j.channel, IF j.threadTs # NoPost THEN j.threadTs ELSE j.post>>

\* effectiveThreadKey: a direct message without a thread is one conversation.
Group(j) ==
  IF j.threadTs # NoPost THEN <<j.channel, j.threadTs>>
  ELSE IF j.channelType = "im" THEN <<j.channel, NoPost>>
  ELSE <<j.channel, j.post>>

\* One per event: the queue and the claim store know it by EventId.
Job(e) == [post |-> e.post, type |-> e.type, channel |-> e.content.channel,
           channelType |-> JobChannelType(e), threadTs |-> ThreadTs(e)]

\* loadConversationMessages: the conversation the model is shown.
HistoryOf(j) ==
  IF j.threadTs # NoPost THEN <<j.channel, j.threadTs>>
  ELSE IF j.channelType = "im" THEN <<j.channel, NoPost>>
  ELSE <<j.channel, j.post>>

\* processJob: the thread_ts of the answer.
AnswerThread(j) ==
  IF j.channelType = "im" \/ j.threadTs # NoPost THEN j.threadTs ELSE j.post

-----------------------------------------------------------------------------
Init ==
  /\ config = "missing" /\ verified = FALSE
  /\ posts = [p \in Post |-> NoPost]
  /\ acked = {} /\ queue = {} /\ answered = {}

\* A deployment; loadIngressEnvironment answers 503 until every variable is set.
Deploy ==
  /\ config' \in {"missing", "otherApp", "ours"}
  /\ UNCHANGED <<verified, posts, acked, queue, answered>>

\* url_verification carries no app or team id, only a signature.
VerifyUrl ==
  /\ config # "missing"
  /\ verified' = TRUE
  /\ UNCHANGED <<config, posts, acked, queue, answered>>

Roots(ch) == {p \in Posted : posts[p].channel = ch /\ posts[p].thread = NoPost}

Text(w, t) == [channel |-> w.channel, by |-> w.by, mention |-> w.mention,
               flaw |-> w.flaw, tagged |-> (w.by = "app"), thread |-> t]

\* Somebody else than this bot writes, on the top level or in a thread.
Write(p) ==
  /\ p \notin Posted
  /\ \E w \in Wordings : \E t \in Roots(w.channel) \cup {NoPost} :
       posts' = [posts EXCEPT ![p] = Text(w, t)]
  /\ UNCHANGED <<config, verified, acked, queue, answered>>

Accepts(r, e) == config = "ours" /\ Signed(r) /\ Verdict(e) = "job"

Ignores(r, e) == config = "ours" /\ Signed(r) /\ Verdict(e) = "ignored"

AckedIf(e, ok) == acked' = IF ok THEN acked \cup {EventId(e)} ELSE acked

\* enqueue: a send that failed or ran into its timeout is a 503, but the queue may
\* have accepted it all the same.
Enqueue(e) ==
  \E outcome \in {"accepted", "aborted", "failed"} :
    /\ queue' = IF outcome = "failed" THEN queue ELSE queue \cup {Job(e)}
    /\ AckedIf(e, outcome = "accepted")

\* handler and runSlackIngress on a request r with the event e.
Handle(r, e) ==
  \/ Accepts(r, e) /\ Enqueue(e)
  \/ Ignores(r, e) /\ AckedIf(e, TRUE) /\ UNCHANGED queue
  \/ /\ ~Accepts(r, e) /\ ~Ignores(r, e)                    \* 400 ... 503
     /\ AckedIf(e, FALSE) /\ UNCHANGED queue

\* Slack delivers an event, or delivers it again because it saw no 2xx. The request
\* is signed; it may come late.
SlackDelivers(e) ==
  /\ verified /\ EventId(e) \notin acked
  /\ \E stamp \in {"recent", "outOfRange"} :
       Handle([body |-> "bytes", stamp |-> stamp, sig |-> "right"], e)
  /\ UNCHANGED <<config, verified, posts, answered>>

\* The same handler on a request that Slack has not signed, with the body of an event
\* of a post p as it may or may not be; Slack does not see the reply.
OthersSend(r, e) ==
  /\ queue' = IF Accepts(r, e) THEN queue \cup {Job(e)} ELSE queue
  /\ UNCHANGED <<config, verified, posts, acked, answered>>

\* The worker answers a job: one more post, and more events about it. The text is
\* generated and may mention anybody.
Answer(j, p) ==
  /\ j \notin answered /\ p \notin Posted
  /\ answered' = answered \cup {j}
  /\ \E tagged, mention \in BOOLEAN :
       posts' = [posts EXCEPT ![p] =
         [channel |-> j.channel, by |-> "self", mention |-> mention, flaw |-> "none",
          tagged |-> tagged, thread |-> AnswerThread(j)]]
  /\ UNCHANGED <<config, verified, acked, queue>>

Next ==
  \/ Deploy
  \/ VerifyUrl
  \/ \E p \in Post : Write(p)
  \/ \E e \in Emitted : SlackDelivers(e)
  \/ \E r \in Unsigned, p \in Post, type \in EventType, w \in Wordings :
       OthersSend(r, Event(p, type, Text(w, NoPost), TRUE))
  \/ \E j \in queue, p \in Post : Answer(j, p)

Spec == Init /\ [][Next]_vars

-----------------------------------------------------------------------------
(* Invariants.                                                             *)

TypeOK ==
  /\ config \in {"missing", "otherApp", "ours"} /\ verified \in BOOLEAN
  /\ posts \in [Post -> Content \cup {NoPost}]
  /\ acked \subseteq Post \X EventType
  /\ answered \subseteq queue

\* README.md of the repository, Slack setup: who gets an answer.
Wanted(c) ==
  /\ c.by = "person" /\ ~c.tagged /\ c.flaw = "none"
  /\ c.channel = "im" \/ (c.channel = "listed" /\ c.mention)

\* The event that carries a wanted post.
Carrier(p) ==
  IF posts[p].channel = "im"
  THEN Event(p, "message", posts[p], TRUE)
  ELSE Event(p, "app_mention", posts[p], FALSE)

QueueInv ==
  \A j \in queue : j.post \in Posted /\ Wanted(posts[j.post]) /\ j = Job(Carrier(j.post))

AckInv ==
  /\ \A id \in acked : id[1] \in Posted
  /\ \A p \in Posted :
       Wanted(posts[p]) /\ EventId(Carrier(p)) \in acked => Job(Carrier(p)) \in queue

\* What Slack shows as one conversation: a thread, or the top level of a direct message.
ConversationOf(p) ==
  IF posts[p].thread # NoPost THEN <<posts[p].channel, posts[p].thread>>
  ELSE IF posts[p].channel = "im" THEN <<"im", NoPost>>
  ELSE <<posts[p].channel, p>>

AnswerInv ==
  \A q \in Posted : posts[q].by = "self" =>
    \E j \in answered : Group(j) = ConversationOf(q)

\* Inductive.
IInv == TypeOK /\ QueueInv /\ AckInv /\ AnswerInv

\* Slack reports one post under several event ids, each of them again and again, and
\* neither the queue nor the claim store can tell that they belong together: the
\* ingress alone must see to it that a post becomes at most one job.
OneJobPerPost == \A j, k \in queue : j.post = k.post => j = k

\* Only what a person has written to the agent is answered; not what the agent or
\* another bot has written, whose answers would be answered in turn, and not what
\* Slack has never reported.
OnlyPeopleAreAnswered ==
  \A j \in queue : j.post \in Posted /\ Wanted(posts[j.post])

\* When Slack has been told that every event of a wanted post has arrived, the post
\* is in the queue: no reply of the ingress drops it.
WantedIsQueued ==
  \A p \in Posted :
    Wanted(posts[p]) /\ (\A e \in Emitted : e.post = p => EventId(e) \in acked)
      => \E j \in queue : j.post = p

\* Three places decide what one conversation is: the message group of the ingress
\* (which serialises it), the history that the worker loads and the thread that it
\* answers in. For every job all three are the conversation that Slack shows, and the
\* answer stands in the conversation of the question.
GroupsAreConversations ==
  /\ \A j \in queue : Group(j) = ConversationOf(j.post) /\ HistoryOf(j) = Group(j)
  /\ AnswerInv
=============================================================================
