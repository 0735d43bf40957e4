----------------------------- MODULE SlackContext -----------------------------
(***************************************************************************)
(* What the model of the Slack agent is shown of a conversation: the       *)
(* history that the worker fetches for a job                               *)
(* (slack-worker-core.ts, shared/public/slack-api.ts) and the words of it  *)
(* that it keeps.                                                          *)
(*                                                                         *)
(* The functions here are evaluated for every job that SlackIngress can    *)
(* put into the queue, at any later moment, whatever part of the history   *)
(* Slack returns by then.                                                  *)
(***************************************************************************)
EXTENDS SlackIngress, Integers, FiniteSetsExt

CONSTANTS
  MaxContextMessages,  \* MAX_CONTEXT_MESSAGES
  MaxMessageChars,     \* MAX_CONTEXT_MESSAGE_CHARS
  MaxTotalChars,       \* MAX_TOTAL_CONTEXT_CHARS
  HistoryLimit,        \* SLACK_HISTORY_FETCH_LIMIT
  PageSize,            \* SLACK_REPLIES_PAGE_SIZE
  MaxPages,            \* MAX_SLACK_REPLIES_PAGES
  Chars(_)             \* the length of a text without the mention

ASSUME ContextAssumption ==
  /\ {MaxContextMessages, MaxMessageChars, HistoryLimit, PageSize, MaxPages} \subseteq Nat \ {0}
  /\ MaxTotalChars \in Nat

-----------------------------------------------------------------------------
(* The Slack Web API.                                                       *)

\* conversations.replies returns a thread with its root, conversations.history the
\* top level of a direct message.
ConversationPosts(j) ==
  LET conversation == HistoryOf(j)
  IN {p \in Posted :
        /\ posts[p].channel = j.channel
        /\ IF conversation[2] = NoPost THEN posts[p].thread = NoPost
           ELSE p = conversation[2] \/ posts[p].thread = conversation[2]}

\* The ts of the posts: no two are the same, and a reply comes after its root.
Timestamps(shown) ==
  {ts \in Injection(shown, 1..Cardinality(shown)) :
     \A p, q \in shown : posts[q].thread = p => ts[p] < ts[q]}

\* The posts of a set that are not older than the post p, or not newer.
Since(s, ts, p) == {q \in s : ts[q] >= ts[p]}
UpTo(s, ts, p) == {q \in s : ts[q] <= ts[p]}

Newest(s, ts, n) == {p \in s : Cardinality(Since(s, ts, p)) <= n}

\* How many posts the pages up to the last one that is asked for may hold: Slack fills
\* a page with at most PageSize.
Reaches == MaxPages..(MaxPages * PageSize)

\* Mutant: what has been collected is kept when the pages do not reach the end.
OldestPages(found, ts, reach) == {p \in found : Cardinality(UpTo(found, ts, p)) <= reach}

\* getReplies: oldest page first; nothing when the pages do not reach the end.
AllPages(found, ts, reach) == IF Cardinality(found) <= reach THEN found ELSE {}

\* getHistory: one page, newest first.
NewestPage(found, ts) == Newest(found, ts, HistoryLimit)

TopLevel(j) == HistoryOf(j)[2] = NoPost

\* seen: what Slack returns by now of what has been posted; latest = job.ts, inclusive.
LoadConversation(j, ts, seen, reach) ==
  LET found == UpTo(seen, ts, j.post)
  IN IF TopLevel(j) THEN NewestPage(found, ts) ELSE AllPages(found, ts, reach)

-----------------------------------------------------------------------------
(* selectUserContext: a map from ts to texts, sorted by ts                 *)

\* A person's words: a user, no bot, no app, no subtype, and text beside the mention.
HasWords(c) == c.by = "person" /\ ~c.tagged /\ c.flaw \notin {"subtype", "noText", "mentionOnly"}

Truncated(p) == IF Chars(posts[p]) <= MaxMessageChars THEN Chars(posts[p]) ELSE MaxMessageChars

Size(s) == MapThenSumSet(Truncated, s)

\* Old messages are dropped while the rest is too long; the question stays.
Shed(s, ts) ==
  LET stops(p) == Since(s, ts, p) = {p} \/ Size(Since(s, ts, p)) <= MaxTotalChars
  IN Since(s, ts, CHOOSE p \in s : stops(p) /\ \A q \in s : ts[q] < ts[p] => ~stops(q))

\* The question is taken from the job, whether or not Slack returned it, and takes its
\* place by its ts.
UserContext(j, ts, seen, reach) ==
  LET words == {p \in LoadConversation(j, ts, seen, reach) : HasWords(posts[p])}
  IN Shed(Newest(words \cup {j.post}, ts, MaxContextMessages), ts)

\* buildUserPrompt: the last message is the question, the others are what was said before.
Prompt(context, ts) ==
  LET last == CHOOSE p \in context : UpTo(context, ts, p) = context
  IN [question |-> last, prior |-> context \ {last}]

-----------------------------------------------------------------------------
(* Properties                                                              *)

\* The posts that the worker may show to the model with the question of a job.
Relevant(j, ts, seen) ==
  {p \in seen \ {j.post} :
     /\ HasWords(posts[p])
     /\ ConversationOf(p) = ConversationOf(j.post) \/ posts[j.post].thread = p
     /\ ts[p] < ts[j.post]}

\* Whatever Slack returns of a conversation, on however many pages, and whatever
\* is said in it after the question: the model is asked the question of the job,
\* with earlier words of people of the same conversation and nothing else; what is
\* left out is older than what is kept; and nothing is left out without one of the
\* limits having been reached.
ContextIsTheConversation ==
  \A j \in queue :
    LET shown == ConversationPosts(j) IN
    \A ts \in Timestamps(shown), seen \in SUBSET shown, reach \in Reaches :
      LET prompt == Prompt(UserContext(j, ts, seen, reach), ts)
          prior  == prompt.prior
          other  == Relevant(j, ts, seen)
      IN /\ prompt.question = j.post
         /\ prior \subseteq other
         /\ \A p \in prior, q \in other : ts[p] < ts[q] => q \in prior
         /\ prior = {} \/ Size(prior \cup {j.post}) <= MaxTotalChars
         /\ \/ prior = other
            \/ Cardinality(other) >= MaxContextMessages
            \/ Cardinality(seen) > (IF TopLevel(j) THEN HistoryLimit ELSE reach)
            \/ ~(Size(other \cup {j.post}) <= MaxTotalChars)
=============================================================================
