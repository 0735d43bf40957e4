-------------------------------- MODULE ChatUi --------------------------------
(***************************************************************************)
(* The chat page (faq/app.js): tabs of one browser, each with its history  *)
(* in memory, that share one history in localStorage.                      *)
(*                                                                         *)
(* A handler of an event of the page runs to its end; the chain of         *)
(* promises behind a response runs in one turn.                            *)
(***************************************************************************)
EXTENDS ChatApi

CONSTANTS
  CanAbort,   \* tabs of browsers that have AbortController
  MaxStored,  \* MAX_STORED_MESSAGES
  Ttl,        \* HISTORY_TTL_MS, in days
  MaxDay      \* bound: the clock

ASSUME UiAssumption ==
  /\ CanAbort \subseteq Tab
  /\ MaxStored \in Nat \ {0} /\ Ttl \in Nat /\ MaxDay \in Nat

VARIABLES
  open,       \* tabs that show the page
  history,    \* what each tab shows and builds its requests from
  busy,       \* sendBtn, inputEl and clearBtn are disabled
  typing,     \* the bubble `answering' is on the page
  timer,      \* the timer that aborts the request is set
  store,      \* localStorage[STORAGE_KEY]
  asked,      \* questions asked so far
  day,
  forgotten   \* history: questions cleared from the last tab and the store

uiVars == <<open, history, busy, typing, timer, store, asked, day, forgotten>>

Nothing == [kind |-> "absent"]
Stored(messages) == [kind |-> "present", savedAt |-> day, messages |-> LastOf(messages, MaxStored)]

UiTypeOK ==
  /\ open \subseteq Tab /\ busy \subseteq open /\ typing \subseteq open /\ timer \subseteq open
  /\ history \in [Tab -> Seq(Message)]
  /\ asked \in 0..MaxQuestions /\ day \in 0..MaxDay /\ forgotten \subseteq Question

UiInit ==
  /\ open = {} /\ history = [t \in Tab |-> <<>>]
  /\ busy = {} /\ typing = {} /\ timer = {}
  /\ store = Nothing /\ asked = 0 /\ day = 0 /\ forgotten = {}
  /\ wire = [t \in Tab |-> NotSent]

\* saveHistory: a store that is full keeps what it has.
Save(messages) == store' \in {store, Stored(messages)}

\* loadHistory
Expired == store.kind = "present" /\ day - store.savedAt > Ttl

Open(t) ==
  /\ t \notin open
  /\ open' = open \cup {t}
  /\ history' = [history EXCEPT ![t] =
       IF store.kind = "present" /\ ~Expired THEN store.messages ELSE <<>>]
  /\ store' = IF Expired THEN Nothing ELSE store
  /\ UNCHANGED <<busy, typing, timer, asked, day, forgotten, wire>>

\* The page is left; its request is cancelled, though not at the server.
Close(t) ==
  /\ t \in open
  /\ open' = open \ {t} /\ history' = [history EXCEPT ![t] = <<>>]
  /\ busy' = busy \ {t} /\ typing' = typing \ {t} /\ timer' = timer \ {t}
  /\ wire' = [wire EXCEPT ![t] = NotSent]
  /\ UNCHANGED <<store, asked, day, forgotten>>

\* Mutant: the answers are sent along.
WholeHistory(messages) == LastOf(messages, MaxContext)

\* buildRequestMessages
BuildRequest(messages) ==
  LastOf(UserMessages(messages), MaxContext)

\* The form is submitted.
Submit(t) ==
  LET shown == Append(history[t], User(asked + 1))
  IN /\ t \in open \ busy
     /\ asked < MaxQuestions
     /\ asked' = asked + 1
     /\ history' = [history EXCEPT ![t] = shown]
     /\ Save(shown)
     /\ busy' = busy \cup {t} /\ typing' = typing \cup {t}
     /\ timer' = IF t \in CanAbort THEN timer \cup {t} ELSE timer
     /\ wire' = [wire EXCEPT ![t] = Sent(BuildRequest(shown))]
     /\ UNCHANGED <<open, day, forgotten>>

\* Mutant: the last link of the chain is skipped when a response is not an answer.
FinishIfAnswered(t) ==
  /\ IF history'[t] # history[t]
     THEN busy' = busy \ {t} /\ typing' = typing \ {t} /\ timer' = timer \ {t}
     ELSE UNCHANGED <<busy, typing>> /\ timer' = timer \ {t}
  /\ wire' = [wire EXCEPT ![t] = NotSent]
  /\ UNCHANGED <<open, asked, day, forgotten>>

\* The last link of the chain, whatever came before.
Finish(t) ==
  /\ busy' = busy \ {t} /\ typing' = typing \ {t} /\ timer' = timer \ {t}
  /\ wire' = [wire EXCEPT ![t] = NotSent]
  /\ UNCHANGED <<open, asked, day, forgotten>>

\* Mutant: whatever has an answer is shown, the technical text of a 500 among it.
ShowsAnyAnswer(response) == response.body.kind = "answer"

\* A response is shown only if it is a 200 with an answer.
Shows(response) == response.status = 200 /\ response.body.kind = "answer"

ReceiveAnswer(t) ==
  /\ wire[t].state = "replied" /\ Shows(wire[t])
  /\ LET shown == Append(history[t], Assistant(wire[t].body.q))
     IN history' = [history EXCEPT ![t] = shown] /\ Save(shown)
  /\ Finish(t)

\* 429, 503, any other status, or a body that is not JSON: a passing note.
ReceiveError(t) ==
  /\ wire[t].state = "replied" /\ ~Shows(wire[t])
  /\ UNCHANGED <<history, store>>
  /\ Finish(t)

\* fetch rejects: the connection is lost.
NetworkFails(t) ==
  /\ wire[t].state # "none"
  /\ UNCHANGED <<history, store>>
  /\ Finish(t)

\* fetch rejects: controller.abort().
Aborts(t) ==
  /\ t \in timer /\ wire[t].state # "none"
  /\ UNCHANGED <<history, store>>
  /\ Finish(t)

\* Mutant: the button works while a question is under way.
MayClearAlways(t) == t \in open

MayClear(t) == t \in open \ busy

\* The page forgets in any case; that the browser does may fail.
Clear(t) ==
  /\ MayClear(t)
  /\ history' = [history EXCEPT ![t] = <<>>]
  /\ store' \in {Nothing, store}
  /\ typing' = typing \ {t}     \* render() builds the page anew
  /\ forgotten' = IF open = {t} /\ store' = Nothing THEN 1..asked ELSE forgotten
  /\ UNCHANGED <<open, busy, timer, asked, day, wire>>

NextDay ==
  /\ day < MaxDay
  /\ day' = day + 1
  /\ UNCHANGED <<open, history, busy, typing, timer, store, asked, forgotten, wire>>

UiNext ==
  \/ \E t \in Tab :
       \/ Open(t) \/ Close(t) \/ Submit(t) \/ Clear(t)
       \/ ReceiveAnswer(t) \/ ReceiveError(t) \/ NetworkFails(t) \/ Aborts(t)
  \/ NextDay

\* A timer of an open page fires.
UiFairness == \A t \in Tab : WF_<<uiVars, wire>>(Aborts(t))
=============================================================================
