--------------------------- MODULE AgentKnowledge ---------------------------
(***************************************************************************)
(* What one warm sandbox of the FAQ function remembers between requests:   *)
(* the profiles of named agents (adapters/free/agent-config.ts) and the    *)
(* corpora of public knowledge entries (adapters/free/simple-retrieval.ts, *)
(* loaded by dynamodb-entries.ts), while operators edit both tables.       *)
(*                                                                         *)
(* A call resolves the agent of its route, then retrieves; a request       *)
(* without an agent only retrieves.  Calls overlap as far as the code lets *)
(* them: one action is the code between two awaits.                        *)
(***************************************************************************)
EXTENDS Integers, FiniteSets

CONSTANTS
  Agent,         \* ids of agents: routes, and scopes of knowledge entries
  Default,       \* the agent `default', whose entries the default route shares
  NoAgent,       \* the default route; also: an entry without agentId
  Off,           \* no profile that may answer
  Rows,          \* rows operators write to the AgentConfig table
  Entry,         \* knowledge entries that are complete: id, topic and answer
  Owner,         \* agentId of each entry
  Call,          \* requests
  NoCall,        \* no load in flight
  ProfileTtl,    \* FAQ_AGENT_PROFILE_CACHE_TTL_MS
  CorpusTtl,     \* cacheTtlMs
  MaxProfiles,   \* FAQ_AGENT_PROFILE_CACHE_MAX_ENTRIES
  MaxCorpora,    \* cacheMaxEntries
  Lifetime,      \* Timeout of the function: it kills the sandbox with the call
  MaxTime,       \* bound of the clock
  MaxEdits       \* bound of the edits of the tables

ASSUME NamesAssumption ==
  /\ Default \in Agent
  /\ NoAgent \notin Agent
  /\ Off \notin Agent \cup {NoAgent}
  /\ Owner \in [Entry -> Agent \cup {NoAgent}]
  /\ NoCall \notin Call
  /\ Rows \subseteq [valid : BOOLEAN, enabled : BOOLEAN, kb : Agent \cup {NoAgent}]

ASSUME BoundsAssumption ==
  /\ ProfileTtl \in Nat \ {0} /\ CorpusTtl \in Nat \ {0}
  /\ MaxProfiles \in Nat \ {0} /\ MaxCorpora \in Nat \ {0}
  /\ Lifetime \in Nat /\ MaxTime \in Nat /\ MaxEdits \in Nat

Scope == Agent \cup {NoAgent}     \* kbAgentId of a retrieval; NoAgent: undefined
Never == -1

VARIABLES
  now,
  row,       \* the AgentConfig table; a row that is missing is not valid
  public,    \* status active and visibility public, by entry
  edits,     \* number of edits so far
  until,     \* history: when a row last stopped saying Off or a scope
  hidden,    \* history: when the entry last stopped being public
  shown,     \* history: when it last became public
  profiles,  \* profileCache
  inserted,  \* its order of insertion: pairs of an agent and a later one
  corpora,   \* cachedByAgent
  used,      \* its order of use, likewise
  loading,   \* loadingByAgent: the call that started the load
  load,      \* the load a call started
  call

tables == <<row, public, edits, until, hidden, shown>>
caches == <<profiles, inserted, corpora, used>>
vars == <<now, tables, caches, loading, load, call>>

-----------------------------------------------------------------------------
(* Helpers                                                                 *)

Keys(cache) == {r.key : r \in cache}

\* What the cache has under the key.
Held(cache, key) == CHOOSE r \in cache : r.key = key

Without(cache, key) == {r \in cache : r.key # key}

Fresh(cache) == {r \in cache : now < r.expiresAt}

\* Room for one more: the expired go, then the oldest.
PrunedTo(cache, order, size) ==
  LET Newer(r) == {q \in Fresh(cache) : <<r.key, q.key>> \in order}
  IN {r \in Fresh(cache) : Cardinality(Newer(r)) < size - 1}

\* Map.set: a key that is there keeps its place, a new one comes last.
Put(cache, r) == Without(cache, r.key) \cup {r}

Among(order, keys) == order \cap (keys \X keys)

LastIn(order, keys, key) ==
  Among(order, keys \ {key}) \cup ((keys \ {key}) \X {key})

PutIn(order, keys, key) ==
  IF key \in keys THEN Among(order, keys) ELSE LastIn(order, keys, key)

\* The scope of knowledge a row gives its agent, if it may answer at all.
Normalized(a, r) ==
  IF ~r.valid \/ ~r.enabled THEN Off ELSE IF r.kb = NoAgent THEN a ELSE r.kb

\* The filter of loadPublicKnowledgeEntries.
InScope(e, scope) ==
  IF scope = NoAgent THEN Owner[e] \in {NoAgent, Default} ELSE Owner[e] = scope

\* A request for the agent, at this point of its handling since `at'.
Request(agent, at, pc, scope) ==
  [pc |-> pc, agent |-> agent, at |-> at, scope |-> scope, on |-> NoCall, has |-> {}]

Load(st, from, todo) ==
  [st |-> st, from |-> from, end |-> 0, todo |-> todo, has |-> {}]

-----------------------------------------------------------------------------
(* The tables: operators edit rows and publish or withdraw entries.        *)

EditRow(a, r) ==
  /\ row[a] # r
  /\ edits < MaxEdits /\ edits' = edits + 1
  /\ row' = [row EXCEPT ![a] = r]
  /\ until' = [until EXCEPT ![a][Normalized(a, row[a])] = now]
  /\ UNCHANGED <<public, hidden, shown, now, caches, loading, load, call>>

EditEntry(e) ==
  /\ edits < MaxEdits /\ edits' = edits + 1
  /\ public' = [public EXCEPT ![e] = ~@]
  /\ IF public[e]
     THEN hidden' = [hidden EXCEPT ![e] = now] /\ UNCHANGED shown
     ELSE shown' = [shown EXCEPT ![e] = now] /\ UNCHANGED hidden
  /\ UNCHANGED <<row, until, now, caches, loading, load, call>>

-----------------------------------------------------------------------------
(* The profile of a named agent                                            *)

StartDefault(c) ==
  /\ call[c].pc = "idle"
  /\ call' = [call EXCEPT ![c] = Request(NoAgent, now, "ready", NoAgent)]
  /\ UNCHANGED <<now, tables, caches, loading, load>>

\* handleNamedAgentRequest with the profile it resolved.
Verdict(scope) == IF scope = Off THEN "notFound" ELSE "ready"

\* resolveAgentProfile up to getItem.
StartNamed(c, a) ==
  LET hit == Held(Fresh(profiles), a).row
      left == PrunedTo(Without(profiles, a), inserted, MaxProfiles)
  IN /\ call[c].pc = "idle"
     /\ IF a \in Keys(Fresh(profiles))
        THEN /\ call' = [call EXCEPT ![c] = Request(a, now, Verdict(hit), hit)]
             /\ UNCHANGED <<profiles, inserted>>
        ELSE /\ call' = [call EXCEPT ![c] = Request(a, now, "reading", Off)]
             /\ profiles' = left
             /\ inserted' = Among(inserted, Keys(left))
     /\ UNCHANGED <<now, tables, corpora, used, loading, load>>

\* DynamoDB serves the GetItem.
ReadRow(c) ==
  /\ call[c].pc = "reading"
  /\ call' = [call EXCEPT ![c].pc = "read",
                          ![c].scope = Normalized(call[c].agent, row[call[c].agent])]
  /\ UNCHANGED <<now, tables, caches, loading, load>>

\* A profile is as old as the lookup that missed.
ProfileExpiresLate(c) == now + ProfileTtl   \* the clock is read after the await

ProfileExpiry(c) == call[c].at + ProfileTtl

\* The reply arrives.
StoreProfile(c) ==
  /\ call[c].pc = "read"
  /\ call' = [call EXCEPT ![c].pc = Verdict(call[c].scope)]
  /\ profiles' = Put(profiles, [key |-> call[c].agent, row |-> call[c].scope,
                                expiresAt |-> ProfileExpiry(c)])
  /\ inserted' = PutIn(inserted, Keys(profiles), call[c].agent)
  /\ UNCHANGED <<now, tables, corpora, used, loading, load>>

\* The read fails: answered like an agent that does not exist, nothing is kept.
ReadFails(c) ==
  /\ call[c].pc \in {"reading", "read"}
  /\ call' = [call EXCEPT ![c].pc = "unread"]
  /\ UNCHANGED <<now, tables, caches, loading, load>>

-----------------------------------------------------------------------------
(* The corpus                                                              *)

\* loadCorpus up to the await: the cached corpus, or a load that is shared.
Retrieve(c) ==
  LET k == call[c].scope
      kept == Fresh(corpora)
  IN /\ call[c].pc = "ready"
     /\ IF k \in Keys(kept)
        THEN /\ call' = [call EXCEPT ![c].pc = "answered",
                                     ![c].has = Held(kept, k).has]
             /\ used' = LastIn(used, Keys(kept), k)
             /\ UNCHANGED <<loading, load>>
        ELSE LET starter == IF loading[k] = NoCall THEN c ELSE loading[k]
             IN /\ call' = [call EXCEPT ![c].pc = "waiting", ![c].on = starter]
                /\ loading' = [loading EXCEPT ![k] = starter]
                /\ load' = IF starter # c THEN load
                           ELSE [load EXCEPT ![c] = Load("running", now, Entry)]
                /\ used' = Among(used, Keys(kept))
     /\ corpora' = kept
     /\ UNCHANGED <<now, tables, profiles, inserted>>

\* DynamoDB serves the next page of scanAll: here a page is an entry.
ScanPage(c, e) ==
  /\ load[c].st = "running" /\ e \in load[c].todo
  /\ load' = [load EXCEPT ![c].todo = @ \ {e},
                          ![c].has = IF public[e] /\ InScope(e, call[c].scope)
                                     THEN @ \cup {e} ELSE @]
  /\ UNCHANGED <<now, tables, caches, loading, call>>

\* The promise of the load settles: after the last page, or on a failed one.
Settle(c, st) ==
  /\ load[c].st = "running"
  /\ st = "loaded" => load[c].todo = {}
  /\ load' = [load EXCEPT ![c].st = st, ![c].end = now]
  /\ UNCHANGED <<now, tables, caches, loading, call>>

\* cacheCorpus of what the call waited for.
CacheCorpus(c) ==
  LET left == PrunedTo(corpora, used, MaxCorpora)
      done == load[call[c].on]
  IN /\ corpora' = Put(left, [key |-> call[c].scope, has |-> done.has,
                              from |-> done.from, expiresAt |-> now + CorpusTtl])
     /\ used' = PutIn(used, Keys(left), call[c].scope)

ReleasedOnSuccess(c) ==   \* without the finally
  IF load[call[c].on].st = "failed" THEN loading
  ELSE [loading EXCEPT ![call[c].scope] = NoCall]

\* The finally of loadCorpus: only the load it waited for is taken off.
Released(c) ==
  [loading EXCEPT ![call[c].scope] = IF @ = call[c].on THEN NoCall ELSE @]

\* A call that waited for a load goes on.
Resume(c) ==
  /\ call[c].pc = "waiting"
  /\ load[call[c].on].st = "loaded"
  /\ call' = [call EXCEPT ![c].pc = "answered", ![c].on = NoCall,
                          ![c].has = load[call[c].on].has]
  /\ CacheCorpus(c)
  /\ loading' = Released(c)
  /\ UNCHANGED <<now, tables, profiles, inserted, load>>

ResumeFailed(c) ==
  /\ call[c].pc = "waiting"
  /\ load[call[c].on].st = "failed"
  /\ call' = [call EXCEPT ![c].pc = "failed", ![c].on = NoCall]
  /\ loading' = Released(c)
  /\ UNCHANGED <<now, tables, caches, load>>

-----------------------------------------------------------------------------
Running == {c \in Call : call[c].pc \in {"reading", "read", "ready", "waiting"}}

\* Lambda stops the sandbox, with everything it remembers and every call in it.
Killed ==
  /\ Running # {}
  /\ profiles' = {} /\ inserted' = {} /\ corpora' = {} /\ used' = {}
  /\ loading' = [k \in Scope |-> NoCall]
  /\ load' = [c \in Call |-> Load("none", 0, {})]
  /\ call' = [c \in Call |-> IF c \in Running THEN [call[c] EXCEPT !.pc = "killed", !.on = NoCall]
                             ELSE call[c]]
  /\ UNCHANGED <<now, tables>>

\* Time passes while no call outlives the function's timeout; a load that has
\* settled wakes its calls at once.
Tick ==
  /\ now < MaxTime
  /\ \A c \in Running : now < call[c].at + Lifetime
  /\ \A c \in Running : call[c].pc = "waiting" => load[call[c].on].st = "running"
  /\ now' = now + 1
  /\ UNCHANGED <<tables, caches, loading, load, call>>

Init ==
  /\ now = 0
  /\ row \in [Agent -> Rows]
  /\ public \in [Entry -> BOOLEAN]
  /\ edits = 0
  /\ until = [a \in Agent |-> [v \in Agent \cup {Off} |-> Never]]
  /\ hidden = [e \in Entry |-> Never]
  /\ shown = [e \in Entry |-> Never]
  /\ profiles = {} /\ inserted = {} /\ corpora = {} /\ used = {}
  /\ loading = [k \in Scope |-> NoCall]
  /\ load = [c \in Call |-> Load("none", 0, {})]
  /\ call = [c \in Call |-> Request(NoAgent, 0, "idle", Off)]

Next ==
  \/ \E a \in Agent, r \in Rows : EditRow(a, r)
  \/ \E e \in Entry : EditEntry(e)
  \/ \E c \in Call : StartDefault(c)
  \/ \E c \in Call, a \in Agent : StartNamed(c, a)
  \/ \E c \in Call : ReadRow(c)
  \/ \E c \in Call : StoreProfile(c)
  \/ \E c \in Call : ReadFails(c)
  \/ \E c \in Call : Retrieve(c)
  \/ \E c \in Call, e \in Entry : ScanPage(c, e)
  \/ \E c \in Call, st \in {"loaded", "failed"} : Settle(c, st)
  \/ \E c \in Call : Resume(c)
  \/ \E c \in Call : ResumeFailed(c)
  \/ Killed
  \/ Tick

Spec == Init /\ [][Next]_vars

-----------------------------------------------------------------------------
(* Properties                                                              *)

\* A request is served, or refused, on a profile row that was in the table less
\* than ProfileTtl before the request (agent-config.ts).
RowIsRecent ==
  \A c \in Call :
    /\ call[c].pc \in {"ready", "waiting", "answered", "notFound"}
    /\ call[c].agent # NoAgent
    => \/ call[c].scope = Normalized(call[c].agent, row[call[c].agent])
       \/ until[call[c].agent][call[c].scope] + ProfileTtl > call[c].at

\* An answer draws only on entries of the scope of its request, and on none that
\* was withdrawn CorpusTtl and one function timeout before the request.
WithdrawnIsGone ==
  \A c \in Call : call[c].pc = "answered" =>
    \A e \in call[c].has :
      /\ InScope(e, call[c].scope)
      /\ public[e] \/ hidden[e] + Lifetime + CorpusTtl > call[c].at

\* ... and misses no entry of its scope that has been public for that long.
PublishedIsThere ==
  \A c \in Call : call[c].pc = "answered" =>
    \A e \in Entry :
      /\ InScope(e, call[c].scope) /\ public[e]
      /\ shown[e] + Lifetime + CorpusTtl <= call[c].at
      => e \in call[c].has

\* What a warm sandbox serves is as old as its two TTLs allow, whatever loads
\* overlap, fail, are shared or are cut off.
WhatIsServedIsRecent == RowIsRecent /\ WithdrawnIsGone /\ PublishedIsThere

\* A load that failed fails the calls that were there to wait for it, and no
\* later one (the finally of loadCorpus).
FailuresDoNotStick ==
  [][\A c \in Call :
       call[c].pc = "waiting" /\ call'[c].pc = "failed"
       => load[call[c].on].end >= call[c].at]_vars

-----------------------------------------------------------------------------
(* The inductive invariant                                                 *)

TypeOK ==
  /\ now \in Nat /\ edits \in Nat
  /\ row \in [Agent -> Rows]
  /\ public \in [Entry -> BOOLEAN]
  /\ until \in [Agent -> [Agent \cup {Off} -> Int]]
  /\ hidden \in [Entry -> Int] /\ shown \in [Entry -> Int]
  /\ profiles \subseteq [key : Agent, row : Agent \cup {Off}, expiresAt : Nat]
  /\ corpora \subseteq [key : Scope, has : SUBSET Entry, from : Nat, expiresAt : Nat]
  /\ loading \in [Scope -> Call \cup {NoCall}]
  /\ load \in [Call -> [st : {"none", "running", "loaded", "failed"}, from : Nat,
                       end : Nat, todo : SUBSET Entry, has : SUBSET Entry]]
  /\ call \in [Call -> [pc : {"idle", "reading", "read", "ready", "waiting", "answered",
                             "notFound", "unread", "failed", "killed"},
                       agent : Scope, at : Nat, scope : Scope \cup {Off},
                       on : Call \cup {NoCall}, has : SUBSET Entry]]

\* The row said v at some time not before t.
SaidSince(a, v, t) == Normalized(a, row[a]) = v \/ until[a][v] >= t

\* What a scan that began at `from' has collected, `todo' not yet being read.
Truthful(has, todo, scope, from) ==
  /\ \A e \in has : InScope(e, scope) /\ (public[e] \/ hidden[e] >= from)
  /\ \A e \in Entry \ todo :
       InScope(e, scope) /\ public[e] /\ shown[e] < from => e \in has

ProfilesOK ==
  \A r \in profiles : /\ r.expiresAt - ProfileTtl <= now
                       /\ SaidSince(r.key, r.row, r.expiresAt - ProfileTtl)

CorporaOK ==
  \A r \in corpora : /\ r.from <= now
                      /\ r.expiresAt <= r.from + Lifetime + CorpusTtl
                      /\ Truthful(r.has, {}, r.key, r.from)

Waits(c) == call[c].pc = "waiting"

\* The call that started the load that others may join still waits for it.
LoadingOK ==
  \A k \in Scope : loading[k] # NoCall =>
    /\ Waits(loading[k])
    /\ call[loading[k]].on = loading[k]
    /\ call[loading[k]].scope = k

LoadsOK ==
  \A c \in Call : load[c].st # "none" =>
    /\ call[c].pc \in {"waiting", "answered", "failed", "killed"}
    /\ call[c].at <= load[c].from /\ load[c].from <= now
    /\ Truthful(load[c].has, load[c].todo, call[c].scope, load[c].from)
    /\ load[c].st = "loaded" => load[c].todo = {}
    /\ load[c].st = "running" => Waits(c) /\ call[c].on = c

WaitersOK ==
  \A c \in Call : Waits(c) =>
    /\ call[c].on \in Call
    /\ load[call[c].on].st # "none"
    /\ call[call[c].on].scope = call[c].scope
    /\ now <= load[call[c].on].from + Lifetime
    /\ load[call[c].on].st # "running" => load[call[c].on].end = now

CallsOK ==
  \A c \in Call :
    /\ call[c].at <= now
    /\ call[c].pc \in {"ready", "waiting", "answered"} => call[c].scope \in Scope
    /\ call[c].pc \in {"reading", "read"} => call[c].agent \in Agent
    /\ call[c].pc = "read" => /\ call[c].scope \in Agent \cup {Off}
                             /\ SaidSince(call[c].agent, call[c].scope, call[c].at)
    /\ call[c].agent # NoAgent => call[c].scope # NoAgent

IInv ==
  /\ TypeOK
  /\ ProfilesOK /\ CorporaOK /\ LoadingOK /\ LoadsOK /\ WaitersOK /\ CallsOK
  /\ RowIsRecent /\ WithdrawnIsGone /\ PublishedIsThere
=============================================================================
