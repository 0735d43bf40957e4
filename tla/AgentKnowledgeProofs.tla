------------------------ MODULE AgentKnowledgeProofs ------------------------
(***************************************************************************)
(* Proofs about the two modules that model what a warm container caches by *)
(* agent, AgentKnowledge and AgentCache.                                   *)
(*                                                                         *)
(* AgentKnowledge, for any agents, entries, calls, TTLs and cache sizes:   *)
(* the invariant says what a load in flight and a cached corpus know of    *)
(* the tables (Truthful), and that the call which started a load that      *)
(* others may join is still waiting for it, so that no load is older than  *)
(* the timeout of the function.                                            *)
(*                                                                         *)
(* AgentCache, whose names are apart from those of AgentKnowledge, for any *)
(* agents, callers, TTL and size: the invariant ties an entry and a        *)
(* registered load to the last write of the agent, and a call to a load    *)
(* that is no older than the call; it makes the cache a register.          *)
(***************************************************************************)
EXTENDS AgentKnowledge, AgentCache, FiniteSetTheorems, SequenceTheorems, TLAPS

USE DEF Scope

\* What was said lately is still said lately after an edit of a row.
LEMMA SaidKept ==
  ASSUME TypeOK, NEW a \in Agent, NEW r \in Rows, EditRow(a, r),
         NEW b \in Agent, NEW v \in Agent \cup {Off}, NEW t \in Int, t <= now,
         SaidSince(b, v, t)
  PROVE  Normalized(b, row'[b]) = v \/ until'[b][v] >= t
<1>1. row' = [row EXCEPT ![a] = r] /\ until' = [until EXCEPT ![a][Normalized(a, row[a])] = now]
  BY DEF EditRow
<1>2. row \in [Agent -> Rows] /\ until \in [Agent -> [Agent \cup {Off} -> Int]] /\ now \in Nat
  BY DEF TypeOK
<1>3. CASE b # a
  <2>1. row'[b] = row[b] /\ until'[b] = until[b]
    BY <1>1, <1>2, <1>3
  <2> QED BY <2>1 DEF SaidSince, Normalized
<1>4. CASE b = a /\ v = Normalized(a, row[a])
  <2>1. until'[a][v] = now
    BY <1>1, <1>2, <1>4
  <2> QED BY <2>1, <1>4 DEF SaidSince
<1>5. CASE b = a /\ v # Normalized(a, row[a])
  <2>1. until'[a][v] = until[a][v]
    BY <1>1, <1>2, <1>5
  <2>2. until[a][v] >= t
    BY <1>5 DEF SaidSince
  <2> QED BY <2>1, <2>2, <1>5 DEF SaidSince
<1> QED BY <1>3, <1>4, <1>5

\* RowIsRecent in the terms of the invariant.
LEMMA RecentIsSaid ==
  ASSUME TypeOK, CallsOK, NEW c \in Call, call[c].agent # NoAgent
  PROVE  /\ (\/ call[c].scope = Normalized(call[c].agent, row[call[c].agent])
             \/ until[call[c].agent][call[c].scope] + ProfileTtl > call[c].at)
              <=> SaidSince(call[c].agent, call[c].scope, call[c].at - ProfileTtl + 1)
         /\ call[c].agent \in Agent /\ call[c].scope \in Agent \cup {Off}
         /\ call[c].at - ProfileTtl + 1 \in Int /\ call[c].at - ProfileTtl + 1 <= now
<1>1. call[c].agent \in Agent /\ call[c].scope \in Agent \cup {Off}
  BY DEF TypeOK, CallsOK
<1>2. until[call[c].agent][call[c].scope] \in Int
  BY <1>1 DEF TypeOK
<1>3. call[c].at \in Nat /\ call[c].at <= now /\ now \in Nat
  BY DEF TypeOK, CallsOK
<1> QED BY <1>1, <1>2, <1>3, BoundsAssumption DEF SaidSince

\* A scan stays truthful while entries are published and withdrawn.
LEMMA TruthfulKept ==
  ASSUME TypeOK, NEW x \in Entry, EditEntry(x),
         NEW has \in SUBSET Entry, NEW todo \in SUBSET Entry, NEW scope, NEW from \in Nat,
         from <= now, Truthful(has, todo, scope, from)
  PROVE  /\ \A e \in has : InScope(e, scope) /\ (public'[e] \/ hidden'[e] >= from)
         /\ \A e \in Entry \ todo :
              InScope(e, scope) /\ public'[e] /\ shown'[e] < from => e \in has
<1>1. public' = [public EXCEPT ![x] = ~@]
  BY DEF EditEntry
<1>2. /\ public[x] => hidden' = [hidden EXCEPT ![x] = now] /\ shown' = shown
      /\ ~public[x] => shown' = [shown EXCEPT ![x] = now] /\ hidden' = hidden
  BY DEF EditEntry
<1>3. public \in [Entry -> BOOLEAN] /\ hidden \in [Entry -> Int] /\ shown \in [Entry -> Int]
      /\ now \in Nat
  BY DEF TypeOK
<1>4. ASSUME NEW e \in has
      PROVE  InScope(e, scope) /\ (public'[e] \/ hidden'[e] >= from)
  <2>1. InScope(e, scope) /\ (public[e] \/ hidden[e] >= from)
    BY DEF Truthful
  <2>2. CASE e # x
    <3>1. public'[e] = public[e] /\ hidden'[e] = hidden[e]
      BY <1>1, <1>2, <1>3, <2>2
    <3> QED BY <2>1, <3>1
  <2>3. CASE e = x /\ public[x]
    <3>1. hidden'[e] = now
      BY <1>2, <1>3, <2>3
    <3> QED BY <2>1, <3>1
  <2>4. CASE e = x /\ ~public[x]
    <3>1. public'[e] = TRUE
      BY <1>1, <1>3, <2>4
    <3> QED BY <2>1, <3>1
  <2> QED BY <2>2, <2>3, <2>4
<1>5. ASSUME NEW e \in Entry \ todo, InScope(e, scope), public'[e], shown'[e] < from
      PROVE  e \in has
  <2>1. CASE e # x
    <3>1. public'[e] = public[e] /\ shown'[e] = shown[e]
      BY <1>1, <1>2, <1>3, <2>1
    <3> QED BY <1>5, <3>1 DEF Truthful
  <2>2. CASE e = x /\ public[x]
    <3>1. public'[e] = FALSE
      BY <1>1, <1>3, <2>2
    <3> QED BY <1>5, <3>1
  <2>3. CASE e = x /\ ~public[x]
    <3>1. shown'[e] = now
      BY <1>2, <1>3, <2>3
    <3> QED BY <1>5, <1>3, <3>1
  <2> QED BY <2>1, <2>2, <2>3
<1> QED BY <1>4, <1>5

LEMMA EditRowKeeps ==
  ASSUME IInv, NEW a \in Agent, NEW r \in Rows, EditRow(a, r)
  PROVE  IInv'
<1>0. TypeOK /\ CallsOK /\ ProfilesOK
  BY DEF IInv
<1>u. UNCHANGED <<public, hidden, shown, now, profiles, corpora, loading, load, call>>
  BY DEF EditRow, caches
<1>1. TypeOK'
  <2>1. Normalized(a, row[a]) \in Agent \cup {Off}
    BY <1>0, NamesAssumption DEF TypeOK, Normalized
  <2>2. until' \in [Agent -> [Agent \cup {Off} -> Int]]
    <3> DEFINE v == Normalized(a, row[a])
    <3>0. until \in [Agent -> [Agent \cup {Off} -> Int]] /\ now \in Nat
      BY <1>0 DEF TypeOK
    <3>1. now \in Int
      BY <3>0
    <3>2. until' = [until EXCEPT ![a][v] = now]
      BY DEF EditRow
    <3>3. v \in Agent \cup {Off}
      BY <2>1
    <3> HIDE DEF v
    <3> QED BY <3>0, <3>1, <3>2, <3>3
  <2>3. row' \in [Agent -> Rows] /\ edits' \in Nat
    BY <1>0 DEF TypeOK, EditRow
  <2> QED BY <1>0, <1>u, <2>2, <2>3 DEF TypeOK
<1>2. ProfilesOK'
  <2> SUFFICES ASSUME NEW p \in profiles
               PROVE  /\ p.expiresAt - ProfileTtl <= now
                      /\ \/ Normalized(p.key, row'[p.key]) = p.row
                         \/ until'[p.key][p.row] >= p.expiresAt - ProfileTtl
    BY <1>u DEF ProfilesOK, SaidSince, Normalized
  <2>1. p.key \in Agent /\ p.row \in Agent \cup {Off} /\ p.expiresAt \in Nat
    BY <1>0 DEF TypeOK
  <2>2. p.expiresAt - ProfileTtl <= now /\ SaidSince(p.key, p.row, p.expiresAt - ProfileTtl)
    BY <1>0 DEF ProfilesOK
  <2>3. p.expiresAt - ProfileTtl \in Int
    BY <2>1, BoundsAssumption
  <2> QED BY <1>0, <2>1, <2>2, <2>3, SaidKept
<1>3. CallsOK'
  <2> SUFFICES ASSUME NEW c \in Call, call[c].pc = "read"
               PROVE  \/ Normalized(call[c].agent, row'[call[c].agent]) = call[c].scope
                      \/ until'[call[c].agent][call[c].scope] >= call[c].at
    BY <1>u, <1>0 DEF CallsOK, SaidSince, Normalized
  <2>1. call[c].agent \in Agent /\ call[c].scope \in Agent \cup {Off}
        /\ SaidSince(call[c].agent, call[c].scope, call[c].at)
    BY <1>0 DEF CallsOK
  <2>2. call[c].at \in Int /\ call[c].at <= now
    BY <1>0 DEF CallsOK, TypeOK
  <2> QED BY <1>0, <2>1, <2>2, SaidKept
<1>4. RowIsRecent'
  <2> SUFFICES ASSUME NEW c \in Call,
                      call[c].pc \in {"ready", "waiting", "answered", "notFound"},
                      call[c].agent # NoAgent
               PROVE  \/ call[c].scope = Normalized(call[c].agent, row'[call[c].agent])
                      \/ until'[call[c].agent][call[c].scope] + ProfileTtl > call[c].at
    BY <1>u DEF RowIsRecent, Normalized
  <2> DEFINE b == call[c].agent  v == call[c].scope  t == call[c].at - ProfileTtl + 1
  <2>1. b \in Agent /\ v \in Agent \cup {Off} /\ t \in Int /\ t <= now
    BY <1>0, RecentIsSaid
  <2>2. SaidSince(b, v, t)
    <3>1. \/ call[c].scope = Normalized(call[c].agent, row[call[c].agent])
          \/ until[call[c].agent][call[c].scope] + ProfileTtl > call[c].at
      BY DEF IInv, RowIsRecent
    <3> QED BY <1>0, <3>1, RecentIsSaid
  <2>3. v = Normalized(b, row'[b]) \/ until'[b][v] >= t
    <3> HIDE DEF b, v, t
    <3> QED BY <1>0, <2>1, <2>2, SaidKept
  <2>4. until'[b][v] \in Int
    BY <1>1, <2>1 DEF TypeOK
  <2>5. call[c].at \in Nat
    BY <1>0 DEF TypeOK
  <2> QED BY <2>3, <2>4, <2>5, BoundsAssumption
<1>5. CorporaOK' /\ LoadingOK' /\ LoadsOK' /\ WaitersOK' /\ WithdrawnIsGone' /\ PublishedIsThere'
  BY <1>u DEF IInv, CorporaOK, LoadingOK, LoadsOK, WaitersOK, Waits, WithdrawnIsGone,
              PublishedIsThere, Truthful, InScope
<1> QED BY <1>1, <1>2, <1>3, <1>4, <1>5 DEF IInv

LEMMA EditEntryKeeps ==
  ASSUME IInv, NEW x \in Entry, EditEntry(x)
  PROVE  IInv'
<1>0. TypeOK /\ CallsOK /\ CorporaOK /\ LoadsOK
  BY DEF IInv
<1>u. UNCHANGED <<row, until, now, profiles, corpora, loading, load, call>>
  BY DEF EditEntry, caches
<1>1. TypeOK'
  <2>1. now \in Nat /\ hidden \in [Entry -> Int] /\ shown \in [Entry -> Int]
        /\ public \in [Entry -> BOOLEAN] /\ edits \in Nat
    BY <1>0 DEF TypeOK
  <2>2. hidden' \in [Entry -> Int] /\ shown' \in [Entry -> Int] /\ edits' \in Nat
    BY <2>1 DEF EditEntry
  <2>3. public' \in [Entry -> BOOLEAN]
    BY <2>1, Zenon DEF EditEntry
  <2> QED BY <1>0, <1>u, <2>2, <2>3 DEF TypeOK
<1>2. CorporaOK'
  <2> SUFFICES ASSUME NEW k \in corpora PROVE Truthful(k.has, {}, k.key, k.from)'
    BY <1>0, <1>u DEF CorporaOK
  <2>1. k.has \in SUBSET Entry /\ k.from \in Nat /\ {} \in SUBSET Entry
    BY <1>0 DEF TypeOK
  <2>2. k.from <= now /\ Truthful(k.has, {}, k.key, k.from)
    BY <1>0 DEF CorporaOK
  <2>3. /\ \A e \in k.has : InScope(e, k.key) /\ (public'[e] \/ hidden'[e] >= k.from)
        /\ \A e \in Entry \ {} :
             InScope(e, k.key) /\ public'[e] /\ shown'[e] < k.from => e \in k.has
    BY <1>0, <2>1, <2>2, TruthfulKept
  <2> QED BY <2>3 DEF Truthful, InScope
<1>3. LoadsOK'
  <2> SUFFICES ASSUME NEW c \in Call, load[c].st # "none"
               PROVE  Truthful(load[c].has, load[c].todo, call[c].scope, load[c].from)'
    BY <1>0, <1>u DEF LoadsOK, Waits
  <2> DEFINE has == load[c].has  todo == load[c].todo  scope == call[c].scope
             from == load[c].from
  <2>1. has \in SUBSET Entry /\ todo \in SUBSET Entry /\ from \in Nat
    BY <1>0 DEF TypeOK
  <2>2. from <= now /\ Truthful(has, todo, scope, from)
    BY <1>0 DEF LoadsOK
  <2>3. /\ \A e \in has : InScope(e, scope) /\ (public'[e] \/ hidden'[e] >= from)
        /\ \A e \in Entry \ todo :
             InScope(e, scope) /\ public'[e] /\ shown'[e] < from => e \in has
    <3> HIDE DEF has, todo, scope, from
    <3> QED BY <1>0, <2>1, <2>2, TruthfulKept
  <2> QED BY <1>u, <2>3 DEF Truthful, InScope
<1>4. WithdrawnIsGone'
  <2> SUFFICES ASSUME NEW c \in Call, call[c].pc = "answered", NEW e \in call[c].has
               PROVE  public'[e] \/ hidden'[e] + Lifetime + CorpusTtl > call[c].at
    BY <1>u DEF IInv, WithdrawnIsGone, InScope
  <2>1. e \in Entry /\ call[c].at \in Nat /\ call[c].at <= now /\ now \in Nat
    BY <1>0 DEF TypeOK, CallsOK
  <2>2. public[e] \/ hidden[e] + Lifetime + CorpusTtl > call[c].at
    BY DEF IInv, WithdrawnIsGone
  <2>3. CASE x = e /\ public[e]
    <3>1. hidden'[e] = now
      BY <1>0, <2>1, <2>3 DEF EditEntry, TypeOK
    <3> QED BY <2>1, <3>1, BoundsAssumption
  <2>4. CASE x = e /\ ~public[e]
    <3>1. public'[e]
      BY <1>0, <2>1, <2>4 DEF EditEntry, TypeOK
    <3> QED BY <3>1
  <2>5. CASE x # e
    <3>1. public'[e] = public[e] /\ hidden'[e] = hidden[e]
      BY <1>0, <2>1, <2>5 DEF EditEntry, TypeOK
    <3> QED BY <2>2, <3>1
  <2> QED BY <2>3, <2>4, <2>5
<1>5. PublishedIsThere'
  <2> SUFFICES ASSUME NEW c \in Call, call[c].pc = "answered", NEW e \in Entry,
                      InScope(e, call[c].scope), public'[e],
                      shown'[e] + Lifetime + CorpusTtl <= call[c].at
               PROVE  e \in call[c].has
    BY <1>u DEF PublishedIsThere, InScope
  <2>1. call[c].at \in Nat /\ call[c].at <= now /\ now \in Nat
    BY <1>0 DEF TypeOK, CallsOK
  <2>2. CASE x = e /\ ~public[e]
    <3>1. shown'[e] = now
      BY <1>0, <2>1, <2>2 DEF EditEntry, TypeOK
    <3> QED BY <2>1, <3>1, BoundsAssumption
  <2>3. CASE x = e /\ public[e]
    <3>1. ~public'[e]
      BY <1>0, <2>3 DEF EditEntry, TypeOK
    <3> QED BY <3>1
  <2>4. CASE x # e
    <3>1. public'[e] = public[e] /\ shown'[e] = shown[e]
      BY <1>0, <2>4 DEF EditEntry, TypeOK
    <3> QED BY <3>1 DEF IInv, PublishedIsThere
  <2> QED BY <2>2, <2>3, <2>4
<1>6. ProfilesOK' /\ CallsOK' /\ RowIsRecent' /\ LoadingOK' /\ WaitersOK'
  BY <1>u DEF IInv, ProfilesOK, CallsOK, RowIsRecent, LoadingOK, WaitersOK, Waits,
              SaidSince, Normalized
<1> QED BY <1>1, <1>2, <1>3, <1>4, <1>5, <1>6 DEF IInv

-----------------------------------------------------------------------------
(* A step of one call that is not about loads                              *)

CallRec ==
  [pc : {"idle", "reading", "read", "ready", "waiting", "answered", "notFound", "unread",
         "failed", "killed"},
   agent : Scope, at : Nat, scope : Scope \cup {Off}, on : Call \cup {NoCall},
   has : SUBSET Entry]

\* What CallsOK, RowIsRecent, WithdrawnIsGone and PublishedIsThere say of one call.
Sound(r) ==
  /\ r.at <= now
  /\ r.pc \in {"ready", "waiting", "answered"} => r.scope \in Scope
  /\ r.pc \in {"reading", "read"} => r.agent \in Agent
  /\ r.pc = "read" => r.scope \in Agent \cup {Off} /\ SaidSince(r.agent, r.scope, r.at)
  /\ r.agent # NoAgent => r.scope # NoAgent
  /\ r.pc \in {"ready", "waiting", "answered", "notFound"} /\ r.agent # NoAgent
     => \/ r.scope = Normalized(r.agent, row[r.agent])
        \/ until[r.agent][r.scope] + ProfileTtl > r.at
  /\ r.pc = "answered" =>
       /\ \A e \in r.has : /\ InScope(e, r.scope)
                           /\ public[e] \/ hidden[e] + Lifetime + CorpusTtl > r.at
       /\ \A e \in Entry :
            InScope(e, r.scope) /\ public[e] /\ shown[e] + Lifetime + CorpusTtl <= r.at
            => e \in r.has

AllSound == \A c \in Call : Sound(call[c])

LEMMA SoundIs == AllSound <=> CallsOK /\ RowIsRecent /\ WithdrawnIsGone /\ PublishedIsThere
BY DEF AllSound, Sound, CallsOK, RowIsRecent, WithdrawnIsGone, PublishedIsThere

LEMMA OneCallChanges ==
  ASSUME IInv, NEW c \in Call, NEW r \in CallRec, Sound(r),
         call' = [call EXCEPT ![c] = r], UNCHANGED <<now, tables>>
  PROVE  /\ call' \in [Call -> CallRec]
         /\ CallsOK' /\ RowIsRecent' /\ WithdrawnIsGone' /\ PublishedIsThere'
<1>1. call \in [Call -> CallRec] /\ AllSound
  BY SoundIs DEF IInv, TypeOK, CallRec
<1>2. ASSUME NEW d \in Call PROVE Sound(call'[d])
  <2>1. CASE d = c
    BY <1>1, <2>1
  <2>2. CASE d # c
    <3>1. call'[d] = call[d]
      BY <1>1, <2>2
    <3> QED BY <1>1, <3>1 DEF AllSound
  <2> QED BY <2>1, <2>2
<1>3. AllSound'
  BY <1>2 DEF AllSound, Sound, tables, SaidSince, Normalized, InScope
<1>4. CallsOK' /\ RowIsRecent' /\ WithdrawnIsGone' /\ PublishedIsThere'
  <2>1. (AllSound <=> CallsOK /\ RowIsRecent /\ WithdrawnIsGone /\ PublishedIsThere)'
    BY SoundIs, PTL
  <2> QED BY <1>3, <2>1
<1> QED BY <1>1, <1>4

\* Until a call has retrieved, the loads do not know of it.
LEMMA EarlyStep ==
  ASSUME IInv, NEW c \in Call, call[c].pc \in {"idle", "reading", "read", "ready"},
         NEW r \in CallRec, r.pc # "waiting", call' = [call EXCEPT ![c] = r],
         UNCHANGED <<now, tables, loading, load>>
  PROVE  LoadingOK' /\ LoadsOK' /\ WaitersOK'
<1>0. TypeOK /\ LoadingOK /\ LoadsOK /\ WaitersOK
  BY DEF IInv
<1>1. load[c].st = "none"
  BY <1>0 DEF LoadsOK
<1>2. \A d \in Call : d # c => call'[d] = call[d]
  BY <1>0 DEF TypeOK
<1>3. call'[c] = r
  BY <1>0 DEF TypeOK
<1>4. LoadingOK'
  <2> SUFFICES ASSUME NEW k \in Scope, loading[k] # NoCall
               PROVE  /\ call'[loading[k]].pc = "waiting"
                      /\ call'[loading[k]].on = loading[k]
                      /\ call'[loading[k]].scope = k
    BY DEF LoadingOK, Waits
  <2>1. loading[k] \in Call /\ loading[k] # c
    BY <1>0 DEF TypeOK, LoadingOK, Waits
  <2> QED BY <1>0, <1>2, <2>1 DEF LoadingOK, Waits
<1>5. LoadsOK'
  <2> SUFFICES ASSUME NEW d \in Call, load[d].st # "none"
               PROVE  /\ call'[d] = call[d]
                      /\ Truthful(load[d].has, load[d].todo, call[d].scope, load[d].from)'
                         <=> Truthful(load[d].has, load[d].todo, call[d].scope, load[d].from)
    BY <1>0 DEF LoadsOK, Waits
  <2>1. call'[d] = call[d]
    BY <1>1, <1>2
  <2> QED BY <2>1 DEF Truthful, InScope, tables
<1>6. WaitersOK'
  <2> SUFFICES ASSUME NEW d \in Call, call'[d].pc = "waiting"
               PROVE  /\ call'[d] = call[d]
                      /\ call[d].on \in Call
                      /\ call'[call[d].on] = call[call[d].on]
    BY <1>0 DEF WaitersOK, Waits
  <2>1. d # c
    BY <1>3
  <2>2. call[d].on \in Call /\ call[d].on # c
    BY <1>0, <1>1, <1>2, <2>1 DEF WaitersOK, Waits
  <2> QED BY <1>2, <2>1, <2>2
<1> QED BY <1>4, <1>5, <1>6

\* Pruning only takes entries away.
LEMMA PrunedIsFresh ==
  ASSUME NEW cache, NEW byAge, NEW size
  PROVE  PrunedTo(cache, byAge, size) \subseteq cache
BY DEF PrunedTo, Fresh

LEMMA StartDefaultKeeps ==
  ASSUME IInv, NEW c \in Call, StartDefault(c)
  PROVE  IInv'
<1>0. TypeOK
  BY DEF IInv
<1> DEFINE r == Request(NoAgent, now, "ready", NoAgent)
<1>1. r = [pc |-> "ready", agent |-> NoAgent, at |-> now, scope |-> NoAgent, on |-> NoCall,
           has |-> {}]
  BY DEF Request
<1>2. r \in CallRec /\ Sound(r)
  <2> HIDE DEF r
  <2>1. now \in Nat
    BY <1>0 DEF TypeOK
  <2> QED BY <1>1, <2>1, NamesAssumption DEF CallRec, Sound
<1>3. call' = [call EXCEPT ![c] = r] /\ call[c].pc = "idle"
      /\ UNCHANGED <<now, tables, profiles, corpora, loading, load>>
  BY DEF StartDefault, caches
<1> HIDE DEF r
<1>4. r.pc # "waiting"
  BY <1>1
<1>5. call' \in [Call -> CallRec]
      /\ CallsOK' /\ RowIsRecent' /\ WithdrawnIsGone' /\ PublishedIsThere'
  BY <1>2, <1>3, OneCallChanges
<1>6. LoadingOK' /\ LoadsOK' /\ WaitersOK'
  BY <1>2, <1>3, <1>4, EarlyStep
<1>7. TypeOK'
  BY <1>0, <1>3, <1>5 DEF TypeOK, CallRec, tables
<1>8. ProfilesOK' /\ CorporaOK'
  BY <1>3 DEF IInv, ProfilesOK, CorporaOK, SaidSince, Normalized, Truthful, InScope, tables
<1> QED BY <1>5, <1>6, <1>7, <1>8 DEF IInv

LEMMA StartNamedKeeps ==
  ASSUME IInv, NEW c \in Call, NEW a \in Agent, StartNamed(c, a)
  PROVE  IInv'
<1>0. TypeOK /\ ProfilesOK
  BY DEF IInv
<1>t. now \in Nat /\ profiles \subseteq [key : Agent, row : Agent \cup {Off}, expiresAt : Nat]
  BY <1>0 DEF TypeOK
<1>a. a # NoAgent /\ a \in Scope /\ Off \notin Scope
  BY NamesAssumption
<1>u. call[c].pc = "idle" /\ UNCHANGED <<now, tables, corpora, loading, load>>
  BY DEF StartNamed
<1>1. \E r \in CallRec : /\ r.pc # "waiting" /\ Sound(r)
                        /\ call' = [call EXCEPT ![c] = r]
  <2>1. CASE a \in Keys(Fresh(profiles))
    <3> DEFINE h == Held(Fresh(profiles), a)
               r == Request(a, now, Verdict(h.row), h.row)
    <3>1. h \in profiles /\ h.key = a /\ now < h.expiresAt
      <4>1. \E g \in Fresh(profiles) : g.key = a
        BY <2>1 DEF Keys
      <4>2. h \in Fresh(profiles) /\ h.key = a
        BY <4>1 DEF Held
      <4> QED BY <4>2 DEF Fresh
    <3>2. r = [pc |-> Verdict(h.row), agent |-> a, at |-> now, scope |-> h.row,
               on |-> NoCall, has |-> {}]
      BY DEF Request
    <3>3. call' = [call EXCEPT ![c] = r]
      BY <2>1 DEF StartNamed
    <3> HIDE DEF h, r
    <3>4. h.row \in Agent \cup {Off} /\ h.expiresAt \in Nat
      BY <1>t, <3>1
    <3>5. Verdict(h.row) \in {"notFound", "ready"}
          /\ (Verdict(h.row) = "ready" => h.row \in Scope)
      BY <3>4 DEF Verdict
    <3>6. r \in CallRec /\ r.pc # "waiting"
      BY <1>t, <1>a, <3>2, <3>4, <3>5 DEF CallRec
    <3>7. h.row = Normalized(a, row[a]) \/ until[a][h.row] + ProfileTtl > now
      <4>1. SaidSince(a, h.row, h.expiresAt - ProfileTtl)
        BY <1>0, <3>1 DEF ProfilesOK
      <4>2. until[a][h.row] \in Int
        BY <1>0, <3>4 DEF TypeOK
      <4>3. CASE until[a][h.row] >= h.expiresAt - ProfileTtl
        BY <1>t, <3>1, <3>4, <4>2, <4>3, BoundsAssumption
      <4> QED BY <4>1, <4>3 DEF SaidSince
    <3>8. Sound(r)
      <4>1. /\ r.pc = "ready" \/ r.pc = "notFound"
            /\ r.pc = "ready" => h.row \in Scope
            /\ r.agent = a /\ r.at = now /\ r.scope = h.row
        BY <3>2, <3>5
      <4>2. h.row # NoAgent /\ now <= now
        BY <1>t, <3>4, NamesAssumption
      <4> QED BY <1>a, <3>7, <4>1, <4>2 DEF Sound
    <3> QED BY <3>3, <3>6, <3>8
  <2>2. CASE a \notin Keys(Fresh(profiles))
    <3> DEFINE r == Request(a, now, "reading", Off)
    <3>1. r = [pc |-> "reading", agent |-> a, at |-> now, scope |-> Off, on |-> NoCall,
               has |-> {}]
      BY DEF Request
    <3>2. call' = [call EXCEPT ![c] = r]
      BY <2>2 DEF StartNamed
    <3> HIDE DEF r
    <3>3. r \in CallRec /\ Sound(r) /\ r.pc # "waiting"
      BY <1>t, <1>a, <3>1 DEF CallRec, Sound
    <3> QED BY <3>2, <3>3
  <2> QED BY <2>1, <2>2
<1>2. PICK r \in CallRec : r.pc # "waiting" /\ Sound(r) /\ call' = [call EXCEPT ![c] = r]
  BY <1>1
<1>3. call' \in [Call -> CallRec]
      /\ CallsOK' /\ RowIsRecent' /\ WithdrawnIsGone' /\ PublishedIsThere'
  BY <1>2, <1>u, OneCallChanges
<1>4. LoadingOK' /\ LoadsOK' /\ WaitersOK'
  BY <1>2, <1>u, EarlyStep
<1>5. profiles' \subseteq profiles
  BY PrunedIsFresh DEF StartNamed, Without
<1>6. TypeOK'
  BY <1>0, <1>u, <1>3, <1>5 DEF TypeOK, CallRec, tables
<1>7. ProfilesOK' /\ CorporaOK'
  <2>1. ProfilesOK'
    BY <1>0, <1>u, <1>5 DEF ProfilesOK, SaidSince, Normalized, tables
  <2>2. CorporaOK'
    BY <1>u DEF IInv, CorporaOK, Truthful, InScope, tables
  <2> QED BY <2>1, <2>2
<1> QED BY <1>3, <1>4, <1>6, <1>7 DEF IInv

\* A step that only moves a call which reads its agent's profile.
LEMMA ReaderMoves ==
  ASSUME IInv, NEW c \in Call, call[c].pc \in {"reading", "read"},
         NEW pc \in {"read", "ready", "notFound", "unread"}, NEW scope \in Scope \cup {Off},
         LET r == [call[c] EXCEPT !.pc = pc, !.scope = scope]
         IN Sound(r) /\ call' = [call EXCEPT ![c] = r],
         UNCHANGED <<now, tables, corpora, loading, load>>
  PROVE  /\ call' \in [Call -> CallRec]
         /\ CallsOK' /\ RowIsRecent' /\ WithdrawnIsGone' /\ PublishedIsThere'
         /\ LoadingOK' /\ LoadsOK' /\ WaitersOK' /\ CorporaOK'
<1> DEFINE r == [call[c] EXCEPT !.pc = pc, !.scope = scope]
<1>1. call[c] \in CallRec
  BY DEF IInv, TypeOK, CallRec
<1>2. r \in CallRec /\ r.pc = pc
  BY <1>1 DEF CallRec
<1>3. Sound(r) /\ call' = [call EXCEPT ![c] = r]
  OBVIOUS
<1> HIDE DEF r
<1>4. r.pc # "waiting"
  BY <1>2
<1>5. CorporaOK'
  BY DEF IInv, CorporaOK, Truthful, InScope, tables
<1>6. call' \in [Call -> CallRec]
      /\ CallsOK' /\ RowIsRecent' /\ WithdrawnIsGone' /\ PublishedIsThere'
  BY <1>2, <1>3, OneCallChanges
<1>7. LoadingOK' /\ LoadsOK' /\ WaitersOK'
  BY <1>2, <1>3, <1>4, EarlyStep
<1> QED BY <1>5, <1>6, <1>7

LEMMA ReadRowKeeps ==
  ASSUME IInv, NEW c \in Call, ReadRow(c)
  PROVE  IInv'
<1>0. TypeOK /\ CallsOK
  BY DEF IInv
<1> DEFINE a == call[c].agent  v == Normalized(a, row[a])
           r == [call[c] EXCEPT !.pc = "read", !.scope = v]
<1>1. call[c].pc = "reading" /\ UNCHANGED <<now, tables, profiles, corpora, loading, load>>
  BY DEF ReadRow, caches
<1>2. a \in Agent /\ v \in Agent \cup {Off}
  BY <1>0, <1>1, NamesAssumption DEF CallsOK, TypeOK, Normalized
<1>3. call[c] \in CallRec /\ call[c].at <= now
  BY <1>0 DEF TypeOK, CallRec, CallsOK
<1>4. call' = [call EXCEPT ![c] = r]
  BY <1>0 DEF ReadRow, TypeOK
<1>5. r.pc = "read" /\ r.scope = v /\ r.agent = a /\ r.at = call[c].at
  BY <1>3 DEF CallRec
<1>6. Sound(r)
  <2>1. SaidSince(a, v, call[c].at)
    BY DEF SaidSince
  <2> HIDE DEF r, a, v
  <2> QED BY <1>2, <1>3, <1>5, <2>1, NamesAssumption DEF Sound
<1>7. /\ call' \in [Call -> CallRec]
      /\ CallsOK' /\ RowIsRecent' /\ WithdrawnIsGone' /\ PublishedIsThere'
      /\ LoadingOK' /\ LoadsOK' /\ WaitersOK' /\ CorporaOK'
  <2> HIDE DEF v
  <2> QED BY <1>1, <1>2, <1>4, <1>6, ReaderMoves
<1>8. TypeOK' /\ ProfilesOK'
  BY <1>0, <1>1, <1>7 DEF IInv, TypeOK, CallRec, ProfilesOK, SaidSince, Normalized, tables
<1> QED BY <1>7, <1>8 DEF IInv

LEMMA ReadFailsKeeps ==
  ASSUME IInv, NEW c \in Call, ReadFails(c)
  PROVE  IInv'
<1>0. TypeOK /\ CallsOK
  BY DEF IInv
<1> DEFINE r == [call[c] EXCEPT !.pc = "unread", !.scope = call[c].scope]
<1>1. call[c].pc \in {"reading", "read"}
      /\ UNCHANGED <<now, tables, profiles, corpora, loading, load>>
  BY DEF ReadFails, caches
<1>2. call[c] \in CallRec /\ call[c].at <= now /\ call[c].scope \in Scope \cup {Off}
      /\ (call[c].agent # NoAgent => call[c].scope # NoAgent)
  BY <1>0 DEF TypeOK, CallRec, CallsOK
<1>3. r = [call[c] EXCEPT !.pc = "unread"]
  BY <1>2 DEF CallRec
<1>4. call' = [call EXCEPT ![c] = r]
  BY <1>0, <1>3 DEF ReadFails, TypeOK
<1>5. r.pc = "unread" /\ r.scope = call[c].scope /\ r.agent = call[c].agent
      /\ r.at = call[c].at
  BY <1>2 DEF CallRec
<1>6. Sound(r)
  <2> HIDE DEF r
  <2> QED BY <1>2, <1>5 DEF Sound
<1>7. /\ call' \in [Call -> CallRec]
      /\ CallsOK' /\ RowIsRecent' /\ WithdrawnIsGone' /\ PublishedIsThere'
      /\ LoadingOK' /\ LoadsOK' /\ WaitersOK' /\ CorporaOK'
  BY <1>1, <1>2, <1>4, <1>6, ReaderMoves
<1>8. TypeOK' /\ ProfilesOK'
  BY <1>0, <1>1, <1>7 DEF IInv, TypeOK, CallRec, ProfilesOK, SaidSince, Normalized, tables
<1> QED BY <1>7, <1>8 DEF IInv

LEMMA StoreProfileKeeps ==
  ASSUME IInv, NEW c \in Call, StoreProfile(c)
  PROVE  IInv'
<1>0. TypeOK /\ CallsOK /\ ProfilesOK
  BY DEF IInv
<1> DEFINE a == call[c].agent  v == call[c].scope  t == call[c].at
           r == [call[c] EXCEPT !.pc = Verdict(v), !.scope = v]
           p == [key |-> a, row |-> v, expiresAt |-> t + ProfileTtl]
<1>1. call[c].pc = "read" /\ UNCHANGED <<now, tables, corpora, loading, load>>
  BY DEF StoreProfile
<1>2. call[c] \in CallRec /\ t \in Nat /\ t <= now /\ now \in Nat
  BY <1>0 DEF TypeOK, CallRec, CallsOK
<1>3. a \in Agent /\ v \in Agent \cup {Off} /\ SaidSince(a, v, t)
  BY <1>0, <1>1 DEF CallsOK
<1>4. Verdict(v) \in {"ready", "notFound"} /\ (Verdict(v) = "ready" => v \in Agent)
  BY <1>3 DEF Verdict
<1>5. r = [call[c] EXCEPT !.pc = Verdict(v)]
  BY <1>2 DEF CallRec
<1>6. call' = [call EXCEPT ![c] = r]
  BY <1>0, <1>5 DEF StoreProfile, TypeOK
<1>7. r.pc = Verdict(v) /\ r.scope = v /\ r.agent = a /\ r.at = t
  BY <1>2 DEF CallRec
<1>8. Sound(r)
  <2>1. v = Normalized(a, row[a]) \/ until[a][v] + ProfileTtl > t
    <3>1. until[a][v] \in Int
      BY <1>0, <1>3 DEF TypeOK
    <3> HIDE DEF a, v, t
    <3>2. CASE until[a][v] >= t
      BY <1>2, <3>1, <3>2, BoundsAssumption
    <3> QED BY <1>3, <3>2 DEF SaidSince
  <2>2. v # NoAgent /\ a \in Scope
    BY <1>3, NamesAssumption
  <2> HIDE DEF a, v, t, r
  <2> QED BY <1>2, <1>3, <1>4, <1>7, <2>1, <2>2 DEF Sound
<1>9. /\ call' \in [Call -> CallRec]
      /\ CallsOK' /\ RowIsRecent' /\ WithdrawnIsGone' /\ PublishedIsThere'
      /\ LoadingOK' /\ LoadsOK' /\ WaitersOK' /\ CorporaOK'
  BY <1>1, <1>3, <1>4, <1>6, <1>8, ReaderMoves
<1>10. profiles' \subseteq profiles \cup {p}
  BY DEF StoreProfile, Put, Without, ProfileExpiry
<1>11. p \in [key : Agent, row : Agent \cup {Off}, expiresAt : Nat]
       /\ p.expiresAt - ProfileTtl = t /\ p.key = a /\ p.row = v
  BY <1>2, <1>3, BoundsAssumption
<1>12. TypeOK'
  <2> HIDE DEF p
  <2> QED BY <1>0, <1>1, <1>9, <1>10, <1>11 DEF TypeOK, CallRec, tables
<1>13. ProfilesOK'
  <2> SUFFICES ASSUME NEW q \in profiles'
               PROVE  q.expiresAt - ProfileTtl <= now
                      /\ SaidSince(q.key, q.row, q.expiresAt - ProfileTtl)
    BY <1>1 DEF ProfilesOK, SaidSince, Normalized, tables
  <2> HIDE DEF p
  <2>1. CASE q \in profiles
    BY <1>0, <2>1 DEF ProfilesOK
  <2>2. CASE q = p
    BY <1>2, <1>3, <1>11, <2>2
  <2> QED BY <1>10, <2>1, <2>2
<1> QED BY <1>9, <1>12, <1>13 DEF IInv

-----------------------------------------------------------------------------
(* Steps about loads                                                       *)

\* What a corpus read within Lifetime + CorpusTtl is worth to a call that gets it now.
LEMMA RecentCorpus ==
  ASSUME TypeOK, NEW at \in Nat, at <= now, NEW from \in Nat,
         now < from + Lifetime + CorpusTtl,
         NEW has \in SUBSET Entry, NEW scope \in Scope, Truthful(has, {}, scope, from)
  PROVE  /\ \A e \in has : /\ InScope(e, scope)
                           /\ public[e] \/ hidden[e] + Lifetime + CorpusTtl > at
         /\ \A e \in Entry :
              InScope(e, scope) /\ public[e] /\ shown[e] + Lifetime + CorpusTtl <= at
              => e \in has
<1>0. now \in Nat /\ Lifetime \in Nat /\ CorpusTtl \in Nat
  BY BoundsAssumption DEF TypeOK
<1>1. ASSUME NEW e \in has
      PROVE  InScope(e, scope) /\ (public[e] \/ hidden[e] + Lifetime + CorpusTtl > at)
  <2>1. InScope(e, scope) /\ (public[e] \/ hidden[e] >= from) /\ hidden[e] \in Int
    BY DEF Truthful, TypeOK
  <2>2. hidden[e] >= from => hidden[e] + Lifetime + CorpusTtl > at
    BY <1>0, <2>1
  <2> QED BY <2>1, <2>2
<1>2. ASSUME NEW e \in Entry, InScope(e, scope), public[e],
             shown[e] + Lifetime + CorpusTtl <= at
      PROVE  e \in has
  <2>1. shown[e] \in Int
    BY DEF TypeOK
  <2>2. shown[e] < from
    BY <1>0, <1>2, <2>1
  <2> QED BY <1>2, <2>2 DEF Truthful
<1> QED BY <1>1, <1>2

\* An answered call is sound if what it got is.
LEMMA AnsweredIsSound ==
  ASSUME TypeOK, NEW r, NEW q, Sound(q), q.pc \in {"ready", "waiting"}, r.pc = "answered",
         r.agent = q.agent, r.at = q.at, r.scope = q.scope,
         \A e \in r.has : /\ InScope(e, r.scope)
                          /\ public[e] \/ hidden[e] + Lifetime + CorpusTtl > r.at,
         \A e \in Entry :
            InScope(e, r.scope) /\ public[e] /\ shown[e] + Lifetime + CorpusTtl <= r.at
            => e \in r.has
  PROVE  Sound(r)
<1>1. q.at <= now /\ q.scope \in Scope /\ (q.agent # NoAgent => q.scope # NoAgent)
  BY DEF Sound
<1>2. q.agent # NoAgent => \/ q.scope = Normalized(q.agent, row[q.agent])
                           \/ until[q.agent][q.scope] + ProfileTtl > q.at
  BY DEF Sound
<1>3. r.pc \notin {"read", "reading"}
  OBVIOUS
<1>4. r.at <= now /\ r.scope \in Scope /\ (r.agent # NoAgent => r.scope # NoAgent)
  BY <1>1
<1>5. r.agent # NoAgent => \/ r.scope = Normalized(r.agent, row[r.agent])
                           \/ until[r.agent][r.scope] + ProfileTtl > r.at
  BY <1>2
<1>6. r.pc \in {"reading", "read"} => r.agent \in Agent
  BY <1>3
<1>7. r.pc = "read" => r.scope \in Agent \cup {Off} /\ SaidSince(r.agent, r.scope, r.at)
  BY <1>3
<1>8. r.pc \in {"ready", "waiting", "answered"} => r.scope \in Scope
  BY <1>4
<1>9. r.pc \in {"ready", "waiting", "answered", "notFound"} /\ r.agent # NoAgent
      => \/ r.scope = Normalized(r.agent, row[r.agent])
         \/ until[r.agent][r.scope] + ProfileTtl > r.at
  BY <1>5
<1>10. /\ \A e \in r.has : /\ InScope(e, r.scope)
                           /\ public[e] \/ hidden[e] + Lifetime + CorpusTtl > r.at
       /\ \A e \in Entry :
            InScope(e, r.scope) /\ public[e] /\ shown[e] + Lifetime + CorpusTtl <= r.at
            => e \in r.has
  OBVIOUS
<1> QED BY <1>4, <1>6, <1>7, <1>8, <1>9, <1>10, Zenon DEF Sound

LEMMA HitKeeps ==
  ASSUME IInv, NEW c \in Call, Retrieve(c), call[c].scope \in Keys(Fresh(corpora))
  PROVE  IInv'
<1>0. TypeOK /\ CallsOK /\ CorporaOK
  BY DEF IInv
<1> DEFINE k == call[c].scope
           h == Held(Fresh(corpora), k)
           r == [call[c] EXCEPT !.pc = "answered", !.has = h.has]
<1>1. call[c].pc = "ready" /\ UNCHANGED <<now, tables, profiles, loading, load>>
      /\ corpora' = Fresh(corpora)
  BY DEF Retrieve
<1>2. call[c] \in CallRec /\ call[c].at \in Nat /\ call[c].at <= now /\ k \in Scope
  BY <1>0, <1>1 DEF TypeOK, CallRec, CallsOK
<1>3. h \in corpora /\ h.key = k /\ now < h.expiresAt
  <2>1. \E g \in Fresh(corpora) : g.key = k
    BY DEF Keys
  <2>2. h \in Fresh(corpora) /\ h.key = k
    BY <2>1 DEF Held
  <2> QED BY <2>2 DEF Fresh
<1>4. call' = [call EXCEPT ![c] = r]
  BY <1>0 DEF Retrieve, TypeOK
<1>5. h.has \in SUBSET Entry /\ h.from \in Nat /\ h.expiresAt \in Nat /\ now \in Nat
  BY <1>0, <1>3 DEF TypeOK
<1>6. h.expiresAt <= h.from + Lifetime + CorpusTtl /\ Truthful(h.has, {}, k, h.from)
  BY <1>0, <1>3 DEF CorporaOK
<1>7. now < h.from + Lifetime + CorpusTtl
  BY <1>3, <1>5, <1>6, BoundsAssumption
<1>8. r \in CallRec /\ r.pc = "answered" /\ r.has = h.has /\ r.scope = k
      /\ r.agent = call[c].agent /\ r.at = call[c].at
  BY <1>2, <1>5 DEF CallRec
<1>9. Sound(r)
  <2>1. Sound(call[c])
    BY SoundIs DEF IInv, AllSound
  <2> HIDE DEF r, h
  <2>2. /\ \A e \in h.has : /\ InScope(e, k)
                            /\ public[e] \/ hidden[e] + Lifetime + CorpusTtl > call[c].at
        /\ \A e \in Entry :
             InScope(e, k) /\ public[e] /\ shown[e] + Lifetime + CorpusTtl <= call[c].at
             => e \in h.has
    <3> HIDE DEF k
    <3> QED BY <1>0, <1>2, <1>5, <1>6, <1>7, RecentCorpus
  <2>3. call[c].pc \in {"ready", "waiting"}
    BY <1>1
  <2> QED BY <1>0, <1>8, <2>1, <2>2, <2>3, AnsweredIsSound
<1> HIDE DEF r, h
<1>10. call' \in [Call -> CallRec]
       /\ CallsOK' /\ RowIsRecent' /\ WithdrawnIsGone' /\ PublishedIsThere'
  BY <1>1, <1>4, <1>8, <1>9, OneCallChanges
<1>11. LoadingOK' /\ LoadsOK' /\ WaitersOK'
  <2>1. r.pc # "waiting" /\ call[c].pc \in {"idle", "reading", "read", "ready"}
    BY <1>1, <1>8
  <2> QED BY <1>1, <1>4, <1>8, <2>1, EarlyStep
<1>12. corpora' \subseteq corpora
  BY <1>1 DEF Fresh
<1>13. TypeOK'
  BY <1>0, <1>1, <1>10, <1>12 DEF TypeOK, CallRec, tables
<1>14. ProfilesOK' /\ CorporaOK'
  BY <1>1, <1>12 DEF IInv, ProfilesOK, CorporaOK, SaidSince, Normalized, Truthful, InScope,
                     tables
<1> QED BY <1>10, <1>11, <1>13, <1>14 DEF IInv

LEMMA ScanPageKeeps ==
  ASSUME IInv, NEW c \in Call, NEW x \in Entry, ScanPage(c, x)
  PROVE  IInv'
<1>0. TypeOK /\ LoadsOK /\ WaitersOK
  BY DEF IInv
<1> DEFINE todo == load[c].todo \ {x}
           has == IF public[x] /\ InScope(x, call[c].scope) THEN load[c].has \cup {x}
                  ELSE load[c].has
           l == [load[c] EXCEPT !.todo = todo, !.has = has]
<1>1. load[c].st = "running" /\ x \in load[c].todo
      /\ UNCHANGED <<now, tables, profiles, corpora, loading, call>>
  BY DEF ScanPage, caches
<1>2. load' = [load EXCEPT ![c] = l]
  BY <1>0 DEF ScanPage, TypeOK
<1>3. load[c] \in [st : {"none", "running", "loaded", "failed"}, from : Nat,
                   end : Nat, todo : SUBSET Entry, has : SUBSET Entry]
      /\ todo \in SUBSET Entry /\ has \in SUBSET Entry
  BY <1>0 DEF TypeOK
<1>4. l \in [st : {"none", "running", "loaded", "failed"}, from : Nat,
             end : Nat, todo : SUBSET Entry, has : SUBSET Entry]
      /\ l.st = "running" /\ l.from = load[c].from /\ l.has = has /\ l.todo = todo
  <2> HIDE DEF todo, has
  <2> QED BY <1>1, <1>3
<1>5. load'[c] = l /\ \A d \in Call : d # c => load'[d] = load[d]
  BY <1>0, <1>2 DEF TypeOK
<1>6. Truthful(has, todo, call[c].scope, load[c].from)
  <2>1. Truthful(load[c].has, load[c].todo, call[c].scope, load[c].from)
    BY <1>0, <1>1 DEF LoadsOK
  <2> QED BY <2>1 DEF Truthful
<1> HIDE DEF l, has, todo
<1>7. TypeOK'
  <2>1. load' \in [Call -> [st : {"none", "running", "loaded", "failed"}, from : Nat,
                            end : Nat, todo : SUBSET Entry, has : SUBSET Entry]]
    BY <1>0, <1>2, <1>4 DEF TypeOK
  <2> QED BY <1>0, <1>1, <2>1 DEF TypeOK, tables
<1>8. LoadsOK'
  <2> SUFFICES ASSUME NEW d \in Call, load'[d].st # "none"
               PROVE  /\ call[d].pc \in {"waiting", "answered", "failed", "killed"}
                      /\ call[d].at <= load'[d].from /\ load'[d].from <= now
                      /\ Truthful(load'[d].has, load'[d].todo, call[d].scope, load'[d].from)
                      /\ load'[d].st = "loaded" => load'[d].todo = {}
                      /\ load'[d].st = "running" => Waits(d) /\ call[d].on = d
    BY <1>1 DEF LoadsOK, Waits, Truthful, InScope, tables
  <2>1. CASE d = c
    <3>1. load[d].st = "running"
      BY <1>1, <2>1
    <3>2. /\ call[d].pc \in {"waiting", "answered", "failed", "killed"}
          /\ call[d].at <= load[d].from /\ load[d].from <= now
          /\ Waits(d) /\ call[d].on = d
      BY <1>0, <3>1 DEF LoadsOK
    <3> QED BY <1>4, <1>5, <1>6, <2>1, <3>2
  <2>2. CASE d # c
    BY <1>0, <1>5, <2>2 DEF LoadsOK
  <2> QED BY <2>1, <2>2
<1>9. WaitersOK'
  <2> SUFFICES ASSUME NEW d \in Call, Waits(d)
               PROVE  /\ call[d].on \in Call
                      /\ load'[call[d].on].st # "none"
                      /\ call[call[d].on].scope = call[d].scope
                      /\ now <= load'[call[d].on].from + Lifetime
                      /\ load'[call[d].on].st # "running" => load'[call[d].on].end = now
    BY <1>1 DEF WaitersOK, Waits
  <2>1. CASE call[d].on = c
    BY <1>0, <1>4, <1>5, <2>1 DEF WaitersOK
  <2>2. CASE call[d].on # c
    BY <1>0, <1>5, <2>2 DEF WaitersOK
  <2> QED BY <2>1, <2>2
<1>10. ProfilesOK' /\ CorporaOK' /\ LoadingOK' /\ CallsOK' /\ RowIsRecent'
       /\ WithdrawnIsGone' /\ PublishedIsThere'
  BY <1>1 DEF IInv, ProfilesOK, CorporaOK, LoadingOK, Waits, CallsOK, RowIsRecent,
              WithdrawnIsGone, PublishedIsThere, SaidSince, Normalized, Truthful, InScope, tables
<1> QED BY <1>7, <1>8, <1>9, <1>10 DEF IInv

LEMMA MissKeeps ==
  ASSUME IInv, NEW c \in Call, Retrieve(c), call[c].scope \notin Keys(Fresh(corpora))
  PROVE  IInv'
<1>0. TypeOK /\ CallsOK /\ CorporaOK /\ LoadingOK /\ LoadsOK /\ WaitersOK
  BY DEF IInv
<1> DEFINE k == call[c].scope
           s == IF loading[k] = NoCall THEN c ELSE loading[k]
           r == [call[c] EXCEPT !.pc = "waiting", !.on = s]
<1>1. call[c].pc = "ready" /\ UNCHANGED <<now, tables, profiles>>
      /\ corpora' = Fresh(corpora)
  BY DEF Retrieve
<1>2. call[c] \in CallRec /\ call[c].at \in Nat /\ call[c].at <= now /\ k \in Scope
      /\ now \in Nat
  BY <1>0, <1>1 DEF TypeOK, CallRec, CallsOK
<1>3. load[c].st = "none"
  BY <1>0, <1>1 DEF LoadsOK
<1>4. /\ s \in Call
      /\ loading[k] # NoCall => s = loading[k] /\ s # c
      /\ loading[k] = NoCall => s = c
  BY <1>0, <1>1, <1>2, NamesAssumption DEF TypeOK, LoadingOK, Waits
<1>5. call' = [call EXCEPT ![c] = r] /\ loading' = [loading EXCEPT ![k] = s]
      /\ load' = IF s # c THEN load ELSE [load EXCEPT ![c] = Load("running", now, Entry)]
  BY <1>0 DEF Retrieve, TypeOK
<1> DEFINE l == Load("running", now, Entry)
<1>6. l \in [st : {"none", "running", "loaded", "failed"}, from : Nat,
             end : Nat, todo : SUBSET Entry, has : SUBSET Entry]
      /\ l.st = "running" /\ l.from = now /\ l.todo = Entry /\ l.has = {}
  BY <1>2 DEF Load
<1>7. r \in CallRec /\ r.pc = "waiting" /\ r.on = s /\ r.scope = k
      /\ r.agent = call[c].agent /\ r.at = call[c].at
  <2> HIDE DEF s
  <2> QED BY <1>2, <1>4 DEF CallRec
<1> HIDE DEF r, l, s
<1>8. Sound(r)
  <2>1. Sound(call[c])
    BY SoundIs DEF IInv, AllSound
  <2> QED BY <1>1, <1>7, <2>1 DEF Sound
<1>9. call' \in [Call -> CallRec]
      /\ CallsOK' /\ RowIsRecent' /\ WithdrawnIsGone' /\ PublishedIsThere'
  BY <1>1, <1>5, <1>7, <1>8, OneCallChanges
<1>10. /\ call'[c] = r /\ \A d \in Call : d # c => call'[d] = call[d]
       /\ loading'[k] = s /\ \A j \in Scope : j # k => loading'[j] = loading[j]
  BY <1>0, <1>2, <1>5 DEF TypeOK
<1>11. /\ s = c => load'[c] = l
       /\ s # c => load'[c] = load[c]
       /\ \A d \in Call : d # c => load'[d] = load[d]
  BY <1>0, <1>5 DEF TypeOK, l
<1>12. TypeOK'
  <2>1. corpora' \subseteq corpora
    BY <1>1 DEF Fresh
  <2>2. loading' \in [Scope -> Call \cup {NoCall}]
    BY <1>0, <1>2, <1>4, <1>5 DEF TypeOK
  <2>3. load' \in [Call -> [st : {"none", "running", "loaded", "failed"}, from : Nat,
                            end : Nat, todo : SUBSET Entry, has : SUBSET Entry]]
    BY <1>0, <1>5, <1>6 DEF TypeOK, l
  <2> QED BY <1>0, <1>1, <1>9, <2>1, <2>2, <2>3 DEF TypeOK, CallRec, tables
<1>13. LoadingOK'
  <2> SUFFICES ASSUME NEW j \in Scope, loading'[j] # NoCall
               PROVE  /\ call'[loading'[j]].pc = "waiting"
                      /\ call'[loading'[j]].on = loading'[j]
                      /\ call'[loading'[j]].scope = j
    BY DEF LoadingOK, Waits
  <2>1. CASE loading'[j] = c
    <3>1. j = k
      BY <1>0, <1>1, <1>10, <2>1 DEF LoadingOK, Waits
    <3> QED BY <1>7, <1>10, <2>1, <3>1
  <2>2. CASE loading'[j] # c
    <3>1. loading'[j] = loading[j] /\ loading[j] \in Call
      BY <1>0, <1>4, <1>10, <2>2 DEF TypeOK
    <3> QED BY <1>0, <1>10, <2>2, <3>1 DEF LoadingOK, Waits
  <2> QED BY <2>1, <2>2
<1>14. LoadsOK'
  <2> SUFFICES ASSUME NEW d \in Call, load'[d].st # "none"
               PROVE  /\ call'[d].pc \in {"waiting", "answered", "failed", "killed"}
                      /\ call'[d].at <= load'[d].from /\ load'[d].from <= now
                      /\ Truthful(load'[d].has, load'[d].todo, call'[d].scope, load'[d].from)
                      /\ load'[d].st = "loaded" => load'[d].todo = {}
                      /\ load'[d].st = "running" => call'[d].pc = "waiting" /\ call'[d].on = d
    BY <1>1 DEF LoadsOK, Waits, Truthful, InScope, tables
  <2>1. CASE d = c
    <3>1. s = c
      BY <1>3, <1>11, <2>1
    <3>2. Truthful({}, Entry, k, now)
      BY DEF Truthful
    <3>3. load'[d] = l /\ call'[d] = r
      BY <1>10, <1>11, <2>1, <3>1
    <3>4. call[c].at <= now /\ now <= now
      BY <1>2
    <3> QED BY <1>6, <1>7, <2>1, <3>1, <3>2, <3>3, <3>4
  <2>2. CASE d # c
    BY <1>0, <1>10, <1>11, <2>2 DEF LoadsOK, Waits
  <2> QED BY <2>1, <2>2
<1>15. WaitersOK'
  <2> SUFFICES ASSUME NEW d \in Call, call'[d].pc = "waiting"
               PROVE  /\ call'[d].on \in Call
                      /\ load'[call'[d].on].st # "none"
                      /\ call'[call'[d].on].scope = call'[d].scope
                      /\ now <= load'[call'[d].on].from + Lifetime
                      /\ load'[call'[d].on].st # "running" => load'[call'[d].on].end = now
    BY <1>1 DEF WaitersOK, Waits
  <2>1. CASE d = c /\ s = c
    <3>1. now <= now + Lifetime
      BY <1>2, BoundsAssumption
    <3> QED BY <1>6, <1>7, <1>10, <1>11, <2>1, <3>1
  <2>2. CASE d = c /\ s # c
    <3>1. s = loading[k] /\ Waits(s) /\ call[s].on = s /\ call[s].scope = k
      BY <1>0, <1>2, <1>4, <2>2, NamesAssumption DEF LoadingOK
    <3>2. /\ load[s].st # "none" /\ now <= load[s].from + Lifetime
          /\ load[s].st # "running" => load[s].end = now
      BY <1>0, <1>4, <3>1 DEF WaitersOK
    <3>3. load'[s] = load[s] /\ call'[s] = call[s]
      BY <1>4, <1>10, <1>11, <2>2
    <3> QED BY <1>4, <1>7, <1>10, <2>2, <3>1, <3>2, <3>3
  <2>3. CASE d # c
    <3>1. call'[d] = call[d] /\ call[d].on \in Call /\ load[call[d].on].st # "none"
      BY <1>0, <1>10, <2>3 DEF WaitersOK, Waits
    <3>2. call[d].on # c
      BY <1>3, <3>1
    <3>3. load'[call[d].on] = load[call[d].on] /\ call'[call[d].on] = call[call[d].on]
      BY <1>10, <1>11, <3>1, <3>2
    <3> QED BY <1>0, <2>3, <3>1, <3>3 DEF WaitersOK, Waits
  <2> QED BY <2>1, <2>2, <2>3
<1>16. ProfilesOK' /\ CorporaOK'
  BY <1>1 DEF IInv, ProfilesOK, CorporaOK, SaidSince, Normalized, Truthful, InScope,
              tables, Fresh
<1> QED BY <1>9, <1>12, <1>13, <1>14, <1>15, <1>16 DEF IInv

LEMMA SettleKeeps ==
  ASSUME IInv, NEW c \in Call, NEW st \in {"loaded", "failed"}, Settle(c, st)
  PROVE  IInv'
<1>0. TypeOK /\ LoadsOK /\ WaitersOK
  BY DEF IInv
<1> DEFINE l == [load[c] EXCEPT !.st = st, !.end = now]
           LoadRec == [st : {"none", "running", "loaded", "failed"}, from : Nat,
                       end : Nat, todo : SUBSET Entry, has : SUBSET Entry]
<1>1. load[c].st = "running" /\ (st = "loaded" => load[c].todo = {})
      /\ UNCHANGED <<now, tables, profiles, corpora, loading, call>>
  BY DEF Settle, caches
<1>2. load' = [load EXCEPT ![c] = l]
  BY <1>0 DEF Settle, TypeOK
<1>3. load[c] \in LoadRec /\ now \in Nat
  BY <1>0 DEF TypeOK
<1>4. l \in LoadRec /\ l.st = st /\ l.end = now /\ l.from = load[c].from
      /\ l.has = load[c].has /\ l.todo = load[c].todo
  BY <1>3
<1>5. load'[c] = l /\ \A d \in Call : d # c => load'[d] = load[d]
  BY <1>0, <1>2 DEF TypeOK
<1> HIDE DEF l
<1>6. TypeOK'
  <2>1. load' \in [Call -> LoadRec]
    BY <1>0, <1>2, <1>4 DEF TypeOK
  <2> QED BY <1>0, <1>1, <2>1 DEF TypeOK, tables
<1>7. LoadsOK'
  <2> SUFFICES ASSUME NEW d \in Call, load'[d].st # "none"
               PROVE  /\ call[d].pc \in {"waiting", "answered", "failed", "killed"}
                      /\ call[d].at <= load'[d].from /\ load'[d].from <= now
                      /\ Truthful(load'[d].has, load'[d].todo, call[d].scope, load'[d].from)
                      /\ load'[d].st = "loaded" => load'[d].todo = {}
                      /\ load'[d].st = "running" => Waits(d) /\ call[d].on = d
    BY <1>1 DEF LoadsOK, Waits, Truthful, InScope, tables
  <2>1. CASE d = c
    <3>1. load[d].st # "none"
      BY <1>1, <2>1
    <3> QED BY <1>0, <1>1, <1>4, <1>5, <2>1, <3>1 DEF LoadsOK
  <2>2. CASE d # c
    BY <1>0, <1>5, <2>2 DEF LoadsOK
  <2> QED BY <2>1, <2>2
<1>8. WaitersOK'
  <2> SUFFICES ASSUME NEW d \in Call, Waits(d)
               PROVE  /\ call[d].on \in Call
                      /\ load'[call[d].on].st # "none"
                      /\ call[call[d].on].scope = call[d].scope
                      /\ now <= load'[call[d].on].from + Lifetime
                      /\ load'[call[d].on].st # "running" => load'[call[d].on].end = now
    BY <1>1 DEF WaitersOK, Waits
  <2>1. CASE call[d].on = c
    BY <1>0, <1>4, <1>5, <2>1 DEF WaitersOK
  <2>2. CASE call[d].on # c
    BY <1>0, <1>5, <2>2 DEF WaitersOK
  <2> QED BY <2>1, <2>2
<1>9. ProfilesOK' /\ CorporaOK' /\ LoadingOK' /\ CallsOK' /\ RowIsRecent'
      /\ WithdrawnIsGone' /\ PublishedIsThere'
  BY <1>1 DEF IInv, ProfilesOK, CorporaOK, LoadingOK, Waits, CallsOK, RowIsRecent,
              WithdrawnIsGone, PublishedIsThere, SaidSince, Normalized, Truthful, InScope, tables
<1> QED BY <1>6, <1>7, <1>8, <1>9 DEF IInv

\* A call that waited for a load goes on: nobody joins that load any more.
LEMMA WaiterLeaves ==
  ASSUME IInv, NEW c \in Call, Waits(c), load[call[c].on].st \in {"loaded", "failed"},
         NEW r \in CallRec, r.pc \in {"answered", "failed"}, r.scope = call[c].scope,
         r.at = call[c].at, call' = [call EXCEPT ![c] = r], loading' = Released(c),
         UNCHANGED <<now, tables, load>>
  PROVE  loading' \in [Scope -> Call \cup {NoCall}] /\ LoadingOK' /\ LoadsOK' /\ WaitersOK'
<1>0. TypeOK /\ CallsOK /\ LoadingOK /\ LoadsOK /\ WaitersOK
  BY DEF IInv
<1>1. /\ call'[c] = r /\ \A d \in Call : d # c => call'[d] = call[d]
  BY <1>0 DEF TypeOK
<1> DEFINE k == call[c].scope
<1>2. k \in Scope
  BY <1>0 DEF CallsOK, Waits
<1>3. /\ loading'[k] = IF loading[k] = call[c].on THEN NoCall ELSE loading[k]
      /\ \A j \in Scope : j # k => loading'[j] = loading[j]
      /\ loading' \in [Scope -> Call \cup {NoCall}]
  BY <1>0, <1>2 DEF Released, TypeOK
<1>4. LoadingOK'
  <2> SUFFICES ASSUME NEW j \in Scope, loading'[j] # NoCall
               PROVE  /\ call'[loading'[j]].pc = "waiting"
                      /\ call'[loading'[j]].on = loading'[j]
                      /\ call'[loading'[j]].scope = j
    BY DEF LoadingOK, Waits
  <2>1. loading'[j] = loading[j] /\ loading[j] \in Call
    BY <1>0, <1>3 DEF TypeOK
  <2>2. Waits(loading[j]) /\ call[loading[j]].on = loading[j] /\ call[loading[j]].scope = j
    BY <1>0, <2>1 DEF LoadingOK
  <2>3. loading[j] # c
    BY <1>3, <2>1, <2>2
  <2> QED BY <1>1, <2>1, <2>2, <2>3 DEF Waits
<1>5. LoadsOK'
  <2> SUFFICES ASSUME NEW d \in Call, load[d].st # "none"
               PROVE  /\ call'[d].pc \in {"waiting", "answered", "failed", "killed"}
                      /\ call'[d].at <= load[d].from /\ load[d].from <= now
                      /\ Truthful(load[d].has, load[d].todo, call'[d].scope, load[d].from)
                      /\ load[d].st = "loaded" => load[d].todo = {}
                      /\ load[d].st = "running" => call'[d].pc = "waiting" /\ call'[d].on = d
    BY DEF LoadsOK, Waits, Truthful, InScope, tables
  <2>1. CASE d = c
    BY <1>0, <1>1, <2>1 DEF LoadsOK
  <2>2. CASE d # c
    BY <1>0, <1>1, <2>2 DEF LoadsOK, Waits
  <2> QED BY <2>1, <2>2
<1>6. WaitersOK'
  <2> SUFFICES ASSUME NEW d \in Call, call'[d].pc = "waiting"
               PROVE  /\ call'[d].on \in Call
                      /\ load[call'[d].on].st # "none"
                      /\ call'[call'[d].on].scope = call'[d].scope
                      /\ now <= load[call'[d].on].from + Lifetime
                      /\ load[call'[d].on].st # "running" => load[call'[d].on].end = now
    BY DEF WaitersOK, Waits
  <2>1. d # c /\ call'[d] = call[d] /\ Waits(d)
    BY <1>1 DEF Waits
  <2>2. call[d].on \in Call /\ call[call[d].on].scope = call[d].scope
    BY <1>0, <2>1 DEF WaitersOK
  <2>3. call'[call[d].on].scope = call[call[d].on].scope
    BY <1>1, <2>2
  <2> QED BY <1>0, <2>1, <2>2, <2>3 DEF WaitersOK
<1> QED BY <1>3, <1>4, <1>5, <1>6

LEMMA ResumeFailedKeeps ==
  ASSUME IInv, NEW c \in Call, ResumeFailed(c)
  PROVE  IInv'
<1>0. TypeOK
  BY DEF IInv
<1> DEFINE r == [call[c] EXCEPT !.pc = "failed", !.on = NoCall]
<1>1. Waits(c) /\ load[call[c].on].st = "failed" /\ loading' = Released(c)
      /\ UNCHANGED <<now, tables, profiles, corpora, load>>
  BY DEF ResumeFailed, Waits, caches
<1>2. call[c] \in CallRec
  BY <1>0 DEF TypeOK, CallRec
<1>3. r \in CallRec /\ r.pc = "failed" /\ r.scope = call[c].scope /\ r.at = call[c].at
      /\ r.agent = call[c].agent
  BY <1>2 DEF CallRec
<1>4. call' = [call EXCEPT ![c] = r]
  BY <1>0 DEF ResumeFailed, TypeOK
<1> HIDE DEF r
<1>5. Sound(r)
  <2>1. call[c].at <= now /\ (call[c].agent # NoAgent => call[c].scope # NoAgent)
    BY DEF IInv, CallsOK
  <2> QED BY <1>3, <2>1 DEF Sound
<1>6. call' \in [Call -> CallRec]
      /\ CallsOK' /\ RowIsRecent' /\ WithdrawnIsGone' /\ PublishedIsThere'
  BY <1>1, <1>3, <1>4, <1>5, OneCallChanges
<1>7. loading' \in [Scope -> Call \cup {NoCall}] /\ LoadingOK' /\ LoadsOK' /\ WaitersOK'
  <2>1. load[call[c].on].st \in {"loaded", "failed"} /\ r.pc \in {"answered", "failed"}
    BY <1>1, <1>3
  <2> QED BY <1>1, <1>3, <1>4, <2>1, WaiterLeaves
<1>8. TypeOK' /\ ProfilesOK' /\ CorporaOK'
  BY <1>1, <1>6, <1>7 DEF IInv, TypeOK, CallRec, ProfilesOK, CorporaOK, SaidSince,
                          Normalized, Truthful, InScope, tables
<1> QED BY <1>6, <1>7, <1>8 DEF IInv

LEMMA ResumeKeeps ==
  ASSUME IInv, NEW c \in Call, Resume(c)
  PROVE  IInv'
<1>0. TypeOK /\ CallsOK /\ LoadsOK /\ WaitersOK /\ CorporaOK
  BY DEF IInv
<1> DEFINE l == load[call[c].on]
           k == call[c].scope
           r == [call[c] EXCEPT !.pc = "answered", !.on = NoCall, !.has = l.has]
           p == [key |-> k, has |-> l.has, from |-> l.from, expiresAt |-> now + CorpusTtl]
<1>1. Waits(c) /\ l.st = "loaded" /\ loading' = Released(c)
      /\ UNCHANGED <<now, tables, profiles, load>>
  BY DEF Resume, Waits
<1>2. call[c] \in CallRec /\ call[c].at \in Nat /\ call[c].at <= now /\ k \in Scope
      /\ now \in Nat
  BY <1>0, <1>1 DEF TypeOK, CallRec, CallsOK, Waits
<1>3. call[c].on \in Call /\ call[call[c].on].scope = k /\ now <= l.from + Lifetime
  BY <1>0, <1>1 DEF WaitersOK
<1>4. l.has \in SUBSET Entry /\ l.from \in Nat /\ l.from <= now /\ Truthful(l.has, {}, k, l.from)
  <2>1. l.has \in SUBSET Entry /\ l.from \in Nat
    BY <1>0, <1>3 DEF TypeOK
  <2>2. l.st # "none"
    BY <1>1
  <2>3. l.from <= now /\ l.todo = {} /\ Truthful(l.has, l.todo, call[call[c].on].scope, l.from)
    BY <1>0, <1>1, <1>3, <2>2 DEF LoadsOK
  <2> QED BY <1>3, <2>1, <2>3
<1>5. call' = [call EXCEPT ![c] = r]
  BY <1>0 DEF Resume, TypeOK
<1>6. corpora' \subseteq corpora \cup {p}
  BY DEF Resume, CacheCorpus, Put, Without, PrunedTo, Fresh
<1> HIDE DEF l
<1>7. r \in CallRec /\ r.pc = "answered" /\ r.scope = k /\ r.at = call[c].at /\ r.has = l.has
      /\ r.agent = call[c].agent
  BY <1>2, <1>4 DEF CallRec
<1>8. p \in [key : Scope, has : SUBSET Entry, from : Nat, expiresAt : Nat]
      /\ p.key = k /\ p.has = l.has /\ p.from = l.from /\ p.expiresAt = now + CorpusTtl
  BY <1>2, <1>4, BoundsAssumption
<1> HIDE DEF r, p, k
<1>9. Sound(r)
  <2>1. Sound(call[c]) /\ call[c].pc \in {"ready", "waiting"}
    BY <1>1, SoundIs DEF IInv, AllSound, Waits
  <2>2. now < l.from + Lifetime + CorpusTtl
    BY <1>2, <1>3, <1>4, BoundsAssumption
  <2>3. /\ \A e \in l.has : /\ InScope(e, k)
                            /\ public[e] \/ hidden[e] + Lifetime + CorpusTtl > call[c].at
        /\ \A e \in Entry :
             InScope(e, k) /\ public[e] /\ shown[e] + Lifetime + CorpusTtl <= call[c].at
             => e \in l.has
    BY <1>0, <1>2, <1>4, <2>2, RecentCorpus
  <2>4. r.scope = call[c].scope
    BY <1>7 DEF k
  <2> QED BY <1>0, <1>7, <2>1, <2>3, <2>4, AnsweredIsSound
<1>10. call' \in [Call -> CallRec]
       /\ CallsOK' /\ RowIsRecent' /\ WithdrawnIsGone' /\ PublishedIsThere'
  BY <1>1, <1>5, <1>7, <1>9, OneCallChanges
<1>11. loading' \in [Scope -> Call \cup {NoCall}] /\ LoadingOK' /\ LoadsOK' /\ WaitersOK'
  <2>1. load[call[c].on].st \in {"loaded", "failed"} /\ r.pc \in {"answered", "failed"}
    BY <1>1, <1>7 DEF l
  <2>2. r.scope = call[c].scope /\ r.at = call[c].at
    BY <1>7 DEF k
  <2> QED BY <1>1, <1>5, <1>7, <2>1, <2>2, WaiterLeaves
<1>12. TypeOK'
  BY <1>0, <1>1, <1>6, <1>8, <1>10, <1>11 DEF TypeOK, CallRec, tables
<1>13. CorporaOK'
  <2> SUFFICES ASSUME NEW q \in corpora'
               PROVE  /\ q.from <= now /\ q.expiresAt <= q.from + Lifetime + CorpusTtl
                      /\ Truthful(q.has, {}, q.key, q.from)
    BY <1>1 DEF CorporaOK, Truthful, InScope, tables
  <2>1. CASE q \in corpora
    BY <1>0, <2>1 DEF CorporaOK
  <2>2. CASE q = p
    <3>1. now + CorpusTtl <= l.from + Lifetime + CorpusTtl
      BY <1>2, <1>3, <1>4, BoundsAssumption
    <3> QED BY <1>4, <1>8, <2>2, <3>1
  <2> QED BY <1>6, <2>1, <2>2
<1>14. ProfilesOK'
  BY <1>1 DEF IInv, ProfilesOK, SaidSince, Normalized, tables
<1> QED BY <1>10, <1>11, <1>12, <1>13, <1>14 DEF IInv

-----------------------------------------------------------------------------
(* Time and the end of a sandbox                                           *)

LEMMA KilledKeeps ==
  ASSUME IInv, Killed
  PROVE  IInv'
<1>0. TypeOK
  BY DEF IInv
<1>1. /\ profiles' = {} /\ corpora' = {}
      /\ loading' = [k \in Scope |-> NoCall]
      /\ load' = [c \in Call |-> Load("none", 0, {})]
      /\ UNCHANGED <<now, tables>>
  BY DEF Killed
<1>2. ASSUME NEW c \in Call
      PROVE  /\ call'[c] \in CallRec /\ Sound(call'[c])
             /\ call'[c].pc # "waiting"
  <2> DEFINE r == [call[c] EXCEPT !.pc = "killed", !.on = NoCall]
  <2>1. call[c] \in CallRec /\ Sound(call[c])
    BY <1>0, SoundIs DEF IInv, TypeOK, CallRec, AllSound
  <2>2. CASE c \in Running
    <3>1. call'[c] = r
      BY <2>2 DEF Killed
    <3>2. r \in CallRec /\ r.pc = "killed" /\ r.scope = call[c].scope /\ r.at = call[c].at
          /\ r.agent = call[c].agent
      BY <2>1 DEF CallRec
    <3> HIDE DEF r
    <3>3. Sound(r)
      BY <2>1, <3>2 DEF Sound
    <3> QED BY <3>1, <3>2, <3>3
  <2>3. CASE c \notin Running
    <3>1. call'[c] = call[c]
      BY <2>3 DEF Killed
    <3> QED BY <2>1, <2>3, <3>1 DEF Running
  <2> QED BY <2>2, <2>3
<1>3. call' \in [Call -> CallRec]
  <2>1. call' = [c \in Call |-> call'[c]]
    BY DEF Killed
  <2> QED BY <1>2, <2>1
<1>4. CallsOK' /\ RowIsRecent' /\ WithdrawnIsGone' /\ PublishedIsThere'
  <2>1. AllSound'
    BY <1>1, <1>2 DEF AllSound, Sound, tables, SaidSince, Normalized, InScope
  <2>2. (AllSound <=> CallsOK /\ RowIsRecent /\ WithdrawnIsGone /\ PublishedIsThere)'
    BY SoundIs, PTL
  <2> QED BY <2>1, <2>2
<1>5. TypeOK'
  <2>1. load' \in [Call -> [st : {"none", "running", "loaded", "failed"}, from : Nat,
                            end : Nat, todo : SUBSET Entry, has : SUBSET Entry]]
    BY <1>1 DEF Load
  <2>2. loading' \in [Scope -> Call \cup {NoCall}]
    BY <1>1
  <2> QED BY <1>0, <1>1, <1>3, <2>1, <2>2 DEF TypeOK, CallRec, tables
<1>6. LoadingOK' /\ LoadsOK' /\ WaitersOK'
  <2>1. \A c \in Call : load'[c].st = "none"
    BY <1>1 DEF Load
  <2> QED BY <1>1, <1>2, <2>1 DEF LoadingOK, LoadsOK, WaitersOK, Waits
<1>7. ProfilesOK' /\ CorporaOK'
  BY <1>1 DEF ProfilesOK, CorporaOK
<1> QED BY <1>4, <1>5, <1>6, <1>7 DEF IInv

LEMMA TickKeeps ==
  ASSUME IInv, Tick
  PROVE  IInv'
<1>0. TypeOK /\ CallsOK /\ LoadsOK /\ WaitersOK /\ ProfilesOK /\ CorporaOK /\ now \in Nat
  BY DEF IInv, TypeOK
<1>1. now' = now + 1 /\ UNCHANGED <<tables, profiles, corpora, loading, load, call>>
  BY DEF Tick, caches
<1>2. TypeOK' /\ LoadingOK' /\ RowIsRecent' /\ WithdrawnIsGone' /\ PublishedIsThere'
  <2>1. TypeOK'
    <3>1. now + 1 \in Nat
      BY <1>0
    <3> QED BY <1>0, <1>1, <3>1 DEF TypeOK, tables
  <2>2. LoadingOK'
    BY <1>1 DEF IInv, LoadingOK, Waits
  <2>3. RowIsRecent'
    BY <1>1 DEF IInv, RowIsRecent, Normalized, tables
  <2>4. WithdrawnIsGone' /\ PublishedIsThere'
    BY <1>1 DEF IInv, WithdrawnIsGone, PublishedIsThere, InScope, tables
  <2> QED BY <2>1, <2>2, <2>3, <2>4
<1>3. ProfilesOK'
  <2> SUFFICES ASSUME NEW p \in profiles
               PROVE  p.expiresAt - ProfileTtl <= now + 1
                      /\ SaidSince(p.key, p.row, p.expiresAt - ProfileTtl)
    BY <1>1 DEF ProfilesOK, SaidSince, Normalized, tables
  <2>1. p.expiresAt \in Nat
    BY <1>0 DEF TypeOK
  <2> QED BY <1>0, <2>1, BoundsAssumption DEF ProfilesOK
<1>4. CorporaOK'
  <2> SUFFICES ASSUME NEW p \in corpora
               PROVE  p.from <= now + 1
    BY <1>0, <1>1 DEF CorporaOK, Truthful, InScope, tables
  <2>1. p.from \in Nat /\ p.from <= now
    BY <1>0 DEF TypeOK, CorporaOK
  <2> QED BY <1>0, <2>1
<1>5. LoadsOK'
  <2> SUFFICES ASSUME NEW c \in Call, load[c].st # "none"
               PROVE  load[c].from <= now + 1
    BY <1>0, <1>1 DEF LoadsOK, Waits, Truthful, InScope, tables
  <2>1. load[c].from \in Nat /\ load[c].from <= now
    BY <1>0 DEF TypeOK, LoadsOK
  <2> QED BY <1>0, <2>1
<1>6. WaitersOK'
  <2> SUFFICES ASSUME NEW c \in Call, Waits(c)
               PROVE  /\ now + 1 <= load[call[c].on].from + Lifetime
                      /\ load[call[c].on].st = "running"
    BY <1>0, <1>1 DEF WaitersOK, Waits
  <2> DEFINE s == call[c].on
  <2>1. s \in Call
    BY <1>0 DEF WaitersOK
  <2>2. c \in Running
    BY DEF Running, Waits
  <2>3. load[s].st = "running"
    BY <2>2 DEF Tick, Waits
  <2>4. Waits(s) /\ call[s].at <= load[s].from
    BY <1>0, <2>1, <2>3 DEF LoadsOK
  <2>5. s \in Running
    BY <2>1, <2>4 DEF Running, Waits
  <2>6. now < call[s].at + Lifetime
    BY <2>5 DEF Tick
  <2>7. call[s].at \in Nat /\ load[s].from \in Nat
    BY <1>0, <2>1 DEF TypeOK
  <2> HIDE DEF s
  <2>8. now + 1 <= load[s].from + Lifetime
    BY <1>0, <2>4, <2>6, <2>7, BoundsAssumption
  <2> QED BY <2>3, <2>8 DEF s
<1>7. CallsOK'
  <2> SUFFICES ASSUME NEW c \in Call
               PROVE  call[c].at <= now + 1
    BY <1>0, <1>1 DEF CallsOK, SaidSince, Normalized, tables
  <2>1. call[c].at \in Nat /\ call[c].at <= now
    BY <1>0 DEF TypeOK, CallsOK
  <2> QED BY <1>0, <2>1
<1> QED BY <1>2, <1>3, <1>4, <1>5, <1>6, <1>7 DEF IInv

LEMMA InitHolds == Init => IInv
<1> SUFFICES ASSUME Init PROVE IInv
  OBVIOUS
<1>1. \A c \in Call : call[c] = [pc |-> "idle", agent |-> NoAgent, at |-> 0, scope |-> Off,
                                 on |-> NoCall, has |-> {}]
  BY DEF Init, Request
<1>2. \A c \in Call : load[c] = [st |-> "none", from |-> 0, end |-> 0, todo |-> {}, has |-> {}]
  BY DEF Init, Load
<1>3. TypeOK
  <2>1. call \in [Call -> CallRec]
    BY <1>1 DEF Init, CallRec
  <2>2. load \in [Call -> [st : {"none", "running", "loaded", "failed"}, from : Nat,
                           end : Nat, todo : SUBSET Entry, has : SUBSET Entry]]
    BY <1>2 DEF Init
  <2>3. loading \in [Scope -> Call \cup {NoCall}]
    BY DEF Init
  <2>4. /\ until \in [Agent -> [Agent \cup {Off} -> Int]]
        /\ hidden \in [Entry -> Int] /\ shown \in [Entry -> Int]
    BY DEF Init, Never
  <2>5. row \in [Agent -> Rows] /\ public \in [Entry -> BOOLEAN]
    BY DEF Init
  <2>6. now \in Nat /\ edits \in Nat /\ profiles = {} /\ corpora = {}
    BY DEF Init
  <2> QED BY <2>1, <2>2, <2>3, <2>4, <2>5, <2>6 DEF TypeOK, CallRec
<1>4. ProfilesOK /\ CorporaOK /\ LoadingOK
  BY DEF Init, ProfilesOK, CorporaOK, LoadingOK
<1>5. LoadsOK /\ WaitersOK /\ CallsOK
  BY <1>1, <1>2, NamesAssumption DEF LoadsOK, WaitersOK, CallsOK, Waits, Init
<1>6. RowIsRecent /\ WithdrawnIsGone /\ PublishedIsThere
  BY <1>1 DEF RowIsRecent, WithdrawnIsGone, PublishedIsThere
<1> QED BY <1>3, <1>4, <1>5, <1>6 DEF IInv

LEMMA NextKeeps ==
  ASSUME IInv, [Next]_vars
  PROVE  IInv'
<1>1. ASSUME NEW a \in Agent, NEW r \in Rows, EditRow(a, r) PROVE IInv'
  BY <1>1, EditRowKeeps
<1>2. ASSUME NEW e \in Entry, EditEntry(e) PROVE IInv'
  BY <1>2, EditEntryKeeps
<1>3. ASSUME NEW c \in Call, StartDefault(c) PROVE IInv'
  BY <1>3, StartDefaultKeeps
<1>4. ASSUME NEW c \in Call, NEW a \in Agent, StartNamed(c, a) PROVE IInv'
  BY <1>4, StartNamedKeeps
<1>5. ASSUME NEW c \in Call, ReadRow(c) PROVE IInv'
  BY <1>5, ReadRowKeeps
<1>6. ASSUME NEW c \in Call, StoreProfile(c) PROVE IInv'
  BY <1>6, StoreProfileKeeps
<1>7. ASSUME NEW c \in Call, ReadFails(c) PROVE IInv'
  BY <1>7, ReadFailsKeeps
<1>8. ASSUME NEW c \in Call, Retrieve(c) PROVE IInv'
  BY <1>8, HitKeeps, MissKeeps
<1>9. ASSUME NEW c \in Call, NEW e \in Entry, ScanPage(c, e) PROVE IInv'
  BY <1>9, ScanPageKeeps
<1>10. ASSUME NEW c \in Call, NEW st \in {"loaded", "failed"}, Settle(c, st) PROVE IInv'
  BY <1>10, SettleKeeps
<1>11. ASSUME NEW c \in Call, Resume(c) PROVE IInv'
  BY <1>11, ResumeKeeps
<1>12. ASSUME NEW c \in Call, ResumeFailed(c) PROVE IInv'
  BY <1>12, ResumeFailedKeeps
<1>13. CASE UNCHANGED vars
  <2>1. UNCHANGED <<now, tables, profiles, corpora, loading, load, call>>
    BY <1>13 DEF vars, caches
  <2>2. TypeOK' /\ LoadingOK'
    BY <2>1 DEF IInv, TypeOK, LoadingOK, Waits, tables
  <2>3. ProfilesOK' /\ CorporaOK'
    BY <2>1 DEF IInv, ProfilesOK, CorporaOK, SaidSince, Normalized, Truthful, InScope, tables
  <2>4. LoadsOK' /\ WaitersOK'
    BY <2>1 DEF IInv, LoadsOK, WaitersOK, Waits, Truthful, InScope, tables
  <2>5. CallsOK' /\ RowIsRecent'
    BY <2>1 DEF IInv, CallsOK, RowIsRecent, SaidSince, Normalized, tables
  <2>6. WithdrawnIsGone' /\ PublishedIsThere'
    BY <2>1 DEF IInv, WithdrawnIsGone, PublishedIsThere, InScope, tables
  <2> QED BY <2>2, <2>3, <2>4, <2>5, <2>6 DEF IInv
<1> QED BY <1>1, <1>2, <1>3, <1>4, <1>5, <1>6, <1>7, <1>8, <1>9, <1>10, <1>11, <1>12, <1>13,
           KilledKeeps, TickKeeps DEF Next

-----------------------------------------------------------------------------
\* What the sandbox remembers and every call made of it is sound, type
\* correctness included, for any tables, TTLs, cache sizes and calls.
THEOREM Invariance == Spec => []IInv
BY InitHolds, NextKeeps, PTL DEF Spec

\* No request is served on a profile or a corpus that is older than the TTLs allow.
THEOREM RecentService == Spec => []WhatIsServedIsRecent
<1>1. IInv => WhatIsServedIsRecent
  BY DEF IInv, WhatIsServedIsRecent
<1> QED BY Invariance, <1>1, PTL

\* A failed load fails only the calls that were there to wait for it.
THEOREM FailuresPass == Spec => FailuresDoNotStick
<1>1. IInv /\ [Next]_vars
      => [\A c \in Call : call[c].pc = "waiting" /\ call'[c].pc = "failed"
                         => load[call[c].on].end >= call[c].at]_vars
  <2> SUFFICES ASSUME IInv, Next, NEW c \in Call, call[c].pc = "waiting",
                      call'[c].pc = "failed"
               PROVE  load[call[c].on].end >= call[c].at
    OBVIOUS
  <2>1. load[call[c].on].st # "running"
    <3>1. call \in [Call -> CallRec] /\ call'[c] # call[c]
      BY DEF IInv, TypeOK, CallRec
    <3>2. ~UNCHANGED call
      BY <3>1
    <3>3. ASSUME NEW d \in Call, call[d].pc # "waiting" \/ d # c,
                 \A b \in Call : b # d => call'[b] = call[b]
          PROVE  FALSE
      BY <3>1, <3>3
    <3>4. \A d \in Call : ~StartDefault(d)
      BY <3>1, <3>3 DEF StartDefault
    <3>5. \A d \in Call, a \in Agent : ~StartNamed(d, a)
      BY <3>1, <3>3 DEF StartNamed
    <3>6. \A d \in Call : ~ReadRow(d) /\ ~StoreProfile(d) /\ ~ReadFails(d)
      BY <3>1, <3>3 DEF ReadRow, StoreProfile, ReadFails
    <3>7. \A d \in Call : ~Retrieve(d)
      BY <3>1, <3>3 DEF Retrieve
    <3>8. ASSUME NEW d \in Call, Resume(d)
          PROVE  FALSE
      <4>1. d = c
        BY <3>1, <3>3, <3>8 DEF Resume
      <4>2. call'[c].pc = "answered"
        BY <3>1, <3>8, <4>1 DEF Resume, CallRec
      <4> QED BY <4>2
    <3>9. ~Killed
      <4>1. ASSUME Killed PROVE call'[c].pc = "killed"
        <5>1. c \in Running
          BY DEF Running
        <5>2. call'[c] = [call[c] EXCEPT !.pc = "killed", !.on = NoCall]
          BY <4>1, <5>1 DEF Killed
        <5> QED BY <3>1, <5>2 DEF CallRec
      <4> QED BY <4>1
    <3>10. PICK d \in Call : ResumeFailed(d)
      BY <3>2, <3>4, <3>5, <3>6, <3>7, <3>8, <3>9
         DEF Next, EditRow, EditEntry, ScanPage, Settle, Tick
    <3>11. d = c
      BY <3>1, <3>3, <3>10 DEF ResumeFailed
    <3> QED BY <3>10, <3>11 DEF ResumeFailed
  <2>2. Waits(c) /\ now \in Nat /\ call[c].at <= now
    BY DEF IInv, Waits, TypeOK, CallsOK
  <2> QED BY <2>1, <2>2 DEF IInv, WaitersOK
<1> QED BY Invariance, <1>1, PTL DEF Spec, FailuresDoNotStick

-----------------------------------------------------------------------------
(* AgentCache *)

\* A call under way is a record of GetOrLoad.
LEMMA AskedIs ==
  ASSUME ValuesOK, NEW c \in Caller, asked[c] # NotAsked
  PROVE  /\ asked[c] \in GetOrLoad
         /\ asked[c].agent \in AgentId /\ asked[c].load \in Caller
         /\ asked[c].since \in Nat /\ asked[c].gen \in 0..MaxWrites
         /\ asked[c].pc \in {"waiting", "resolved", "rejected"}
<1>1. asked[c] \in GetOrLoad
  BY DEF ValuesOK
<1> QED BY <1>1, CacheAssumption DEF GetOrLoad

\* An entry is never live and absent at once.
LEMMA LiveIsEntry ==
  ASSUME ValuesOK, NEW a \in AgentId, ~Expired(a)
  PROVE  entry[a] # NoEntry
<1>1. clock \in Nat
  BY CacheAssumption DEF ValuesOK
<1> QED BY <1>1 DEF Expired, NoEntry

\* What the Map forgets, it forgets: an entry is dropped, stored or kept.
LEMMA StoreChanges ==
  ASSUME ValuesOK, NEW a \in AgentId, NEW g \in 0..MaxWrites, Store(a, g)
  PROVE  /\ entry' \in [AgentId -> CacheEntry]
         /\ entry'[a].gen = g
         /\ \A b \in AgentId : b # a => entry'[b] \in {entry[b], NoEntry}
<1>1. NoEntry \in CacheEntry
  BY CacheAssumption DEF NoEntry, CacheEntry
<1>2. [gen |-> g, expires |-> clock + Ttl] \in CacheEntry
  BY CacheAssumption DEF ValuesOK, CacheEntry
<1>3. entry \in [AgentId -> CacheEntry]
  BY DEF ValuesOK
<1>4. PICK keys : entry' = [b \in AgentId |->
        IF b = a THEN [gen |-> g, expires |-> clock + Ttl]
        ELSE IF b \in keys THEN entry[b] ELSE NoEntry]
  BY DEF Store
<1> QED BY <1>1, <1>2, <1>3, <1>4

LEMMA DropChanges ==
  ASSUME ValuesOK, NEW agents \in SUBSET AgentId, Drop(agents)
  PROVE  /\ entry' \in [AgentId -> CacheEntry]
         /\ \A b \in agents : entry'[b] = NoEntry
         /\ \A b \in AgentId \ agents : entry'[b] = entry[b]
<1>1. NoEntry \in CacheEntry
  BY CacheAssumption DEF NoEntry, CacheEntry
<1>2. entry \in [AgentId -> CacheEntry]
  BY DEF ValuesOK
<1>3. entry' = [b \in AgentId |-> IF b \in agents THEN NoEntry ELSE entry[b]]
  BY DEF Drop
<1> QED BY <1>1, <1>2, <1>3

\* Entries that are dropped or kept stay current while the generations stay.
LEMMA EntriesStayCurrent ==
  ASSUME EntriesAreCurrent, gen' = gen,
         \A b \in AgentId : entry'[b] \in {entry[b], NoEntry}
  PROVE  EntriesAreCurrent'
BY DEF EntriesAreCurrent

LEMMA CacheInitHolds == CacheInit => CacheIInv
<1> SUFFICES ASSUME CacheInit PROVE CacheIInv
  OBVIOUS
<1>1. ValuesOK
  BY CacheAssumption DEF CacheInit, ValuesOK, CacheEntry, NoEntry
<1>2. EntriesAreCurrent /\ FlightsAreRegistered
  BY DEF CacheInit, EntriesAreCurrent, FlightsAreRegistered
<1>3. LoadsAreRecent /\ LoadsStayRegistered /\ LoadsAreShared
  BY DEF CacheInit, LoadsAreRecent, LoadsStayRegistered, LoadsAreShared, Loading
<1> QED BY <1>1, <1>2, <1>3 DEF CacheIInv

-----------------------------------------------------------------------------
LEMMA HitKeepsCache ==
  ASSUME CacheIInv, NEW c \in Caller, NEW a \in AgentId, Hit(c, a)
  PROVE  CacheIInv'
BY DEF CacheIInv, Hit, ValuesOK, EntriesAreCurrent, FlightsAreRegistered, Registered,
       LoadsAreRecent, LoadsStayRegistered, LoadsAreShared, Loading

LEMMA ClockTicksKeepsCache ==
  ASSUME CacheIInv, ClockTicks
  PROVE  CacheIInv'
<1>1. ValuesOK'
  BY CacheAssumption DEF CacheIInv, ClockTicks, ValuesOK
<1> QED BY <1>1 DEF CacheIInv, ClockTicks, EntriesAreCurrent, FlightsAreRegistered,
       Registered, LoadsAreRecent, LoadsStayRegistered, LoadsAreShared, Loading

\* A call that begins waits for the load l, its own or the registered one.
LEMMA CallBegins ==
  ASSUME CacheIInv, NEW c \in Caller, NEW a \in AgentId, Miss(c, a),
         UNCHANGED <<clock, gen>>,
         NEW r \in GetOrLoad, asked' = [asked EXCEPT ![c] = r],
         r.agent = a, r.since = gen[a], r.gen = gen[a],
         \/ inFlight[a] = NoCaller /\ r.load = c /\ inFlight' = [inFlight EXCEPT ![a] = c]
         \/ r.load # c /\ inFlight' = inFlight
  PROVE  CacheIInv'
<1>1. /\ ValuesOK /\ EntriesAreCurrent /\ FlightsAreRegistered /\ LoadsAreRecent
      /\ LoadsStayRegistered /\ LoadsAreShared
  BY DEF CacheIInv
<1>2. r # NotAsked
  <2>1. r.pc # "none" /\ NotAsked.pc = "none"
    BY DEF GetOrLoad, NotAsked
  <2> QED BY <2>1
<1>3. asked'[c] = r /\ \A d \in Caller : d # c => asked'[d] = asked[d]
  BY <1>1 DEF ValuesOK
<1>4. asked[c] = NotAsked
  BY DEF Miss
<1>5. \A b \in AgentId : inFlight[b] # c
  BY <1>1, <1>4, CacheAssumption DEF FlightsAreRegistered, Registered
<1>6. gen[a] \in Nat
  BY <1>1, CacheAssumption DEF ValuesOK
<1>7. ValuesOK'
  <2>1. entry' \in [AgentId -> CacheEntry]
    BY <1>1, DropChanges DEF Miss
  <2> QED BY <1>1, <2>1 DEF ValuesOK
<1>8. EntriesAreCurrent'
  <2>1. \A b \in AgentId : entry'[b] \in {entry[b], NoEntry}
    BY <1>1, DropChanges DEF Miss
  <2> QED BY <1>1, <2>1, EntriesStayCurrent
<1>9. FlightsAreRegistered'
  <2> SUFFICES ASSUME NEW b \in AgentId, inFlight'[b] # NoCaller
               PROVE  Registered(inFlight[b], b)'
    BY DEF FlightsAreRegistered
  <2>1. CASE inFlight'[b] = c
    <3>1. b = a /\ r.load = c
      BY <1>1, <1>5, <2>1 DEF ValuesOK
    <3> QED BY <1>2, <1>3, <2>1, <3>1 DEF Registered
  <2>2. CASE inFlight'[b] # c
    <3>1. PICK l \in Caller : inFlight[b] = l /\ inFlight'[b] = l
      BY <1>1, <2>2 DEF ValuesOK
    <3>2. Registered(l, b)
      BY <1>1, <3>1, CacheAssumption DEF FlightsAreRegistered
    <3>3. asked'[l] = asked[l]
      BY <1>3, <2>2, <3>1
    <3> QED BY <3>1, <3>2, <3>3 DEF Registered
  <2> QED BY <2>1, <2>2
<1>10. LoadsAreRecent'
  BY <1>1, <1>3, <1>6 DEF LoadsAreRecent
<1>11. LoadsStayRegistered'
  <2> SUFFICES ASSUME NEW d \in Caller, NEW b \in AgentId, Loading(d)', Registered(d, b)'
               PROVE  inFlight'[b] = d
    BY DEF LoadsStayRegistered
  <2>1. CASE d = c
    BY <1>1, <1>3, <2>1 DEF Registered, ValuesOK
  <2>2. CASE d # c
    <3>1. Loading(d) /\ Registered(d, b)
      BY <1>3, <2>2 DEF Loading, Registered
    <3>2. inFlight[b] = d
      BY <1>1, <3>1 DEF LoadsStayRegistered
    <3> QED BY <1>1, <3>2, CacheAssumption DEF ValuesOK
  <2> QED BY <2>1, <2>2
<1>12. LoadsAreShared'
  <2>1. \A d \in Caller : d # c => (Loading(d)' <=> Loading(d))
    BY <1>3 DEF Loading
  <2>2. ASSUME NEW d \in Caller, d # c, Loading(c)', Loading(d), asked[d].agent = a,
               asked[d].gen = gen[a]
        PROVE  FALSE
    <3>1. inFlight[a] = NoCaller
      BY <1>3, <2>2 DEF Loading
    <3>2. Registered(d, a)
      BY <2>2 DEF Registered, Loading
    <3> QED BY <1>1, <2>2, <3>1, <3>2, CacheAssumption DEF LoadsStayRegistered
  <2> QED BY <1>1, <1>3, <2>1, <2>2 DEF LoadsAreShared
<1> QED BY <1>7, <1>8, <1>9, <1>10, <1>11, <1>12 DEF CacheIInv
LEMMA StartLoadKeepsCache ==
  ASSUME CacheIInv, NEW c \in Caller, NEW a \in AgentId, StartLoad(c, a)
  PROVE  CacheIInv'
<1> DEFINE r == [pc |-> "waiting", agent |-> a, since |-> gen[a], load |-> c, gen |-> gen[a]]
<1>1. gen[a] \in 0..MaxWrites
  BY DEF CacheIInv, ValuesOK
<1>2. r \in GetOrLoad
  BY <1>1 DEF GetOrLoad
<1>3. asked' = [asked EXCEPT ![c] = r] /\ UNCHANGED <<clock, gen>> /\ Miss(c, a)
  BY DEF StartLoad
<1>4. inFlight[a] = NoCaller /\ inFlight' = [inFlight EXCEPT ![a] = c]
  BY DEF StartLoad
<1>5. r.agent = a /\ r.since = gen[a] /\ r.gen = gen[a] /\ r.load = c
  OBVIOUS
<1> HIDE DEF r
<1> QED BY <1>2, <1>3, <1>4, <1>5, CallBegins

\* Who joins gets the load that is registered, of the generation of the agent.
LEMMA JoinKeepsCache ==
  ASSUME CacheIInv, NEW c \in Caller, NEW a \in AgentId, Join(c, a)
  PROVE  CacheIInv' /\ asked'[c] # NotAsked /\ asked'[c].agent = a /\ asked'[c].since = gen[a]
<1>1. PICK l \in Caller : inFlight[a] = l
  BY DEF CacheIInv, ValuesOK, Join
<1>2. Registered(l, a)
  BY <1>1, CacheAssumption DEF CacheIInv, FlightsAreRegistered
<1>3. asked[c] = NotAsked /\ l # c
  BY <1>2 DEF Join, Miss, Registered
<1> DEFINE r == [asked[l] EXCEPT !.since = gen[a]]
<1>4. gen[a] \in 0..MaxWrites
  BY DEF CacheIInv, ValuesOK
<1>5. asked[l] \in GetOrLoad
  BY <1>2 DEF Registered, CacheIInv, ValuesOK
<1>6. r \in GetOrLoad /\ r.since = gen[a]
  BY <1>4, <1>5 DEF GetOrLoad
<1>7. r.agent = a /\ r.gen = gen[a] /\ r.load = l
  BY <1>2, <1>5 DEF Registered, GetOrLoad
<1>8. asked' = [asked EXCEPT ![c] = r] /\ UNCHANGED <<clock, gen>> /\ Miss(c, a)
  BY <1>1 DEF Join
<1>9. inFlight' = inFlight
  BY DEF Join
<1> HIDE DEF r
<1>10. CacheIInv'
  BY <1>3, <1>6, <1>7, <1>8, <1>9, CallBegins
<1>11. asked'[c] = r
  BY <1>8 DEF CacheIInv, ValuesOK
<1>12. r # NotAsked
  <2>1. r.pc # "none" /\ NotAsked.pc = "none"
    BY <1>6 DEF GetOrLoad, NotAsked
  <2> QED BY <2>1
<1> QED BY <1>6, <1>7, <1>10, <1>11, <1>12

\* A promise that settles only changes how its calls stand.
LEMMA SettlingIs ==
  ASSUME ValuesOK, NEW c \in Caller, NEW how \in {"resolved", "rejected"},
         SettlePromise(c, how)
  PROVE  /\ asked' \in [Caller -> GetOrLoad \cup {NotAsked}]
         /\ \A d \in Caller :
              /\ asked'[d] = NotAsked <=> asked[d] = NotAsked
              /\ asked[d] # NotAsked =>
                   /\ asked'[d].agent = asked[d].agent /\ asked'[d].since = asked[d].since
                   /\ asked'[d].load = asked[d].load /\ asked'[d].gen = asked[d].gen
              /\ Loading(d)' => Loading(d)
<1> SUFFICES ASSUME NEW d \in Caller
             PROVE  /\ asked'[d] \in GetOrLoad \cup {NotAsked}
                    /\ asked'[d] = NotAsked <=> asked[d] = NotAsked
                    /\ asked[d] # NotAsked =>
                         /\ asked'[d].agent = asked[d].agent /\ asked'[d].since = asked[d].since
                         /\ asked'[d].load = asked[d].load /\ asked'[d].gen = asked[d].gen
                    /\ Loading(d)' => Loading(d)
  BY DEF SettlePromise
<1>1. CASE d \notin Waiters(c)
  <2>1. asked'[d] = asked[d]
    BY <1>1 DEF SettlePromise
  <2> QED BY <2>1 DEF ValuesOK, Loading
<1>2. CASE d \in Waiters(c)
  <2>1. asked'[d] = [asked[d] EXCEPT !.pc = how]
    BY <1>2 DEF SettlePromise
  <2>2. asked[d] \in GetOrLoad /\ asked[d] # NotAsked
    BY <1>2 DEF ValuesOK, Waiters
  <2>3. asked'[d] \in GetOrLoad /\ asked'[d].pc = how
    BY <2>1, <2>2 DEF GetOrLoad
  <2>4. /\ asked'[d].agent = asked[d].agent /\ asked'[d].since = asked[d].since
        /\ asked'[d].load = asked[d].load /\ asked'[d].gen = asked[d].gen
    BY <2>1, <2>2 DEF GetOrLoad
  <2>5. asked'[d] # NotAsked
    <3>1. NotAsked.pc = "none"
      BY DEF NotAsked
    <3> QED BY <2>3, <3>1
  <2> QED BY <2>2, <2>3, <2>4, <2>5 DEF Loading
<1> QED BY <1>1, <1>2

\* What the invariant says of calls does not look at their pc, but for Loading.
LEMMA SettlingKeepsCalls ==
  ASSUME CacheIInv, NEW c \in Caller, NEW how \in {"resolved", "rejected"},
         SettlePromise(c, how), UNCHANGED <<inFlight, gen>>
  PROVE  FlightsAreRegistered' /\ LoadsAreRecent' /\ LoadsStayRegistered' /\ LoadsAreShared'
<1>1. /\ ValuesOK /\ FlightsAreRegistered /\ LoadsAreRecent
      /\ LoadsStayRegistered /\ LoadsAreShared
  BY DEF CacheIInv
<1>2. \A d \in Caller :
        /\ asked'[d] = NotAsked <=> asked[d] = NotAsked
        /\ asked[d] # NotAsked =>
             /\ asked'[d].agent = asked[d].agent /\ asked'[d].since = asked[d].since
             /\ asked'[d].load = asked[d].load /\ asked'[d].gen = asked[d].gen
        /\ Loading(d)' => Loading(d)
  BY <1>1, SettlingIs
<1>3. \A d \in Caller, a \in AgentId : Registered(d, a)' <=> Registered(d, a)
  BY <1>2 DEF Registered
<1>4. FlightsAreRegistered'
  <2> SUFFICES ASSUME NEW a \in AgentId, inFlight'[a] # NoCaller
               PROVE  Registered(inFlight[a], a)'
    BY DEF FlightsAreRegistered
  <2>1. PICK l \in Caller : inFlight[a] = l /\ inFlight'[a] = l
    BY <1>1 DEF ValuesOK
  <2>2. Registered(l, a)
    BY <1>1, <2>1, CacheAssumption DEF FlightsAreRegistered
  <2> QED BY <1>2, <2>1, <2>2 DEF Registered
<1>5. LoadsAreRecent'
  BY <1>1, <1>2 DEF LoadsAreRecent
<1>6. LoadsStayRegistered'
  BY <1>1, <1>2, <1>3 DEF LoadsStayRegistered
<1>7. LoadsAreShared'
  BY <1>1, <1>2 DEF LoadsAreShared, Loading
<1> QED BY <1>4, <1>5, <1>6, <1>7

LEMMA LoadSucceedsKeepsCache ==
  ASSUME CacheIInv, NEW c \in Caller, LoadSucceeds(c)
  PROVE  CacheIInv'
<1> DEFINE a == asked[c].agent
           g == asked[c].gen
<1>1. ValuesOK /\ EntriesAreCurrent /\ FlightsAreRegistered
  BY DEF CacheIInv
<1>2. a \in AgentId /\ g \in 0..MaxWrites
  BY <1>1, AskedIs DEF LoadSucceeds, Loading
<1>3. SettlePromise(c, "resolved") /\ UNCHANGED <<clock, inFlight, gen>>
  BY DEF LoadSucceeds
<1>4. entry' \in [AgentId -> CacheEntry] /\ EntriesAreCurrent'
  <2>1. CASE NotOvertaken(c)
    <3>1. Store(a, g)
      BY <2>1 DEF LoadSucceeds
    <3>2. g = gen[a]
      BY <1>1, <1>2, <2>1, CacheAssumption
         DEF NotOvertaken, FlightsAreRegistered, Registered
    <3> HIDE DEF a, g
    <3>3. /\ entry' \in [AgentId -> CacheEntry] /\ entry'[a].gen = g
          /\ \A b \in AgentId : b # a => entry'[b] \in {entry[b], NoEntry}
      BY <1>1, <1>2, <3>1, StoreChanges
    <3> QED BY <1>1, <1>3, <3>2, <3>3 DEF EntriesAreCurrent
  <2>2. CASE ~NotOvertaken(c)
    <3>1. entry' = entry
      BY <2>2 DEF LoadSucceeds
    <3> QED BY <1>1, <1>3, <3>1 DEF ValuesOK, EntriesAreCurrent
  <2> QED BY <2>1, <2>2
<1>5. ValuesOK'
  BY <1>1, <1>3, <1>4, SettlingIs DEF ValuesOK
<1> QED BY <1>3, <1>4, <1>5, SettlingKeepsCalls DEF CacheIInv

LEMMA LoadFailsKeepsCache ==
  ASSUME CacheIInv, NEW c \in Caller, LoadFails(c)
  PROVE  CacheIInv'
<1>1. ValuesOK /\ EntriesAreCurrent
  BY DEF CacheIInv
<1>2. SettlePromise(c, "rejected") /\ UNCHANGED <<clock, entry, inFlight, gen>>
  BY DEF LoadFails
<1>3. ValuesOK'
  BY <1>1, <1>2, SettlingIs DEF ValuesOK
<1>4. EntriesAreCurrent'
  BY <1>1, <1>2 DEF EntriesAreCurrent
<1> QED BY <1>2, <1>3, <1>4, SettlingKeepsCalls DEF CacheIInv

LEMMA ResumeCallerKeepsCache ==
  ASSUME CacheIInv, NEW c \in Caller, ResumeCaller(c)
  PROVE  CacheIInv'
<1>1. /\ ValuesOK /\ EntriesAreCurrent /\ FlightsAreRegistered /\ LoadsAreRecent
      /\ LoadsStayRegistered /\ LoadsAreShared
  BY DEF CacheIInv
<1>2. asked'[c] = NotAsked /\ \A d \in Caller : d # c => asked'[d] = asked[d]
  BY <1>1 DEF ValuesOK, ResumeCaller
<1>3. asked' \in [Caller -> GetOrLoad \cup {NotAsked}] /\ UNCHANGED <<clock, entry, gen>>
  BY <1>1 DEF ValuesOK, ResumeCaller
<1>4. inFlight' \in [AgentId -> Caller \cup {NoCaller}]
  BY <1>1 DEF ValuesOK, ResumeCaller, Release
<1>5. \A a \in AgentId : inFlight'[a] = IF inFlight[a] = c THEN NoCaller ELSE inFlight[a]
  <2> SUFFICES ASSUME NEW a \in AgentId
               PROVE  inFlight'[a] = IF inFlight[a] = c THEN NoCaller ELSE inFlight[a]
    OBVIOUS
  <2>1. inFlight[a] = c => asked[c].load = c /\ asked[c].agent = a
    BY <1>1, CacheAssumption DEF FlightsAreRegistered, Registered
  <2> QED BY <1>1, <2>1 DEF ResumeCaller, Release, ValuesOK
<1>6. \A d \in Caller, a \in AgentId :
        d # c => (Registered(d, a)' <=> Registered(d, a)) /\ (Loading(d)' <=> Loading(d))
  BY <1>2, <1>3 DEF Registered, Loading
<1>7. \A a \in AgentId : ~Loading(c)' /\ ~Registered(c, a)'
  BY <1>2 DEF Loading, Registered
<1>8. ValuesOK'
  BY <1>1, <1>3, <1>4 DEF ValuesOK
<1>9. EntriesAreCurrent'
  BY <1>1, <1>3 DEF EntriesAreCurrent
<1>10. FlightsAreRegistered'
  <2> SUFFICES ASSUME NEW a \in AgentId, inFlight'[a] # NoCaller
               PROVE  Registered(inFlight[a], a)'
    BY DEF FlightsAreRegistered
  <2>1. PICK l \in Caller : inFlight[a] = l /\ inFlight'[a] = l /\ l # c
    BY <1>1, <1>5 DEF ValuesOK
  <2>2. Registered(l, a)
    BY <1>1, <2>1, CacheAssumption DEF FlightsAreRegistered
  <2> QED BY <1>2, <1>3, <2>1, <2>2 DEF Registered
<1>11. LoadsAreRecent'
  BY <1>1, <1>2, <1>3 DEF LoadsAreRecent
<1>12. LoadsStayRegistered'
  BY <1>1, <1>5, <1>6, <1>7 DEF LoadsStayRegistered
<1>13. LoadsAreShared'
  <2>1. \A d \in Caller : Loading(d)' => d # c /\ Loading(d)
    BY <1>2 DEF Loading
  <2> QED BY <1>1, <1>2, <2>1 DEF LoadsAreShared
<1> QED BY <1>8, <1>9, <1>10, <1>11, <1>12, <1>13 DEF CacheIInv

\* A write outdates what its agents have registered, entries and loads.
LEMMA WritesKeepCache ==
  ASSUME CacheIInv, NEW agents \in SUBSET AgentId, Overtake(agents),
         UNCHANGED <<clock, asked>>, entry' \in [AgentId -> CacheEntry],
         \A b \in agents : entry'[b] = NoEntry \/ entry'[b].gen = gen[b] + 1,
         \A b \in AgentId \ agents : entry'[b] \in {entry[b], NoEntry}
  PROVE  CacheIInv'
<1>1. /\ ValuesOK /\ EntriesAreCurrent /\ FlightsAreRegistered /\ LoadsAreRecent
      /\ LoadsStayRegistered /\ LoadsAreShared
  BY DEF CacheIInv
<1>2. \A b \in AgentId : gen[b] \in 0..MaxWrites
  BY <1>1 DEF ValuesOK
<1>3. \A b \in agents : gen[b] < MaxWrites /\ gen'[b] = gen[b] + 1 /\ inFlight'[b] = NoCaller
  BY DEF Overtake
<1>4. \A b \in AgentId \ agents : gen'[b] = gen[b] /\ inFlight'[b] = inFlight[b]
  BY DEF Overtake
<1>5. ValuesOK'
  <2>1. gen' \in [AgentId -> 0..MaxWrites]
    BY <1>2, <1>3, CacheAssumption DEF Overtake
  <2>2. inFlight' \in [AgentId -> Caller \cup {NoCaller}]
    BY <1>1 DEF Overtake, ValuesOK
  <2> QED BY <1>1, <2>1, <2>2 DEF ValuesOK
<1>6. EntriesAreCurrent'
  BY <1>1, <1>3, <1>4 DEF EntriesAreCurrent
<1>7. FlightsAreRegistered'
  <2> SUFFICES ASSUME NEW b \in AgentId, inFlight'[b] # NoCaller
               PROVE  Registered(inFlight[b], b)'
    BY DEF FlightsAreRegistered
  <2>1. b \notin agents /\ inFlight'[b] = inFlight[b] /\ gen'[b] = gen[b]
    BY <1>3, <1>4
  <2>2. Registered(inFlight[b], b)
    BY <1>1, <2>1 DEF FlightsAreRegistered
  <2> QED BY <2>1, <2>2 DEF Registered
<1>8. LoadsAreRecent'
  <2> SUFFICES ASSUME NEW c \in Caller, asked[c] # NotAsked
               PROVE  asked[c].since <= asked[c].gen /\ asked[c].gen <= gen'[asked[c].agent]
    BY DEF LoadsAreRecent
  <2>1. asked[c].agent \in AgentId /\ asked[c].gen \in 0..MaxWrites
    BY <1>1, AskedIs
  <2>2. asked[c].since <= asked[c].gen /\ asked[c].gen <= gen[asked[c].agent]
    BY <1>1 DEF LoadsAreRecent
  <2>3. gen'[asked[c].agent] \in {gen[asked[c].agent], gen[asked[c].agent] + 1}
    BY <1>3, <1>4, <2>1
  <2> QED BY <1>2, <2>1, <2>2, <2>3, CacheAssumption
<1>9. LoadsStayRegistered'
  <2> SUFFICES ASSUME NEW c \in Caller, NEW b \in AgentId, Loading(c)', Registered(c, b)'
               PROVE  inFlight'[b] = c
    BY DEF LoadsStayRegistered
  <2>1. asked[c] # NotAsked /\ asked[c].agent = b /\ asked[c].load = c /\ asked[c].gen = gen'[b]
    BY DEF Registered
  <2>2. asked[c].gen <= gen[b]
    BY <1>1, <2>1 DEF LoadsAreRecent
  <2>3. b \notin agents
    BY <1>2, <1>3, <2>1, <2>2
  <2> QED BY <1>1, <1>4, <2>1, <2>3 DEF LoadsStayRegistered, Loading, Registered
<1>10. LoadsAreShared'
  BY <1>1 DEF LoadsAreShared, Loading
<1> QED BY <1>5, <1>6, <1>7, <1>8, <1>9, <1>10 DEF CacheIInv

LEMMA SetKeepsCache ==
  ASSUME CacheIInv, NEW a \in AgentId, Set(a)
  PROVE  CacheIInv'
<1>1. ValuesOK /\ gen[a] + 1 \in 0..MaxWrites
  BY CacheAssumption DEF CacheIInv, ValuesOK, Set, Overtake
<1>2. /\ entry' \in [AgentId -> CacheEntry] /\ entry'[a].gen = gen[a] + 1
      /\ \A b \in AgentId : b # a => entry'[b] \in {entry[b], NoEntry}
  BY <1>1, StoreChanges DEF Set
<1> QED BY <1>2, WritesKeepCache DEF Set

LEMMA InvalidateKeepsCache ==
  ASSUME CacheIInv, NEW a \in AgentId, Invalidate(a)
  PROVE  CacheIInv'
<1>1. /\ entry' \in [AgentId -> CacheEntry]
      /\ \A b \in {a} : entry'[b] = NoEntry
      /\ \A b \in AgentId \ {a} : entry'[b] = entry[b]
  BY DropChanges DEF CacheIInv, Invalidate
<1> QED BY <1>1, WritesKeepCache DEF Invalidate

LEMMA ClearKeepsCache ==
  ASSUME CacheIInv, Clear
  PROVE  CacheIInv'
<1>1. /\ entry' \in [AgentId -> CacheEntry]
      /\ \A b \in AgentId : entry'[b] = NoEntry
  BY DropChanges DEF CacheIInv, Clear
<1> QED BY <1>1, WritesKeepCache DEF Clear

LEMMA CacheStutters ==
  ASSUME CacheIInv, UNCHANGED cacheVars
  PROVE  CacheIInv'
BY DEF cacheVars, CacheIInv, ValuesOK, EntriesAreCurrent, FlightsAreRegistered, Registered,
       LoadsAreRecent, LoadsStayRegistered, LoadsAreShared, Loading

\* The invariant of the agent cache, whatever loads, writes, joins and expiries overlap.
THEOREM CacheInvariance == CacheSpec => []CacheIInv
<1>1. CacheIInv /\ [CacheNext]_cacheVars => CacheIInv'
  BY HitKeepsCache, ClockTicksKeepsCache, StartLoadKeepsCache, JoinKeepsCache,
     LoadSucceedsKeepsCache, LoadFailsKeepsCache, ResumeCallerKeepsCache, SetKeepsCache,
     InvalidateKeepsCache, ClearKeepsCache, CacheStutters DEF CacheNext
<1> QED BY CacheInitHolds, <1>1, PTL DEF CacheSpec

\* Two loaders of one agent never run for the same generation of its value.
THEOREM SharedLoads == CacheSpec => []LoadsAreShared
<1>1. CacheIInv => LoadsAreShared
  BY DEF CacheIInv
<1> QED BY CacheInvariance, <1>1, PTL
-----------------------------------------------------------------------------
(* The order of the Map of the agent cache                                 *)

\* In a set of places up to n, some place has exactly k of them up to itself.
LEMMA PlaceExists ==
  ASSUME NEW n \in Nat, NEW places \in SUBSET (1..n),
         NEW k \in 1..Cardinality(places)
  PROVE  \E i \in places : Cardinality({j \in places : j <= i}) = k
<1> DEFINE UpTo(i) == {j \in places : j <= i}
           Many == {i \in Nat : Cardinality(UpTo(i)) >= k}
<1>0. \A j \in places : j \in Nat /\ 1 <= j /\ j <= n
  OBVIOUS
<1>1. \A i \in Nat : /\ IsFiniteSet(UpTo(i)) /\ Cardinality(UpTo(i)) \in Nat
  <2>1. IsFiniteSet(1..n)
    BY FS_Interval
  <2>2. \A i \in Nat : UpTo(i) \in SUBSET (1..n)
    OBVIOUS
  <2> HIDE DEF UpTo
  <2> QED BY <2>1, <2>2, FS_Subset, FS_CardinalityType
<1>2. n \in Many
  <2>1. UpTo(n) = places
    BY <1>0
  <2> QED BY <2>1, <1>1
<1>3. \E i \in Many : \A j \in Many : ~(<<j, i>> \in OpToRel(<, Nat))
  <2>1. Many \subseteq Nat /\ Many # {}
    BY <1>2
  <2> HIDE DEF Many
  <2> QED BY <2>1, WFMin, NatLessThanWellFounded, Zenon
<1>4. PICK i \in Many : \A j \in Many : ~(j < i)
  <2> HIDE DEF Many
  <2>1. Many \subseteq Nat
    BY DEF Many
  <2> QED BY <1>3, <2>1, Zenon DEF OpToRel
<1>5. i # 0
  <2>1. \A j \in places : ~(j <= 0)
    BY <1>0
  <2>2. UpTo(0) = {}
    BY <2>1
  <2>3. Cardinality(UpTo(0)) = 0
    BY <2>2, FS_EmptySet
  <2> QED BY <2>3
<1>6. i - 1 \in Nat /\ i \in Nat /\ k \in Nat
  BY <1>5, <1>1
<1>7. Cardinality(UpTo(i - 1)) < k
  <2>1. i - 1 \notin Many
    <3> HIDE DEF Many
    <3>1. i - 1 < i
      BY <1>6
    <3> QED BY <3>1, <1>4
  <2>2. Cardinality(UpTo(i - 1)) \in Nat /\ ~(Cardinality(UpTo(i - 1)) >= k)
    BY <2>1, <1>1, <1>6
  <2> HIDE DEF UpTo
  <2> QED BY <2>2, <1>6
<1>8. i \in places
  <2>1. SUFFICES ASSUME i \notin places PROVE FALSE
    OBVIOUS
  <2>2. \A j \in places : j <= i <=> j <= i - 1
    BY <2>1, <1>6, <1>0
  <2>3. UpTo(i) = UpTo(i - 1)
    BY <2>2
  <2> QED BY <2>3, <1>7, <1>1, <1>6
<1>9. UpTo(i) = UpTo(i - 1) \cup {i} /\ i \notin UpTo(i - 1)
  <2>1. \A j \in places : j <= i <=> (j <= i - 1 \/ j = i)
    BY <1>6, <1>0
  <2>2. ~(i <= i - 1)
    BY <1>6
  <2> QED BY <2>1, <2>2, <1>8
<1>10. Cardinality(UpTo(i)) = Cardinality(UpTo(i - 1)) + 1
  <2> HIDE DEF UpTo
  <2> QED BY <1>9, <1>1, <1>6, FS_AddElement
<1>11. Cardinality(UpTo(i)) = k
  <2>1. Cardinality(UpTo(i)) >= k
    OBVIOUS
  <2> HIDE DEF UpTo, Many
  <2> QED BY <2>1, <1>10, <1>7, <1>1, <1>6
<1> QED BY <1>8, <1>11

\* What is left of the keys has each of them once, and none of those that went.
LEMMA KeysButIs ==
  ASSUME OrderOK, NEW agents
  PROVE  LET rest == KeysBut(order, agents)
         IN /\ rest \in Seq(AgentId) /\ Len(rest) <= Len(order)
            /\ \A i \in 1..Len(rest) : rest[i] \notin agents
            /\ \A i, j \in 1..Len(rest) : rest[i] = rest[j] => i = j
            /\ (\E a \in agents : a \in Cached) => Len(rest) < Len(order)
<1> DEFINE places   == {i \in 1..Len(order) : order[i] \notin agents}
           place(k) == CHOOSE i \in places : Cardinality({j \in places : j <= i}) = k
           n        == Cardinality(places)
           rest     == KeysBut(order, agents)
<1>1. /\ order \in Seq(AgentId) /\ Len(order) \in Nat
      /\ \A i, j \in 1..Len(order) : order[i] = order[j] => i = j
  BY LenProperties DEF OrderOK
<1>2. rest = [k \in 1..n |-> order[place(k)]]
  BY DEF KeysBut
<1>3. places \in SUBSET (1..Len(order)) /\ \A i \in places : order[i] \notin agents
  OBVIOUS
<1>4. (\E a \in agents : a \in Cached) => places # 1..Len(order)
  BY DEF Cached
<1> HIDE DEF places
<1>5. /\ IsFiniteSet(1..Len(order))
      /\ Cardinality(1..Len(order)) = IF 1 > Len(order) THEN 0 ELSE Len(order) - 1 + 1
  BY <1>1, FS_Interval
<1>6. /\ IsFiniteSet(places) /\ n <= Cardinality(1..Len(order))
      /\ n = Cardinality(1..Len(order)) => places = 1..Len(order)
  BY <1>3, <1>5, FS_Subset
<1>7. n \in Nat /\ n <= Len(order) /\ (places # 1..Len(order) => n < Len(order))
  <2>1. n \in Nat
    BY <1>6, FS_CardinalityType
  <2> HIDE DEF n
  <2> QED BY <2>1, <1>1, <1>5, <1>6
<1>8. \A k \in 1..n : place(k) \in places /\ Cardinality({j \in places : j <= place(k)}) = k
  <2>1. \A k \in 1..n : \E i \in places : Cardinality({j \in places : j <= i}) = k
    BY <1>1, <1>3, PlaceExists
  <2> QED BY <2>1
<1> HIDE DEF place, n, rest
<1>9. \A k \in 1..n : order[place(k)] \in AgentId /\ order[place(k)] \notin agents
  BY <1>1, <1>3, <1>8, ElementOfSeq
<1>10. rest \in Seq(AgentId) /\ Len(rest) = n
  <2>1. rest \in [1..n -> AgentId]
    BY <1>2, <1>9
  <2> QED BY <2>1, <1>7
<1>11. \A i, j \in 1..n : rest[i] = rest[j] => i = j
  <2> SUFFICES ASSUME NEW i \in 1..n, NEW j \in 1..n, rest[i] = rest[j] PROVE i = j
    OBVIOUS
  <2>1. order[place(i)] = order[place(j)] /\ place(i) \in places /\ place(j) \in places
    BY <1>2, <1>8
  <2>2. place(i) = place(j)
    BY <2>1, <1>1, <1>3
  <2>3. /\ Cardinality({k \in places : k <= place(i)}) = i
        /\ Cardinality({k \in places : k <= place(j)}) = j
    BY <1>8
  <2> QED BY <2>2, <2>3
<1>12. \A i \in 1..n : rest[i] \notin agents
  BY <1>2, <1>9
<1> QED BY <1>4, <1>7, <1>10, <1>11, <1>12 DEF rest

\* A key that is put behind the others.
LEMMA AppendedIs ==
  ASSUME OrderOK, NEW agents, NEW a \in AgentId, a \in agents
  PROVE  LET grown == Append(KeysBut(order, agents), a)
         IN /\ grown \in Seq(AgentId) /\ Len(grown) = Len(KeysBut(order, agents)) + 1
            /\ \A i, j \in 1..Len(grown) : grown[i] = grown[j] => i = j
<1> DEFINE rest  == KeysBut(order, agents)
           grown == Append(rest, a)
<1>1. /\ rest \in Seq(AgentId)
      /\ \A i \in 1..Len(rest) : rest[i] # a
      /\ \A i, j \in 1..Len(rest) : rest[i] = rest[j] => i = j
  BY KeysButIs
<1> HIDE DEF rest
<1>2. /\ grown \in Seq(AgentId) /\ Len(grown) = Len(rest) + 1 /\ Len(rest) \in Nat
      /\ \A i \in 1..Len(rest) : grown[i] = rest[i]
      /\ grown[Len(rest) + 1] = a
  BY <1>1, AppendProperties, LenProperties
<1> HIDE DEF grown
<1>3. \A i, j \in 1..Len(grown) : grown[i] = grown[j] => i = j
  <2> SUFFICES ASSUME NEW i \in 1..Len(grown), NEW j \in 1..Len(grown), grown[i] = grown[j]
               PROVE  i = j
    OBVIOUS
  <2>1. /\ i \in 1..Len(rest) \/ i = Len(rest) + 1
        /\ j \in 1..Len(rest) \/ j = Len(rest) + 1
    BY <1>2
  <2> QED BY <2>1, <1>1, <1>2
<1> QED BY <1>2, <1>3 DEF rest, grown

LEMMA StoreKeepsOrder ==
  ASSUME OrderOK, NEW a \in AgentId, NEW g, Store(a, g)
  PROVE  OrderOK'
<1> DEFINE gone  == {b \in Cached : Expired(b)} \cup {a}
           grown == Append(KeysBut(order, gone), a)
           over  == IF Len(grown) > MaxEntries THEN Len(grown) - MaxEntries ELSE 0
<1>1. order' = SubSeq(grown, over + 1, Len(grown))
  BY DEF Store
<1>2. /\ grown \in Seq(AgentId)
      /\ Len(grown) = Len(KeysBut(order, gone)) + 1
      /\ \A i, j \in 1..Len(grown) : grown[i] = grown[j] => i = j
  <2>1. a \in gone
    OBVIOUS
  <2> HIDE DEF gone
  <2> QED BY <2>1, AppendedIs
<1>3. Len(KeysBut(order, gone)) \in Nat
  <2> HIDE DEF gone
  <2> QED BY KeysButIs, LenProperties
<1> HIDE DEF grown, gone
<1>4. Len(grown) \in Nat \ {0} /\ MaxEntries \in Nat \ {0}
  BY <1>2, <1>3, CacheAssumption
<1>5. /\ over \in Nat /\ over + 1 >= 1 /\ over + 1 <= Len(grown)
      /\ Len(grown) - (over + 1) + 1 = Len(grown) - over
      /\ Len(grown) - over <= MaxEntries /\ Len(grown) - over \in Nat
  BY <1>4
<1> HIDE DEF over
<1>6. \A i \in (over + 1)..Len(grown) : grown[i] \in AgentId
  BY <1>2, <1>4, <1>5, ElementOfSeq
<1>7. /\ order' \in Seq(AgentId) /\ Len(order') = Len(grown) - over
      /\ \A i \in 1..(Len(grown) - over) : order'[i] = grown[over + 1 + i - 1]
  BY <1>1, <1>4, <1>5, <1>6, SubSeqProperties
<1>8. \A i \in 1..(Len(grown) - over) :
        over + 1 + i - 1 = over + i /\ over + i \in 1..Len(grown)
  BY <1>4, <1>5
<1>9. \A i, j \in 1..Len(order') : order'[i] = order'[j] => i = j
  <2> SUFFICES ASSUME NEW i \in 1..Len(order'), NEW j \in 1..Len(order'), order'[i] = order'[j]
               PROVE  i = j
    OBVIOUS
  <2>1. grown[over + i] = grown[over + j]
    BY <1>7, <1>8
  <2>2. over + i = over + j
    BY <2>1, <1>2, <1>7, <1>8
  <2> QED BY <2>2, <1>5, <1>7
<1> QED BY <1>5, <1>7, <1>9 DEF OrderOK

LEMMA DropKeepsOrder ==
  ASSUME OrderOK, NEW agents, Drop(agents)
  PROVE  OrderOK'
<1>1. order' = KeysBut(order, agents)
  BY DEF Drop
<1>2. Len(order) \in Nat /\ Len(order) <= MaxEntries /\ MaxEntries \in Nat
  BY LenProperties, CacheAssumption DEF OrderOK
<1>3. /\ order' \in Seq(AgentId) /\ Len(order') <= Len(order)
      /\ \A i, j \in 1..Len(order') : order'[i] = order'[j] => i = j
  BY <1>1, KeysButIs
<1>4. Len(order') \in Nat
  BY <1>3, LenProperties
<1> QED BY <1>2, <1>3, <1>4 DEF OrderOK

LEMMA HitKeepsOrder ==
  ASSUME OrderOK, NEW c \in Caller, NEW a \in AgentId, Hit(c, a)
  PROVE  OrderOK'
<1>1. a \in Cached /\ order' = Append(KeysBut(order, {a}), a)
  BY DEF Hit
<1>2. Len(KeysBut(order, {a})) < Len(order) /\ KeysBut(order, {a}) \in Seq(AgentId)
  BY <1>1, KeysButIs
<1>3. /\ order' \in Seq(AgentId) /\ Len(order') = Len(KeysBut(order, {a})) + 1
      /\ \A i, j \in 1..Len(order') : order'[i] = order'[j] => i = j
  <2>1. a \in {a}
    OBVIOUS
  <2> DEFINE agents == {a}
  <2> HIDE DEF agents
  <2>2. LET grown == Append(KeysBut(order, agents), a)
        IN /\ grown \in Seq(AgentId) /\ Len(grown) = Len(KeysBut(order, agents)) + 1
           /\ \A i, j \in 1..Len(grown) : grown[i] = grown[j] => i = j
    BY <2>1, AppendedIs DEF agents
  <2> QED BY <1>1, <2>2 DEF agents
<1>4. /\ Len(order) \in Nat /\ Len(order) <= MaxEntries /\ MaxEntries \in Nat
      /\ Len(KeysBut(order, {a})) \in Nat
  BY <1>2, LenProperties, CacheAssumption DEF OrderOK
<1>5. Len(order') <= MaxEntries
  BY <1>2, <1>3, <1>4
<1> QED BY <1>3, <1>5 DEF OrderOK

\* The types, and that the Map keeps to its bound and has a key once, whatever is stored,
\* hit, dropped and expires (agent-cache.ts, store and lookup).
THEOREM CacheIsBounded == CacheSpec => []CacheTypeOK
<1>1. CacheInit => OrderOK
  BY CacheAssumption, EmptySeq DEF CacheInit, OrderOK
<1>2. CacheIInv /\ OrderOK /\ [CacheNext]_cacheVars => OrderOK'
  <2> SUFFICES ASSUME CacheIInv, OrderOK, [CacheNext]_cacheVars PROVE OrderOK'
    OBVIOUS
  <2>1. ASSUME order' = order PROVE OrderOK'
    BY <2>1 DEF OrderOK
  <2>2. ASSUME NEW c \in Caller, LoadSucceeds(c) PROVE OrderOK'
    <3>1. asked[c].agent \in AgentId
      BY <2>2, AskedIs DEF CacheIInv, LoadSucceeds, Loading
    <3>2. CASE NotOvertaken(c)
      BY <2>2, <3>1, <3>2, StoreKeepsOrder DEF LoadSucceeds
    <3>3. CASE ~NotOvertaken(c)
      BY <2>1, <2>2, <3>3 DEF LoadSucceeds
    <3> QED BY <3>2, <3>3
  <2> QED BY <2>1, <2>2, HitKeepsOrder, StoreKeepsOrder, DropKeepsOrder
          DEF CacheNext, cacheVars, LoadFails, ResumeCaller, Join, StartLoad, Miss, Set,
              Invalidate, Clear, ClockTicks
<1>3. CacheIInv /\ OrderOK => CacheTypeOK
  BY DEF CacheIInv, CacheTypeOK
<1> QED BY <1>1, <1>2, <1>3, CacheInvariance, PTL DEF CacheSpec

-----------------------------------------------------------------------------
(* The agent cache implements the register                                 *)

\* A lookup that hits answers at once, with the last write.
LEMMA HitIsAnswer ==
  ASSUME CacheIInv, NEW c \in Caller, NEW a \in AgentId, Hit(c, a)
  PROVE  Register!AnswerAtOnce(c, a)
<1>1. entry[a].gen = gen[a]
  BY LiveIsEntry DEF Hit, CacheIInv, EntriesAreCurrent
<1>2. asked[c] = NotAsked /\ asked' = asked /\ gen' = gen /\ got' = Answer(c, a, gen[a])
  BY <1>1 DEF Hit
<1> QED BY <1>2 DEF Register!AnswerAtOnce, Register!NoRead, Register!Value, Answer, Reads, ReadOf

\* A call that begins to wait, whatever load it waits for, is a read that begins.
LEMMA WaitIsBegin ==
  ASSUME CacheIInv, NEW c \in Caller, NEW a \in AgentId, asked[c] = NotAsked,
         asked'[c] # NotAsked, asked'[c].agent = a, asked'[c].since = gen[a],
         \A d \in Caller : d # c => asked'[d] = asked[d], UNCHANGED <<gen, got>>
  PROVE  Register!Begin(c, a)
<1>1. Reads[c] = [pending |-> FALSE]
  BY DEF Reads, ReadOf
<1>2. Reads' = [Reads EXCEPT ![c] = [pending |-> TRUE, agent |-> a, since |-> gen[a]]]
  <2>1. ReadOf(c)' = [pending |-> TRUE, agent |-> a, since |-> gen[a]]
    BY DEF ReadOf
  <2>2. \A d \in Caller : d # c => ReadOf(d)' = ReadOf(d)
    BY DEF ReadOf
  <2> QED BY <2>1, <2>2 DEF Reads
<1> QED BY <1>1, <1>2 DEF Register!Begin, Register!NoRead, Register!Reading, Reads, ReadOf

LEMMA JoinIsBegin ==
  ASSUME CacheIInv, NEW c \in Caller, NEW a \in AgentId, Join(c, a)
  PROVE  Register!Begin(c, a)
<1>1. asked'[c] # NotAsked /\ asked'[c].agent = a /\ asked'[c].since = gen[a]
  BY JoinKeepsCache
<1>2. asked[c] = NotAsked /\ UNCHANGED <<gen, got>>
  BY DEF Join, Miss
<1>3. \A d \in Caller : d # c => asked'[d] = asked[d]
  BY DEF Join, CacheIInv, ValuesOK
<1> QED BY <1>1, <1>2, <1>3, WaitIsBegin

LEMMA StartLoadIsBegin ==
  ASSUME CacheIInv, NEW c \in Caller, NEW a \in AgentId, StartLoad(c, a)
  PROVE  Register!Begin(c, a)
<1>1. asked[c] = NotAsked /\ UNCHANGED <<gen, got>>
  BY DEF StartLoad, Miss
<1>2. \A d \in Caller : d # c => asked'[d] = asked[d]
  BY DEF StartLoad, CacheIInv, ValuesOK
<1>3. asked'[c] =
        [pc |-> "waiting", agent |-> a, since |-> gen[a], load |-> c, gen |-> gen[a]]
  BY DEF StartLoad, CacheIInv, ValuesOK
<1>4. asked'[c].pc = "waiting" /\ asked'[c].agent = a /\ asked'[c].since = gen[a]
  BY <1>3
<1>5. asked'[c] # NotAsked
  <2>1. NotAsked.pc = "none"
    BY DEF NotAsked
  <2> QED BY <1>4, <2>1
<1> QED BY <1>1, <1>2, <1>4, <1>5, WaitIsBegin

\* A call that goes on answers with a value no older than the read, or fails.
LEMMA ResumeIsAnswer ==
  ASSUME CacheIInv, NEW c \in Caller, ResumeCaller(c)
  PROVE  Register!Answer(c)
<1>1. ValuesOK /\ asked[c] # NotAsked
  BY DEF CacheIInv, ResumeCaller
<1>2. Reads[c] = [pending |-> TRUE, agent |-> asked[c].agent, since |-> asked[c].since]
  BY <1>1 DEF Reads, ReadOf
<1>3. Reads' = [Reads EXCEPT ![c] = [pending |-> FALSE]]
  <2>1. asked'[c] = NotAsked /\ \A d \in Caller : d # c => asked'[d] = asked[d]
    BY <1>1 DEF ValuesOK, ResumeCaller
  <2>2. ReadOf(c)' = [pending |-> FALSE] /\ \A d \in Caller : d # c => ReadOf(d)' = ReadOf(d)
    BY <2>1 DEF ReadOf
  <2> QED BY <2>2 DEF Reads
<1>4. asked[c].gen \in asked[c].since..gen[asked[c].agent]
  <2>1. /\ asked[c].agent \in AgentId /\ asked[c].since \in Nat
        /\ asked[c].gen \in 0..MaxWrites
    BY <1>1, AskedIs
  <2>2. gen[asked[c].agent] \in 0..MaxWrites
    BY <1>1, <2>1 DEF ValuesOK
  <2>3. asked[c].since <= asked[c].gen /\ asked[c].gen <= gen[asked[c].agent]
    BY <1>1 DEF CacheIInv, LoadsAreRecent
  <2> QED BY <2>1, <2>2, <2>3, CacheAssumption
<1>5. \/ got' = [ok |-> TRUE, caller |-> c, agent |-> asked[c].agent, gen |-> asked[c].gen]
      \/ got' = [ok |-> FALSE]
  BY DEF ResumeCaller, Answer, Rejection
<1>6. gen' = gen
  BY DEF ResumeCaller
<1>7. /\ Reads[c].pending /\ Reads[c].agent = asked[c].agent
      /\ Reads[c].since = asked[c].since
  BY <1>2
<1>8. \/ \E g \in Reads[c].since..gen[Reads[c].agent] :
           got' = [ok |-> TRUE, caller |-> c, agent |-> Reads[c].agent, gen |-> g]
      \/ got' = [ok |-> FALSE]
  BY <1>4, <1>5, <1>7
<1> QED BY <1>3, <1>6, <1>7, <1>8
        DEF Register!Answer, Register!NoRead, Register!Value, Register!Failure, Reads, ReadOf

\* A write is a write.
LEMMA OvertakeIsWrite ==
  ASSUME CacheIInv, NEW agents \in SUBSET AgentId, Overtake(agents), UNCHANGED <<asked, got>>
  PROVE  Register!Write(agents)
BY DEF Overtake, Register!Write, Reads, ReadOf

\* What settles or passes, the register does not see.
LEMMA SettlingIsUnseen ==
  ASSUME CacheIInv, NEW c \in Caller, LoadSucceeds(c) \/ LoadFails(c)
  PROVE  UNCHANGED Register!registerVars
<1>1. PICK how \in {"resolved", "rejected"} : SettlePromise(c, how) /\ UNCHANGED <<gen, got>>
  BY DEF LoadSucceeds, LoadFails
<1>2. \A d \in Caller : ReadOf(d)' = ReadOf(d)
  <2> SUFFICES ASSUME NEW d \in Caller PROVE ReadOf(d)' = ReadOf(d)
    OBVIOUS
  <2>1. /\ asked'[d] = NotAsked <=> asked[d] = NotAsked
        /\ asked[d] # NotAsked =>
             asked'[d].agent = asked[d].agent /\ asked'[d].since = asked[d].since
    BY <1>1, SettlingIs DEF CacheIInv
  <2> QED BY <2>1 DEF ReadOf
<1>3. Reads' = Reads
  BY <1>2 DEF Reads
<1> QED BY <1>1, <1>3 DEF Register!registerVars, Reads, ReadOf

\* The agent cache implements the register: no interleaving of loads, joins, writes,
\* expiries and evictions answers a read with what a write before it replaced.
THEOREM CacheIsRegister == CacheSpec => NothingStale
<1>1. CacheInit => Register!Init
  BY DEF CacheInit, Register!Init, Register!NoRead, Register!Failure, Rejection,
     Reads, ReadOf
<1>2. CacheIInv /\ [CacheNext]_cacheVars => [Register!Next]_(Register!registerVars)
  <2> SUFFICES ASSUME CacheIInv, [CacheNext]_cacheVars
               PROVE  Register!Next \/ UNCHANGED Register!registerVars
    OBVIOUS
  <2>1. ASSUME NEW c \in Caller, LoadSucceeds(c) \/ LoadFails(c) \/ ResumeCaller(c)
        PROVE  Register!Next \/ UNCHANGED Register!registerVars
    BY <2>1, SettlingIsUnseen, ResumeIsAnswer DEF Register!Next
  <2>2. ASSUME NEW c \in Caller, NEW a \in AgentId,
               Hit(c, a) \/ Join(c, a) \/ StartLoad(c, a)
        PROVE  Register!Next
    BY <2>2, HitIsAnswer, JoinIsBegin, StartLoadIsBegin DEF Register!Next
  <2>3. ASSUME NEW a \in AgentId, Set(a) \/ Invalidate(a)
        PROVE  Register!Next
    BY <2>3, OvertakeIsWrite DEF Set, Invalidate, Register!Next
  <2>4. CASE Clear
    BY <2>4, OvertakeIsWrite DEF Clear, Register!Next
  <2>5. CASE ClockTicks \/ UNCHANGED cacheVars
    BY <2>5 DEF ClockTicks, cacheVars, Register!registerVars, Reads, ReadOf
  <2> QED BY <2>1, <2>2, <2>3, <2>4, <2>5 DEF CacheNext
<1> QED BY CacheInvariance, <1>1, <1>2, PTL DEF CacheSpec, NothingStale, Register!Safe
=============================================================================
