----------------------------- MODULE AgentCache -----------------------------
(***************************************************************************)
(* AgentScopedCache (shared/public/agent-cache.ts): values of agents kept  *)
(* in the memory of a warm container, loaded once for all who ask at the   *)
(* same time, with a TTL, an LRU bound and writes that overtake loads.     *)
(*                                                                         *)
(* JavaScript runs one continuation at a time; the steps are what runs     *)
(* between two awaits.  Values carry the generation (the number of writes  *)
(* of the agent) in which their loader was called or in which set() put    *)
(* them: a history that only the properties look at.                       *)
(***************************************************************************)
EXTENDS Naturals, FiniteSets, Sequences

CONSTANTS
  AgentId, Caller,
  NoCaller,
  Ttl,         \* ttlMs
  MaxEntries,  \* maxEntries
  MaxWrites,   \* bound: writes per agent
  MaxClock     \* bound: the clock

ASSUME CacheAssumption ==
  /\ NoCaller \notin Caller
  /\ Ttl \in Nat \ {0} /\ MaxEntries \in Nat \ {0}     \* what the constructor checks
  /\ MaxWrites \in Nat /\ MaxClock \in Nat

VARIABLES
  clock,     \* the clock, Date.now()
  order,     \* keys of the Map `entries' in insertion order, oldest first
  entry,     \* their values
  inFlight,  \* the Map inFlight: whose load of the agent may be joined
  asked,     \* getOrLoad() calls under way
  gen,       \* history: writes of each agent
  got        \* history: the last answer of getOrLoad()

cacheVars == <<clock, order, entry, inFlight, asked, gen, got>>

-----------------------------------------------------------------------------
Cached == {order[i] : i \in 1..Len(order)}

CacheEntry == [gen : 0..MaxWrites, expires : 0..(MaxClock + Ttl)]
NoEntry == [gen |-> 0, expires |-> 0]

\* load: the caller that runs the loader the call waits for; itself, unless it joined.
GetOrLoad == [pc : {"waiting", "resolved", "rejected"}, agent : AgentId, since : 0..MaxWrites,
         load : Caller, gen : 0..MaxWrites]
NotAsked == [pc |-> "none"]

Answer(c, a, g) == [ok |-> TRUE, caller |-> c, agent |-> a, gen |-> g]
Rejection == [ok |-> FALSE]

\* The Map keeps to its bound and has a key once.
OrderOK ==
  /\ order \in Seq(AgentId) /\ Len(order) <= MaxEntries
  /\ \A i, j \in 1..Len(order) : order[i] = order[j] => i = j

ValuesOK ==
  /\ clock \in 0..MaxClock
  /\ entry \in [AgentId -> CacheEntry]
  /\ inFlight \in [AgentId -> Caller \cup {NoCaller}]
  /\ asked \in [Caller -> GetOrLoad \cup {NotAsked}]
  /\ gen \in [AgentId -> 0..MaxWrites]

CacheTypeOK == OrderOK /\ ValuesOK

CacheInit ==
  /\ clock = 0
  /\ order = <<>> /\ entry = [a \in AgentId |-> NoEntry]
  /\ inFlight = [a \in AgentId |-> NoCaller]
  /\ asked = [c \in Caller |-> NotAsked]
  /\ gen = [a \in AgentId |-> 0]
  /\ got = Rejection

-----------------------------------------------------------------------------
(* The entries *)

Expired(a) == entry[a].expires <= clock

\* The other keys, in their order.
KeysBut(s, agents) ==
  LET places   == {i \in 1..Len(s) : s[i] \notin agents}
      place(k) == CHOOSE i \in places : Cardinality({j \in places : j <= i}) = k
  IN [k \in 1..Cardinality(places) |-> s[place(k)]]

\* store(): drop what has expired, put the value last, evict from the front.
Store(a, g) ==
  LET kept  == KeysBut(order, {b \in Cached : Expired(b)} \cup {a})
      grown == Append(kept, a)
      over  == IF Len(grown) > MaxEntries THEN Len(grown) - MaxEntries ELSE 0
  IN /\ order' = SubSeq(grown, over + 1, Len(grown))
     /\ entry' = [b \in AgentId |->
          IF b = a THEN [gen |-> g, expires |-> clock + Ttl]
          ELSE IF b \in {order'[i] : i \in 1..Len(order')} THEN entry[b] ELSE NoEntry]

Drop(agents) ==
  /\ order' = KeysBut(order, agents)
  /\ entry' = [b \in AgentId |-> IF b \in agents THEN NoEntry ELSE entry[b]]

-----------------------------------------------------------------------------
(* getOrLoad() *)

\* lookup() finds a live entry and moves it to the end.
Hit(c, a) ==
  /\ asked[c] = NotAsked
  /\ a \in Cached /\ ~Expired(a)
  /\ order' = Append(KeysBut(order, {a}), a)
  /\ got' = Answer(c, a, entry[a].gen)
  /\ UNCHANGED <<clock, entry, inFlight, asked, gen>>

\* lookup() deletes an entry that has expired.
Miss(c, a) ==
  /\ asked[c] = NotAsked
  /\ a \in Cached => Expired(a)
  /\ Drop({a})

\* The promise of the load that is registered is returned, also while it is settled
\* and its caller has not yet run its finally block.
Join(c, a) ==
  /\ Miss(c, a)
  /\ inFlight[a] # NoCaller
  /\ asked' = [asked EXCEPT ![c] = [asked[inFlight[a]] EXCEPT !.since = gen[a]]]
  /\ UNCHANGED <<clock, inFlight, gen, got>>

\* Mutant: every miss starts a load of its own.
LoadAlways(c, a) ==
  /\ Miss(c, a)
  /\ inFlight' = [inFlight EXCEPT ![a] = c]
  /\ asked' = [asked EXCEPT ![c] =
       [pc |-> "waiting", agent |-> a, since |-> gen[a], load |-> c, gen |-> gen[a]]]
  /\ UNCHANGED <<clock, gen, got>>

StartLoad(c, a) ==
  /\ Miss(c, a)
  /\ inFlight[a] = NoCaller
  /\ inFlight' = [inFlight EXCEPT ![a] = c]
  /\ asked' = [asked EXCEPT ![c] =
       [pc |-> "waiting", agent |-> a, since |-> gen[a], load |-> c, gen |-> gen[a]]]
  /\ UNCHANGED <<clock, gen, got>>

Loading(c) == asked[c] # NotAsked /\ asked[c].load = c /\ asked[c].pc = "waiting"

Waiters(c) ==
  {d \in Caller : asked[d] # NotAsked /\ asked[d].load = c /\ asked[d].pc = "waiting"}

\* Mutant: the result is stored whatever happened during the load.
Unfenced(c) == TRUE

\* The token: the load is still the one that is registered.
NotOvertaken(c) == inFlight[asked[c].agent] = c

SettlePromise(c, how) ==
  asked' = [d \in Caller |-> IF d \in Waiters(c) THEN [asked[d] EXCEPT !.pc = how] ELSE asked[d]]

\* The loader has come back: the promise of the load settles.
LoadSucceeds(c) ==
  /\ Loading(c)
  /\ IF NotOvertaken(c) THEN Store(asked[c].agent, asked[c].gen) ELSE UNCHANGED <<order, entry>>
  /\ SettlePromise(c, "resolved")
  /\ UNCHANGED <<clock, inFlight, gen, got>>

LoadFails(c) ==
  /\ Loading(c)
  /\ SettlePromise(c, "rejected")
  /\ UNCHANGED <<clock, order, entry, inFlight, gen, got>>

\* finally: the caller of the load removes its registration and no other.
Release(c) ==
  inFlight' = [inFlight EXCEPT ![asked[c].agent] =
    IF asked[c].load = c /\ @ = c THEN NoCaller ELSE @]

\* The caller continues after its await.
ResumeCaller(c) ==
  /\ asked[c] # NotAsked /\ asked[c].pc # "waiting"
  /\ Release(c)
  /\ got' = IF asked[c].pc = "resolved" THEN Answer(c, asked[c].agent, asked[c].gen) ELSE Rejection
  /\ asked' = [asked EXCEPT ![c] = NotAsked]
  /\ UNCHANGED <<clock, order, entry, gen>>

-----------------------------------------------------------------------------
(* The writes: they unregister the loads that began before them *)

Overtake(agents) ==
  /\ \A a \in agents : gen[a] < MaxWrites
  /\ gen' = [a \in AgentId |-> IF a \in agents THEN gen[a] + 1 ELSE gen[a]]
  /\ inFlight' = [a \in AgentId |-> IF a \in agents THEN NoCaller ELSE inFlight[a]]

Set(a) ==
  /\ Overtake({a})
  /\ Store(a, gen[a] + 1)
  /\ UNCHANGED <<clock, asked, got>>

Invalidate(a) ==
  /\ Overtake({a})
  /\ Drop({a})
  /\ UNCHANGED <<clock, asked, got>>

Clear ==
  /\ Overtake(AgentId)
  /\ Drop(AgentId)
  /\ UNCHANGED <<clock, asked, got>>

ClockTicks ==
  /\ clock < MaxClock
  /\ clock' = clock + 1
  /\ UNCHANGED <<order, entry, inFlight, asked, gen, got>>

CacheNext ==
  \/ \E c \in Caller : LoadSucceeds(c) \/ LoadFails(c) \/ ResumeCaller(c)
  \/ \E c \in Caller, a \in AgentId : Hit(c, a) \/ Join(c, a) \/ StartLoad(c, a)
  \/ \E a \in AgentId : Set(a) \/ Invalidate(a)
  \/ Clear
  \/ ClockTicks

CacheSpec == CacheInit /\ [][CacheNext]_cacheVars

\* A loader settles (its SDK client has timeouts) and the event loop runs every
\* continuation that is ready.
CacheFairSpec ==
  /\ CacheSpec
  /\ \A c \in Caller :
       WF_cacheVars(LoadSucceeds(c) \/ LoadFails(c)) /\ WF_cacheVars(ResumeCaller(c))

-----------------------------------------------------------------------------
(* Properties *)

\* The calls under way as a reader of the register sees them.
ReadOf(c) ==
  IF asked[c] = NotAsked THEN [pending |-> FALSE]
  ELSE [pending |-> TRUE, agent |-> asked[c].agent, since |-> asked[c].since]

Reads == [c \in Caller |-> ReadOf(c)]

Register == INSTANCE AgentRegister WITH Agent <- AgentId, read <- Reads

\* The cache is a register per agent: no interleaving of loads, joins, writes,
\* expiries and evictions returns to a read what a write before the read replaced,
\* and every read is answered.
RegisterKept == Register!Spec

\* The part of it that is safety: only the answers a register could give.
NothingStale == Register!Safe

\* Calls for one agent share one load: a second loader runs only when a write has
\* overtaken the first.
LoadsAreShared ==
  \A c, d \in Caller :
    Loading(c) /\ Loading(d) /\ asked[c].agent = asked[d].agent /\ asked[c].gen = asked[d].gen
      => c = d

-----------------------------------------------------------------------------
(* The inductive invariant behind them *)

\* An entry that counts is of the last write.
EntriesAreCurrent == \A a \in AgentId : entry[a] # NoEntry => entry[a].gen = gen[a]

\* The load of c is registered for the agent a and may be stored.
Registered(c, a) ==
  asked[c] # NotAsked /\ asked[c].load = c /\ asked[c].agent = a /\ asked[c].gen = gen[a]

FlightsAreRegistered == \A a \in AgentId : inFlight[a] # NoCaller => Registered(inFlight[a], a)

\* A call waits for a load that began no earlier than the writes before the call.
LoadsAreRecent ==
  \A c \in Caller : asked[c] # NotAsked =>
    asked[c].since <= asked[c].gen /\ asked[c].gen <= gen[asked[c].agent]

\* A load that nothing has overtaken is still the registered one.
LoadsStayRegistered ==
  \A c \in Caller, a \in AgentId : Loading(c) /\ Registered(c, a) => inFlight[a] = c

CacheIInv ==
  /\ ValuesOK /\ EntriesAreCurrent /\ FlightsAreRegistered /\ LoadsAreRecent
  /\ LoadsStayRegistered /\ LoadsAreShared
=============================================================================
