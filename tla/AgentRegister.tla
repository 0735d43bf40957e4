---------------------------- MODULE AgentRegister ----------------------------
(***************************************************************************)
(* What a cache of agents promises to those who read through it: it is a   *)
(* register per agent.  A read that began after a write never returns what *)
(* was there before the write, and a read is answered in the end.          *)
(*                                                                         *)
(* AgentCache implements this.  A generation counts the writes of an       *)
(* agent; the value of a generation is whatever the source holds for it.   *)
(***************************************************************************)
EXTENDS Naturals

CONSTANTS Agent, Caller, MaxWrites

VARIABLES
  gen,   \* writes (set, invalidate, clear) of each agent so far
  read,  \* the reads under way
  got    \* the last answer that anybody got

registerVars == <<gen, read, got>>

Value(c, a, g) == [ok |-> TRUE, caller |-> c, agent |-> a, gen |-> g]
Failure == [ok |-> FALSE]

NoRead == [pending |-> FALSE]
Reading(a) == [pending |-> TRUE, agent |-> a, since |-> gen[a]]

Init ==
  /\ gen = [a \in Agent |-> 0]
  /\ read = [c \in Caller |-> NoRead]
  /\ got = Failure

Write(agents) ==
  /\ \A a \in agents : gen[a] < MaxWrites
  /\ gen' = [a \in Agent |-> IF a \in agents THEN gen[a] + 1 ELSE gen[a]]
  /\ UNCHANGED <<read, got>>

Begin(c, a) ==
  /\ read[c] = NoRead
  /\ read' = [read EXCEPT ![c] = Reading(a)]
  /\ UNCHANGED <<gen, got>>

\* The answer may be as old as the read itself, no older; or the source failed.
Answer(c) ==
  /\ read[c].pending
  /\ \/ \E g \in read[c].since..gen[read[c].agent] :
          got' = Value(c, read[c].agent, g)
     \/ got' = Failure
  /\ read' = [read EXCEPT ![c] = NoRead]
  /\ UNCHANGED gen

AnswerAtOnce(c, a) ==
  /\ read[c] = NoRead
  /\ got' = Value(c, a, gen[a])
  /\ UNCHANGED <<gen, read>>

Next ==
  \/ \E a \in Agent : Write({a})
  \/ Write(Agent)
  \/ \E c \in Caller : Answer(c) \/ \E a \in Agent : Begin(c, a) \/ AnswerAtOnce(c, a)

Safe == Init /\ [][Next]_registerVars

Spec == Safe /\ \A c \in Caller : WF_registerVars(Answer(c))
=============================================================================
