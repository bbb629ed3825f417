----------------------------- MODULE DefinitionLog -----------------------------
(***************************************************************************)
(* What the desired feed relies on of the control service's store: the     *)
(* agents' latest revisions, which stops hold, and a position that moves   *)
(* with every change of either.                                            *)
(***************************************************************************)
EXTENDS Naturals

CONSTANT Agents

VARIABLES
  latest,    \* each agent's latest revision, 0 before it has one
  held,      \* the agents a stop holds
  position   \* the position of the latest change

logVars == <<latest, held, position>>

\* Mutant: the position is taken for the revision.
AppendAtPosition(a) ==
  /\ latest' = [latest EXCEPT ![a] = position + 1]
  /\ position' = position + 1
  /\ UNCHANGED held

\* A revision is stored, one past the agent's latest.
AppendRevision(a) ==
  /\ latest' = [latest EXCEPT ![a] = @ + 1]
  /\ position' = position + 1
  /\ UNCHANGED held

\* Mutant: recording a stop leaves the position.
TurnUnmoved(a) ==
  /\ latest[a] # 0
  /\ held' = IF a \in held THEN held \ {a} ELSE held \cup {a}
  /\ position' = IF a \in held THEN position + 1 ELSE position
  /\ UNCHANGED latest

\* A stop of an agent is recorded, or the one that holds it ended.
Turn(a) ==
  /\ latest[a] # 0
  /\ held' = IF a \in held THEN held \ {a} ELSE held \cup {a}
  /\ position' = position + 1
  /\ UNCHANGED latest

\* The position moves for something else, or for nothing.
Move ==
  /\ position' = position + 1
  /\ UNCHANGED <<latest, held>>

LogInit == latest = [a \in Agents |-> 0] /\ held = {} /\ position = 0
LogNext == Move \/ \E a \in Agents : AppendRevision(a) \/ Turn(a)
LogSpec == LogInit /\ [][LogNext]_logVars
================================================================================
