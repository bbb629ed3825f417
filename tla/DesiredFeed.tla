------------------------------ MODULE DesiredFeed ------------------------------
(***************************************************************************)
(* The desired feed, from the control service's store to the Agents of one *)
(* operator and back: the feed's route (internal/distribution), the puller *)
(* and its renderer (internal/desired), and the operator's report.         *)
(*                                                                         *)
(* The store is DefinitionLog, which Definitions is shown to implement.    *)
(* Every revision of the agents is recorded for this operator; garam       *)
(* proves their placement, or for a time does not.  Of an Agent's spec the *)
(* model keeps the revision and the stop, not the other fields the         *)
(* revision decides.  The renderer reads the Agents from a cache that may  *)
(* lag (CacheLag), or shows a write by the time the next answer is         *)
(* applied.                                                                *)
(***************************************************************************)
EXTENDS DefinitionLog, Integers, FiniteSets

CONSTANTS
  MaxRevision,  \* bound: revisions of an agent
  MaxTurns,     \* bound: stops, starts, and other moves of the position
  MaxEvents,    \* bound: failures, restarts and withdrawn placements
  AgentLimits,  \* the numbers of agents one answer may be configured to carry
  CacheLag,     \* whether the cache may still lag when the next answer is applied
  Malformed     \* agents and revisions that cannot be rendered as they stand

ASSUME DesiredFeedAssumption ==
  /\ MaxRevision \in Nat /\ MaxTurns \in Nat /\ MaxEvents \in Nat
  /\ AgentLimits \subseteq Nat /\ CacheLag \in BOOLEAN
  /\ Malformed \subseteq Agents \X Nat

VARIABLES
  maxAgents, \* the feed: how many agents one answer may carry, never changed
  turns,     \* stops, starts and other moves so far
  proved,    \* garam: the agents it proves placed on the operator
  pc,        \* the puller: asking, answered by a snapshot, applying
  cursor,    \* the puller's cursor, None before its first answer
  page,      \* the snapshot the feed's last answer is of
  todo,      \* agents of the answer not applied yet
  awaited,   \* the agents whose report the puller waits for: at most one
  rendered,  \* the puller: what it last rendered and reported of each agent
  spec,      \* the Agents' specs; revision 0 where there is none
  seen,      \* the Agents as the operator's cache holds them
  reports,   \* reports the control service may still execute
  status,    \* control: the revision of each agent reported rendered
  events     \* failures, restarts and withdrawals so far

storeVars == <<logVars, maxAgents>>
pullerVars == <<pc, cursor, page, todo, awaited, rendered>>
clusterVars == <<spec, seen>>
controlVars == <<reports, status>>
vars == <<storeVars, turns, proved, pullerVars, clusterVars, controlVars, events>>

None == -1
Revisions == 0..MaxRevision
Key == [rev: Revisions, held: BOOLEAN]
AgentSpec == [rev: Revisions, held: BOOLEAN]
NoAgent == [rev |-> 0, held |-> FALSE]
Page == [position: Nat \cup {None}, rev: [Agents -> Revisions], held: SUBSET Agents]

\* desiredAgentOf: what the answer says of an agent.
DesiredAgentOf(a) == [rev |-> page.rev[a], held |-> a \in page.held]

\* renderedKey: the revision, and whether a stop holds the agent.
KeyOf(a) == LET d == DesiredAgentOf(a) IN [rev |-> d.rev, held |-> d.held]

Event == events < MaxEvents /\ events' = events + 1

--------------------------------------------------------------------------------
(* The store and garam                                                       *)

StoreRevision(a) ==
  /\ latest[a] < MaxRevision
  /\ AppendRevision(a)
  /\ UNCHANGED <<maxAgents, turns, proved, events>>
  /\ UNCHANGED pullerVars /\ UNCHANGED clusterVars /\ UNCHANGED controlVars

StoreTurn ==
  /\ turns < MaxTurns
  /\ Move \/ \E a \in Agents : Turn(a)
  /\ turns' = turns + 1
  /\ UNCHANGED <<maxAgents, proved, events>>
  /\ UNCHANGED pullerVars /\ UNCHANGED clusterVars /\ UNCHANGED controlVars

\* garam stops proving an agent's placement at its revision's epoch.
Withdraw(a) ==
  /\ a \in proved /\ Event
  /\ proved' = proved \ {a}
  /\ UNCHANGED storeVars /\ UNCHANGED turns
  /\ UNCHANGED pullerVars /\ UNCHANGED clusterVars /\ UNCHANGED controlVars

\* garam proves it again.
Place(a) ==
  /\ a \notin proved
  /\ proved' = proved \cup {a}
  /\ UNCHANGED storeVars /\ UNCHANGED <<turns, events>>
  /\ UNCHANGED pullerVars /\ UNCHANGED clusterVars /\ UNCHANGED controlVars

--------------------------------------------------------------------------------
(* The feed's route                                                          *)

\* waitPast: the position passed the cursor, or the wait did; one below the cursor is
\* refused.
WaitedPast == cursor = None \/ cursor <= position

\* Desired: the position and the operator's candidates in one snapshot.
Desired == [position |-> position, rev |-> latest, held |-> held]

\* The feed's request and its page.
Snapshot ==
  /\ pc = "ask"
  /\ WaitedPast
  /\ page' = Desired
  /\ pc' = "paged"
  /\ UNCHANGED storeVars /\ UNCHANGED <<turns, proved, events, cursor, todo, awaited, rendered>>
  /\ UNCHANGED clusterVars /\ UNCHANGED controlVars

\* placed: garam's proof names the agent and the epoch of its revision.
Placed(a) == a \in proved

\* desired: an answer that cannot carry every candidate carries none.
Candidates(rev) == {a \in Agents : rev[a] # 0}
TooMany(rev) == Cardinality(Candidates(rev)) > maxAgents

\* Each candidate is released where it is placed for this answer.
Released == {a \in Candidates(page.rev) : Placed(a)}

\* The client reads the answer: the whole releasable set.
Release ==
  /\ pc = "paged" /\ ~TooMany(page.rev)
  /\ todo' = Released
  /\ pc' = "applying"
  /\ UNCHANGED storeVars /\ UNCHANGED <<turns, proved, events, cursor, page, awaited, rendered>>
  /\ UNCHANGED clusterVars /\ UNCHANGED controlVars

\* An operator with too many agents is refused, and its puller asks again.
FeedRefuses ==
  /\ pc = "paged" /\ TooMany(page.rev)
  /\ pc' = "ask"
  /\ UNCHANGED storeVars /\ UNCHANGED <<turns, proved, events, cursor, page, todo, awaited, rendered>>
  /\ UNCHANGED clusterVars /\ UNCHANGED controlVars

\* The proof or the answer fails: the puller keeps its cursor and asks again.
FeedFails ==
  /\ pc = "paged" /\ Event
  /\ pc' = "ask"
  /\ UNCHANGED storeVars /\ UNCHANGED <<turns, proved, cursor, page, todo, awaited, rendered>>
  /\ UNCHANGED clusterVars /\ UNCHANGED controlVars

--------------------------------------------------------------------------------
(* The puller                                                                *)

\* apply: what was rendered and reported already is left.
Skip(a) ==
  /\ pc = "applying" /\ a \in todo /\ awaited = {}
  /\ rendered[a] = KeyOf(a)
  /\ todo' = todo \ {a}
  /\ UNCHANGED storeVars /\ UNCHANGED <<turns, proved, events, pc, cursor, page, awaited, rendered>>
  /\ UNCHANGED clusterVars /\ UNCHANGED controlVars

\* A merge patch names a field only where it differs from the field as read.
Merged(was, read, new) == IF new # read THEN new ELSE was

\* Render's write: the patch over the Agent as it is.
Patched(was, read, new) ==
  [rev |-> Merged(was.rev, read.rev, new.rev),
   held |-> Merged(was.held, read.held, new.held)]

\* specOf: whether the revision can be rendered.
Renderable(a) == <<a, page.rev[a]>> \notin Malformed

\* Render: the Agent is created, or every field the revision decides patched.
RenderedSpec(a) ==
  LET new == DesiredAgentOf(a)
  IN IF seen[a].rev = 0 THEN new ELSE Patched(spec[a], seen[a], new)

\* ReportStatus: the revision rendered, which is also the one observed.
ReportOf(a) == [agent |-> a, rev |-> page.rev[a]]

\* apply: the next agent of the answer, where it is not what was last rendered.
Applying(a) ==
  /\ pc = "applying" /\ a \in todo /\ awaited = {}
  /\ rendered[a] # KeyOf(a)

\* Mutant: the report goes out before the render.
ReportFirst(a) ==
  /\ Applying(a) /\ Renderable(a)
  /\ UNCHANGED spec
  /\ awaited' = {a}
  /\ reports' = reports \cup {ReportOf(a)}
  /\ UNCHANGED storeVars /\ UNCHANGED <<turns, proved, events, pc, cursor, page, todo, rendered>>
  /\ UNCHANGED <<seen, status>>

\* Mutant: the rendering is remembered whether or not its report is answered.
RememberedAtOnce(a) ==
  /\ Applying(a) /\ Renderable(a)
  /\ CacheLag \/ seen[a] = spec[a]
  /\ seen[a].rev = 0 => spec[a].rev = 0
  /\ spec' = [spec EXCEPT ![a] = RenderedSpec(a)]
  /\ rendered' = [rendered EXCEPT ![a] = KeyOf(a)]
  /\ awaited' = {a}
  /\ reports' = reports \cup {ReportOf(a)}
  /\ UNCHANGED storeVars /\ UNCHANGED <<turns, proved, events, pc, cursor, page, todo>>
  /\ UNCHANGED <<seen, status>>

\* apply: the revision is rendered and its report sent.
Render(a) ==
  /\ Applying(a) /\ Renderable(a)
  /\ CacheLag \/ seen[a] = spec[a]
  /\ seen[a].rev = 0 => spec[a].rev = 0
  /\ spec' = [spec EXCEPT ![a] = RenderedSpec(a)]
  /\ awaited' = {a}
  /\ reports' = reports \cup {ReportOf(a)}
  /\ UNCHANGED storeVars /\ UNCHANGED <<turns, proved, events, pc, cursor, page, todo, rendered>>
  /\ UNCHANGED <<seen, status>>

\* Render: creating an Agent the cache does not show yet is refused.
CreateRefused(a) ==
  /\ Applying(a) /\ Renderable(a)
  /\ CacheLag /\ seen[a].rev = 0 /\ spec[a].rev # 0
  /\ todo' = todo \ {a}
  /\ UNCHANGED storeVars /\ UNCHANGED <<turns, proved, events, pc, cursor, page, awaited, rendered>>
  /\ UNCHANGED clusterVars /\ UNCHANGED controlVars

\* Render refuses a malformed revision, with nothing written or reported.
RefuseMalformed(a) ==
  /\ Applying(a) /\ ~Renderable(a)
  /\ todo' = todo \ {a}
  /\ UNCHANGED storeVars /\ UNCHANGED <<turns, proved, events, pc, cursor, page, awaited, rendered>>
  /\ UNCHANGED clusterVars /\ UNCHANGED controlVars

\* Render fails: the agent waits for the next answer.
RenderFails(a) ==
  /\ Applying(a) /\ Renderable(a)
  /\ Event
  /\ todo' = todo \ {a}
  /\ UNCHANGED storeVars /\ UNCHANGED <<turns, proved, pc, cursor, page, awaited, rendered>>
  /\ UNCHANGED clusterVars /\ UNCHANGED controlVars

\* Mutant: a report replaces what was reported before.
RaisedToLast(was, rev) == rev

\* recordStatus: raised, never lowered.
Raised(was, rev) == IF rev > was THEN rev ELSE was

\* RecordStatus: only a revision the agent has is recorded.
Accepted(m) == m.rev \in 1..latest[m.agent]

\* The status route: a report of a placed agent is recorded; the puller, where it still
\* waits, remembers the rendering only then.
RecordStatus(m) ==
  /\ m \in reports
  /\ reports' = reports \ {m}
  /\ LET accepted == Placed(m.agent) /\ Accepted(m)
         answers == m.agent \in awaited /\ m.rev = page.rev[m.agent]
     IN /\ status' = IF accepted
                     THEN [status EXCEPT ![m.agent] = Raised(@, m.rev)] ELSE status
        /\ rendered' = IF accepted /\ answers
                       THEN [rendered EXCEPT ![m.agent] = KeyOf(m.agent)] ELSE rendered
        /\ awaited' = IF answers THEN {} ELSE awaited
        /\ todo' = IF answers THEN todo \ {m.agent} ELSE todo
  /\ UNCHANGED storeVars /\ UNCHANGED <<turns, proved, events, pc, cursor, page>>
  /\ UNCHANGED clusterVars

\* The report goes unanswered: lost, or executed later.
ReportFails(a) ==
  /\ a \in awaited /\ Event
  /\ awaited' = {}
  /\ todo' = todo \ {a}
  /\ reports' \in {reports, reports \ {ReportOf(a)}}
  /\ UNCHANGED storeVars /\ UNCHANGED <<turns, proved, pc, cursor, page, rendered, status>>
  /\ UNCHANGED clusterVars

\* The whole answer applied, whatever failed, the puller asks past its cursor.
Advance ==
  /\ pc = "applying" /\ todo = {}
  /\ cursor' = page.position
  /\ pc' = "ask"
  /\ UNCHANGED storeVars /\ UNCHANGED <<turns, proved, events, page, todo, awaited, rendered>>
  /\ UNCHANGED clusterVars /\ UNCHANGED controlVars

\* The watch delivers an Agent.
CacheSync(a) ==
  /\ seen[a] # spec[a]
  /\ seen' = [seen EXCEPT ![a] = spec[a]]
  /\ UNCHANGED storeVars /\ UNCHANGED <<turns, proved, events, spec>>
  /\ UNCHANGED pullerVars /\ UNCHANGED controlVars

\* The operator restarts, with no cursor and nothing remembered; a report it sent
\* may still be executed.
Restart ==
  /\ Event
  /\ pc' = "ask" /\ cursor' = None /\ todo' = {} /\ awaited' = {}
  /\ rendered' = [a \in Agents |-> [rev |-> 0, held |-> FALSE]]
  /\ seen' = spec
  /\ reports' \in {reports, {}}
  /\ UNCHANGED storeVars /\ UNCHANGED <<turns, proved, page, spec, status>>

--------------------------------------------------------------------------------
(* The specification                                                         *)

Init ==
  /\ LogInit /\ maxAgents \in AgentLimits
  /\ turns = 0 /\ events = 0 /\ proved = Agents
  /\ pc = "ask" /\ cursor = None
  /\ page = [position |-> None, rev |-> [a \in Agents |-> 0], held |-> {}]
  /\ todo = {} /\ awaited = {}
  /\ rendered = [a \in Agents |-> [rev |-> 0, held |-> FALSE]]
  /\ spec = [a \in Agents |-> NoAgent] /\ seen = [a \in Agents |-> NoAgent]
  /\ reports = {} /\ status = [a \in Agents |-> 0]

Puller ==
  \/ Snapshot \/ Release \/ FeedRefuses \/ Advance
  \/ \E a \in Agents : Skip(a) \/ Render(a) \/ CreateRefused(a) \/ RefuseMalformed(a)

Next ==
  \/ StoreTurn
  \/ \E a \in Agents : StoreRevision(a) \/ Withdraw(a) \/ Place(a)
  \/ Snapshot \/ Release \/ FeedRefuses \/ FeedFails
  \/ \E a \in Agents : Skip(a) \/ Render(a) \/ CreateRefused(a) \/ RefuseMalformed(a)
                      \/ RenderFails(a) \/ ReportFails(a) \/ CacheSync(a)
  \/ \E m \in reports : RecordStatus(m)
  \/ Advance
  \/ Restart

\* The puller's loop runs, the control service answers its reports, and the watch
\* delivers.  Failures are bounded; users and garam need do nothing.
Fairness ==
  /\ WF_vars(Puller)
  /\ WF_vars(\E m \in reports : RecordStatus(m))
  /\ \A a \in Agents : WF_vars(CacheSync(a))

Spec == Init /\ [][Next]_vars
FairSpec == Spec /\ Fairness

--------------------------------------------------------------------------------
(* Properties                                                                *)

TypeOK ==
  /\ maxAgents \in AgentLimits
  /\ latest \in [Agents -> Revisions] /\ held \subseteq Agents /\ position \in Nat
  /\ turns \in 0..MaxTurns /\ events \in 0..MaxEvents /\ proved \subseteq Agents
  /\ pc \in {"ask", "paged", "applying"} /\ cursor \in Nat \cup {None}
  /\ page \in Page
  /\ todo \subseteq Agents /\ awaited \subseteq Agents
  /\ rendered \in [Agents -> Key]
  /\ spec \in [Agents -> AgentSpec] /\ seen \in [Agents -> AgentSpec]
  /\ reports \subseteq [agent: Agents, rev: Revisions]
  /\ status \in [Agents -> Revisions]

\* An answer's cursor accounts for exactly what the answer says: while the position is
\* still the answer's, no revision and no stop has changed since, so a puller that
\* waits past its cursor misses nothing (Desired, movePosition).
CursorCoversAnswer ==
  page.position = position => page.rev = latest /\ page.held = held

\* The control service never shows a revision as rendered that the agent's spec has
\* not reached, however late or repeated the reports (ReportStatus, RecordStatus).
ReportTruthful == \A a \in Agents : status[a] <= spec[a].rev

\* An agent's spec never goes back to an earlier revision, and what is shown rendered
\* of it never falls, over restarts, lagging caches and late reports (Render,
\* RecordStatus).
RevisionNeverBack ==
  [][\A a \in Agents : spec'[a].rev >= spec[a].rev /\ status'[a] >= status[a]]_vars

\* Every revision stored reaches the agent's spec and is reported, or a later one
\* does, though each failed render or report waits for another answer, while garam
\* proves the agent placed, its latest revision can be rendered and one answer carries
\* every agent of the operator (Puller.Start, Puller.apply).
RevisionReached ==
  \A a \in Agents : \A n \in 1..MaxRevision :
    (latest[a] >= n) ~> (\/ a \notin proved \/ TooMany(latest)
                         \/ <<a, latest[a]>> \in Malformed
                         \/ spec[a].rev >= n /\ status[a] >= n)

\* The Agent's stop follows the feed's: one that ended is cleared, unless another
\* stop comes (the renderer "clears it when the stop ends").
StopCleared ==
  \A a \in Agents : (a \notin held) ~> (a \in held \/ a \notin proved \/ ~spec[a].held)
================================================================================
