--------------------------- MODULE DesiredFeedProofs ---------------------------
(***************************************************************************)
(* Proofs about the desired feed, for any agents, revisions, events and    *)
(* any lag of the cache.  FeedInv strengthens the properties to what every *)
(* step preserves: an answer is never ahead of the store, an Agent never   *)
(* ahead of the last answer, and the cache and the reports never ahead of  *)
(* the Agent.                                                              *)
(***************************************************************************)
EXTENDS DesiredFeed, TLAPS

\* The position of an answer is one the store had.
PageBehind == page.position <= position /\ \A a \in Agents : page.rev[a] <= latest[a]

\* An Agent's revision is one of the answers so far, and the cache's is not newer.
SpecBehind == \A a \in Agents : spec[a].rev <= page.rev[a] /\ seen[a].rev <= spec[a].rev

\* A report in transit is of a revision the Agent has reached.
ReportsBehind == \A m \in reports : m.rev <= spec[m.agent].rev

FeedInv ==
  /\ TypeOK
  /\ PageBehind /\ CursorCoversAnswer
  /\ SpecBehind /\ ReportsBehind /\ ReportTruthful

--------------------------------------------------------------------------------
(* Types                                                                     *)

\* A patch of a spec by what an answer says is a spec, and its revision is the
\* answer's or the one it had (Render).
LEMMA PatchedType ==
  ASSUME NEW was \in AgentSpec, NEW read \in AgentSpec, NEW new \in AgentSpec
  PROVE  Patched(was, read, new) \in AgentSpec
  BY DEF Patched, Merged, AgentSpec

\* What an answer says of an agent is a spec (desiredAgentOf).
LEMMA AnswerType ==
  ASSUME TypeOK, NEW a \in Agents
  PROVE  DesiredAgentOf(a) \in AgentSpec /\ DesiredAgentOf(a).rev = page.rev[a]
  <1>1. page.rev[a] \in Revisions
    BY DEF TypeOK, Page
  <1> QED
    BY <1>1 DEF DesiredAgentOf, AgentSpec

\* What is rendered is a spec (Render).
LEMMA RenderedType ==
  ASSUME TypeOK, NEW a \in Agents
  PROVE  RenderedSpec(a) \in AgentSpec
  BY AnswerType, PatchedType DEF RenderedSpec, TypeOK

\* The key of an answer is a key (renderedKey).
LEMMA KeyType ==
  ASSUME TypeOK, NEW a \in Agents
  PROVE  KeyOf(a) \in Key
  BY AnswerType DEF KeyOf, Key, AgentSpec

\* The initial state has its types.
LEMMA InitType == Init => TypeOK
  BY DesiredFeedAssumption
  DEF Init, LogInit, TypeOK, Revisions, None, Page, Key, AgentSpec, NoAgent

\* Every step keeps the types.
LEMMA StepType == TypeOK /\ [Next]_vars => TypeOK'
  <1> SUFFICES ASSUME TypeOK, [Next]_vars PROVE TypeOK'
    OBVIOUS
  <1> USE DesiredFeedAssumption DEF pullerVars, clusterVars, controlVars, storeVars, logVars
  <1>1. CASE StoreTurn
    BY <1>1 DEF StoreTurn, Move, Turn, TypeOK
  <1>2. ASSUME NEW a \in Agents, StoreRevision(a) PROVE TypeOK'
    BY <1>2 DEF StoreRevision, AppendRevision, TypeOK, Revisions
  <1>3. ASSUME NEW a \in Agents, Withdraw(a) \/ Place(a) PROVE TypeOK'
    BY <1>3 DEF Withdraw, Place, Event, TypeOK
  <1>4. CASE Snapshot
    BY <1>4 DEF Snapshot, Desired, TypeOK, Page
  <1>5. CASE Release \/ FeedRefuses \/ FeedFails
    BY <1>5 DEF Release, Released, Candidates, FeedRefuses, FeedFails, Event, TypeOK
  <1>6. ASSUME NEW a \in Agents, Skip(a) \/ CreateRefused(a) \/ RefuseMalformed(a) \/ RenderFails(a)
        PROVE TypeOK'
    BY <1>6 DEF Skip, CreateRefused, RefuseMalformed, RenderFails, Event, TypeOK
  <1>7. ASSUME NEW a \in Agents, Render(a) PROVE TypeOK'
    <2>1. ReportOf(a) \in [agent: Agents, rev: Revisions]
      BY DEF ReportOf, TypeOK, Page
    <2> QED
      BY <1>7, <2>1, RenderedType DEF Render, TypeOK
  <1>8. ASSUME NEW a \in Agents, ReportFails(a) PROVE TypeOK'
    BY <1>8 DEF ReportFails, Event, TypeOK
  <1>9. ASSUME NEW a \in Agents, CacheSync(a) PROVE TypeOK'
    BY <1>9 DEF CacheSync, TypeOK
  <1>10. ASSUME NEW m \in reports, RecordStatus(m) PROVE TypeOK'
    <2>1. m.agent \in Agents /\ m.rev \in Revisions
      BY DEF TypeOK
    <2>2. Raised(status[m.agent], m.rev) \in Revisions
      BY <2>1 DEF Raised, TypeOK
    <2>3. status' \in [Agents -> Revisions]
      BY <1>10, <2>1, <2>2 DEF RecordStatus, TypeOK
    <2>4. rendered' \in [Agents -> Key]
      BY <1>10, <2>1, KeyType DEF RecordStatus, TypeOK
    <2> QED
      BY <1>10, <2>3, <2>4 DEF RecordStatus, TypeOK
  <1>11. CASE Advance
    BY <1>11 DEF Advance, TypeOK, Page
  <1>12. CASE Restart
    BY <1>12 DEF Restart, Event, TypeOK, Key, Revisions, None
  <1>13. CASE UNCHANGED vars
    BY <1>13 DEF vars, TypeOK
  <1> QED
    BY <1>1, <1>2, <1>3, <1>4, <1>5, <1>6, <1>7, <1>8, <1>9, <1>10, <1>11, <1>12, <1>13 DEF Next

--------------------------------------------------------------------------------
(* The invariant                                                             *)

\* The revision a patch leaves is between the Agent's and the answer's (Render).
LEMMA RenderedBetween ==
  ASSUME TypeOK, SpecBehind, NEW a \in Agents, seen[a].rev = 0 => spec[a].rev = 0
  PROVE  RenderedSpec(a).rev = page.rev[a]
  <1>1. /\ spec[a].rev \in Nat /\ seen[a].rev \in Nat /\ page.rev[a] \in Nat
        /\ spec[a].rev <= page.rev[a] /\ seen[a].rev <= spec[a].rev
    BY DesiredFeedAssumption DEF TypeOK, Page, AgentSpec, Revisions, SpecBehind
  <1>2. CASE seen[a].rev = 0
    BY <1>2, AnswerType DEF RenderedSpec
  <1>3. CASE seen[a].rev # 0
    <2>1. RenderedSpec(a).rev = Merged(spec[a].rev, seen[a].rev, page.rev[a])
      BY <1>3, AnswerType DEF RenderedSpec, Patched
    <2> QED
      BY <1>1, <2>1 DEF Merged
  <1> QED
    BY <1>2, <1>3

\* The revisions compared are natural numbers.
LEMMA RevisionsNat ==
  ASSUME TypeOK, NEW a \in Agents
  PROVE  /\ latest[a] \in Nat /\ page.rev[a] \in Nat /\ spec[a].rev \in Nat
         /\ seen[a].rev \in Nat /\ status[a] \in Nat
  BY DesiredFeedAssumption DEF TypeOK, Page, AgentSpec, Revisions

\* A report names an agent and a revision.
LEMMA ReportNat ==
  ASSUME TypeOK, NEW m \in reports
  PROVE  m.agent \in Agents /\ m.rev \in Nat
  BY DesiredFeedAssumption DEF TypeOK, Revisions

\* The initial state has the invariant.
LEMMA InitInv == Init => FeedInv
  <1> SUFFICES ASSUME Init PROVE FeedInv
    OBVIOUS
  <1>1. TypeOK
    BY InitType
  <1>2. PageBehind /\ CursorCoversAnswer
    BY DEF Init, LogInit, PageBehind, CursorCoversAnswer, None
  <1>3. SpecBehind /\ ReportsBehind /\ ReportTruthful
    BY DEF Init, SpecBehind, ReportsBehind, ReportTruthful, NoAgent
  <1> QED
    BY <1>1, <1>2, <1>3 DEF FeedInv

\* Every step keeps an answer behind the store, and accounted for by its position.
LEMMA StepPage == FeedInv /\ [Next]_vars => (PageBehind /\ CursorCoversAnswer)'
  <1> SUFFICES ASSUME FeedInv, [Next]_vars PROVE (PageBehind /\ CursorCoversAnswer)'
    OBVIOUS
  <1> USE DEF FeedInv
  <1>0. position \in Nat /\ page.position \in Int /\ page.position <= position
    BY DEF TypeOK, Page, None, PageBehind
  <1>1. CASE StoreTurn
    <2>1. position' = position + 1 /\ page' = page /\ latest' = latest
      BY <1>1 DEF StoreTurn, Move, Turn, pullerVars
    <2> QED
      BY <1>0, <2>1 DEF PageBehind, CursorCoversAnswer
  <1>2. ASSUME NEW a \in Agents, StoreRevision(a) PROVE (PageBehind /\ CursorCoversAnswer)'
    <2>1. position' = position + 1 /\ page' = page
      BY <1>2 DEF StoreRevision, AppendRevision, pullerVars
    <2>2. \A b \in Agents : latest[b] \in Nat /\ page.rev[b] \in Nat
      BY RevisionsNat
    <2>3. \A b \in Agents : latest'[b] = IF b = a THEN latest[b] + 1 ELSE latest[b]
      BY <1>2 DEF StoreRevision, AppendRevision, TypeOK
    <2>4. \A b \in Agents : page'.rev[b] <= latest'[b]
      BY <2>1, <2>2, <2>3 DEF PageBehind
    <2> QED
      BY <1>0, <2>1, <2>4 DEF PageBehind, CursorCoversAnswer
  <1>3. CASE Snapshot
    <2>1. page' = Desired /\ UNCHANGED logVars
      BY <1>3 DEF Snapshot, storeVars
    <2>2. \A b \in Agents : latest[b] \in Nat
      BY RevisionsNat
    <2> QED
      BY <1>0, <2>1, <2>2 DEF Desired, logVars, PageBehind, CursorCoversAnswer
  <1>4. CASE UNCHANGED <<logVars, page>>
    BY <1>4 DEF logVars, PageBehind, CursorCoversAnswer
  <1>5. ASSUME NEW a \in Agents,
               \/ Withdraw(a) \/ Place(a) \/ Skip(a) \/ Render(a) \/ CreateRefused(a)
               \/ RefuseMalformed(a) \/ RenderFails(a) \/ ReportFails(a) \/ CacheSync(a)
        PROVE  UNCHANGED <<logVars, page>>
    BY <1>5 DEF Withdraw, Place, Skip, Render, CreateRefused, RefuseMalformed, RenderFails,
                ReportFails, CacheSync, storeVars, pullerVars
  <1>6. CASE Release \/ FeedRefuses \/ FeedFails \/ Advance \/ Restart \/ UNCHANGED vars
    BY <1>4, <1>6 DEF Release, FeedRefuses, FeedFails, Advance, Restart, vars, storeVars, pullerVars
  <1>7. ASSUME NEW m \in reports, RecordStatus(m) PROVE UNCHANGED <<logVars, page>>
    BY <1>7 DEF RecordStatus, storeVars
  <1> QED
    BY <1>1, <1>2, <1>3, <1>4, <1>5, <1>6, <1>7 DEF Next

\* Every step keeps the Agents behind the answers, and the cache and the reports behind
\* the Agents, and takes no Agent and no status back.
LEMMA StepBehind ==
  FeedInv /\ [Next]_vars =>
    /\ (SpecBehind /\ ReportsBehind /\ ReportTruthful)'
    /\ \A a \in Agents : spec'[a].rev >= spec[a].rev /\ status'[a] >= status[a]
  <1> DEFINE Goal == /\ (SpecBehind /\ ReportsBehind /\ ReportTruthful)'
                     /\ \A a \in Agents : spec'[a].rev >= spec[a].rev /\ status'[a] >= status[a]
  <1> SUFFICES ASSUME FeedInv, [Next]_vars PROVE Goal
    OBVIOUS
  <1>0. TypeOK /\ PageBehind /\ SpecBehind /\ ReportsBehind /\ ReportTruthful
    BY DEF FeedInv
  <1>n. \A a \in Agents : /\ latest[a] \in Nat /\ page.rev[a] \in Nat /\ spec[a].rev \in Nat
                          /\ seen[a].rev \in Nat /\ status[a] \in Nat
    BY <1>0, RevisionsNat
  <1>m. \A m \in reports : m.agent \in Agents /\ m.rev \in Nat
    BY <1>0, ReportNat
  <1>1. ASSUME UNCHANGED <<page, spec, seen, status>>, reports' \subseteq reports PROVE Goal
    BY <1>0, <1>1, <1>n DEF SpecBehind, ReportsBehind, ReportTruthful
  <1>2. CASE Snapshot
    <2>1. page'.rev = latest /\ UNCHANGED <<spec, seen, status, reports>>
      BY <1>2 DEF Snapshot, Desired, clusterVars, controlVars
    <2>2. \A a \in Agents : spec[a].rev <= latest[a]
      BY <1>0, <1>n DEF PageBehind, SpecBehind
    <2> QED
      BY <1>0, <1>n, <2>1, <2>2 DEF SpecBehind, ReportsBehind, ReportTruthful
  <1>3. ASSUME NEW a \in Agents, Render(a) PROVE Goal
    <2>1. /\ spec' = [spec EXCEPT ![a] = RenderedSpec(a)]
          /\ reports' = reports \cup {ReportOf(a)}
          /\ UNCHANGED <<page, seen, status>>
      BY <1>3 DEF Render
    <2>2. RenderedSpec(a).rev = page.rev[a]
      BY <1>0, <1>3, RenderedBetween DEF Render
    <2>3. \A b \in Agents : spec'[b].rev = IF b = a THEN page.rev[a] ELSE spec[b].rev
      BY <1>0, <2>1, <2>2 DEF TypeOK
    <2>4. \A b \in Agents : spec'[b].rev >= spec[b].rev /\ spec'[b].rev <= page.rev[b]
                            /\ spec'[b].rev \in Nat
      BY <1>0, <1>n, <2>3 DEF SpecBehind
    <2>5. SpecBehind'
      BY <1>0, <1>n, <2>1, <2>4 DEF SpecBehind
    <2>6. \A m \in reports' : m.rev <= spec'[m.agent].rev
      <3> SUFFICES ASSUME NEW m \in reports' PROVE m.rev <= spec'[m.agent].rev
        OBVIOUS
      <3>1. CASE m \in reports
        BY <1>0, <1>n, <1>m, <2>4, <3>1 DEF ReportsBehind
      <3>2. CASE m = ReportOf(a)
        BY <1>n, <2>3, <3>2 DEF ReportOf
      <3> QED
        BY <2>1, <3>1, <3>2
    <2>7. ReportTruthful'
      BY <1>0, <1>n, <2>1, <2>4 DEF ReportTruthful
    <2>8. \A b \in Agents : status'[b] >= status[b]
      BY <1>n, <2>1
    <2> QED
      BY <2>4, <2>5, <2>6, <2>7, <2>8 DEF ReportsBehind
  <1>4. ASSUME NEW a \in Agents, CacheSync(a) PROVE Goal
    <2>1. /\ seen' = [seen EXCEPT ![a] = spec[a]]
          /\ UNCHANGED <<page, spec, status, reports>>
      BY <1>4 DEF CacheSync, pullerVars, controlVars
    <2>2. \A b \in Agents : seen'[b].rev = IF b = a THEN spec[b].rev ELSE seen[b].rev
      BY <1>0, <2>1 DEF TypeOK
    <2> QED
      BY <1>0, <1>n, <2>1, <2>2 DEF SpecBehind, ReportsBehind, ReportTruthful
  <1>5. ASSUME NEW m \in reports, RecordStatus(m) PROVE Goal
    <2>1. UNCHANGED <<page, spec, seen>> /\ reports' \subseteq reports
      BY <1>5 DEF RecordStatus, clusterVars
    <2>2. status' \in {status, [status EXCEPT ![m.agent] = Raised(@, m.rev)]}
      BY <1>5 DEF RecordStatus
    <2>3. m.rev <= spec[m.agent].rev
      BY <1>0 DEF ReportsBehind
    <2>4. \A b \in Agents : status'[b] >= status[b] /\ status'[b] <= spec[b].rev
      BY <1>0, <1>n, <1>m, <2>2, <2>3 DEF TypeOK, Raised, ReportTruthful
    <2> QED
      BY <1>0, <1>n, <2>1, <2>4 DEF SpecBehind, ReportsBehind, ReportTruthful
  <1>6. CASE Restart
    <2>1. UNCHANGED <<page, spec, status>> /\ seen' = spec /\ reports' \subseteq reports
      BY <1>6 DEF Restart
    <2> QED
      BY <1>0, <1>n, <2>1 DEF SpecBehind, ReportsBehind, ReportTruthful
  <1>7. ASSUME NEW a \in Agents,
               \/ StoreRevision(a) \/ Withdraw(a) \/ Place(a) \/ Skip(a) \/ CreateRefused(a)
               \/ RefuseMalformed(a) \/ RenderFails(a) \/ ReportFails(a)
        PROVE  UNCHANGED <<page, spec, seen, status>> /\ reports' \subseteq reports
    BY <1>7 DEF StoreRevision, Withdraw, Place, Skip, CreateRefused, RefuseMalformed,
                RenderFails, ReportFails, pullerVars, clusterVars, controlVars
  <1>8. CASE StoreTurn \/ Release \/ FeedRefuses \/ FeedFails \/ Advance \/ UNCHANGED vars
    <2>1. UNCHANGED <<page, spec, seen, status, reports>>
      BY <1>8 DEF StoreTurn, Release, FeedRefuses, FeedFails, Advance, vars,
                  pullerVars, clusterVars, controlVars
    <2> QED
      BY <1>1, <2>1
  <1> HIDE DEF Goal
  <1> QED
    BY <1>1, <1>2, <1>3, <1>4, <1>5, <1>6, <1>7, <1>8 DEF Next

\* Every step preserves the invariant.
LEMMA StepInv == FeedInv /\ [Next]_vars => FeedInv'
  <1>1. FeedInv /\ [Next]_vars => TypeOK'
    BY StepType DEF FeedInv
  <1> QED
    BY <1>1, StepPage, StepBehind DEF FeedInv

\* The invariant holds throughout.
LEMMA InvHolds == Spec => []FeedInv
  BY InitInv, StepInv, PTL DEF Spec

--------------------------------------------------------------------------------
(* The theorems                                                              *)

\* The feed, the puller, the Agents and the reports keep their types.
THEOREM FeedTypes == Spec => []TypeOK
  <1>1. FeedInv => TypeOK
    BY DEF FeedInv
  <1> QED
    BY <1>1, InvHolds, PTL

\* An answer's cursor accounts for exactly what the answer says (Desired).
THEOREM CursorCoversAnswerHolds == Spec => []CursorCoversAnswer
  <1>1. FeedInv => CursorCoversAnswer
    BY DEF FeedInv
  <1> QED
    BY <1>1, InvHolds, PTL

\* No revision is shown rendered that the agent's spec has not reached, whatever
\* becomes of the reports and however the cache lags (ReportStatus, RecordStatus).
THEOREM ReportTruthfulHolds == Spec => []ReportTruthful
  <1>1. FeedInv => ReportTruthful
    BY DEF FeedInv
  <1> QED
    BY <1>1, InvHolds, PTL

\* Neither an agent's spec nor what is shown rendered of it goes back (Render,
\* RecordStatus).
THEOREM RevisionNeverBackHolds == Spec => RevisionNeverBack
  <1>1. FeedInv /\ [Next]_vars =>
          [\A a \in Agents : spec'[a].rev >= spec[a].rev /\ status'[a] >= status[a]]_vars
    BY StepBehind
  <1> QED
    BY <1>1, InvHolds, PTL DEF Spec, RevisionNeverBack
================================================================================
