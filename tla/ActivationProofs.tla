---------------------------- MODULE ActivationProofs ---------------------------
(***************************************************************************)
(* Proofs about activation and stop, for any number of generations, slots, *)
(* revisions and stops, and that they implement ActivationChain.           *)
(*                                                                         *)
(* ActInv strengthens the properties along the code's own argument: the    *)
(* lock admits one attempt, so an answer waiting to be recorded is still   *)
(* garam's latest or the one on record; a request is anchored at what was  *)
(* on record, so garam replaces only an activation control knows; and a    *)
(* report names an activation that was given to a generation running the   *)
(* revision reported.                                                      *)
(***************************************************************************)
EXTENDS Activation, TLAPS

\* At most one attempt holds the lock (WithAgentLock).
OneLocked ==
  \A s, t \in Slots : tries[s].pc \in Locked /\ tries[t].pc \in Locked => s = t

\* Control's record is garam's latest activation or the one before it.
Behind == latest <= made /\ made <= latest + 1 /\ (live => made # 0)

\* A request is anchored at an activation that was on record, and the activation given
\* for it is the next one.
Anchored ==
  \A g \in Gens : /\ rows[g].anchor <= latest
                  /\ given[g] # 0 => rows[g].stored /\ given[g] = rows[g].anchor + 1

\* What is asked of garam is of a request stored, for a generation that started.
AskedStored ==
  /\ \A g \in calls : rows[g].stored
  /\ \A s \in Slots : tries[s].pc # "idle" => tries[s].gen \in Gens /\ gens[tries[s].gen] # NoRev
  /\ \A s \in Slots : tries[s].pc \in Locked => rows[tries[s].gen].stored
  /\ \A g \in Gens : rows[g].stored => gens[g] # NoRev

\* An answer not recorded yet is garam's latest activation, or the one on record.
AnswerCurrent == \A s \in Slots : tries[s].pc = "answered" => tries[s].act \in {made, latest}

\* An activation given to a generation that runs a revision.
GivenFor(act, rev) == act # 0 /\ \E h \in Gens : given[h] = act /\ gens[h] = rev

\* A report names the activation of a generation running its revision.
ReportsGiven ==
  /\ \A r \in reports : r.rev # NoRev => GivenFor(r.act, r.rev)
  /\ applied.rev # NoRev => GivenFor(applied.act, applied.rev)

\* A request without an operation reference is anchored at an activation that runs its
\* generation's revision.
UnreferencedAnchored ==
  \A g \in Gens : rows[g].stored /\ ~rows[g].ref => GivenFor(rows[g].anchor, gens[g])

\* A stop names the activation on record while it holds the agent; garam, once it
\* answered, does not route to it.
StopsKnow ==
  \A k \in Stops : /\ stops[k].act <= latest
                   /\ stops[k].state = "held" => stops[k].act = latest
                   /\ stops[k].done => ~(live /\ made = stops[k].act)

ActInv ==
  /\ TypeOK
  /\ OneLocked /\ StopExcludesAttempts
  /\ Behind /\ Anchored /\ AskedStored /\ AnswerCurrent
  /\ ReportsGiven /\ UnreferencedAnchored
  /\ StopsKnow

--------------------------------------------------------------------------------
(* Types                                                                     *)

\* An idle slot is one.
LEMMA IdleType == Idle \in Attempt /\ Idle.pc = "idle"
  BY ActivationAssumption DEF Idle, Attempt, Acts

\* A row prepared is a row (PrepareActivation).
LEMMA RowType == ASSUME TypeOK, NEW g \in Gens PROVE RowFor(g) \in Row
  BY DEF RowFor, EffectiveUnderAnchor, TypeOK, Row, Acts

\* The initial state has its types.
LEMMA InitType == Init => TypeOK
  <1> SUFFICES ASSUME Init PROVE TypeOK
    OBVIOUS
  <1>1. NoRow \in Row /\ NoStop \in Stop /\ [rev |-> NoRev, act |-> 0] \in RuntimeApplied
    BY DEF NoRow, Row, NoStop, Stop, RuntimeApplied, Acts
  <1> QED
    BY <1>1, IdleType DEF Init, TypeOK, Acts

\* Every step keeps the types.
LEMMA StepType == TypeOK /\ AskedStored /\ [Next]_vars => TypeOK'
  <1> SUFFICES ASSUME TypeOK, AskedStored, [Next]_vars PROVE TypeOK'
    OBVIOUS
  <1> USE ActivationAssumption DEF garamVars
  <1>1. ASSUME NEW s \in Slots, NEW g \in Gens, CurrentPlacement(s, g) PROVE TypeOK'
    <2>1. [pc |-> "waiting", gen |-> g, act |-> 0] \in Attempt
      BY DEF Attempt, Gens, Acts
    <2> QED
      BY <1>1, <2>1 DEF CurrentPlacement, TypeOK
  <1>2. ASSUME NEW s \in Slots, PrepareActivation(s) PROVE TypeOK'
    <2>1. tries[s].gen \in Gens
      BY <1>2 DEF PrepareActivation, AskedStored
    <2>2. [tries EXCEPT ![s].pc = "prepared"] \in [Slots -> Attempt]
      BY DEF TypeOK, Attempt, Locked
    <2>3. tries' \in [Slots -> Attempt]
      BY <1>2, <2>2, IdleType DEF PrepareActivation, Free, TypeOK
    <2>4. rows' \in [Gens -> Row]
      BY <1>2, <2>1, RowType DEF PrepareActivation, TypeOK
    <2> QED
      BY <1>2, <2>3, <2>4 DEF PrepareActivation, TypeOK
  <1>3. ASSUME NEW s \in Slots, CallActivate(s) PROVE TypeOK'
    <2>1. tries[s].gen \in Gens
      BY <1>3 DEF CallActivate, AskedStored
    <2>2. [tries EXCEPT ![s].pc = "asking"] \in [Slots -> Attempt]
      BY DEF TypeOK, Attempt, Locked
    <2> QED
      BY <1>3, <2>1, <2>2 DEF CallActivate, TypeOK
  <1>4. ASSUME NEW s \in Slots, SendAgain(s) PROVE TypeOK'
    <2>1. tries[s].gen \in Gens
      BY <1>4 DEF SendAgain, AskedStored
    <2> QED
      BY <1>4, <2>1 DEF SendAgain, TypeOK
  <1>5. ASSUME NEW s \in Slots, EndAttempt(s) PROVE TypeOK'
    BY <1>5, IdleType DEF EndAttempt, Free, TypeOK
  <1>6. ASSUME NEW s \in Slots, RecordActivation(s) PROVE TypeOK'
    <2>1. tries[s].gen \in Gens /\ tries[s].act \in Nat
      BY <1>6 DEF RecordActivation, AskedStored, TypeOK, Attempt, Acts
    <2>2. [rows EXCEPT ![tries[s].gen].act = tries[s].act] \in [Gens -> Row]
      BY <2>1 DEF TypeOK, Row, Acts
    <2>3. rows' \in [Gens -> Row] /\ latest' \in Acts
      BY <1>6, <2>1, <2>2 DEF RecordActivation, TypeOK, Acts
    <2> QED
      BY <1>6, <2>3, IdleType DEF RecordActivation, Free, TypeOK
  <1>7. ASSUME NEW g \in Gens, GaramActivate(g) PROVE TypeOK'
    <2>1. Decoded(g) \in Attempt
      <3>1. GaramAnswer(g) \in Nat
        BY DEF GaramAnswer, TypeOK, Acts
      <3>2. [pc |-> "answered", gen |-> g, act |-> GaramAnswer(g)] \in Attempt
        BY <3>1 DEF Attempt, Locked, Gens, Acts
      <3> QED
        BY <3>2, IdleType DEF Decoded
    <2>2. tries' \in [Slots -> Attempt]
      BY <1>7, <2>1 DEF GaramActivate, TypeOK
    <2>3. made' \in Acts /\ given' \in [Gens -> Acts]
      BY <1>7 DEF GaramActivate, TypeOK, Acts
    <2>4. live' \in BOOLEAN
      BY <1>7 DEF GaramActivate, TypeOK
    <2> QED
      BY <1>7, <2>2, <2>3, <2>4 DEF GaramActivate, TypeOK
  <1>8. ASSUME NEW g \in Gens, AdmitReport(g) PROVE TypeOK'
    <2>1. ReportOf(g) \in RuntimeApplied
      BY DEF ReportOf, RuntimeApplied, TypeOK
    <2> QED
      BY <1>8, <2>1 DEF AdmitReport, TypeOK
  <1>9. ASSUME NEW k \in Stops, RecordStop(k) PROVE TypeOK'
    <2>1. [state |-> "held", act |-> latest, done |-> FALSE] \in Stop
      BY DEF Stop, TypeOK
    <2> QED
      BY <1>9, <2>1 DEF RecordStop, TypeOK
  <1>10. ASSUME NEW k \in Stops, Deactivate(k) PROVE TypeOK'
    BY <1>10 DEF Deactivate, SendDeactivation, TypeOK
  <1>11. ASSUME NEW k \in Stops, GaramDeactivate(k) PROVE TypeOK'
    <2>1. [stops EXCEPT ![k].done = TRUE] \in [Stops -> Stop]
      BY DEF TypeOK, Stop
    <2>2. live' \in BOOLEAN
      BY <1>11 DEF GaramDeactivate
    <2> QED
      BY <1>11, <2>1, <2>2 DEF GaramDeactivate, RecordDeactivation, TypeOK
  <1>12. ASSUME NEW k \in Stops, Start(k) PROVE TypeOK'
    <2>1. [stops EXCEPT ![k].state = "ended"] \in [Stops -> Stop]
      BY DEF TypeOK, Stop
    <2> QED
      BY <1>12, <2>1 DEF Start, RecordStart, TypeOK
  <1>13. ASSUME NEW r \in reports, RecordRuntimeStatus(r) PROVE TypeOK'
    BY <1>13 DEF RecordRuntimeStatus, RecordRuntimeApplied, TypeOK
  <1>14. ASSUME NEW g \in Gens, NEW r \in Revs, StartRuntime(g, r) PROVE TypeOK'
    BY <1>14 DEF StartRuntime, TypeOK
  <1>15. CASE UNCHANGED vars
    BY <1>15 DEF vars, TypeOK
  <1> QED
    BY <1>1, <1>2, <1>3, <1>4, <1>5, <1>6, <1>7, <1>8, <1>9, <1>10, <1>11, <1>12, <1>13, <1>14,
       <1>15 DEF Next

\* The initial state has the invariant.
LEMMA InitInv == Init => ActInv
  <1> SUFFICES ASSUME Init PROVE ActInv
    OBVIOUS
  <1>1. TypeOK
    BY InitType
  <1>2. \A s \in Slots : tries[s] = Idle
    BY DEF Init
  <1>3. OneLocked /\ StopExcludesAttempts /\ AnswerCurrent
    BY <1>2, IdleType DEF OneLocked, StopExcludesAttempts, AnswerCurrent, Locked
  <1>4. Behind /\ Anchored /\ UnreferencedAnchored
    BY DEF Init, NoRow, Behind, Anchored, UnreferencedAnchored
  <1>5. AskedStored
    BY <1>2, IdleType DEF Init, NoRow, AskedStored, Locked
  <1>6. ReportsGiven /\ StopsKnow
    BY DEF Init, ReportsGiven, StopsKnow, NoStop
  <1> QED
    BY <1>1, <1>3, <1>4, <1>5, <1>6 DEF ActInv

--------------------------------------------------------------------------------
(* The lock                                                                  *)

\* Every step keeps the lock exclusive, and a stop and an attempt apart.
LEMMA StepLock == ActInv /\ [Next]_vars => (OneLocked /\ StopExcludesAttempts)'
  <1> DEFINE Goal == (OneLocked /\ StopExcludesAttempts)'
  <1> SUFFICES ASSUME ActInv, [Next]_vars PROVE Goal
    OBVIOUS
  <1>0. tries \in [Slots -> Attempt] /\ stops \in [Stops -> Stop]
        /\ OneLocked /\ StopExcludesAttempts
    BY DEF ActInv, TypeOK
  <1>1. ASSUME \A t \in Slots : tries'[t].pc \in Locked => tries[t].pc \in Locked,
               Stopped' => Stopped
        PROVE  Goal
    BY <1>0, <1>1 DEF OneLocked, StopExcludesAttempts
  <1>2. ASSUME NEW s \in Slots, PrepareActivation(s) PROVE Goal
    <2>1. \A t \in Slots : tries[t].pc \notin Locked
      BY <1>2 DEF PrepareActivation, LockFree
    <2>2. Stopped' = Stopped
      BY <1>2 DEF PrepareActivation, Stopped
    <2>3. CASE Stopped
      BY <1>0, <1>1, <1>2, <2>2, <2>3, IdleType DEF PrepareActivation, Free, Locked
    <2>4. CASE ~Stopped
      <3>1. \A t \in Slots : t # s => tries'[t] = tries[t]
        BY <1>0, <1>2, <2>4 DEF PrepareActivation
      <3> QED
        BY <2>1, <2>2, <2>4, <3>1 DEF OneLocked, StopExcludesAttempts
    <2> QED
      BY <2>3, <2>4
  <1>3. ASSUME NEW k \in Stops, RecordStop(k) PROVE Goal
    BY <1>3 DEF RecordStop, LockFree, OneLocked, StopExcludesAttempts
  <1>4. ASSUME NEW s \in Slots, NEW g \in Gens, CurrentPlacement(s, g) PROVE Goal
    BY <1>0, <1>1, <1>4 DEF CurrentPlacement, Stopped, Locked
  <1>5. ASSUME NEW s \in Slots, CallActivate(s) \/ SendAgain(s) PROVE Goal
    <2>1. Stopped' => Stopped
      BY <1>5 DEF CallActivate, SendAgain, Stopped
    <2>2. \A t \in Slots : tries'[t].pc \in Locked => tries[t].pc \in Locked
      BY <1>0, <1>5 DEF CallActivate, SendAgain, Locked
    <2> QED
      BY <1>1, <2>1, <2>2
  <1>6. ASSUME NEW s \in Slots, EndAttempt(s) \/ RecordActivation(s) PROVE Goal
    <2>1. Stopped' => Stopped
      BY <1>6 DEF EndAttempt, RecordActivation, Stopped
    <2>2. \A t \in Slots : tries'[t].pc \in Locked => tries[t].pc \in Locked
      BY <1>0, <1>6, IdleType DEF EndAttempt, RecordActivation, Free, Locked
    <2> QED
      BY <1>1, <2>1, <2>2
  <1>7. ASSUME NEW g \in Gens, GaramActivate(g) PROVE Goal
    <2>1. Stopped' => Stopped
      BY <1>7 DEF GaramActivate, Stopped
    <2>2. \A t \in Slots : tries'[t].pc \in Locked => tries[t].pc \in Locked
      BY <1>0, <1>7 DEF GaramActivate, Locked
    <2> QED
      BY <1>1, <2>1, <2>2
  <1>8. ASSUME NEW k \in Stops, Deactivate(k) \/ GaramDeactivate(k) \/ Start(k) PROVE Goal
    <2>1. tries' = tries
      BY <1>8 DEF Deactivate, GaramDeactivate, Start
    <2>2. \A j \in Stops : stops'[j].state = "held" => stops[j].state = "held"
      BY <1>0, <1>8 DEF Deactivate, GaramDeactivate, RecordDeactivation, Start, RecordStart, Stop
    <2> QED
      BY <1>1, <2>1, <2>2 DEF Stopped
  <1>9. ASSUME UNCHANGED <<tries, stops>> PROVE Goal
    BY <1>1, <1>9 DEF Stopped
  <1>10. ASSUME NEW g \in Gens, AdmitReport(g) \/ \E r \in Revs : StartRuntime(g, r) PROVE Goal
    BY <1>9, <1>10 DEF AdmitReport, StartRuntime
  <1>11. ASSUME NEW r \in reports, RecordRuntimeStatus(r) PROVE Goal
    BY <1>9, <1>11 DEF RecordRuntimeStatus
  <1>12. CASE UNCHANGED vars
    BY <1>9, <1>12 DEF vars
  <1> HIDE DEF Goal
  <1> QED
    BY <1>2, <1>3, <1>4, <1>5, <1>6, <1>7, <1>8, <1>10, <1>11, <1>12 DEF Next

--------------------------------------------------------------------------------
(* The chain                                                                 *)

\* What garam and control hold of the activations stays as it is, or moves as one of
\* the chain's steps.
ChainStep ==
  \/ UNCHANGED <<made, live, latest>>
  \/ latest = made /\ made' = made + 1 /\ live' = TRUE /\ UNCHANGED latest
  \/ latest' = made /\ UNCHANGED <<made, live>>
  \/ latest = made /\ live' = FALSE /\ UNCHANGED <<made, latest>>

\* An activation call leaves garam as it is, or makes the next activation of what
\* control has on record (activateAgent).
LEMMA GaramStep ==
  ASSUME ActInv, NEW g \in Gens, GaramActivate(g)
  PROVE  \/ UNCHANGED <<made, live, given, latest>>
         \/ /\ latest = made /\ made' = made + 1 /\ live' = TRUE /\ UNCHANGED latest
            /\ given[g] = 0 /\ given' = [given EXCEPT ![g] = made + 1]
            /\ rows[g].stored /\ rows[g].anchor = made
  <1>1. CASE ~(Admits(g) /\ given[g] = 0)
    BY <1>1 DEF GaramActivate, garamVars
  <1>2. CASE Admits(g) /\ given[g] = 0
    <2>1. rows[g].anchor = made
      BY <1>2 DEF Admits
    <2>2. latest = made
      <3>1. rows[g].anchor <= latest /\ latest <= made /\ latest \in Nat /\ made \in Nat
        BY DEF ActInv, Anchored, Behind, TypeOK, Acts
      <3> QED
        BY <2>1, <3>1
    <2>3. rows[g].stored
      BY DEF ActInv, AskedStored, GaramActivate
    <2> QED
      BY <1>2, <2>1, <2>2, <2>3 DEF GaramActivate
  <1> QED
    BY <1>1, <1>2

\* The record moves to garam's latest or not at all (RecordActivation).
LEMMA RecordStep ==
  ASSUME ActInv, NEW s \in Slots, RecordActivation(s)
  PROVE  latest' \in {latest, made} /\ UNCHANGED <<made, live, given>>
  BY DEF RecordActivation, ActInv, AnswerCurrent, garamVars

\* A deactivation ends an activation on record, or changes nothing (deactivateAgent).
LEMMA DeactivateStep ==
  ASSUME ActInv, NEW k \in Stops, GaramDeactivate(k)
  PROVE  /\ UNCHANGED <<made, given, latest>>
         /\ live' = live \/ (latest = made /\ live' = FALSE)
         /\ live' => live
  <1>1. UNCHANGED <<made, given, latest>> /\ live' = (live /\ made # stops[k].act) /\ live \in BOOLEAN
    BY DEF GaramDeactivate, ActInv, TypeOK
  <1>2. CASE made = stops[k].act
    <2>1. stops[k].act <= latest /\ latest <= made /\ latest \in Nat /\ made \in Nat
      BY DEF ActInv, StopsKnow, Behind, TypeOK, Acts
    <2>2. latest = made
      BY <1>2, <2>1
    <2>3. live' = FALSE
      BY <1>1, <1>2, Zenon
    <2> QED
      BY <1>1, <2>2, <2>3
  <1>3. CASE made # stops[k].act
    <2>1. live' = live
      BY <1>1, <1>3, Zenon
    <2> QED
      BY <1>1, <2>1
  <1> QED
    BY <1>1, <1>2, <1>3

\* Every step is one of the chain's.
LEMMA StepChain == ActInv /\ [Next]_vars => ChainStep
  <1> SUFFICES ASSUME ActInv, [Next]_vars PROVE ChainStep
    OBVIOUS
  <1>1. ASSUME NEW g \in Gens, GaramActivate(g) PROVE ChainStep
    BY <1>1, GaramStep DEF ChainStep
  <1>2. ASSUME NEW s \in Slots, RecordActivation(s) PROVE ChainStep
    BY <1>2, RecordStep DEF ChainStep
  <1>3. ASSUME NEW k \in Stops, GaramDeactivate(k) PROVE ChainStep
    BY <1>3, DeactivateStep DEF ChainStep
  <1>4. ASSUME NEW s \in Slots,
               \/ \E g \in Gens : CurrentPlacement(s, g)
               \/ PrepareActivation(s) \/ CallActivate(s) \/ SendAgain(s) \/ EndAttempt(s)
        PROVE  UNCHANGED <<made, live, latest>>
    BY <1>4 DEF CurrentPlacement, PrepareActivation, CallActivate, SendAgain, EndAttempt, garamVars
  <1>5. ASSUME NEW g \in Gens, AdmitReport(g) \/ \E r \in Revs : StartRuntime(g, r)
        PROVE  UNCHANGED <<made, live, latest>>
    BY <1>5 DEF AdmitReport, StartRuntime, garamVars
  <1>6. ASSUME NEW k \in Stops, RecordStop(k) \/ Deactivate(k) \/ Start(k)
        PROVE  UNCHANGED <<made, live, latest>>
    BY <1>6 DEF RecordStop, Deactivate, Start, garamVars
  <1>7. ASSUME NEW r \in reports, RecordRuntimeStatus(r) PROVE UNCHANGED <<made, live, latest>>
    BY <1>7 DEF RecordRuntimeStatus, garamVars
  <1>8. CASE UNCHANGED vars
    BY <1>8 DEF vars, ChainStep
  <1>9. ASSUME UNCHANGED <<made, live, latest>> PROVE ChainStep
    BY <1>9 DEF ChainStep
  <1> QED
    BY <1>1, <1>2, <1>3, <1>4, <1>5, <1>6, <1>7, <1>8, <1>9 DEF Next

\* The record stays within one of garam's latest and never moves back.
LEMMA StepBehind == ActInv /\ [Next]_vars => Behind' /\ latest' >= latest
  <1> SUFFICES ASSUME ActInv, [Next]_vars PROVE Behind' /\ latest' >= latest
    OBVIOUS
  <1>1. latest \in Nat /\ made \in Nat /\ Behind
    BY DEF ActInv, TypeOK, Acts
  <1>2. ChainStep
    BY StepChain
  <1> QED
    BY <1>1, <1>2 DEF Behind, ChainStep

--------------------------------------------------------------------------------
(* Requests and answers                                                      *)

\* Every step keeps the requests anchored, the calls of stored requests, and an answer
\* in hand garam's latest or the one on record.
LEMMA StepRequests == ActInv /\ [Next]_vars => (Anchored /\ AskedStored /\ AnswerCurrent)'
  <1> DEFINE Goal == (Anchored /\ AskedStored /\ AnswerCurrent)'
  <1> SUFFICES ASSUME ActInv, [Next]_vars PROVE Goal
    OBVIOUS
  <1>0. /\ TypeOK /\ OneLocked /\ Behind /\ Anchored /\ AskedStored /\ AnswerCurrent
        /\ tries \in [Slots -> Attempt] /\ rows \in [Gens -> Row] /\ gens \in [Gens -> Revs \cup {NoRev}]
        /\ given \in [Gens -> Nat] /\ latest \in Nat /\ made \in Nat
        /\ \A g \in Gens : rows[g].anchor \in Nat
    BY DEF ActInv, TypeOK, Acts, Row
  <1>1. ASSUME UNCHANGED <<rows, gens, given, latest, made>>, calls' \subseteq calls,
               \A t \in Slots : tries'[t] = tries[t] \/ tries'[t] = Idle
        PROVE  Goal
    <2>1. Anchored'
      BY <1>0, <1>1 DEF Anchored
    <2>2. AskedStored'
      BY <1>0, <1>1, IdleType DEF AskedStored, Locked
    <2>3. AnswerCurrent'
      BY <1>0, <1>1, IdleType DEF AnswerCurrent
    <2> QED
      BY <2>1, <2>2, <2>3
  <1>2. ASSUME NEW s \in Slots, NEW g \in Gens, CurrentPlacement(s, g) PROVE Goal
    <2>1. /\ UNCHANGED <<rows, gens, given, latest, made, calls>> /\ gens[g] # NoRev
          /\ \A t \in Slots : tries'[t] = IF t = s THEN [pc |-> "waiting", gen |-> g, act |-> 0]
                                          ELSE tries[t]
      BY <1>0, <1>2 DEF CurrentPlacement, Runs, garamVars
    <2>2. Anchored'
      BY <1>0, <2>1 DEF Anchored
    <2>3. AskedStored'
      BY <1>0, <2>1 DEF AskedStored, Locked
    <2>4. AnswerCurrent'
      BY <1>0, <2>1 DEF AnswerCurrent
    <2> QED
      BY <2>2, <2>3, <2>4
  <1>3. ASSUME NEW s \in Slots, PrepareActivation(s) PROVE Goal
    <2> DEFINE g == tries[s].gen
    <2>1. UNCHANGED <<gens, given, latest, made, calls>> /\ g \in Gens /\ gens[g] # NoRev
      BY <1>0, <1>3 DEF PrepareActivation, garamVars, AskedStored
    <2>2. CASE Stopped
      BY <1>0, <1>1, <1>3, <2>1, <2>2 DEF PrepareActivation, Free
    <2>3. CASE ~Stopped
      <3>1. rows' = [rows EXCEPT ![g] = RowFor(g)] /\ tries' = [tries EXCEPT ![s].pc = "prepared"]
        BY <1>3, <2>3 DEF PrepareActivation
      <3>2. \A h \in Gens : rows'[h] = IF h = g THEN RowFor(g) ELSE rows[h]
        BY <1>0, <2>1, <3>1
      <3>3. /\ RowFor(g).stored
            /\ RowFor(g).anchor = IF rows[g].stored THEN rows[g].anchor ELSE latest
        BY DEF RowFor, StoredRow
      <3>4. /\ \A t \in Slots : t # s => tries'[t] = tries[t]
            /\ tries'[s].pc = "prepared" /\ tries'[s].gen = g
        BY <1>0, <3>1 DEF Attempt
      <3>5. Anchored'
        BY <1>0, <2>1, <3>2, <3>3 DEF Anchored
      <3>6. AskedStored'
        <4>1. \A h \in Gens : rows[h].stored => rows'[h].stored
          BY <3>2, <3>3
        <4>2. \A h \in calls' : rows'[h].stored
          BY <1>0, <2>1, <4>1 DEF AskedStored, TypeOK
        <4>3. \A t \in Slots : tries'[t].pc # "idle" =>
                tries'[t].gen \in Gens /\ gens'[tries'[t].gen] # NoRev
          BY <1>0, <2>1, <3>4 DEF AskedStored
        <4>4. \A t \in Slots : tries'[t].pc \in Locked => rows'[tries'[t].gen].stored
          BY <1>0, <2>1, <3>2, <3>3, <3>4, <4>1 DEF AskedStored, Locked
        <4>5. \A h \in Gens : rows'[h].stored => gens'[h] # NoRev
          BY <1>0, <2>1, <3>2 DEF AskedStored
        <4> QED
          BY <4>2, <4>3, <4>4, <4>5 DEF AskedStored
      <3>7. AnswerCurrent'
        BY <1>0, <2>1, <3>4 DEF AnswerCurrent
      <3> QED
        BY <3>5, <3>6, <3>7
    <2> QED
      BY <2>2, <2>3
  <1>4. ASSUME NEW s \in Slots, CallActivate(s) \/ SendAgain(s) PROVE Goal
    <2>1. /\ UNCHANGED <<rows, gens, given, latest, made>>
          /\ tries[s].pc \in Locked /\ calls' = calls \cup {tries[s].gen}
      BY <1>4 DEF CallActivate, SendAgain, garamVars, Locked
    <2>2. \A t \in Slots :
            \/ tries'[t] = tries[t]
            \/ t = s /\ tries'[t].pc = "asking" /\ tries'[t].gen = tries[t].gen
      BY <1>0, <1>4 DEF CallActivate, SendAgain, Attempt
    <2>3. Anchored'
      BY <1>0, <2>1 DEF Anchored
    <2>4. AskedStored'
      BY <1>0, <2>1, <2>2 DEF AskedStored, Locked
    <2>5. AnswerCurrent'
      BY <1>0, <2>1, <2>2 DEF AnswerCurrent
    <2> QED
      BY <2>3, <2>4, <2>5
  <1>5. ASSUME NEW s \in Slots, EndAttempt(s) PROVE Goal
    BY <1>0, <1>1, <1>5 DEF EndAttempt, Free, garamVars
  <1>6. ASSUME NEW s \in Slots, RecordActivation(s) PROVE Goal
    <2>1. /\ UNCHANGED <<gens, given, made, calls>> /\ tries[s].pc = "answered"
          /\ \A t \in Slots : tries'[t] = IF t = s THEN Idle ELSE tries[t]
      BY <1>0, <1>6 DEF RecordActivation, Free, garamVars
    <2>2. latest' >= latest /\ latest' \in Nat
      BY <1>0, <1>6, RecordStep DEF Behind
    <2>3. tries[s].gen \in Gens
      BY <1>0, <2>1 DEF AskedStored
    <2>4. \A h \in Gens : rows'[h].stored = rows[h].stored /\ rows'[h].anchor = rows[h].anchor
      BY <1>0, <1>6, <2>3 DEF RecordActivation, Row
    <2>5. Anchored'
      BY <1>0, <2>1, <2>2, <2>4 DEF Anchored
    <2>6. AskedStored'
      <3>1. (\A h \in calls : rows[h].stored)'
        BY <1>0, <2>1, <2>4 DEF AskedStored, TypeOK
      <3> QED
        BY <1>0, <2>1, <2>4, <3>1, IdleType DEF AskedStored, Locked
    <2>7. AnswerCurrent'
      BY <1>0, <2>1, IdleType DEF AnswerCurrent, OneLocked, Locked
    <2> QED
      BY <2>5, <2>6, <2>7
  <1>7. ASSUME NEW g \in Gens, GaramActivate(g) PROVE Goal
    <2>1. UNCHANGED <<rows, gens, latest>> /\ calls' \subseteq calls
      BY <1>7 DEF GaramActivate
    <2>2. \A h \in Gens : \/ given'[h] = given[h]
                          \/ h = g /\ rows[g].stored /\ given'[h] = rows[g].anchor + 1
      BY <1>0, <1>7, GaramStep
    <2>3. made' = made \/ (latest = made /\ made' = made + 1)
      BY <1>7, GaramStep
    <2>4. \A t \in Slots :
            \/ tries'[t] = tries[t]
            \/ /\ tries[t].pc = "asking" /\ tries[t].gen = g
               /\ tries'[t] = Decoded(g)
      BY <1>0, <1>7 DEF GaramActivate
    <2>5. \/ Decoded(g) = Idle
          \/ Decoded(g).pc = "answered" /\ Decoded(g).gen = g /\ Decoded(g).act = made'
      <3>1. CASE ~Admits(g)
        BY <3>1 DEF Decoded
      <3>2. CASE Admits(g) /\ given[g] # 0
        BY <1>7, <3>2 DEF Decoded, Admits, GaramAnswer, GaramActivate, garamVars
      <3>3. CASE Admits(g) /\ given[g] = 0
        BY <1>7, <3>3 DEF Decoded, GaramAnswer, GaramActivate
      <3> QED
        BY <3>1, <3>2, <3>3
    <2>6. Anchored'
      BY <1>0, <2>1, <2>2 DEF Anchored
    <2>7. AskedStored'
      BY <1>0, <2>1, <2>4, <2>5, IdleType DEF AskedStored, Locked
    <2>8. AnswerCurrent'
      <3> SUFFICES ASSUME NEW t \in Slots, tries'[t].pc = "answered"
                   PROVE  tries'[t].act \in {made', latest}
        BY <2>1 DEF AnswerCurrent
      <3>1. CASE tries'[t] = tries[t]
        BY <1>0, <2>3, <3>1 DEF AnswerCurrent
      <3>2. CASE tries'[t] = Decoded(g)
        BY <2>5, <3>2, IdleType
      <3> QED
        BY <2>4, <3>1, <3>2
    <2> QED
      BY <2>6, <2>7, <2>8
  <1>8. ASSUME NEW g \in Gens, NEW r \in Revs, StartRuntime(g, r) PROVE Goal
    <2>1. /\ UNCHANGED <<rows, given, latest, made, calls, tries>>
          /\ \A h \in Gens : gens[h] # NoRev => gens'[h] # NoRev
      BY <1>0, <1>8, ActivationAssumption DEF StartRuntime, garamVars
    <2> QED
      BY <1>0, <2>1 DEF Anchored, AskedStored, AnswerCurrent
  <1>9. ASSUME NEW g \in Gens, AdmitReport(g) PROVE Goal
    BY <1>1, <1>9 DEF AdmitReport, garamVars
  <1>10. ASSUME NEW k \in Stops,
                RecordStop(k) \/ Deactivate(k) \/ GaramDeactivate(k) \/ Start(k)
         PROVE  Goal
    BY <1>1, <1>10 DEF RecordStop, Deactivate, GaramDeactivate, Start, garamVars
  <1>11. ASSUME NEW r \in reports, RecordRuntimeStatus(r) PROVE Goal
    BY <1>1, <1>11 DEF RecordRuntimeStatus, garamVars
  <1>12. CASE UNCHANGED vars
    BY <1>1, <1>12 DEF vars
  <1> HIDE DEF Goal
  <1> QED
    BY <1>2, <1>3, <1>4, <1>5, <1>6, <1>7, <1>8, <1>9, <1>10, <1>11, <1>12 DEF Next

--------------------------------------------------------------------------------
(* Reports                                                                   *)

\* An activation given to a generation stays given to it, and the generation runs the
\* revision it started with.
LEMMA StepGiven ==
  ActInv /\ [Next]_vars =>
    /\ \A h \in Gens : given[h] # 0 => given'[h] = given[h]
    /\ \A h \in Gens : gens[h] # NoRev => gens'[h] = gens[h]
  <1> DEFINE Goal == /\ \A h \in Gens : given[h] # 0 => given'[h] = given[h]
                     /\ \A h \in Gens : gens[h] # NoRev => gens'[h] = gens[h]
  <1> SUFFICES ASSUME ActInv, [Next]_vars PROVE Goal
    OBVIOUS
  <1>0. given \in [Gens -> Nat] /\ gens \in [Gens -> Revs \cup {NoRev}]
    BY DEF ActInv, TypeOK, Acts
  <1>1. ASSUME UNCHANGED <<given, gens>> PROVE Goal
    BY <1>1
  <1>2. ASSUME NEW g \in Gens, GaramActivate(g) PROVE Goal
    BY <1>0, <1>2 DEF GaramActivate, garamVars
  <1>3. ASSUME NEW g \in Gens, NEW r \in Revs, StartRuntime(g, r) PROVE Goal
    BY <1>0, <1>3 DEF StartRuntime, garamVars
  <1>4. ASSUME NEW s \in Slots,
               \/ \E g \in Gens : CurrentPlacement(s, g)
               \/ PrepareActivation(s) \/ CallActivate(s) \/ SendAgain(s) \/ EndAttempt(s)
               \/ RecordActivation(s)
        PROVE  UNCHANGED <<given, gens>>
    BY <1>4 DEF CurrentPlacement, PrepareActivation, CallActivate, SendAgain, EndAttempt,
                RecordActivation, garamVars
  <1>5. ASSUME NEW g \in Gens, AdmitReport(g) PROVE UNCHANGED <<given, gens>>
    BY <1>5 DEF AdmitReport, garamVars
  <1>6. ASSUME NEW k \in Stops,
               RecordStop(k) \/ Deactivate(k) \/ GaramDeactivate(k) \/ Start(k)
        PROVE  UNCHANGED <<given, gens>>
    BY <1>6 DEF RecordStop, Deactivate, GaramDeactivate, Start, garamVars
  <1>7. ASSUME NEW r \in reports, RecordRuntimeStatus(r) PROVE UNCHANGED <<given, gens>>
    BY <1>7 DEF RecordRuntimeStatus, garamVars
  <1>8. CASE UNCHANGED vars
    BY <1>1, <1>8 DEF vars
  <1> HIDE DEF Goal
  <1> QED
    BY <1>1, <1>2, <1>3, <1>4, <1>5, <1>6, <1>7, <1>8 DEF Next

\* So what an activation was given for, it stays given for.
LEMMA GivenStays ==
  ASSUME ActInv, [Next]_vars, NEW act, NEW rev, rev # NoRev, GivenFor(act, rev)
  PROVE  GivenFor(act, rev)'
  <1>1. PICK h \in Gens : given[h] = act /\ gens[h] = rev
    BY DEF GivenFor
  <1>2. given'[h] = act /\ gens'[h] = rev
    BY <1>1, StepGiven DEF GivenFor
  <1> QED
    BY <1>2 DEF GivenFor

\* Every step keeps the reports of activations given for their revisions.
LEMMA StepReports == ActInv /\ [Next]_vars => ReportsGiven'
  <1> SUFFICES ASSUME ActInv, [Next]_vars PROVE ReportsGiven'
    OBVIOUS
  <1>1. ASSUME \A r \in reports' : r \in reports, applied' = applied \/ applied' \in reports
        PROVE  ReportsGiven'
    BY <1>1, GivenStays DEF ActInv, ReportsGiven
  <1>2. ASSUME NEW g \in Gens, AdmitReport(g) PROVE ReportsGiven'
    <2>1. given[g] # 0 /\ gens[g] # NoRev
      BY <1>2 DEF AdmitReport, Runs, IntrospectedCurrent, ActInv, Behind
    <2>2. GivenFor(ReportOf(g).act, ReportOf(g).rev)
      BY <2>1 DEF GivenFor, ReportOf
    <2>3. ReportOf(g).rev # NoRev
      BY <2>1 DEF ReportOf
    <2>4. \A r \in reports' : r.rev # NoRev => GivenFor(r.act, r.rev)
      BY <1>2, <2>2 DEF AdmitReport, ActInv, ReportsGiven
    <2> QED
      BY <1>2, <2>4, GivenStays DEF AdmitReport, ActInv, ReportsGiven
  <1>3. ASSUME NEW s \in Slots,
               \/ \E g \in Gens : CurrentPlacement(s, g)
               \/ PrepareActivation(s) \/ CallActivate(s) \/ SendAgain(s) \/ EndAttempt(s)
               \/ RecordActivation(s)
        PROVE  UNCHANGED <<reports, applied>>
    BY <1>3 DEF CurrentPlacement, PrepareActivation, CallActivate, SendAgain, EndAttempt,
                RecordActivation
  <1>4. ASSUME NEW g \in Gens, GaramActivate(g) \/ \E r \in Revs : StartRuntime(g, r)
        PROVE  UNCHANGED <<reports, applied>>
    BY <1>4 DEF GaramActivate, StartRuntime
  <1>5. ASSUME NEW k \in Stops,
               RecordStop(k) \/ Deactivate(k) \/ GaramDeactivate(k) \/ Start(k)
        PROVE  UNCHANGED <<reports, applied>>
    BY <1>5 DEF RecordStop, Deactivate, GaramDeactivate, Start
  <1>6. ASSUME NEW r \in reports, RecordRuntimeStatus(r) PROVE ReportsGiven'
    BY <1>1, <1>6 DEF RecordRuntimeStatus, RecordRuntimeApplied
  <1>7. CASE UNCHANGED vars
    BY <1>1, <1>7 DEF vars
  <1> QED
    BY <1>1, <1>2, <1>3, <1>4, <1>5, <1>6, <1>7 DEF Next

\* Every step keeps a request without a reference anchored at its own revision.
LEMMA StepUnreferenced == ActInv /\ [Next]_vars => UnreferencedAnchored'
  <1> SUFFICES ASSUME ActInv, [Next]_vars PROVE UnreferencedAnchored'
    OBVIOUS
  <1>0. /\ rows \in [Gens -> Row] /\ AskedStored /\ UnreferencedAnchored
        /\ \A g \in Gens : gens[g] # NoRev => gens'[g] = gens[g]
    BY StepGiven DEF ActInv, TypeOK
  <1>1. ASSUME NEW g \in Gens, rows'[g].stored = rows[g].stored,
               rows'[g].ref = rows[g].ref, rows'[g].anchor = rows[g].anchor,
               rows'[g].stored, ~rows'[g].ref
        PROVE  GivenFor(rows[g].anchor, gens[g])'
    <2>1. GivenFor(rows[g].anchor, gens[g]) /\ gens[g] # NoRev /\ gens'[g] = gens[g]
      BY <1>0, <1>1 DEF UnreferencedAnchored, AskedStored
    <2> QED
      BY <1>1, <2>1, GivenStays DEF GivenFor
  <1>2. ASSUME UNCHANGED rows PROVE UnreferencedAnchored'
    BY <1>1, <1>2 DEF UnreferencedAnchored
  <1>3. ASSUME NEW s \in Slots, RecordActivation(s) PROVE UnreferencedAnchored'
    <2>1. \A g \in Gens : /\ rows'[g].stored = rows[g].stored /\ rows'[g].ref = rows[g].ref
                          /\ rows'[g].anchor = rows[g].anchor
      BY <1>0, <1>3 DEF RecordActivation, Row
    <2> QED
      BY <1>1, <2>1 DEF UnreferencedAnchored
  <1>4. ASSUME NEW s \in Slots, PrepareActivation(s) PROVE UnreferencedAnchored'
    <2> DEFINE g == tries[s].gen
    <2>1. g \in Gens /\ gens[g] # NoRev
      BY <1>0, <1>4 DEF AskedStored, PrepareActivation
    <2>2. CASE rows' = rows
      BY <1>2, <2>2
    <2>3. CASE rows' = [rows EXCEPT ![g] = RowFor(g)]
      <3> SUFFICES ASSUME NEW h \in Gens, rows'[h].stored, ~rows'[h].ref
                   PROVE  GivenFor(rows[h].anchor, gens[h])'
        BY DEF UnreferencedAnchored
      <3>1. CASE rows'[h] = rows[h]
        BY <1>1, <3>1
      <3>2. CASE h = g /\ ~rows[g].stored
        <4>1. rows'[g] = [stored |-> TRUE, anchor |-> latest, ref |-> ~EffectiveUnderAnchor(g), act |-> 0]
          BY <1>0, <2>1, <2>3, <3>2 DEF RowFor, StoredRow
        <4>2. EffectiveUnderAnchor(g)
          <5>1. rows'[g].ref = ~EffectiveUnderAnchor(g)
            <6> DEFINE effective == EffectiveUnderAnchor(g)
                       reference == ~effective
            <6>1. rows'[g] = [stored |-> TRUE, anchor |-> latest, ref |-> reference, act |-> 0]
              BY <4>1
            <6> HIDE DEF reference
            <6>2. rows'[g].ref = reference
              BY <6>1
            <6> QED
              BY <6>2, Zenon DEF reference
          <5> QED
            BY <3>2, <5>1, Zenon
        <4>3. applied.act = latest /\ applied.rev = gens[g]
          BY <4>2 DEF EffectiveUnderAnchor
        <4>4. GivenFor(latest, gens[g])
          BY <2>1, <4>3 DEF ActInv, ReportsGiven
        <4>5. PICK i \in Gens : given[i] = latest /\ gens[i] = gens[g] /\ latest # 0
          BY <4>4 DEF GivenFor
        <4>6. given'[i] = latest /\ gens'[i] = gens'[g]
          BY <1>0, <2>1, <4>5, StepGiven
        <4>7. rows'[h].anchor = latest
          BY <3>2, <4>1
        <4> QED
          BY <3>2, <4>5, <4>6, <4>7 DEF GivenFor
      <3> QED
        BY <1>0, <2>1, <2>3, <3>1, <3>2 DEF RowFor, StoredRow
    <2> QED
      BY <1>4, <2>2, <2>3 DEF PrepareActivation
  <1>5. ASSUME NEW s \in Slots,
               \/ \E g \in Gens : CurrentPlacement(s, g)
               \/ CallActivate(s) \/ SendAgain(s) \/ EndAttempt(s)
        PROVE  UNCHANGED rows
    BY <1>5 DEF CurrentPlacement, CallActivate, SendAgain, EndAttempt
  <1>6. ASSUME NEW g \in Gens, GaramActivate(g) \/ AdmitReport(g) \/ \E r \in Revs : StartRuntime(g, r)
        PROVE  UNCHANGED rows
    BY <1>6 DEF GaramActivate, AdmitReport, StartRuntime
  <1>7. ASSUME NEW k \in Stops,
               RecordStop(k) \/ Deactivate(k) \/ GaramDeactivate(k) \/ Start(k)
        PROVE  UNCHANGED rows
    BY <1>7 DEF RecordStop, Deactivate, GaramDeactivate, Start
  <1>8. ASSUME NEW r \in reports, RecordRuntimeStatus(r) PROVE UNCHANGED rows
    BY <1>8 DEF RecordRuntimeStatus
  <1>9. CASE UNCHANGED vars
    BY <1>2, <1>9 DEF vars
  <1> QED
    BY <1>2, <1>3, <1>4, <1>5, <1>6, <1>7, <1>8, <1>9 DEF Next

--------------------------------------------------------------------------------
(* Stops                                                                     *)

\* Every step keeps what a stop knows: the record does not move while it holds, and
\* garam does not take up again an activation it ended.
LEMMA StepStops == ActInv /\ [Next]_vars => StopsKnow'
  <1> SUFFICES ASSUME ActInv, [Next]_vars PROVE StopsKnow'
    OBVIOUS
  <1>0. /\ stops \in [Stops -> Stop] /\ StopsKnow /\ StopExcludesAttempts /\ Behind
        /\ latest \in Nat /\ made \in Nat /\ latest' \in Nat /\ latest' >= latest
        /\ \A k \in Stops : stops[k].act \in Nat
    <2>1. latest' \in Nat
      BY StepType DEF ActInv, TypeOK, Acts
    <2> QED
      BY <2>1, StepBehind DEF ActInv, TypeOK, Acts, Stop
  <1>1. ASSUME UNCHANGED <<latest, made>>, live' => live,
               \A k \in Stops : /\ stops'[k].act = stops[k].act
                                /\ stops'[k].state = "held" => stops[k].state = "held"
                                /\ stops'[k].done => stops[k].done
        PROVE  StopsKnow'
    BY <1>0, <1>1 DEF StopsKnow
  <1>2. ASSUME NEW s \in Slots, RecordActivation(s) PROVE StopsKnow'
    <2>1. UNCHANGED <<stops, made, live>>
      BY <1>2 DEF RecordActivation, garamVars
    <2>2. \A k \in Stops : stops[k].state # "held"
      BY <1>0, <1>2 DEF StopExcludesAttempts, Stopped, RecordActivation, Locked
    <2> QED
      BY <1>0, <2>1, <2>2 DEF StopsKnow
  <1>3. ASSUME NEW g \in Gens, GaramActivate(g) PROVE StopsKnow'
    <2>1. UNCHANGED <<stops, latest>>
      BY <1>3 DEF GaramActivate
    <2>2. CASE UNCHANGED <<made, live>>
      BY <1>1, <2>1, <2>2
    <2>3. CASE latest = made /\ made' = made + 1
      BY <1>0, <2>1, <2>3 DEF StopsKnow
    <2> QED
      BY <1>3, <2>2, <2>3, GaramStep
  <1>4. ASSUME NEW k \in Stops, RecordStop(k) PROVE StopsKnow'
    <2>1. /\ UNCHANGED <<latest, made, live>>
          /\ \A j \in Stops : stops'[j] = IF j = k THEN [state |-> "held", act |-> latest, done |-> FALSE]
                                          ELSE stops[j]
      BY <1>0, <1>4 DEF RecordStop, garamVars
    <2> QED
      BY <1>0, <2>1 DEF StopsKnow
  <1>5. ASSUME NEW k \in Stops, GaramDeactivate(k) PROVE StopsKnow'
    <2>1. UNCHANGED <<latest, made>>
      BY <1>5 DEF GaramDeactivate
    <2>2. live' => live /\ made # stops[k].act
      BY <1>5, Zenon DEF GaramDeactivate
    <2>3. \A j \in Stops : /\ stops'[j].act = stops[j].act /\ stops'[j].state = stops[j].state
                           /\ stops'[j].done => stops[j].done \/ j = k
      BY <1>0, <1>5 DEF GaramDeactivate, RecordDeactivation, Stop
    <2> QED
      BY <1>0, <2>1, <2>2, <2>3 DEF StopsKnow
  <1>6. ASSUME NEW k \in Stops, Deactivate(k) \/ Start(k) PROVE StopsKnow'
    <2>1. UNCHANGED <<latest, made, live>>
      BY <1>6 DEF Deactivate, Start, garamVars
    <2>2. \A j \in Stops : /\ stops'[j].act = stops[j].act /\ stops'[j].done = stops[j].done
                           /\ stops'[j].state = "held" => stops[j].state = "held"
      BY <1>0, <1>6 DEF Deactivate, Start, RecordStart, Stop
    <2> QED
      BY <1>1, <2>1, <2>2
  <1>7. ASSUME UNCHANGED <<latest, made, live, stops>> PROVE StopsKnow'
    BY <1>1, <1>7
  <1>8. ASSUME NEW s \in Slots,
               \/ \E g \in Gens : CurrentPlacement(s, g)
               \/ PrepareActivation(s) \/ CallActivate(s) \/ SendAgain(s) \/ EndAttempt(s)
        PROVE  UNCHANGED <<latest, made, live, stops>>
    BY <1>8 DEF CurrentPlacement, PrepareActivation, CallActivate, SendAgain, EndAttempt, garamVars
  <1>9. ASSUME NEW g \in Gens, AdmitReport(g) \/ \E r \in Revs : StartRuntime(g, r)
        PROVE  UNCHANGED <<latest, made, live, stops>>
    BY <1>9 DEF AdmitReport, StartRuntime, garamVars
  <1>10. ASSUME NEW r \in reports, RecordRuntimeStatus(r)
         PROVE  UNCHANGED <<latest, made, live, stops>>
    BY <1>10 DEF RecordRuntimeStatus, garamVars
  <1>11. CASE UNCHANGED vars
    BY <1>7, <1>11 DEF vars
  <1> QED
    BY <1>2, <1>3, <1>4, <1>5, <1>6, <1>7, <1>8, <1>9, <1>10, <1>11 DEF Next

--------------------------------------------------------------------------------
(* The theorems                                                              *)

\* Every step preserves the invariant.
LEMMA StepInv == ActInv /\ [Next]_vars => ActInv'
  <1>1. ActInv /\ [Next]_vars => TypeOK'
    BY StepType DEF ActInv
  <1> QED
    BY <1>1, StepLock, StepBehind, StepRequests, StepReports, StepUnreferenced, StepStops
    DEF ActInv

\* The invariant holds throughout.
LEMMA InvHolds == Spec => []ActInv
  BY InitInv, StepInv, PTL DEF Spec

\* The records and the calls in flight keep their types.
THEOREM ActivationTypes == Spec => []TypeOK
  <1>1. ActInv => TypeOK
    BY DEF ActInv
  <1> QED
    BY <1>1, InvHolds, PTL

\* While a stop holds the agent no attempt is under the lock (Stop, PrepareActivation).
THEOREM StopExcludesAttemptsHolds == Spec => []StopExcludesAttempts
  <1>1. ActInv => StopExcludesAttempts
    BY DEF ActInv
  <1> QED
    BY <1>1, InvHolds, PTL

\* A stop answered as deactivated leaves garam routing to no activation control has on
\* record (stopAnswerOf, RecordDeactivation).
THEOREM StopRoutesNothingKnownHolds == Spec => []StopRoutesNothingKnown
  <1>1. ActInv => StopRoutesNothingKnown
    <2> SUFFICES ASSUME ActInv, NEW k \in Stops, stops[k].state = "held",
                        AnsweredDeactivated(k), live, latest = made
                 PROVE  FALSE
      BY DEF StopRoutesNothingKnown
    <2>1. stops[k].act = latest /\ made # 0 /\ (stops[k].done => made # stops[k].act)
      BY DEF ActInv, StopsKnow, Behind
    <2> QED
      BY <2>1 DEF AnsweredDeactivated
  <1> QED
    BY <1>1, InvHolds, PTL

\* The revision shown effective is the one the latest recorded activation was given for
\* (Execution, RecordRuntimeStatus).
THEOREM EffectiveOfLatestHolds == Spec => []EffectiveOfLatest
  <1>1. ActInv => EffectiveOfLatest
    BY DEF ActInv, ReportsGiven, GivenFor, EffectiveOfLatest, Effective
  <1> QED
    BY <1>1, InvHolds, PTL

\* An activation without an operation reference runs the revision of the one it
\* replaced (operationReference).
THEOREM UnreferencedSameRevisionHolds == Spec => []UnreferencedSameRevision
  <1>1. ActInv => UnreferencedSameRevision
    <2> SUFFICES ASSUME ActInv, NEW g \in Gens, given[g] # 0, ~rows[g].ref
                 PROVE  \E h \in Gens : given[h] = given[g] - 1 /\ gens[h] = gens[g]
      BY DEF UnreferencedSameRevision
    <2>1. rows[g].stored /\ given[g] = rows[g].anchor + 1 /\ rows[g].anchor \in Nat
      BY DEF ActInv, Anchored, TypeOK, Row, Acts
    <2>2. GivenFor(rows[g].anchor, gens[g])
      BY <2>1 DEF ActInv, UnreferencedAnchored
    <2> QED
      BY <2>1, <2>2 DEF GivenFor
  <1> QED
    BY <1>1, InvHolds, PTL

\* Activation implements the chain: garam replaces only what control has on record, and
\* the record never moves back (activate, Stop).
THEOREM RefinesChainHolds == Spec => RefinesChain
  <1>1. Init => Chain!Init
    BY DEF Init, Chain!Init
  <1>2. ActInv /\ [Next]_vars => [Chain!Next]_(Chain!vars)
    BY StepChain DEF ChainStep, Chain!Next, Chain!Activate, Chain!Learn, Chain!End, Chain!vars
  <1> QED
    BY <1>1, <1>2, InvHolds, PTL DEF Spec, RefinesChain, Chain!Spec
================================================================================
