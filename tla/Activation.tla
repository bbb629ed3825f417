------------------------------- MODULE Activation ------------------------------
(***************************************************************************)
(* Activation of an agent's runtimes and the agent's stop: the execution   *)
(* routes (internal/execution), the stop and start of the console          *)
(* (internal/console) and the records both keep (internal/definition).     *)
(*                                                                         *)
(* One agent under one controller and epoch, whose credential garam holds  *)
(* current; a refusal of garam's that changes nothing ends an attempt like *)
(* a lost answer.  A generation, its request identifier and its operation  *)
(* reference are one number.  garam is the environment: it answers a       *)
(* generation it activated with the same activation until that one ended,  *)
(* and activates another only in place of its latest.  A call to garam can *)
(* be executed long after the attempt that sent it gave up.                *)
(***************************************************************************)
EXTENDS Naturals

CONSTANTS
  MaxGens,   \* bound: runtime generations started
  Revs,      \* the agent's revisions, all of them stored
  NoRev,     \* no revision
  MaxStops,  \* bound: stops requested
  Slots      \* the activation requests served at one time, over all instances

ASSUME ActivationAssumption ==
  MaxGens \in Nat \ {0} /\ MaxStops \in Nat /\ NoRev \notin Revs

VARIABLES
  gens,      \* the revision each generation runs, NoRev before it starts
  rows,      \* activation_requests, by generation
  latest,    \* agent_activations: the latest activation control recorded
  applied,   \* agent_status: what a runtime last reported serving
  stops,     \* stops, by console request
  tries,     \* each slot's attempt
  calls,     \* generations whose activateAgent garam may still execute
  ends,      \* stops whose deactivateAgent garam may still execute
  reports,   \* reports admitted and not recorded yet
  made,      \* garam: the latest activation it made
  live,      \* garam: whether it routes to that one
  given      \* garam: the activation of each generation, 0 for none

vars == <<gens, rows, latest, applied, stops, tries, calls, ends,
          reports, made, live, given>>
garamVars == <<made, live, given>>

Gens == 1..MaxGens
Acts == Nat
Stops == 1..MaxStops

Row == [stored: BOOLEAN, anchor: Acts, ref: BOOLEAN, act: Acts]
NoRow == [stored |-> FALSE, anchor |-> 0, ref |-> FALSE, act |-> 0]
Stop == [state: {"none", "held", "ended"}, act: Acts, done: BOOLEAN]
NoStop == [state |-> "none", act |-> 0, done |-> FALSE]
RuntimeApplied == [rev: Revs \cup {NoRev}, act: Acts]
Locked == {"prepared", "asking", "answered"}
Attempt == [pc: {"idle", "waiting"} \cup Locked, gen: 0..MaxGens, act: Acts]
Idle == [pc |-> "idle", gen |-> 0, act |-> 0]

\* A generation's runtime asks and reports until the next one starts; what it sent
\* may be served later.
Runs(g) ==
  gens[g] # NoRev /\ \A h \in Gens : h > g => gens[h] = NoRev

--------------------------------------------------------------------------------
(* The store                                                                 *)

\* Mutant: the lock is not taken.
LockIgnored == TRUE

\* WithAgentLock: one attempt or stop at a time, over every instance.
LockFree == \A s \in Slots : tries[s].pc \notin Locked

\* stopped: a stop holds the agent.
Stopped == \E k \in Stops : stops[k].state = "held"

\* Mutant: a report counts whatever activation it was made under.
EffectiveAnyActivation(g) ==
  latest # 0 /\ applied.rev = gens[g]

\* operationReference: no reference only where the runtime reported the revision
\* effective under the anchor.
EffectiveUnderAnchor(g) ==
  latest # 0 /\ applied.act = latest /\ applied.rev = gens[g]

\* Mutant: a request is anchored at the activation before the latest.
RowAnchoredBefore(g) ==
  IF rows[g].stored THEN rows[g]
  ELSE [stored |-> TRUE, anchor |-> latest - 1, ref |-> ~EffectiveUnderAnchor(g), act |-> 0]

\* GetActivation: the request is stored already.
StoredRow(g) == rows[g].stored

\* PrepareActivation's row: the one stored, which every retry sends again, or a
\* new one anchored at the latest activation.
RowFor(g) ==
  IF StoredRow(g) THEN rows[g]
  ELSE [stored |-> TRUE, anchor |-> latest, ref |-> ~EffectiveUnderAnchor(g), act |-> 0]

\* ActivationOfGeneration: the activation garam answered for the generation, 0 for none.
ActivationOfGeneration(g) == rows[g].act

\* RecordRuntimeApplied: one row an agent, the last report over any before it.
RecordRuntimeApplied(r) == applied' = r

\* Mutant: the last report is shown whatever activation it was made under.
EffectiveLastReport == applied.rev

\* Execution: the revision shown effective, NoRev where none is.
Effective == IF latest # 0 /\ applied.act = latest THEN applied.rev ELSE NoRev

--------------------------------------------------------------------------------
(* An activation attempt                                                     *)

\* The attempt is answered and its lock let go.
Free(s) == tries' = [tries EXCEPT ![s] = Idle]

\* currentPlacement, read before the lock is taken.
CurrentPlacement(s, g) ==
  /\ tries[s].pc = "idle"
  /\ Runs(g)
  /\ tries' = [tries EXCEPT ![s] = [pc |-> "waiting", gen |-> g, act |-> 0]]
  /\ UNCHANGED <<gens, rows, latest, applied, stops, calls, ends, reports>>
  /\ UNCHANGED garamVars

\* Mutant: a stop refuses only a request that is not stored yet.
PrepareStoredAnyway(s) ==
  /\ tries[s].pc = "waiting" /\ LockFree
  /\ LET g == tries[s].gen
     IN IF Stopped /\ ~rows[g].stored
        THEN Free(s) /\ UNCHANGED rows
        ELSE /\ rows' = [rows EXCEPT ![g] = RowFor(g)]
             /\ tries' = [tries EXCEPT ![s].pc = "prepared"]
  /\ UNCHANGED <<gens, latest, applied, stops, calls, ends, reports>>
  /\ UNCHANGED garamVars

\* The lock is taken and the request stored, unless a stop holds the agent.
PrepareActivation(s) ==
  /\ tries[s].pc = "waiting" /\ LockFree
  /\ LET g == tries[s].gen
     IN IF Stopped
        THEN Free(s) /\ UNCHANGED rows
        ELSE /\ rows' = [rows EXCEPT ![g] = RowFor(g)]
             /\ tries' = [tries EXCEPT ![s].pc = "prepared"]
  /\ UNCHANGED <<gens, latest, applied, stops, calls, ends, reports>>
  /\ UNCHANGED garamVars

\* admit and callActivate: garam judged the token current and is asked.
CallActivate(s) ==
  /\ tries[s].pc = "prepared"
  /\ tries' = [tries EXCEPT ![s].pc = "asking"]
  /\ calls' = calls \cup {tries[s].gen}
  /\ UNCHANGED <<gens, rows, latest, applied, stops, ends, reports>>
  /\ UNCHANGED garamVars

\* Send: a call whose connection failed, or that garam left undecided, is sent again.
SendAgain(s) ==
  /\ tries[s].pc = "asking" /\ tries[s].gen \notin calls
  /\ calls' = calls \cup {tries[s].gen}
  /\ UNCHANGED tries
  /\ UNCHANGED <<gens, rows, latest, applied, stops, ends, reports>>
  /\ UNCHANGED garamVars

\* The attempt ends with nothing recorded: refused, undecided, or its process gone.
EndAttempt(s) ==
  /\ tries[s].pc # "idle"
  /\ Free(s)
  /\ UNCHANGED <<gens, rows, latest, applied, stops, calls, ends, reports>>
  /\ UNCHANGED garamVars

\* RecordActivation: the answered activation, on the request and as the latest,
\* unless the request has another one already.
RecordActivation(s) ==
  LET t == tries[s]
  IN /\ t.pc = "answered"
     /\ Free(s)
     /\ IF rows[t.gen].act \in {0, t.act}
        THEN /\ rows' = [rows EXCEPT ![t.gen].act = t.act]
             /\ latest' = t.act
        ELSE UNCHANGED <<rows, latest>>
     /\ UNCHANGED <<gens, applied, stops, calls, ends, reports>>
     /\ UNCHANGED garamVars

--------------------------------------------------------------------------------
(* garam                                                                     *)

\* activateAgent accepts a generation: again while its activation is the current
\* one, or anew in place of garam's latest.
Admits(g) ==
  IF given[g] # 0 THEN given[g] = made /\ live ELSE rows[g].anchor = made

GaramAnswer(g) == IF given[g] # 0 THEN given[g] ELSE made + 1

\* Activate, decode: an activation answered, or a refusal, which ends the attempt.
Decoded(g) ==
  IF Admits(g) THEN [pc |-> "answered", gen |-> g, act |-> GaramAnswer(g)] ELSE Idle

\* garam executes an activation call; its answer reaches a slot or is lost.
GaramActivate(g) ==
  /\ g \in calls
  /\ calls' = calls \ {g}
  /\ IF Admits(g) /\ given[g] = 0
     THEN /\ made' = made + 1
          /\ live' = TRUE
          /\ given' = [given EXCEPT ![g] = made + 1]
     ELSE UNCHANGED garamVars
  /\ \/ UNCHANGED tries
     \/ \E s \in Slots :
          /\ tries[s].pc = "asking" /\ tries[s].gen = g
          /\ tries' = [tries EXCEPT ![s] = Decoded(g)]
  /\ UNCHANGED <<gens, rows, latest, applied, stops, ends, reports>>

--------------------------------------------------------------------------------
(* The console's stop and start                                              *)

\* Mutant: the stop does not take the activation lock.
RecordStopUnlocked(k) ==
  /\ stops[k].state = "none" /\ (k > 1 => stops[k - 1].state = "ended")
  /\ stops' = [stops EXCEPT ![k] = [state |-> "held", act |-> latest, done |-> FALSE]]
  /\ UNCHANGED <<gens, rows, latest, applied, tries, calls, ends, reports>>
  /\ UNCHANGED garamVars

\* RecordStop, the store's: a new request, while no stop holds the agent.
StopAdmitted(k) == stops[k].state = "none" /\ (k > 1 => stops[k - 1].state = "ended")

\* Stop: recorded under the lock, with the latest activation.
RecordStop(k) ==
  /\ StopAdmitted(k)
  /\ LockFree
  /\ stops' = [stops EXCEPT ![k] = [state |-> "held", act |-> latest, done |-> FALSE]]
  /\ UNCHANGED <<gens, rows, latest, applied, tries, calls, ends, reports>>
  /\ UNCHANGED garamVars

\* Deactivate, the call: garam may execute it from here on.
SendDeactivation(k) == k \notin ends /\ ends' = ends \cup {k}

\* stop, the first time and again: garam is asked to end the activation recorded.
Deactivate(k) ==
  /\ stops[k].state = "held" /\ ~stops[k].done /\ stops[k].act # 0
  /\ SendDeactivation(k)
  /\ UNCHANGED <<gens, rows, latest, applied, stops, tries, calls, reports>>
  /\ UNCHANGED garamVars

\* RecordDeactivation: garam answered the stop's deactivation.
RecordDeactivation(k) == stops' = [stops EXCEPT ![k].done = TRUE]

\* garam executes a deactivation, of the activation named and no other.  The
\* answer reaches the console, which records it, or is lost.
GaramDeactivate(k) ==
  /\ k \in ends
  /\ ends' = ends \ {k}
  /\ live' = (live /\ made # stops[k].act)
  /\ \/ UNCHANGED stops
     \/ RecordDeactivation(k)
  /\ UNCHANGED <<gens, rows, latest, applied, tries, calls, reports, made, given>>

\* RecordStart, the store's: the stop is ended and kept.  It takes no lock.
RecordStart(k) == stops[k].state = "held" /\ stops' = [stops EXCEPT ![k].state = "ended"]

\* start.
Start(k) ==
  /\ RecordStart(k)
  /\ UNCHANGED <<gens, rows, latest, applied, tries, calls, ends, reports>>
  /\ UNCHANGED garamVars

\* stopAnswerOf: whether a stop is answered as deactivated.
AnsweredDeactivated(k) == stops[k].done \/ stops[k].act = 0

--------------------------------------------------------------------------------
(* Runtime statuses                                                          *)

\* Introspect: garam holds the generation current.
IntrospectedCurrent(g) == live /\ given[g] = made

\* reportStatus: the revision the runtime serves, and the activation it runs under.
ReportOf(g) == [rev |-> gens[g], act |-> given[g]]

\* admitReport: garam holds the generation current under the activation control
\* recorded for it.
AdmitReport(g) ==
  /\ Runs(g) /\ IntrospectedCurrent(g)
  /\ ActivationOfGeneration(g) = given[g]
  /\ reports' = reports \cup {ReportOf(g)}
  /\ UNCHANGED <<gens, rows, latest, applied, stops, tries, calls, ends>>
  /\ UNCHANGED garamVars

\* RecordRuntimeStatus, in whatever order the requests reach the store.
RecordRuntimeStatus(r) ==
  /\ r \in reports
  /\ reports' = reports \ {r}
  /\ RecordRuntimeApplied(r)
  /\ UNCHANGED <<gens, rows, latest, stops, tries, calls, ends>>
  /\ UNCHANGED garamVars

--------------------------------------------------------------------------------
(* The rest of the system                                                    *)

\* A runtime starts, in the placed Pod or in the one that took its place.
StartRuntime(g, r) ==
  /\ gens[g] = NoRev /\ (g > 1 => gens[g - 1] # NoRev)
  /\ gens' = [gens EXCEPT ![g] = r]
  /\ UNCHANGED <<rows, latest, applied, stops, tries, calls, ends, reports>>
  /\ UNCHANGED garamVars

--------------------------------------------------------------------------------
Init ==
  /\ gens = [g \in Gens |-> NoRev]
  /\ rows = [g \in Gens |-> NoRow] /\ latest = 0
  /\ applied = [rev |-> NoRev, act |-> 0]
  /\ stops = [k \in Stops |-> NoStop]
  /\ tries = [s \in Slots |-> Idle]
  /\ calls = {} /\ ends = {} /\ reports = {}
  /\ made = 0 /\ live = FALSE /\ given = [g \in Gens |-> 0]

Next ==
  \/ \E s \in Slots, g \in Gens : CurrentPlacement(s, g)
  \/ \E s \in Slots : \/ PrepareActivation(s) \/ CallActivate(s) \/ SendAgain(s)
                      \/ EndAttempt(s) \/ RecordActivation(s)
  \/ \E g \in Gens : GaramActivate(g) \/ AdmitReport(g)
  \/ \E k \in Stops : \/ RecordStop(k) \/ Deactivate(k)
                      \/ GaramDeactivate(k) \/ Start(k)
  \/ \E r \in reports : RecordRuntimeStatus(r)
  \/ \E g \in Gens, r \in Revs : StartRuntime(g, r)

Spec == Init /\ [][Next]_vars

--------------------------------------------------------------------------------
(* Properties                                                                *)

\* Every record and every call in flight keeps its type.
TypeOK ==
  /\ gens \in [Gens -> Revs \cup {NoRev}]
  /\ rows \in [Gens -> Row] /\ latest \in Acts /\ applied \in RuntimeApplied
  /\ stops \in [Stops -> Stop] /\ tries \in [Slots -> Attempt]
  /\ calls \subseteq Gens /\ ends \subseteq Stops /\ reports \subseteq RuntimeApplied
  /\ made \in Acts /\ live \in BOOLEAN /\ given \in [Gens -> Acts]

Chain == INSTANCE ActivationChain

\* Activations form the chain ActivationChain promises: whatever answers are lost,
\* calls delayed and requests retried, the latest activation activate records is
\* garam's or the one before it, never moves back, and is what a new one replaces.
RefinesChain == Chain!Spec

\* While a stop recorded by Stop holds the agent, no activation attempt is between
\* PrepareActivation and RecordActivation, one that waited for the lock included.
StopExcludesAttempts == Stopped => \A s \in Slots : tries[s].pc \notin Locked

\* A stop answered as deactivated by stopAnswerOf leaves garam routing to no
\* activation that control has on record, whichever order the stop, a retry and the
\* late calls to garam ran in.
StopRoutesNothingKnown ==
  \A k \in Stops :
    stops[k].state = "held" /\ AnsweredDeactivated(k) => ~(live /\ latest = made)

\* An activation garam made without an operation reference runs the revision of the
\* activation it replaced, though operationReference reads a report that may be old.
UnreferencedSameRevision ==
  \A g \in Gens :
    given[g] # 0 /\ ~rows[g].ref =>
      \E h \in Gens : given[h] = given[g] - 1 /\ gens[h] = gens[g]

\* The revision Execution shows effective is the one the latest recorded activation's
\* generation runs, though RecordRuntimeStatus keeps reports in order of arrival.
EffectiveOfLatest ==
  Effective # NoRev => \E h \in Gens : given[h] = latest /\ gens[h] = Effective

================================================================================
