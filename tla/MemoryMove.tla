------------------------------- MODULE MemoryMove -------------------------------
(***************************************************************************)
(* A move of one agent's memory to a new claim (internal/controller,       *)
(* agent_move.go), with the parts of the reconcile it runs in.             *)
(*                                                                         *)
(* Claims are named by number: 0 is the StatefulSet's own claim, m is the  *)
(* claim the move with id m copies to.  The memory on a claim is known by  *)
(* the Pod that last wrote it; 0 is an empty claim and Torn a copy cut or  *)
(* mixed.  A reconcile's writes are steps of their own, except that the    *)
(* writer fence, whose steps are module WriterFence's, is one step here.   *)
(* Claims are read from the API server, Jobs from the manager's cache.     *)
(***************************************************************************)
EXTENDS Naturals, FiniteSets

CONSTANTS
  MaxMoves,    \* bound: the ids a move can be asked under
  MaxPods,     \* bound: agent Pods ever created
  MaxAsks,     \* bound: changes of spec.memoryMove
  MaxLost,     \* bound: Jobs deleted, or whose Pod is
  MaxCrashes,  \* bound: reconciles cut short
  Happens      \* the events of the environment that may happen

Events ==
  { "agentFails",    \* a running agent can exit non-zero
    "killed",        \* a deleting agent can exit non-zero, past its grace period
    "oldAgent",      \* the image may not accept --require-store
    "evicted",       \* a running Pod is deleted
    "hand",          \* a person takes a stopped Pod's finalizer off
    "jobFails",      \* a Job fails, whatever it did
    "jobLost",       \* a Job is deleted, or the Pod of one that is done
    "jobLag",        \* the manager's cache shows a new Job late
    "sourceDeleted", \* a person deletes a claim the memory moved off
    "resumed",       \* a person names again the id of a move that has its target
    "suspended" }    \* spec.suspended changes

ASSUME MoveAssumption ==
  /\ MaxMoves \in Nat \ {0} /\ MaxPods \in Nat /\ MaxAsks \in Nat /\ MaxLost \in Nat
  /\ MaxCrashes \in Nat
  /\ Happens \subseteq Events

VARIABLES
  ask,      \* the id spec.memoryMove names, 0 where it names none
  held,     \* spec.suspended or spec.stopped
  sts,      \* the StatefulSet
  pod,      \* the agent's Pod; uid 0 where there is none
  claim,    \* the state claims, with the records a move keeps on them
  job,      \* the copy and the verification Job of each move
  memory,   \* what is on each claim
  op,       \* the reconcile in progress: its step, what it read and its statePlan
  accepts,  \* whether the agent's image takes --require-store
  created,  \* agent Pods created so far, the newest UID
  latest,   \* history: the Pod that last wrote the agent's memory
  budget    \* asks and crashes so far

vars == <<ask, held, sts, pod, claim, job, memory, op, accepts, created, latest,
          budget>>
clusterVars == <<accepts, created, latest, memory, budget>>

MoveIds == 1..MaxMoves
Claims == 0..MaxMoves
Uids == 0..MaxPods
Torn == MaxPods + 1
Memory == 0..Torn
JobSteps == {"copy", "verify"}
JobStates == {"none", "pending", "reading", "done", "unread", "failed", "gone"}
Exits == {"none", "clean", "failed"}
Phases == {"none", "created", "copied", "verified", "switched", "accepted", "refused"}

Writer == [pod: Uids, state: {"none", "running", "stopped"}, exit: Exits]
Claim == [there: BOOLEAN, movedTo: Claims, phase: Phases, source: Claims,
          sourceWriter: Writer, digest: Memory, started: SUBSET JobSteps, writer: Writer]
StatefulSet == [there: BOOLEAN, template: BOOLEAN, claim: Claims, strict: BOOLEAN,
                replicas: {0, 1}]
Pod == [uid: Uids, claim: Claims, strict: BOOLEAN, noted: BOOLEAN, deleting: BOOLEAN,
        bound: BOOLEAN,  \* of a deleting Pod: it was given a node
        run: {"waiting", "starting", "serving", "exited"}, exit: Exits, last: Exits]
Job == [state: JobStates, seen: BOOLEAN, source: Memory, target: Memory]
Operation ==
  [pc: {"idle", "fence", "move", "createJob", "settle", "accept", "restore", "sts"},
   ask: Claims, held: BOOLEAN, gone: BOOLEAN,
   claim: Claims, byName: BOOLEAN, strict: BOOLEAN, hold: BOOLEAN]

NoWriter == [pod |-> 0, state |-> "none", exit |-> "none"]
NoClaim == [there |-> FALSE, movedTo |-> 0, phase |-> "none", source |-> 0,
            sourceWriter |-> NoWriter, digest |-> 0, started |-> {}, writer |-> NoWriter]
NoSts == [there |-> FALSE, template |-> FALSE, claim |-> 0, strict |-> FALSE, replicas |-> 0]
NoPod == [uid |-> 0, claim |-> 0, strict |-> FALSE, noted |-> FALSE, deleting |-> FALSE,
          bound |-> FALSE, run |-> "waiting", exit |-> "none", last |-> "none"]
NoJob == [state |-> "none", seen |-> FALSE, source |-> 0, target |-> 0]
Idle == [pc |-> "idle", ask |-> 0, held |-> FALSE, gone |-> FALSE,
         claim |-> 0, byName |-> FALSE, strict |-> FALSE, hold |-> FALSE]

At(pc) == op.pc = pc

--------------------------------------------------------------------------------
(* What reconcileMove reads                                                  *)

\* stateInUse: the end of the moved-to chain that starts at the own claim.
Hop(c) == IF claim[c].there /\ claim[c].movedTo # 0 THEN claim[c].movedTo ELSE c
Chain[n \in 0..MaxMoves] == IF n = 0 THEN 0 ELSE Hop(Chain[n - 1])
InUse == Chain[MaxMoves]

\* The chain leads to a claim that is not there: the agent is held stopped.
ChainBroken == InUse # 0 /\ ~claim[InUse].there

\* Mutant: a cleared move's Job holds nobody.
NoJobHolds == FALSE

\* jobOutcome: a Job ends by its Pod's terminated container, or by its Failed condition.
\* One that is done and has no Pod left to read never does.
NotEnded == {"pending", "reading", "unread"}

\* moveJobRunning: a Job of a move, as the cache shows Jobs, has not ended.
JobRunning ==
  \E m \in MoveIds, s \in JobSteps : job[m][s].seen /\ job[m][s].state \in NotEnded

\* Mutant: a writer that stopped is enough, however it exited.
stoppedAtAll(c) == claim[c].writer.state = "stopped"

\* drainedCleanly: the claim's last writer was seen to exit 0.
drainedCleanly(c) == claim[c].writer.state = "stopped" /\ claim[c].writer.exit = "clean"

\* sourceUnchanged: the source is there and had no writer since the move began.
sourceUnchanged(m) ==
  LET c == claim[m].source
  IN claim[c].there /\ claim[c].writer = claim[m].sourceWriter

\* Mutant: an exit of any code counts against the copy.
agentExited == {"clean", "failed"} \cap {pod.exit, pod.last} # {}

\* agentExitedNonZero and podReady.  The workload carries no readiness probe, so
\* a Pod is ready as soon as its containers run.
agentExitedNonZero == "failed" \in {pod.exit, pod.last}
podReady == pod.run \in {"starting", "serving"}

\* The statePlan for the claim in use, and the step that follows.
PlanInUse(pc, hold) ==
  op' = [op EXCEPT !.pc = pc, !.claim = InUse, !.byName = (InUse # 0),
                   !.strict = (InUse # 0), !.hold = hold]
PlanFor(pc, c, hold) ==
  op' = [op EXCEPT !.pc = pc, !.claim = c, !.byName = TRUE, !.strict = (c # 0), !.hold = hold]

SetPhase(m, phase) == claim' = [claim EXCEPT ![m].phase = phase]

--------------------------------------------------------------------------------
(* The reconcile                                                             *)

Reconcile ==
  /\ At("idle")
  /\ op' = [Idle EXCEPT !.pc = "fence", !.ask = ask, !.held = held]
  /\ UNCHANGED <<ask, held, sts, pod, claim, job>> /\ UNCHANGED clusterVars

\* readFence: a deleting Pod's writers have stopped.  One given a node must have been
\* noted on its claim first, and one never given a node started nothing.
WriterStopped ==
  /\ pod.uid # 0 /\ pod.deleting /\ pod.run \in {"waiting", "exited"}
  /\ pod.bound => pod.noted /\ claim[pod.claim].there

\* reconcileFence: a running Pod is recorded on its claim, a stopped deleting one
\* is recorded there and released.
ReconcileFence ==
  /\ At("fence")
  /\ op' = [op EXCEPT !.pc = "move", !.gone = (pod.uid = 0)]
  /\ \/ /\ pod.uid # 0 /\ ~pod.deleting /\ ~pod.noted /\ claim[pod.claim].there
        /\ claim' = [claim EXCEPT ![pod.claim].writer =
                       [pod |-> pod.uid, state |-> "running", exit |-> "none"]]
        /\ pod' = [pod EXCEPT !.noted = TRUE]
     \/ /\ WriterStopped
        /\ claim' = IF claim[pod.claim].there
                    THEN [claim EXCEPT ![pod.claim].writer =
                            [pod |-> pod.uid, state |-> "stopped", exit |-> pod.exit]]
                    ELSE claim
        /\ pod' = NoPod
     \/ /\ \/ pod.uid = 0
           \/ ~pod.deleting /\ (pod.noted \/ ~claim[pod.claim].there)
           \/ pod.deleting /\ ~WriterStopped
        /\ UNCHANGED <<claim, pod>>
  /\ UNCHANGED <<ask, held, sts, job>> /\ UNCHANGED clusterVars

\* reconcileMove where the spec asks for no move, or the chain is broken.
NoMove ==
  /\ At("move")
  /\ \/ ChainBroken /\ op' = [op EXCEPT !.pc = "sts", !.hold = TRUE]
     \/ ~ChainBroken /\ op.ask = 0 /\ PlanInUse("sts", JobRunning)
  /\ UNCHANGED <<ask, held, sts, pod, claim, job>> /\ UNCHANGED clusterVars

\* beginMove: the agent is stopped, and the target is made once it is gone and
\* drained cleanly.
BeginMove ==
  /\ At("move") /\ ~ChainBroken /\ op.ask # 0 /\ ~claim[op.ask].there
  /\ PlanInUse("sts", TRUE)
  /\ claim' = IF op.gone /\ claim[InUse].there /\ drainedCleanly(InUse)
              THEN [claim EXCEPT ![op.ask] =
                      [NoClaim EXCEPT !.there = TRUE, !.phase = "created", !.source = InUse,
                                      !.sourceWriter = claim[InUse].writer]]
              ELSE claim
  /\ UNCHANGED <<ask, held, sts, pod, job>> /\ UNCHANGED clusterVars

Advancing(phase) ==
  /\ At("move") /\ ~ChainBroken /\ op.ask # 0 /\ claim[op.ask].there
  /\ InUse # op.ask /\ claim[op.ask].phase = phase

\* advanceMove has nothing to do: the move ended, or its Pod is not gone yet.
MoveWaits ==
  /\ \/ \E phase \in {"refused", "switched", "accepted"} : Advancing(phase)
     \/ ~op.gone /\ \E phase \in {"created", "copied", "verified"} : Advancing(phase)
  /\ PlanInUse("sts", TRUE)
  /\ UNCHANGED <<ask, held, sts, pod, claim, job>> /\ UNCHANGED clusterVars

\* advanceMove refuses a move whose source is not what it began on.
RefuseSourceChanged ==
  /\ op.gone /\ \E phase \in {"created", "copied", "verified"} : Advancing(phase)
  /\ ~sourceUnchanged(op.ask)
  /\ SetPhase(op.ask, "refused") /\ PlanInUse("sts", TRUE)
  /\ UNCHANGED <<ask, held, sts, pod, job>> /\ UNCHANGED clusterVars

StepOf(phase) == IF phase = "created" THEN "copy" ELSE "verify"

\* Mutant: the target is marked, and a Job that is gone is made again.
EnsureMoveJobAgain ==
  \E phase \in {"created", "copied"} :
    LET m == op.ask
        s == StepOf(phase)
    IN /\ op.gone /\ Advancing(phase) /\ sourceUnchanged(m)
       /\ \/ /\ ~job[m][s].seen
             /\ claim' = [claim EXCEPT ![m].started = @ \cup {s}]
             /\ PlanInUse("createJob", TRUE)
          \/ /\ job[m][s].seen /\ job[m][s].state \in NotEnded \cup {"failed"}
             /\ UNCHANGED claim /\ PlanInUse("sts", TRUE)
       /\ UNCHANGED <<ask, held, sts, pod, job>> /\ UNCHANGED clusterVars

\* ensureMoveJob marks the target before the Job is made; a Job that is gone
\* after the mark, and one that failed, refuse the move.
EnsureMoveJob ==
  \E phase \in {"created", "copied"} :
    LET m == op.ask
        s == StepOf(phase)
    IN /\ op.gone /\ Advancing(phase) /\ sourceUnchanged(m)
       /\ \/ /\ ~job[m][s].seen /\ s \notin claim[m].started
             /\ claim' = [claim EXCEPT ![m].started = @ \cup {s}]
             /\ PlanInUse("createJob", TRUE)
          \/ /\ ~job[m][s].seen /\ s \in claim[m].started
             /\ SetPhase(m, "refused") /\ PlanInUse("sts", TRUE)
          \/ /\ job[m][s].seen /\ job[m][s].state = "failed"
             /\ SetPhase(m, "refused") /\ PlanInUse("sts", TRUE)
          \/ /\ job[m][s].seen /\ job[m][s].state \in NotEnded
             /\ UNCHANGED claim /\ PlanInUse("sts", TRUE)
       /\ UNCHANGED <<ask, held, sts, pod, job>> /\ UNCHANGED clusterVars

CreateJob ==
  /\ At("createJob")
  /\ LET s == StepOf(claim[op.ask].phase)
     IN job' = [job EXCEPT ![op.ask][s] =
          [NoJob EXCEPT !.state = "pending", !.seen = ("jobLag" \notin Happens)]]
  /\ op' = [op EXCEPT !.pc = "sts"]
  /\ UNCHANGED <<ask, held, sts, pod, claim>> /\ UNCHANGED clusterVars

\* runCopy, once its Job is done: the digest of the source as the copy began.
RecordCopied ==
  LET m == op.ask
  IN /\ op.gone /\ Advancing("created") /\ sourceUnchanged(m)
     /\ job[m]["copy"].seen /\ job[m]["copy"].state = "done"
     /\ claim' = [claim EXCEPT ![m].phase = "copied", ![m].digest = job[m]["copy"].source]
     /\ PlanInUse("sts", TRUE)
     /\ UNCHANGED <<ask, held, sts, pod, job>> /\ UNCHANGED clusterVars

\* runVerify, once its Job is done: three digests must be one value.
DigestsMatch(m) ==
  /\ job[m]["verify"].source = claim[m].digest
  /\ job[m]["verify"].target = job[m]["verify"].source

RecordVerified ==
  LET m == op.ask
  IN /\ op.gone /\ Advancing("copied") /\ sourceUnchanged(m)
     /\ job[m]["verify"].seen /\ job[m]["verify"].state = "done"
     /\ SetPhase(m, IF DigestsMatch(m) THEN "verified" ELSE "refused")
     /\ PlanInUse("sts", TRUE)
     /\ UNCHANGED <<ask, held, sts, pod, job>> /\ UNCHANGED clusterVars

\* Mutant: the switch does not wait for the verification.
SwitchUnverified ==
  /\ op.gone /\ \E phase \in {"copied", "verified"} : Advancing(phase)
  /\ sourceUnchanged(op.ask)
  /\ claim' = [claim EXCEPT ![claim[op.ask].source].movedTo = op.ask]
  /\ PlanFor("settle", op.ask, FALSE)
  /\ UNCHANGED <<ask, held, sts, pod, job>> /\ UNCHANGED clusterVars

\* switchMove: the source names the target first.
SwitchMove ==
  /\ op.gone /\ Advancing("verified") /\ sourceUnchanged(op.ask)
  /\ claim' = [claim EXCEPT ![claim[op.ask].source].movedTo = op.ask]
  /\ PlanFor("settle", op.ask, FALSE)
  /\ UNCHANGED <<ask, held, sts, pod, job>> /\ UNCHANGED clusterVars

\* Mutant: a copy in use needs nothing more.
FindInUse ==
  /\ At("move") /\ ~ChainBroken /\ op.ask # 0 /\ claim[op.ask].there /\ InUse = op.ask
  /\ PlanInUse("sts", JobRunning)
  /\ UNCHANGED <<ask, held, sts, pod, claim, job>> /\ UNCHANGED clusterVars

\* reconcileMove finds the target in use, and carries the move to its end.
FindSwitched ==
  /\ At("move") /\ ~ChainBroken /\ op.ask # 0 /\ claim[op.ask].there /\ InUse = op.ask
  /\ PlanInUse("settle", JobRunning)
  /\ UNCHANGED <<ask, held, sts, pod, claim, job>> /\ UNCHANGED clusterVars

\* Mutant: a copy that was accepted is judged again by the next Pod.
SettleAgain ==
  /\ At("settle")
  /\ \/ /\ claim[op.ask].phase \in {"verified", "switched", "accepted"}
        /\ SetPhase(op.ask, "switched")
        /\ op' = [op EXCEPT !.pc = "accept"]
     \/ /\ claim[op.ask].phase = "refused"
        /\ op' = [op EXCEPT !.pc = "restore"] /\ UNCHANGED claim
  /\ UNCHANGED <<ask, held, sts, pod, job>> /\ UNCHANGED clusterVars

\* settleMove, by the phase recorded.
SettleMove ==
  /\ At("settle")
  /\ \/ /\ claim[op.ask].phase \in {"verified", "switched"}
        /\ SetPhase(op.ask, "switched")
        /\ op' = [op EXCEPT !.pc = "accept"]
     \/ /\ claim[op.ask].phase = "accepted"
        /\ op' = [op EXCEPT !.pc = "sts"] /\ UNCHANGED claim
     \/ /\ claim[op.ask].phase = "refused"
        /\ op' = [op EXCEPT !.pc = "restore"] /\ UNCHANGED claim
  /\ UNCHANGED <<ask, held, sts, pod, job>> /\ UNCHANGED clusterVars

\* settleMove reads the Pod: an exit other than 0 refuses the copy, and a ready
\* Pod accepts it.
ReadFirstPod ==
  /\ At("accept")
  /\ LET onCopy == pod.uid # 0 /\ pod.claim = op.ask
     IN \/ /\ onCopy /\ agentExitedNonZero
           /\ SetPhase(op.ask, "refused") /\ op' = [op EXCEPT !.pc = "restore"]
        \/ /\ onCopy /\ ~agentExitedNonZero /\ podReady
           /\ SetPhase(op.ask, "accepted") /\ op' = [op EXCEPT !.pc = "sts"]
        \/ /\ ~onCopy \/ (~agentExitedNonZero /\ ~podReady)
           /\ UNCHANGED claim /\ op' = [op EXCEPT !.pc = "sts"]
  /\ UNCHANGED <<ask, held, sts, pod, job>> /\ UNCHANGED clusterVars

\* restoreSource: the memory goes back to the source, and the agent is held.  A
\* source that is gone cannot be patched, which ends the reconcile.
RestoreSource ==
  /\ At("restore")
  /\ LET c == claim[op.ask].source
     IN IF claim[c].there
        THEN claim' = [claim EXCEPT ![c].movedTo = 0] /\ PlanFor("sts", c, TRUE)
        ELSE op' = Idle /\ UNCHANGED claim
  /\ UNCHANGED <<ask, held, sts, pod, job>> /\ UNCHANGED clusterVars

\* replicasFor: none while the spec or a move holds the agent, and one otherwise.
replicasFor == IF op.held \/ op.hold THEN 0 ELSE 1

\* replaceStateTemplate: a StatefulSet whose template makes the claim the memory
\* moved off is deleted first, leaving its Pod, and made anew by a later reconcile.
ReplacesTemplate == sts.there /\ sts.template /\ op.byName

ReconcileStatefulSet ==
  /\ At("sts")
  /\ op' = Idle
  /\ sts' = IF ReplacesTemplate THEN NoSts
            ELSE [there |-> TRUE, template |-> ~op.byName /\ (sts.there => sts.template),
                  claim |-> op.claim, strict |-> op.strict, replicas |-> replicasFor]
  /\ UNCHANGED <<ask, held, pod, claim, job>> /\ UNCHANGED clusterVars

\* The manager stops, or an API call of the reconcile fails and ends it.
CutShort ==
  /\ ~At("idle") /\ budget.crashes < MaxCrashes
  /\ budget' = [budget EXCEPT !.crashes = @ + 1]
  /\ op' = Idle
  /\ UNCHANGED <<ask, held, sts, pod, claim, job, memory, accepts, created, latest>>

Controller ==
  \/ Reconcile \/ ReconcileFence \/ NoMove \/ BeginMove \/ MoveWaits
  \/ RefuseSourceChanged \/ EnsureMoveJob \/ CreateJob \/ RecordCopied \/ RecordVerified
  \/ SwitchMove \/ FindSwitched \/ SettleMove \/ ReadFirstPod \/ RestoreSource
  \/ ReconcileStatefulSet

--------------------------------------------------------------------------------
(* The environment: people                                                   *)

\* Ids are names, so the first ones are named first.
AskMove ==
  /\ budget.asks < MaxAsks
  /\ \E m \in Claims \ {ask} :
       /\ m <= budget.asks + 1
       /\ (m # 0 /\ claim[m].there) => "resumed" \in Happens
       /\ ask' = m
  /\ budget' = [budget EXCEPT !.asks = @ + 1]
  /\ UNCHANGED <<held, sts, pod, claim, job, op, memory, accepts, created, latest>>

ChangeHeld ==
  /\ "suspended" \in Happens /\ held' = ~held
  /\ UNCHANGED <<ask, sts, pod, claim, job, op>> /\ UNCHANGED clusterVars

ReleaseByHand ==
  /\ "hand" \in Happens
  /\ pod.uid # 0 /\ pod.deleting /\ pod.run \in {"waiting", "exited"}
  /\ pod' = NoPod
  /\ UNCHANGED <<ask, held, sts, claim, job, op>> /\ UNCHANGED clusterVars

\* A person deletes a claim whose memory moved to a copy the agent accepted.
DeleteSource ==
  /\ "sourceDeleted" \in Happens
  /\ \E c \in Claims :
       /\ claim[c].there /\ claim[c].movedTo # 0 /\ claim[claim[c].movedTo].phase = "accepted"
       /\ pod.uid # 0 => pod.claim # c
       /\ claim' = [claim EXCEPT ![c] = NoClaim]
       /\ memory' = [memory EXCEPT ![c] = 0]
  /\ UNCHANGED <<ask, held, sts, pod, job, op, accepts, created, latest, budget>>

--------------------------------------------------------------------------------
(* The environment: the Pod                                                  *)

\* The StatefulSet controller creates the Pod, and the claim its template makes.
CreatePod ==
  /\ sts.there /\ sts.replicas = 1 /\ pod.uid = 0 /\ created < MaxPods
  /\ created' = created + 1
  /\ pod' = [NoPod EXCEPT !.uid = created + 1, !.claim = sts.claim, !.strict = sts.strict]
  /\ claim' = IF sts.template THEN [claim EXCEPT ![0].there = TRUE] ELSE claim
  /\ UNCHANGED <<ask, held, sts, job, memory, op, accepts, latest, budget>>

\* The StatefulSet scales down or rolls its Pod, or the Pod is evicted.  One that has
\* not started may not have been given a node yet, and one whose claim is missing is not.
DeletePod ==
  /\ pod.uid # 0 /\ ~pod.deleting
  /\ \/ sts.there /\ (sts.replicas = 0 \/ sts.claim # pod.claim \/ sts.strict # pod.strict)
     \/ "evicted" \in Happens
  /\ \E bound \in BOOLEAN :
       /\ pod.run # "waiting" => bound
       /\ bound => pod.run # "waiting" \/ claim[pod.claim].there
       /\ pod' = [pod EXCEPT !.deleting = TRUE, !.bound = bound]
  /\ UNCHANGED <<ask, held, sts, claim, job, op>> /\ UNCHANGED clusterVars

\* The agent's container starts, or starts again after an exit.
StartAgent ==
  /\ pod.uid # 0 /\ ~pod.deleting /\ pod.run \in {"waiting", "exited"} /\ claim[pod.claim].there
  /\ pod' = [pod EXCEPT !.run = "starting", !.last = pod.exit, !.exit = "none"]
  /\ UNCHANGED <<ask, held, sts, claim, job, op>> /\ UNCHANGED clusterVars

OpensStore == ~pod.strict \/ (accepts /\ memory[pod.claim] # 0)

\* The agent opens its store, or makes one where it may, and serves.
Serve ==
  /\ pod.run = "starting" /\ ~pod.deleting /\ OpensStore
  /\ pod' = [pod EXCEPT !.run = "serving"]
  /\ memory' = [memory EXCEPT ![pod.claim] = pod.uid]
  /\ latest' = pod.uid
  /\ UNCHANGED <<ask, held, sts, claim, job, op, accepts, created, budget>>

\* The agent exits: drained or killed where its Pod is deleting, refusing a store
\* it must find, or failing.
ExitAgent ==
  /\ pod.run \in {"starting", "serving"}
  /\ \E code \in {"clean", "failed"} :
       /\ \/ pod.deleting /\ (code = "failed" => "killed" \in Happens)
          \/ code = "failed" /\ pod.run = "starting" /\ ~OpensStore
          \/ code = "failed" /\ "agentFails" \in Happens
       /\ pod' = [pod EXCEPT !.run = "exited", !.exit = code]
  /\ UNCHANGED <<ask, held, sts, claim, job, op>> /\ UNCHANGED clusterVars

--------------------------------------------------------------------------------
(* The environment: Jobs                                                     *)

SetJob(m, s, j) ==
  /\ job' = [job EXCEPT ![m][s] = j]
  /\ UNCHANGED <<ask, held, sts, pod, claim, op, accepts, created, latest, budget>>

\* The copy digests its source before it copies.  It refuses a source with no
\* store, and one whose writer lock is held.
BeginCopy(m) ==
  LET j == job[m]["copy"]
      c == claim[m].source
      refuses == memory[c] = 0 \/ (pod.run = "serving" /\ pod.claim = c)
  IN /\ j.state = "pending"
     /\ SetJob(m, "copy", IF refuses THEN [j EXCEPT !.state = "failed"]
                          ELSE [j EXCEPT !.state = "reading", !.source = memory[c]])
     /\ UNCHANGED memory

\* A source written while it is copied leaves a mixture.
EndCopy(m) ==
  LET j == job[m]["copy"]
  IN /\ j.state = "reading"
     /\ memory' = [memory EXCEPT ![m] =
          IF memory[claim[m].source] = j.source THEN j.source ELSE Torn]
     /\ SetJob(m, "copy", [j EXCEPT !.state = "done"])

VerifyCopy(m) ==
  LET j == job[m]["verify"]
  IN /\ j.state = "pending"
     /\ SetJob(m, "verify", [j EXCEPT !.state = "done", !.source = memory[claim[m].source],
                                      !.target = memory[m]])
     /\ UNCHANGED memory

FailJob(m, s) ==
  /\ "jobFails" \in Happens /\ job[m][s].state \in {"pending", "reading"}
  /\ SetJob(m, s, [job[m][s] EXCEPT !.state = "failed"])
  /\ memory' = IF s = "copy" THEN [memory EXCEPT ![m] = Torn] ELSE memory

\* The Jobs deleted, or left with nothing to read.
LostJobs == {j \in MoveIds \X JobSteps : job[j[1]][j[2]].state \in {"unread", "gone"}}

\* A Job is deleted, which cuts a copy short, or the Pod of one that is done is, which
\* leaves nothing to read.
LoseJob(m, s) ==
  /\ "jobLost" \in Happens /\ Cardinality(LostJobs \cup {<<m, s>>}) <= MaxLost
  /\ \/ /\ job[m][s].state \notin {"none", "gone"}
        /\ SetJob(m, s, [job[m][s] EXCEPT !.state = "gone", !.seen = FALSE])
        /\ memory' = IF s = "copy" /\ job[m][s].state = "reading"
                     THEN [memory EXCEPT ![m] = Torn] ELSE memory
     \/ /\ job[m][s].state = "done"
        /\ SetJob(m, s, [job[m][s] EXCEPT !.state = "unread"])
        /\ UNCHANGED memory

SeeJob(m, s) ==
  /\ job[m][s].state \notin {"none", "gone"} /\ ~job[m][s].seen
  /\ SetJob(m, s, [job[m][s] EXCEPT !.seen = TRUE])
  /\ UNCHANGED memory

Jobs ==
  \E m \in MoveIds :
    \/ BeginCopy(m) \/ EndCopy(m) \/ VerifyCopy(m)
    \/ \E s \in JobSteps : FailJob(m, s) \/ LoseJob(m, s) \/ SeeJob(m, s)

--------------------------------------------------------------------------------
Init ==
  /\ ask = 0 /\ held = FALSE
  /\ sts = NoSts /\ pod = NoPod
  /\ claim = [c \in Claims |-> NoClaim]
  /\ job = [m \in MoveIds |-> [s \in JobSteps |-> NoJob]]
  /\ memory = [c \in Claims |-> 0]
  /\ op = Idle
  /\ accepts \in IF "oldAgent" \in Happens THEN BOOLEAN ELSE {TRUE}
  /\ created = 0 /\ latest = 0
  /\ budget = [asks |-> 0, crashes |-> 0]

People == AskMove \/ ChangeHeld \/ ReleaseByHand \/ DeleteSource
Workload == CreatePod \/ DeletePod \/ StartAgent \/ Serve \/ ExitAgent

Next == Controller \/ CutShort \/ People \/ Workload \/ Jobs

Spec == Init /\ [][Next]_vars

--------------------------------------------------------------------------------
\* The shape of the state.
TypeOK ==
  /\ ask \in Claims /\ held \in BOOLEAN
  /\ sts \in StatefulSet /\ pod \in Pod
  /\ claim \in [Claims -> Claim]
  /\ job \in [MoveIds -> [JobSteps -> Job]]
  /\ memory \in [Claims -> Memory]
  /\ op \in Operation
  /\ accepts \in BOOLEAN /\ created \in Uids /\ latest \in Uids
  /\ budget \in [asks: 0..MaxAsks, crashes: 0..MaxCrashes]

\* Between Pods, the chain of claims leads to the one that holds what the agent
\* last remembered: no copy, switch, refusal or restart in between loses it.
MemoryHome ==
  pod.uid = 0 /\ latest # 0 => claim[InUse].there /\ memory[InUse] = latest

\* An agent that comes to serve opens the memory it last wrote, never an older
\* copy of it and never an empty store.
ServesLatest ==
  [][pod.run = "starting" /\ pod'.run = "serving" => memory[pod.claim] = latest]_vars

\* A step of a move is run at most once: though the manager stops between the
\* mark and the Job, its cache trails or the Job is deleted, no second copy is
\* written into a target a first one may have written.
JobRunsOnce ==
  [][\A m \in MoveIds, s \in JobSteps :
       job[m][s].state # "none" => job'[m][s].state \notin {"none", "pending"}
                                   \/ job'[m][s].state = job[m][s].state]_vars

\* A claim names as the one the memory moved to only a copy made from it that
\* was verified, wherever a reconcile was cut short.
LinkNamesVerifiedCopy ==
  \A c \in Claims :
    LET m == claim[c].movedTo
    IN m # 0 /\ claim[m].there =>
         /\ claim[m].source = c
         /\ claim[m].phase \in {"verified", "switched", "accepted", "refused"}
         /\ DigestsMatch(m)

\* A copy put in use is what the source held when its last writer was seen to exit
\* cleanly: no Pod after that writer has a part in it.
CopyOfDrained ==
  \A m \in MoveIds :
    claim[m].phase \in {"switched", "accepted"} =>
      /\ claim[m].sourceWriter.exit = "clean"
      /\ claim[m].digest \in 1..claim[m].sourceWriter.pod

\* A copy the agent accepted stays accepted, and the link to it stays while the claim it
\* is on does: no later step, refusal or other move takes the memory off that copy again
\* but by a move of the copy (settleMove, switchMove, restoreSource).
AcceptedLinkStays ==
  [][\A c \in Claims :
       LET m == claim[c].movedTo
       IN m # 0 /\ claim[m].phase = "accepted" =>
            /\ claim'[c].there => claim'[c].movedTo = m
            /\ claim'[m].there => claim'[m].phase = "accepted"]_vars

\* As long as no reconcile was cut short, nothing serves on a claim while a Job of a
\* move reads it (moveJobRunning holds the agent back).
NoWriterUnderJob ==
  \A m \in MoveIds, s \in JobSteps :
    budget.crashes = 0 /\ job[m][s].state \in {"pending", "reading"} =>
      ~(pod.uid # 0 /\ pod.run = "serving" /\ pod.claim = claim[m].source)

--------------------------------------------------------------------------------
(* Liveness.  A reconcile runs to its end and another follows, Kubernetes     *)
(* makes, starts and stops the Pod its objects ask for, an agent that can     *)
(* open its store serves and one that cannot exits, and a Job runs.           *)

\* The StatefulSet's own deletions, and the exits the code relies on, without those by chance.
RollPod == DeletePod /\ sts.there /\ (sts.replicas = 0 \/ sts.claim # pod.claim)
StopAgent == ExitAgent /\ (pod.deleting \/ ~OpensStore)

Fairness ==
  /\ WF_vars(Controller)
  /\ WF_vars(CreatePod) /\ WF_vars(RollPod) /\ WF_vars(StartAgent)
  /\ WF_vars(Serve) /\ WF_vars(StopAgent)
  /\ \A m \in MoveIds :
       /\ WF_vars(BeginCopy(m)) /\ WF_vars(EndCopy(m)) /\ WF_vars(VerifyCopy(m))
       /\ \A s \in JobSteps : WF_vars(SeeJob(m, s))

FairSpec == Spec /\ Fairness

\* What holds a move until a person acts: a Job that is done and whose Pod is gone, and a
\* Pod deleted with a node before any reconcile noted its claim.
JobUnread == \E m \in MoveIds, s \in JobSteps : job[m][s].state = "unread"
PodUnnoted == pod.deleting /\ pod.bound /\ ~pod.noted

\* A move that has its target and stays asked for, of an agent that stays wanted, ends
\* accepted or refused, whatever its Jobs and the first agent on the copy do and whatever
\* reconcile is cut short, unless it comes to wait for a person (jobOutcome, readClaim).
\* (The last conjunct leaves out the behaviours in which the bound on Pods keeps the
\* StatefulSet from making one.)
MoveSettles ==
  \A m \in MoveIds :
    <>[](/\ ask = m /\ claim[m].there /\ ~held
         /\ ~JobUnread /\ ~PodUnnoted
         /\ pod.uid # 0 \/ created < MaxPods)
      => <>(claim[m].phase \in {"accepted", "refused"})
================================================================================
