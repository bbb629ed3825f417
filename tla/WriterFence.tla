------------------------------ MODULE WriterFence ------------------------------
(***************************************************************************)
(* The writer fence of internal/controller: how the Agent reconciler keeps *)
(* two Pods from writing one agent's state volume at the same time.        *)
(*                                                                         *)
(* One Agent is modelled.  Its StatefulSet creates one Pod of a fixed name *)
(* at a time; a Pod is known by its UID, and UIDs are given in order.      *)
(* Every API call of a reconcile that writes is a step of its own, so a    *)
(* manager that stops, or a call that fails, leaves the steps before it    *)
(* done.  The Pod is read from the manager's cache; the node and the claim *)
(* are read from the API server in the same step, since the reads follow   *)
(* one another while a node takes its monitor's whole grace period to be   *)
(* reported Unknown.                                                       *)
(*                                                                         *)
(* Kubernetes (API server, StatefulSet controller, scheduler, kubelet,     *)
(* pod garbage collector) and people are the environment.  What of it      *)
(* happens is the constant Happens.  Each Pod is given a node of its own.  *)
(***************************************************************************)
EXTENDS Naturals

CONSTANTS
  Writers,         \* the containers that can write the agent's state
  AgentContainer,  \* the one whose exit code a claim keeps
  AdapterBuilt,    \* whether the Pod carries the adapter, so a token is minted
  MaxPods,         \* bound: Pods ever created
  MaxClaims,       \* bound: state claims ever made
  MaxCrashes,      \* bound: reconciles cut short
  Happens          \* the events of the environment that may happen

Events ==
  { "late",          \* a kubelet acts on a deletion, or reports a restart, late
    "lag",           \* the manager's Pod cache trails the API server
    "hand",          \* a person removes the Pod's finalizer
    "nodeLoss",      \* a node loses contact and comes back, or turns NotReady
    "nodeGone",      \* a node's object is deleted
    "outOfService",  \* a node is shut down and tainted out of service
    "vanished",      \* a kubelet cannot locate a container it reports on
    "claimReplaced", \* the state claim is deleted and made again
    "agentDeleted",  \* the Agent is deleted
    "suspended" }    \* the spec holds the agent stopped, and lets it go

ASSUME FenceAssumption ==
  /\ AgentContainer \in Writers
  /\ AdapterBuilt \in BOOLEAN
  /\ MaxPods \in Nat /\ MaxClaims \in Nat \ {0} /\ MaxCrashes \in Nat
  /\ Happens \subseteq Events

VARIABLES
  agentPhase, \* the Agent object: live, deleting (it has a timestamp) or gone
  agentFin,   \* the Agent carries the workload-fenced finalizer
  held,       \* spec.suspended or spec.stopped
  sts,        \* the StatefulSet: none, or the replicas it asks for
  pod,        \* the Pod object in the API server; uid 0 where there is none
  cache,      \* the Pod as the manager's cache holds it
  claim,      \* the state claim, with the record of its last writer and the newest
              \* Pod of an earlier second than its own; its twins are history, the
              \* Pods of the second in which a claim was made after them, with it
  token,      \* the placement Secret: whether there, and the Pod it replaces
  stopped,    \* status.writerStopped of the Agent
  created,    \* how many Pods were created, which is the newest UID
  node,       \* the node of each Pod, as the API server shows it
  tainted,    \* the Pods whose node carries the out-of-service taint
  told,       \* the Pods whose kubelet knows they are to stop
  proc,       \* what each writer of each Pod really does
  vol,        \* the claim each Pod really mounted, 0 where none
  op,         \* the reconcile in progress: its step and what it read
  hand,       \* history: the Pods a person released
  crashes     \* reconciles cut short so far

clusterVars == <<sts, created, node, tainted, told, proc, vol, hand, crashes>>
vars == <<agentPhase, agentFin, held, sts, pod, cache, claim, token, stopped,
          created, node, tainted, told, proc, vol, op, hand, crashes>>

Uids == 1..MaxPods
ClaimUids == 1..MaxClaims
Exited == {"clean", "failed"}                       \* exit 0, and any other exit
Process == {"never", "running"} \cup Exited
\* What the API shows of a writer.  "waiting" is the shape wasNeverCreated
\* names; "lost" is a terminated instance with no container ID.
Reported == {"absent", "waiting", "running", "lost"} \cup Exited
Steps == {"idle", "fence", "claimWriter", "annotate", "record", "mint",
          "writer", "release", "token", "sts", "deleteSts", "letGo"}

PodObject ==
  [uid: Uids \cup {0}, fin: BOOLEAN, deleting: BOOLEAN, final: BOOLEAN,
   pvc: ClaimUids \cup {0}, terminal: BOOLEAN, disrupted: BOOLEAN,
   status: [Writers -> Reported]]

LastWriter ==
  [pod: Uids \cup {0}, state: {"none", "running", "stopped"},
   exit: Exited \cup {"none"}]
ClaimObject ==
  [there: BOOLEAN, uid: ClaimUids \cup {0}, after: Uids \cup {0}, writer: LastWriter,
   twins: SUBSET (Uids \X ClaimUids)]
PlacementSecret == [there: BOOLEAN, prev: Uids \cup {0}]
WriterStopped ==
  [pod: Uids \cup {0}, pvc: ClaimUids \cup {0}, never: SUBSET Writers]
Operation ==
  [pc: Steps, mode: {"live", "deleting", "gone"}, held: BOOLEAN, gone: BOOLEAN,
   uid: Uids \cup {0}, pvc: ClaimUids \cup {0}, exit: Exited \cup {"none"},
   never: SUBSET Writers]

NewPod(u) ==
  [uid |-> u, fin |-> TRUE, deleting |-> FALSE, final |-> FALSE, pvc |-> 0,
   terminal |-> FALSE, disrupted |-> FALSE, status |-> [w \in Writers |-> "absent"]]
NoPod == [NewPod(0) EXCEPT !.fin = FALSE]

NoWriter == [pod |-> 0, state |-> "none", exit |-> "none"]
Idle == [pc |-> "idle", mode |-> "live", held |-> FALSE, gone |-> FALSE,
         uid |-> 0, pvc |-> 0, exit |-> "none", never |-> {}]

Late == "late" \in Happens
Running(u) == \E w \in Writers : proc[u][w] = "running"
\* A Pod that runs nothing and whose kubelet will start nothing.
Quiet(u) == ~Running(u) /\ (u \in told \/ node[u] = "none")
Contact(u) == node[u] \in {"ready", "notready"}

--------------------------------------------------------------------------------
(* The API server: a deleted object stays while a finalizer or its kubelet  *)
(* holds it, and the manager's cache follows at once unless it may lag.      *)

Settled(p) == IF p.deleting /\ p.final /\ ~p.fin THEN NoPod ELSE p

SetPod(p) ==
  /\ pod' = Settled(p)
  /\ cache' = IF "lag" \in Happens THEN cache ELSE Settled(p)

Truth(u) == [w \in Writers |->
               IF proc[u][w] = "never" THEN "waiting" ELSE proc[u][w]]

--------------------------------------------------------------------------------
(* readFence: whether a deleting Pod's writers have positively stopped.      *)

\* Mutant: the node is not looked at.
NodeUnchecked(p) == TRUE

\* readNode: the node exists and its Ready condition is not Unknown.
NodeKnown(p) == node[p.uid] \notin {"unknown", "gone"}

\* Mutant: only the annotation is compared, not the creation times.
ClaimAnnotated(p) == claim.there /\ p.pvc = claim.uid

\* readClaim: the claim is the one recorded on the Pod, and its creation time, to the
\* second, is not after the Pod's.
ClaimKept(p) ==
  claim.there /\ p.pvc = claim.uid /\ ~(p.uid <= claim.after)

\* Mutant: the Pod's phase is not looked at.
NeverCreatedInAnyPhase(p) ==
  node[p.uid] = "ready" /\ p.uid \notin tainted /\ ~p.disrupted

\* neverCreatedRefusal: where a writer shown never created counts as stopped.
NeverCreatedCounts(p) ==
  /\ p.terminal
  /\ node[p.uid] = "ready"
  /\ p.uid \notin tainted
  /\ ~p.disrupted

NeverCreated(p) == {w \in Writers : p.status[w] = "waiting"}

\* Mutant: a writer not shown running counts as stopped.
WritersNotRunning(p) == \A w \in Writers : p.status[w] # "running"

\* terminatedWriters: each writer terminated with an ID, or never created.
WritersStopped(p) ==
  \A w \in Writers : \/ p.status[w] \in Exited
                     \/ w \in NeverCreated(p) /\ NeverCreatedCounts(p)

Unassigned(p) == node[p.uid] = "none"

Evidence(p) ==
  Unassigned(p) \/ (NodeKnown(p) /\ ClaimKept(p) /\ WritersStopped(p))

\* Mutant: the agent's state is taken for its exit whatever it is.
StateAsExit(p) == p.status[AgentContainer]

\* Mutant: an exit that was not observed is taken for 0.
ExitZeroByDefault(p) == IF p.status[AgentContainer] = "failed" THEN "failed" ELSE "clean"

\* The agent's exit code as recordStoppedWriter takes it from the evidence.
ExitOf(p) ==
  IF ~Unassigned(p) /\ p.status[AgentContainer] \in Exited
  THEN p.status[AgentContainer] ELSE "none"

--------------------------------------------------------------------------------
(* Reconcile                                                                 *)

At(pc) == op.pc = pc
Goto(pc) == op' = [op EXCEPT !.pc = pc]
AfterFence == IF op.mode = "live" THEN "token" ELSE "deleteSts"

\* Reconcile reads the Agent, and adds its finalizer before anything is built.
Reconcile ==
  /\ At("idle") /\ agentPhase # "gone"
  /\ agentPhase = "deleting" => agentFin
  /\ agentFin' = TRUE
  /\ op' = [Idle EXCEPT !.pc = "fence", !.mode = agentPhase, !.held = held]
  /\ UNCHANGED <<agentPhase, held, pod, cache, claim, token, stopped>>
  /\ UNCHANGED clusterVars

\* reconcileFence finds no Pod, a Pod it already recorded or released, one whose
\* claim it cannot record yet, or one without evidence: it writes nothing.
FenceNothingToDo ==
  /\ At("fence")
  /\ \/ cache.uid = 0
     \/ cache.uid # 0 /\ ~cache.deleting /\ (cache.pvc # 0 \/ ~claim.there)
     \/ cache.deleting /\ ~cache.fin
     \/ cache.deleting /\ cache.fin /\ ~Evidence(cache)
  /\ op' = [op EXCEPT !.pc = AfterFence, !.gone = (cache.uid = 0)]
  /\ UNCHANGED <<agentPhase, agentFin, held, pod, cache, claim, token, stopped>>
  /\ UNCHANGED clusterVars

\* reconcileFence finds a running Pod whose claim is not recorded on it.
FencePlacement ==
  /\ At("fence")
  /\ cache.uid # 0 /\ ~cache.deleting /\ cache.pvc = 0 /\ claim.there
  /\ op' = [op EXCEPT !.pc = "claimWriter", !.uid = cache.uid, !.pvc = claim.uid]
  /\ UNCHANGED <<agentPhase, agentFin, held, pod, cache, claim, token, stopped>>
  /\ UNCHANGED clusterVars

\* reconcileFence finds a deleting Pod with evidence that its writers stopped.
FenceEvidence ==
  /\ At("fence")
  /\ cache.uid # 0 /\ cache.deleting /\ cache.fin /\ Evidence(cache)
  /\ op' = [op EXCEPT
       !.pc = "record", !.uid = cache.uid,
       !.pvc = IF Unassigned(cache) THEN 0 ELSE claim.uid,
       !.exit = ExitOf(cache),
       !.never = IF Unassigned(cache) THEN {} ELSE NeverCreated(cache)]
  /\ UNCHANGED <<agentPhase, agentFin, held, pod, cache, claim, token, stopped>>
  /\ UNCHANGED clusterVars

\* recordPlacement: the claim learns of its writer first.  The patch names the
\* claim, so it fails where the claim went away and ends the reconcile.
RecordRunningWriter ==
  /\ At("claimWriter")
  /\ IF claim.there
     THEN /\ claim' = [claim EXCEPT
                !.writer = [pod |-> op.uid, state |-> "running", exit |-> "none"]]
          /\ Goto("annotate")
     ELSE /\ op' = Idle
          /\ UNCHANGED claim
  /\ UNCHANGED <<agentPhase, agentFin, held, pod, cache, token, stopped>>
  /\ UNCHANGED clusterVars

\* recordPlacement: the Pod is annotated next.  The patch carries no UID and no
\* resource version, so it marks whichever Pod has the name by then.
AnnotatePod ==
  /\ At("annotate")
  /\ IF pod.uid = 0
     THEN op' = Idle /\ UNCHANGED <<pod, cache>>
     ELSE SetPod([pod EXCEPT !.pvc = op.pvc]) /\ Goto(AfterFence)
  /\ UNCHANGED <<agentPhase, agentFin, held, claim, token, stopped>>
  /\ UNCHANGED clusterVars

\* Mutant: no token is minted for the next placement.
RecordWithoutToken ==
  /\ At("record")
  /\ stopped' = [pod |-> op.uid, pvc |-> op.pvc, never |-> op.never]
  /\ Goto("writer")
  /\ UNCHANGED <<agentPhase, agentFin, held, pod, cache, claim, token>>
  /\ UNCHANGED clusterVars

\* releaseFence, 1: the evidence is written to the Agent's status.
RecordEvidence ==
  /\ At("record")
  /\ stopped' = [pod |-> op.uid, pvc |-> op.pvc, never |-> op.never]
  /\ Goto(IF AdapterBuilt THEN "mint" ELSE "writer")
  /\ UNCHANGED <<agentPhase, agentFin, held, pod, cache, claim, token>>
  /\ UNCHANGED clusterVars

\* releaseFence, 2: the next placement's token, and the Pod it replaces.
MintPlacementToken ==
  /\ At("mint")
  /\ token' = [there |-> TRUE, prev |-> op.uid]
  /\ Goto("writer")
  /\ UNCHANGED <<agentPhase, agentFin, held, pod, cache, claim, stopped>>
  /\ UNCHANGED clusterVars

\* Mutant: a writer that did not exit cleanly is never released.
ReleaseCleanOnly ==
  /\ At("writer")
  /\ Goto(IF op.exit = "clean" THEN "release" ELSE AfterFence)
  /\ UNCHANGED <<agentPhase, agentFin, held, pod, cache, claim, token, stopped>>
  /\ UNCHANGED clusterVars

\* releaseFence, 3: the claim keeps the writer's exit, where the claim is there.
RecordStoppedWriter ==
  /\ At("writer")
  /\ claim' = IF claim.there
              THEN [claim EXCEPT
                !.writer = [pod |-> op.uid, state |-> "stopped", exit |-> op.exit]]
              ELSE claim
  /\ Goto("release")
  /\ UNCHANGED <<agentPhase, agentFin, held, pod, cache, token, stopped>>
  /\ UNCHANGED clusterVars

\* releaseFence, 4: the finalizer comes off.  This patch too goes by name only.
ReleasePod ==
  /\ At("release")
  /\ IF pod.uid = 0 THEN UNCHANGED <<pod, cache>>
                    ELSE SetPod([pod EXCEPT !.fin = FALSE])
  /\ Goto(AfterFence)
  /\ UNCHANGED <<agentPhase, agentFin, held, claim, token, stopped>>
  /\ UNCHANGED clusterVars

\* reconcileWorkload leaves the workload unbuilt: its type is unknown or a
\* Secret it reads is missing.
LeaveWorkload ==
  /\ At("token")
  /\ op' = Idle
  /\ UNCHANGED <<agentPhase, agentFin, held, pod, cache, claim, token, stopped>>
  /\ UNCHANGED clusterVars

\* ensurePlacementToken: the first placement's token, where there is none.
EnsurePlacementToken ==
  /\ At("token")
  /\ token' = IF AdapterBuilt /\ ~token.there
              THEN [there |-> TRUE, prev |-> 0] ELSE token
  /\ Goto("sts")
  /\ UNCHANGED <<agentPhase, agentFin, held, pod, cache, claim, stopped>>
  /\ UNCHANGED clusterVars

replicasFor(h) == IF h THEN "zero" ELSE "one"

\* reconcileStatefulSet creates the StatefulSet or brings it to the replicas the
\* spec read at the start asks for.
ReconcileStatefulSet ==
  /\ At("sts")
  /\ sts' = replicasFor(op.held)
  /\ op' = Idle
  /\ UNCHANGED <<agentPhase, agentFin, held, pod, cache, claim, token, stopped,
                 created, node, tainted, told, proc, vol, hand, crashes>>

\* reconcileDeletion: the StatefulSet is deleted, after the fence was read.
DeleteStatefulSet ==
  /\ At("deleteSts")
  /\ sts' = "none"
  /\ IF op.gone THEN Goto("letGo") ELSE op' = Idle
  /\ UNCHANGED <<agentPhase, agentFin, held, pod, cache, claim, token, stopped,
                 created, node, tainted, told, proc, vol, hand, crashes>>

\* reconcileDeletion: the Agent lets itself go where the fence saw no Pod.
LetAgentGo ==
  /\ At("letGo")
  /\ agentFin' = FALSE /\ agentPhase' = "gone"
  /\ op' = Idle
  /\ UNCHANGED <<held, pod, cache, claim, token, stopped>>
  /\ UNCHANGED clusterVars

\* The manager stops, or an API call of the reconcile fails and ends it.
CutShort ==
  /\ ~At("idle") /\ crashes < MaxCrashes
  /\ crashes' = crashes + 1
  /\ op' = Idle
  /\ UNCHANGED <<agentPhase, agentFin, held, sts, pod, cache, claim, token, stopped,
                 created, node, tainted, told, proc, vol, hand>>

\* The manager's cache catches up with the API server.
CacheSync ==
  /\ cache # pod
  /\ cache' = pod
  /\ UNCHANGED <<agentPhase, agentFin, held, pod, claim, token, stopped, op>>
  /\ UNCHANGED clusterVars

Controller ==
  \/ Reconcile \/ FenceNothingToDo \/ FencePlacement \/ FenceEvidence
  \/ RecordRunningWriter \/ AnnotatePod
  \/ RecordEvidence \/ MintPlacementToken \/ RecordStoppedWriter \/ ReleasePod
  \/ LeaveWorkload \/ EnsurePlacementToken \/ ReconcileStatefulSet
  \/ DeleteStatefulSet \/ LetAgentGo

--------------------------------------------------------------------------------
(* The environment: people                                                   *)

DeleteAgent ==
  /\ "agentDeleted" \in Happens /\ agentPhase = "live"
  /\ agentPhase' = IF agentFin THEN "deleting" ELSE "gone"
  /\ UNCHANGED <<agentFin, held, pod, cache, claim, token, stopped, op>>
  /\ UNCHANGED clusterVars

ChangeHeld ==
  /\ "suspended" \in Happens /\ agentPhase = "live"
  /\ held' = ~held
  /\ UNCHANGED <<agentPhase, agentFin, pod, cache, claim, token, stopped, op>>
  /\ UNCHANGED clusterVars

\* A person who made sure that the writers stopped takes the finalizer off.
ReleaseByHand ==
  /\ "hand" \in Happens
  /\ pod.uid # 0 /\ pod.deleting /\ pod.fin /\ Quiet(pod.uid)
  /\ hand' = hand \cup {pod.uid}
  /\ SetPod([pod EXCEPT !.fin = FALSE])
  /\ UNCHANGED <<agentPhase, agentFin, held, sts, claim, token, stopped, created,
                 node, tainted, told, proc, vol, op, crashes>>

DeleteClaim ==
  /\ "claimReplaced" \in Happens /\ claim.there /\ claim.uid < MaxClaims
  /\ claim' = [claim EXCEPT !.there = FALSE]
  /\ UNCHANGED <<agentPhase, agentFin, held, pod, cache, token, stopped, op>>
  /\ UNCHANGED clusterVars

\* A claim made now: the Pods up to "after" were created in an earlier second.
NextClaim(after) ==
  [there |-> TRUE, uid |-> claim.uid + 1, after |-> after, writer |-> NoWriter,
   twins |-> claim.twins \cup (((after + 1)..created) \X {claim.uid + 1})]

MakeClaimAgain ==
  /\ pod.uid # 0 /\ ~claim.there
  /\ \E after \in claim.after..created : claim' = NextClaim(after)
  /\ UNCHANGED <<agentPhase, agentFin, held, pod, cache, token, stopped, op>>
  /\ UNCHANGED clusterVars

--------------------------------------------------------------------------------
(* The environment: the control plane                                        *)

\* The StatefulSet controller makes the claim and then the Pod, whose name is
\* free only once no Pod object is left.
CreatePod ==
  /\ sts = "one" /\ pod.uid = 0 /\ created < MaxPods
  /\ created' = created + 1
  /\ \/ claim.there /\ claim' = claim
     \/ ~claim.there /\ \E after \in claim.after..created : claim' = NextClaim(after)
  /\ SetPod(NewPod(created + 1))
  /\ UNCHANGED <<agentPhase, agentFin, held, sts, token, stopped, node, tainted,
                 told, proc, vol, op, hand, crashes>>

\* The API server binds no Pod that is being deleted.
Schedule ==
  /\ pod.uid # 0 /\ ~pod.deleting /\ node[pod.uid] = "none"
  /\ node' = [node EXCEPT ![pod.uid] = "ready"]
  /\ UNCHANGED <<agentPhase, agentFin, held, sts, pod, cache, claim, token, stopped,
                 created, tainted, told, proc, vol, op, hand, crashes>>

\* A Pod is given a deletion timestamp.  Forced, or with no kubelet to wait for,
\* only its finalizer holds it from then on.  A kubelet in contact knows of it
\* at once, unless it is late.
MarkDeleted(forced) ==
  /\ SetPod([pod EXCEPT !.deleting = TRUE,
                        !.final = pod.final \/ forced \/ node[pod.uid] = "none"])
  /\ told' = IF Contact(pod.uid) /\ ~Late THEN told \cup {pod.uid} ELSE told
  /\ UNCHANGED <<agentPhase, agentFin, held, sts, claim, token, stopped, created,
                 node, tainted, proc, vol, op, hand, crashes>>

\* The StatefulSet controller scales down, or the garbage collector takes the
\* Pod of a deleted StatefulSet.
ScaleDown ==
  pod.uid # 0 /\ ~pod.deleting /\ sts # "one" /\ MarkDeleted(FALSE)

\* Anyone deletes the Pod: a rollout, an eviction or a person.
DeletePod ==
  \E forced \in BOOLEAN :
    /\ pod.uid # 0 /\ (pod.deleting => forced /\ ~pod.final)
    /\ MarkDeleted(forced)

\* The pod garbage collector fails a Pod whose node is gone, or a deleting one
\* whose node is out of service, and deletes it by force.
PodGC ==
  /\ pod.uid # 0 /\ ~pod.terminal
  /\ \/ node[pod.uid] = "gone"
     \/ pod.deleting /\ pod.uid \in tainted /\ node[pod.uid] # "ready"
  /\ SetPod([pod EXCEPT !.terminal = TRUE, !.deleting = TRUE, !.final = TRUE,
                        !.disrupted = (node[pod.uid] = "gone")])
  /\ UNCHANGED <<agentPhase, agentFin, held, sts, claim, token, stopped, created,
                 node, tainted, told, proc, vol, op, hand, crashes>>

--------------------------------------------------------------------------------
(* The environment: nodes and kubelets                                       *)

\* A container starts, or starts again: Pods restart their containers always.
\* In contact and on time, the kubelet reports a restart with it.
StartContainer(u, w) ==
  /\ node[u] # "none" /\ u \notin told /\ proc[u][w] # "running"
  /\ vol[u] = 0 => claim.there /\ pod.uid = u
  /\ vol' = IF vol[u] = 0 THEN [vol EXCEPT ![u] = claim.uid] ELSE vol
  /\ proc' = [proc EXCEPT ![u][w] = "running"]
  /\ IF proc[u][w] \in Exited /\ Contact(u) /\ ~Late /\ pod.uid = u
     THEN SetPod([pod EXCEPT !.status[w] = "running"])
     ELSE UNCHANGED <<pod, cache>>
  /\ UNCHANGED <<agentPhase, agentFin, held, sts, claim, token, stopped, created,
                 node, tainted, told, op, hand, crashes>>

\* A container exits.  Only the agent's exit code is told apart.
ExitContainer(u, w) ==
  /\ proc[u][w] = "running"
  /\ \E code \in IF w = AgentContainer THEN Exited ELSE {"clean"} :
       proc' = [proc EXCEPT ![u][w] = code]
  /\ UNCHANGED <<agentPhase, agentFin, held, sts, pod, cache, claim, token, stopped,
                 created, node, tainted, told, vol, op, hand, crashes>>

ReportStatus(u) ==
  /\ pod.uid = u /\ Contact(u) /\ ~pod.terminal /\ pod.status # Truth(u)
  /\ SetPod([pod EXCEPT !.status = Truth(u)])
  /\ UNCHANGED <<agentPhase, agentFin, held, sts, claim, token, stopped, created,
                 node, tainted, told, proc, vol, op, hand, crashes>>

\* A late kubelet learns that its Pod is deleting or gone.
LearnDeletion(u) ==
  /\ Late /\ Contact(u) /\ u \notin told /\ u <= created
  /\ pod.uid = u => pod.deleting
  /\ told' = told \cup {u}
  /\ UNCHANGED <<agentPhase, agentFin, held, sts, pod, cache, claim, token, stopped,
                 created, node, tainted, proc, vol, op, hand, crashes>>

\* The kubelet finds nothing of a deleting Pod running, makes it terminal and
\* confirms its deletion.  A writer it cannot locate is reported without an ID.
TerminatePod(u) ==
  /\ pod.uid = u /\ pod.deleting /\ Contact(u) /\ u \in told /\ ~Running(u)
  /\ ~(pod.terminal /\ pod.final)
  /\ \E lost \in IF "vanished" \in Happens THEN SUBSET Writers ELSE {{}} :
       SetPod([pod EXCEPT !.terminal = TRUE, !.final = TRUE,
                          !.status = [w \in Writers |-> IF w \in lost THEN "lost"
                                                        ELSE Truth(u)[w]]])
  /\ UNCHANGED <<agentPhase, agentFin, held, sts, claim, token, stopped, created,
                 node, tainted, told, proc, vol, op, hand, crashes>>

SetNode(u, state) ==
  /\ node' = [node EXCEPT ![u] = state]
  /\ UNCHANGED <<agentPhase, agentFin, held, sts, claim, token, stopped, created,
                 vol, op, hand, crashes>>

LoseNode(u) ==
  /\ "nodeLoss" \in Happens /\ Contact(u)
  /\ \E state \in {"unknown", "notready"} \ {node[u]} : SetNode(u, state)
  /\ UNCHANGED <<pod, cache, tainted, told, proc>>

LoseNodeObject(u) ==
  /\ "nodeGone" \in Happens /\ node[u] = "unknown"
  /\ SetNode(u, "gone")
  /\ UNCHANGED <<pod, cache, tainted, told, proc>>

\* A node comes back.  On time, its kubelet catches up with its Pod's deletion
\* and reports its Pod before the node counts as known again.
RegainNode(u) ==
  /\ node[u] \in {"unknown", "notready", "gone"}
  /\ SetNode(u, "ready")
  /\ IF Late THEN UNCHANGED <<pod, cache, told>>
     ELSE /\ told' = IF pod.uid = u /\ ~pod.deleting THEN told ELSE told \cup {u}
          /\ IF pod.uid = u THEN SetPod([pod EXCEPT !.status = Truth(u)])
                            ELSE UNCHANGED <<pod, cache>>
  /\ UNCHANGED <<tainted, proc>>

\* The node of a Pod no longer wanted was shut down and is tainted out of
\* service; what ran on it stopped, and its kubelet reads the API server before
\* it starts anything again.
ShutDownNode(u) ==
  /\ "outOfService" \in Happens /\ node[u] = "unknown" /\ u \notin tainted
  /\ pod.uid = u => pod.deleting
  /\ SetNode(u, "unknown")
  /\ tainted' = tainted \cup {u}
  /\ told' = told \cup {u}
  /\ proc' = [proc EXCEPT ![u] = [w \in Writers |->
                IF proc[u][w] = "running" THEN "failed" ELSE proc[u][w]]]
  /\ UNCHANGED <<pod, cache>>

Untaint(u) ==
  /\ node[u] = "ready" /\ u \in tainted
  /\ SetNode(u, "ready")
  /\ tainted' = tainted \ {u}
  /\ UNCHANGED <<pod, cache, told, proc>>

Kubelet(u) ==
  \/ \E w \in Writers : StartContainer(u, w) \/ ExitContainer(u, w)
  \/ ReportStatus(u) \/ LearnDeletion(u) \/ TerminatePod(u)

Node(u) ==
  \/ LoseNode(u) \/ LoseNodeObject(u) \/ RegainNode(u)
  \/ ShutDownNode(u) \/ Untaint(u)

--------------------------------------------------------------------------------
Init ==
  /\ agentPhase = "live" /\ agentFin = FALSE /\ held = FALSE
  /\ sts = "none"
  /\ pod = NoPod /\ cache = NoPod
  /\ claim = [there |-> FALSE, uid |-> 0, after |-> 0, writer |-> NoWriter, twins |-> {}]
  /\ token = [there |-> FALSE, prev |-> 0]
  /\ stopped = [pod |-> 0, pvc |-> 0, never |-> {}]
  /\ created = 0
  /\ node = [u \in Uids |-> "none"]
  /\ tainted = {} /\ told = {}
  /\ proc = [u \in Uids |-> [w \in Writers |-> "never"]]
  /\ vol = [u \in Uids |-> 0]
  /\ op = Idle
  /\ hand = {} /\ crashes = 0

People == DeleteAgent \/ ChangeHeld \/ ReleaseByHand \/ DeleteClaim \/ MakeClaimAgain
ControlPlane == CreatePod \/ Schedule \/ ScaleDown \/ DeletePod \/ PodGC

Next ==
  \/ Controller
  \/ CutShort
  \/ CacheSync
  \/ People
  \/ ControlPlane
  \/ \E u \in Uids : Kubelet(u) \/ Node(u)

Spec == Init /\ [][Next]_vars

--------------------------------------------------------------------------------
TypeOK ==
  /\ agentPhase \in {"live", "deleting", "gone"}
  /\ agentFin \in BOOLEAN /\ held \in BOOLEAN
  /\ sts \in {"none", "zero", "one"}
  /\ pod \in PodObject /\ cache \in PodObject
  /\ claim \in ClaimObject
  /\ ~claim.there => claim.uid < MaxClaims
  /\ token \in PlacementSecret
  /\ stopped \in WriterStopped
  /\ created \in Uids \cup {0}
  /\ node \in [Uids -> {"none", "ready", "notready", "unknown", "gone"}]
  /\ tainted \subseteq Uids /\ told \subseteq Uids
  /\ proc \in [Uids -> [Writers -> Process]]
  /\ vol \in [Uids -> ClaimUids \cup {0}]
  /\ op \in Operation
  /\ hand \subseteq Uids
  /\ crashes \in 0..MaxCrashes

\* Two Pods never write one claim at the same time.  The fence exists for this:
\* the StatefulSet creates the next Pod as soon as no Pod object is left, and
\* only the writer-stopped finalizer ties that to the writers having stopped.
SingleWriter ==
  \A u, v \in Uids : u # v /\ Running(u) /\ Running(v) => vol[u] # vol[v]

\* What status.writerStopped says is so: the Pod it names runs nothing, and
\* nothing of it will start again.  A digest of this record is what the control
\* service accepts the next placement on.
EvidenceTruthful == stopped.pod # 0 => Quiet(stopped.pod)

\* The writers the evidence counts as never created run nothing, whatever the
\* API showed of them, even where kubelets report late.
NeverCreatedTruthful ==
  stopped.pod # 0 => \A w \in stopped.never : proc[stopped.pod][w] # "running"

\* The evidence names the claim the Pod really mounted, though the claim behind
\* the name can be another one by the time the annotation is written or read: it
\* can be a claim made after the Pod only in the Pod's own second, which readClaim
\* cannot tell from one made before it (the window of ADR 0042).
EvidenceNamesVolume ==
  stopped.pvc # 0 =>
    \/ vol[stopped.pod] \in {0, stopped.pvc}
    \/ <<stopped.pod, stopped.pvc>> \in claim.twins

\* While a Pod exists, its predecessor's evidence is on the Agent and the
\* placement token names that predecessor, wherever a reconcile was cut short:
\* the records of releaseFence all precede the release.
SuccessorFollowsEvidence ==
  pod.uid > 1 /\ pod.uid - 1 \notin hand =>
    /\ stopped.pod \in {pod.uid - 1, pod.uid}
    /\ AdapterBuilt => token.there /\ token.prev \in {pod.uid - 1, pod.uid}

\* With no Pod left, a claim that records a clean stop was last written by the
\* Pod it names, whose agent did exit cleanly.  A move of the agent's memory
\* copies the claim on the strength of this record alone.
DrainRecordTruthful ==
  /\ claim.there /\ pod.uid = 0
  /\ claim.writer.state = "stopped" /\ claim.writer.exit = "clean"
  => /\ \A u \in Uids : vol[u] = claim.uid => u <= claim.writer.pod /\ ~Running(u)
     /\ proc[claim.writer.pod][AgentContainer] = "clean"

\* The controller takes the finalizer off no Pod but the one it has evidence of.
ReleasedOnOwnEvidence ==
  [][pod.uid # 0 /\ pod'.uid \in {0, pod.uid} /\ pod.fin /\ ~pod'.fin
     => pod.uid \in hand' \/ (stopped.pod = pod.uid /\ Quiet(pod.uid))]_vars

--------------------------------------------------------------------------------
(* The inductive invariant behind the properties above, for an environment    *)
(* in which kubelets are on time, the cache does not lag and nobody takes a   *)
(* finalizer off by hand.                                                     *)

Sound == Happens \cap {"late", "lag", "hand"} = {}

\* A Pod that is quiet and can no longer be given a node stays quiet.
Still(u) == Quiet(u) /\ (pod.uid = u => pod.deleting)

\* The one Pod object is the newest Pod, and the cache shows it as it is.
OnePod ==
  /\ cache = pod
  /\ pod.uid \in {0, created}
  /\ pod.uid # 0 /\ (pod.terminal \/ ~pod.fin) => pod.deleting
  /\ \A u \in Uids : (u > created => node[u] = "none") /\ (node[u] = "none" => ~Running(u))

\* What the API shows of a Pod in contact can be trusted where it says stopped.
ReportsHold ==
  /\ \A u \in tainted : u \in told /\ ~Running(u)
  /\ pod.uid # 0 /\ Contact(pod.uid) /\ pod.deleting => pod.uid \in told
  /\ pod.uid # 0 /\ node[pod.uid] \notin {"unknown", "gone"} =>
       \A w \in Writers : pod.status[w] \in Exited => proc[pod.uid][w] \in Exited
  /\ pod.uid # 0 /\ pod.terminal /\ ~pod.disrupted => Quiet(pod.uid)

\* Every Pod that is gone, released, or being released has stopped for good.
StoppedForGood ==
  /\ \A u \in Uids : u <= created /\ u # pod.uid => Quiet(u)
  /\ pod.uid # 0 /\ ~pod.fin => Quiet(pod.uid)
  /\ stopped.pod # 0 => stopped.pod <= created /\ Still(stopped.pod)
  /\ op.pc \in {"record", "mint", "writer", "release"} =>
       /\ op.uid # 0 /\ op.uid = pod.uid
       /\ pod.fin /\ pod.deleting /\ Quiet(pod.uid)

Minted(u) == AdapterBuilt => token.there /\ token.prev = u

\* The records of a release are made in order, and the last is the finalizer.
RecordsInOrder ==
  /\ op.pc \in {"mint", "writer", "release"} => stopped.pod = op.uid
  /\ op.pc \in {"writer", "release"} => Minted(op.uid)
  /\ pod.uid # 0 /\ ~pod.fin => stopped.pod = pod.uid /\ Minted(pod.uid)
  /\ pod.uid = 0 /\ created > 0 => stopped.pod = created /\ Minted(created)
  /\ pod.uid > 1 => /\ stopped.pod \in {pod.uid - 1, pod.uid}
                    /\ Minted(pod.uid - 1) \/ Minted(pod.uid)

FenceInv == OnePod /\ ReportsHold /\ StoppedForGood /\ RecordsInOrder

--------------------------------------------------------------------------------
(* Liveness.  The reconciler is woken by every watched change and by its     *)
(* requeue, a reconcile runs to its end, and a kubelet in contact stops and  *)
(* reports a Pod it knows to be deleting.                                    *)

StopContainer(u) == u \in told /\ \E w \in Writers : ExitContainer(u, w)

Fairness ==
  /\ WF_vars(Controller)
  /\ WF_vars(CacheSync)
  /\ \A u \in Uids : WF_vars(StopContainer(u)) /\ WF_vars(TerminatePod(u))

FairSpec == Spec /\ Fairness

\* A deleting Pod whose claim was recorded in time is released and goes away,
\* whatever reconciles are cut short: no record of releaseFence blocks another.
DrainedPodLeaves ==
  \A u \in Uids :
    (pod.uid = u /\ pod.deleting /\ pod.pvc # 0) ~> (pod.uid # u)
================================================================================
