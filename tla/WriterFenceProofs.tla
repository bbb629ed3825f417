--------------------------- MODULE WriterFenceProofs ---------------------------
(***************************************************************************)
(* What TLAPS proves of the writer fence, for every set of writers, every  *)
(* bound and either value of AdapterBuilt: its types, and that what the    *)
(* evidence says of a Pod is so in any environment.                        *)
(***************************************************************************)
EXTENDS WriterFence, TLAPS

\* The API server's rule keeps Pod objects Pod objects.
LEMMA PodTypes ==
  /\ NoPod \in PodObject
  /\ \A u \in Uids : NewPod(u) \in PodObject
  /\ \A p \in PodObject : Settled(p) \in PodObject
<1>1. NoPod \in PodObject
  BY FenceAssumption DEF NoPod, NewPod, PodObject, Reported
<1>2. ASSUME NEW u \in Uids PROVE NewPod(u) \in PodObject
  BY FenceAssumption DEF NewPod, PodObject, Reported
<1>3. ASSUME NEW p \in PodObject PROVE Settled(p) \in PodObject
  BY <1>1 DEF Settled
<1> QED BY <1>1, <1>2, <1>3

\* Whatever Pod is written, the API server and the cache hold Pod objects.
LEMMA SetPodType ==
  ASSUME TypeOK, NEW p \in PodObject, SetPod(p)
  PROVE  pod' \in PodObject /\ cache' \in PodObject
BY PodTypes DEF SetPod, TypeOK

\* Wherever a reconcile goes next, its registers stay typed.
LEMMA OperationTypes ==
  /\ Idle \in Operation
  /\ \A o \in Operation, pc \in Steps : [o EXCEPT !.pc = pc] \in Operation
  /\ \A o \in Operation, pc \in Steps, b \in BOOLEAN :
       [o EXCEPT !.pc = pc, !.gone = b] \in Operation
BY ZenonT(40) DEF Operation, Idle, Steps

\* Every step of a reconcile keeps the types.
LEMMA ControllerTypes == TypeOK /\ Controller => TypeOK'
<1> SUFFICES ASSUME TypeOK, Controller PROVE TypeOK'
  OBVIOUS
<1> USE DEF TypeOK, clusterVars
<1>0. AfterFence \in Steps
  BY DEF AfterFence, Steps
<1>1. CASE Reconcile
  <2>1. op' \in Operation
    BY <1>1 DEF Reconcile, Idle, Operation, Steps
  <2>2. agentFin' \in BOOLEAN
    BY <1>1 DEF Reconcile
  <2> QED BY <1>1, <2>1, <2>2 DEF Reconcile
<1>2. CASE FenceNothingToDo
  <2>1. op' \in Operation
    BY <1>2, <1>0, OperationTypes DEF FenceNothingToDo
  <2> QED BY <1>2, <2>1 DEF FenceNothingToDo

<1>3. CASE FencePlacement
  <2>1. op' \in Operation
    BY <1>3 DEF FencePlacement, PodObject, ClaimObject, Operation, Steps
  <2> QED BY <1>3, <2>1 DEF FencePlacement
<1>4. CASE FenceEvidence
  <2>1. ExitOf(cache) \in Exited \cup {"none"}
    BY DEF ExitOf
  <2>2. NeverCreated(cache) \in SUBSET Writers
    BY DEF NeverCreated
  <2>3. op' \in Operation
    BY <1>4, <2>1, <2>2 DEF FenceEvidence, PodObject, ClaimObject, Operation, Steps
  <2> QED BY <1>4, <2>3 DEF FenceEvidence
<1>5. CASE RecordRunningWriter
  <2>1. op' \in Operation
    BY <1>5, OperationTypes DEF RecordRunningWriter, Goto, Steps
  <2>2. claim' \in ClaimObject /\ (~claim'.there => claim'.uid < MaxClaims)
    BY <1>5 DEF RecordRunningWriter, ClaimObject, LastWriter, Operation
  <2> QED BY <1>5, <2>1, <2>2 DEF RecordRunningWriter
<1>6. CASE AnnotatePod
  <2>1. [pod EXCEPT !.pvc = op.pvc] \in PodObject
    BY DEF PodObject, Operation
  <2>2. pod' \in PodObject /\ cache' \in PodObject
    BY <1>6, <2>1, SetPodType DEF AnnotatePod
  <2>3. op' \in Operation
    BY <1>6, <1>0, OperationTypes DEF AnnotatePod, Goto
  <2> QED BY <1>6, <2>2, <2>3 DEF AnnotatePod
<1>7. CASE RecordEvidence
  <2>1. op' \in Operation
    BY <1>7, OperationTypes DEF RecordEvidence, Goto, Steps
  <2>2. stopped' \in WriterStopped
    BY <1>7 DEF RecordEvidence, WriterStopped, Operation
  <2> QED BY <1>7, <2>1, <2>2 DEF RecordEvidence
<1>8. CASE MintPlacementToken
  <2>1. op' \in Operation
    BY <1>8, OperationTypes DEF MintPlacementToken, Goto, Steps
  <2>2. token' \in PlacementSecret
    BY <1>8 DEF MintPlacementToken, PlacementSecret, Operation
  <2> QED BY <1>8, <2>1, <2>2 DEF MintPlacementToken
<1>9. CASE RecordStoppedWriter
  <2>1. op' \in Operation
    BY <1>9, OperationTypes DEF RecordStoppedWriter, Goto, Steps
  <2>2. claim' \in ClaimObject /\ (~claim'.there => claim'.uid < MaxClaims)
    BY <1>9 DEF RecordStoppedWriter, ClaimObject, LastWriter, Operation
  <2> QED BY <1>9, <2>1, <2>2 DEF RecordStoppedWriter
<1>10. CASE ReleasePod
  <2>1. [pod EXCEPT !.fin = FALSE] \in PodObject
    BY DEF PodObject
  <2>2. pod' \in PodObject /\ cache' \in PodObject
    BY <1>10, <2>1, SetPodType DEF ReleasePod
  <2>3. op' \in Operation
    BY <1>10, <1>0, OperationTypes DEF ReleasePod, Goto
  <2> QED BY <1>10, <2>2, <2>3 DEF ReleasePod
<1>11. CASE LeaveWorkload
  BY <1>11, OperationTypes DEF LeaveWorkload
<1>12. CASE EnsurePlacementToken
  <2>1. op' \in Operation
    BY <1>12, OperationTypes DEF EnsurePlacementToken, Goto, Steps
  <2>2. token' \in PlacementSecret
    BY <1>12 DEF EnsurePlacementToken, PlacementSecret
  <2> QED BY <1>12, <2>1, <2>2 DEF EnsurePlacementToken
<1>13. CASE ReconcileStatefulSet
  BY <1>13, OperationTypes DEF ReconcileStatefulSet, replicasFor
<1>14. CASE DeleteStatefulSet
  <2>1. op' \in Operation
    BY <1>14, OperationTypes DEF DeleteStatefulSet, Goto, Steps
  <2> QED BY <1>14, <2>1 DEF DeleteStatefulSet
<1>15. CASE LetAgentGo
  <2>1. agentFin' \in BOOLEAN
    BY <1>15 DEF LetAgentGo
  <2> QED BY <1>15, <2>1, OperationTypes DEF LetAgentGo
<1> QED
  BY <1>1, <1>2, <1>3, <1>4, <1>5, <1>6, <1>7, <1>8, <1>9, <1>10, <1>11, <1>12,
     <1>13, <1>14, <1>15 DEF Controller


\* The claim made for the next Pod is a claim, and within the bound.
LEMMA NextClaimType ==
  ASSUME TypeOK, ~claim.there, NEW after \in claim.after..created
  PROVE  NextClaim(after) \in ClaimObject /\ NextClaim(after).there
<1>1. /\ claim.uid \in ClaimUids \cup {0} /\ claim.uid < MaxClaims
      /\ claim.after \in Uids \cup {0} /\ created \in Uids \cup {0}
      /\ claim.twins \subseteq Uids \X ClaimUids
  BY DEF TypeOK, ClaimObject
<1>2. claim.uid + 1 \in ClaimUids
  BY <1>1, FenceAssumption DEF ClaimUids
<1>3. after \in Uids \cup {0} /\ (after + 1)..created \subseteq Uids
  BY <1>1, FenceAssumption DEF Uids
<1>4. claim.twins \cup (((after + 1)..created) \X {claim.uid + 1}) \in SUBSET (Uids \X ClaimUids)
  BY <1>1, <1>2, <1>3
<1>5. NoWriter \in LastWriter
  BY DEF NoWriter, LastWriter
<1> QED BY <1>2, <1>3, <1>4, <1>5 DEF NextClaim, ClaimObject

\* Everything people and the control plane do keeps the types.
LEMMA EnvironmentTypes == TypeOK /\ (People \/ ControlPlane) => TypeOK'
<1> SUFFICES ASSUME TypeOK, People \/ ControlPlane PROVE TypeOK'
  OBVIOUS
<1> USE DEF TypeOK, clusterVars
<1>1. CASE DeleteAgent
  BY <1>1 DEF DeleteAgent
<1>2. CASE ChangeHeld
  <2>1. held' \in BOOLEAN
    BY <1>2 DEF ChangeHeld
  <2> QED BY <1>2, <2>1 DEF ChangeHeld
<1>3. CASE ReleaseByHand
  <2>1. [pod EXCEPT !.fin = FALSE] \in PodObject
    BY DEF PodObject
  <2>2. pod' \in PodObject /\ cache' \in PodObject
    BY <1>3, <2>1, SetPodType DEF ReleaseByHand
  <2>3. hand' \subseteq Uids
    BY <1>3 DEF ReleaseByHand, PodObject
  <2> QED BY <1>3, <2>2, <2>3 DEF ReleaseByHand
<1>4. CASE DeleteClaim
  <2>1. claim' \in ClaimObject /\ claim'.uid < MaxClaims
    BY <1>4 DEF DeleteClaim, ClaimObject
  <2> QED BY <1>4, <2>1 DEF DeleteClaim
<1>5. CASE MakeClaimAgain
  BY <1>5, NextClaimType DEF MakeClaimAgain
<1>6. CASE CreatePod
  <2>1. created + 1 \in Uids
    BY <1>6, FenceAssumption DEF CreatePod, Uids
  <2>2. pod' \in PodObject /\ cache' \in PodObject
    BY <1>6, <2>1, PodTypes, SetPodType DEF CreatePod
  <2>3. claim' \in ClaimObject /\ (~claim'.there => claim'.uid < MaxClaims)
    BY <1>6, NextClaimType DEF CreatePod
  <2> QED BY <1>6, <2>1, <2>2, <2>3 DEF CreatePod
<1>7. CASE Schedule
  BY <1>7 DEF Schedule
<1>8. ASSUME NEW forced \in BOOLEAN, pod.uid # 0, MarkDeleted(forced)
      PROVE  TypeOK'
  <2>0. pod.uid \in Uids
    BY <1>8 DEF PodObject
  <2>1. (pod.final \/ forced \/ node[pod.uid] = "none") \in BOOLEAN
    OBVIOUS
  <2>2. [pod EXCEPT !.deleting = TRUE,
                    !.final = pod.final \/ forced \/ node[pod.uid] = "none"] \in PodObject
    BY <2>1 DEF PodObject
  <2>3. pod' \in PodObject /\ cache' \in PodObject
    BY <1>8, <2>2, SetPodType DEF MarkDeleted
  <2>4. told' \subseteq Uids
    BY <1>8, <2>0 DEF MarkDeleted
  <2> QED BY <1>8, <2>3, <2>4 DEF MarkDeleted
<1>9. CASE ScaleDown
  BY <1>8, <1>9 DEF ScaleDown
<1>10. CASE DeletePod
  BY <1>8, <1>10 DEF DeletePod
<1>11. CASE PodGC
  <2>1. (node[pod.uid] = "gone") \in BOOLEAN
    OBVIOUS
  <2>2. [pod EXCEPT !.terminal = TRUE, !.deleting = TRUE, !.final = TRUE,
                    !.disrupted = (node[pod.uid] = "gone")] \in PodObject
    BY <2>1 DEF PodObject
  <2>3. pod' \in PodObject /\ cache' \in PodObject
    BY <1>11, <2>2, SetPodType DEF PodGC
  <2> QED BY <1>11, <2>3 DEF PodGC
<1> QED
  BY <1>1, <1>2, <1>3, <1>4, <1>5, <1>6, <1>7, <1>9, <1>10, <1>11 DEF People, ControlPlane

\* What a kubelet reports of a Pod is one of the states the API has.
LEMMA TruthType ==
  ASSUME TypeOK, NEW u \in Uids
  PROVE  Truth(u) \in [Writers -> Reported]
BY DEF TypeOK, Truth, Process, Reported, Exited

\* Everything a node and its kubelet do keeps the types.
LEMMA NodeTypes ==
  ASSUME TypeOK, NEW u \in Uids, Kubelet(u) \/ Node(u)
  PROVE  TypeOK'
<1> USE DEF TypeOK
<1>0. \A s \in [Writers -> Reported] : [pod EXCEPT !.status = s] \in PodObject
  BY DEF PodObject
<1>1. ASSUME NEW w \in Writers, StartContainer(u, w) PROVE TypeOK'
  <2>1. [pod EXCEPT !.status[w] = "running"] \in PodObject
    BY DEF PodObject, Reported
  <2>2. pod' \in PodObject /\ cache' \in PodObject
    BY <1>1, <2>1, SetPodType DEF StartContainer
  <2>3. vol' \in [Uids -> ClaimUids \cup {0}]
    BY <1>1 DEF StartContainer, ClaimObject
  <2>4. proc' \in [Uids -> [Writers -> Process]]
    BY <1>1 DEF StartContainer, Process
  <2> QED BY <1>1, <2>2, <2>3, <2>4 DEF StartContainer
<1>2. ASSUME NEW w \in Writers, ExitContainer(u, w) PROVE TypeOK'
  <2>1. proc' \in [Uids -> [Writers -> Process]]
    BY <1>2 DEF ExitContainer, Process, Exited
  <2> QED BY <1>2, <2>1 DEF ExitContainer
<1>3. CASE ReportStatus(u)
  <2>1. pod' \in PodObject /\ cache' \in PodObject
    BY <1>0, <1>3, TruthType, SetPodType DEF ReportStatus
  <2> QED BY <1>3, <2>1 DEF ReportStatus
<1>4. CASE LearnDeletion(u)
  BY <1>4 DEF LearnDeletion
<1>5. CASE TerminatePod(u)
  <2>1. PICK lost \in SUBSET Writers :
          SetPod([pod EXCEPT !.terminal = TRUE, !.final = TRUE,
                             !.status = [w \in Writers |-> IF w \in lost THEN "lost"
                                                           ELSE Truth(u)[w]]])
    BY <1>5 DEF TerminatePod
  <2>2. [w \in Writers |-> IF w \in lost THEN "lost" ELSE Truth(u)[w]] \in [Writers -> Reported]
    BY TruthType DEF Reported
  <2>3. [pod EXCEPT !.terminal = TRUE, !.final = TRUE,
                    !.status = [w \in Writers |-> IF w \in lost THEN "lost"
                                                  ELSE Truth(u)[w]]] \in PodObject
    BY <2>2 DEF PodObject
  <2>4. pod' \in PodObject /\ cache' \in PodObject
    BY <2>1, <2>3, SetPodType
  <2> QED BY <1>5, <2>4 DEF TerminatePod
<1>6. CASE LoseNode(u)
  BY <1>6 DEF LoseNode, SetNode
<1>7. CASE LoseNodeObject(u)
  BY <1>7 DEF LoseNodeObject, SetNode
<1>8. CASE RegainNode(u)
  <2>1. pod' \in PodObject /\ cache' \in PodObject
    BY <1>0, <1>8, TruthType, SetPodType DEF RegainNode
  <2>2. told' \subseteq Uids
    BY <1>8 DEF RegainNode
  <2> QED BY <1>8, <2>1, <2>2 DEF RegainNode, SetNode
<1>9. CASE ShutDownNode(u)
  <2>1. proc' \in [Uids -> [Writers -> Process]]
    BY <1>9 DEF ShutDownNode, Process, Exited
  <2> QED BY <1>9, <2>1 DEF ShutDownNode, SetNode
<1>10. CASE Untaint(u)
  BY <1>10 DEF Untaint, SetNode
<1> QED
  BY <1>1, <1>2, <1>3, <1>4, <1>5, <1>6, <1>7, <1>8, <1>9, <1>10 DEF Kubelet, Node

\* Type correctness: every reachable state of the fence, the cluster and the
\* reconcile in progress is well formed, whatever the environment does.
THEOREM TypeCorrect == Spec => []TypeOK
<1>1. Init => TypeOK
  <2>1. Init => /\ claim \in ClaimObject /\ ~claim.there /\ claim.uid < MaxClaims
                /\ token \in PlacementSecret /\ stopped \in WriterStopped
    BY FenceAssumption DEF Init, ClaimObject, LastWriter, NoWriter, PlacementSecret, WriterStopped
  <2>2. Init => crashes \in 0..MaxCrashes
    BY FenceAssumption DEF Init
  <2>3. Init => agentFin \in BOOLEAN /\ held \in BOOLEAN
    BY DEF Init
  <2>4. Init => pod \in PodObject /\ cache \in PodObject /\ op \in Operation
    BY PodTypes, OperationTypes DEF Init
  <2>5. Init => proc \in [Uids -> [Writers -> Process]]
    BY DEF Init, Process
  <2> QED BY <2>1, <2>2, <2>3, <2>4, <2>5 DEF Init, TypeOK
<1>2. TypeOK /\ [Next]_vars => TypeOK'
  <2> SUFFICES ASSUME TypeOK, [Next]_vars PROVE TypeOK'
    OBVIOUS
  <2>1. CASE CutShort
    <3>1. crashes' \in 0..MaxCrashes
      BY <2>1, FenceAssumption DEF CutShort, TypeOK
    <3> QED BY <2>1, <3>1, OperationTypes DEF CutShort, TypeOK
  <2>2. CASE CacheSync
    BY <2>2 DEF CacheSync, TypeOK, clusterVars
  <2>3. CASE UNCHANGED vars
    BY <2>3 DEF vars, TypeOK
  <2> QED BY <2>1, <2>2, <2>3, ControllerTypes, EnvironmentTypes, NodeTypes DEF Next
<1> QED BY <1>1, <1>2, PTL DEF Spec

--------------------------------------------------------------------------------
(* What the evidence says of the Pod it names, in any environment: kubelets    *)
(* may be late, the cache may lag and people may take finalizers off.          *)

\* A Pod whose kubelet is to stop it, and that runs nothing.
Halted(u) == u \in told /\ ~Running(u)
\* The claim a Pod mounted is c, or it has mounted none and never will.
Mounted(u, c) == vol[u] = c \/ (vol[u] = 0 /\ u \in told)

\* What a record of evidence says is so.
Names(u, c, never) ==
  /\ never # {} => u # 0 /\ Halted(u)
  /\ c # 0 => u # 0 /\ (Mounted(u, c) \/ <<u, c>> \in claim.twins)
\* A Pod object shown terminal did stop, unless its node's loss made it so, and a writer
\* shown to have exited did mount a claim.
Shown(p) ==
  p.uid # 0 =>
    /\ p.terminal /\ ~p.disrupted => Halted(p.uid)
    /\ \A w \in Writers : p.status[w] \in Exited => vol[p.uid] # 0

\* A Pod mounts the claim there is; one that the Pod's time does not show to be newer is
\* the one it mounted, or was made after it in its second.
VolumesInOrder ==
  /\ claim.there => claim.uid # 0
  /\ pod.uid <= created
  /\ \A u \in Uids : vol[u] # 0 =>
       u <= created /\ (claim.after < u => vol[u] = claim.uid \/ <<u, claim.uid>> \in claim.twins)
  /\ \A u \in Uids, w \in Writers : proc[u][w] # "never" => vol[u] # 0
ShownTruly == (\A u \in tainted : Halted(u)) /\ Shown(pod) /\ Shown(cache)
NamedTruly ==
  /\ op.pc = "record" => Names(op.uid, op.pvc, op.never)
  /\ Names(stopped.pod, stopped.pvc, stopped.never)
EvidenceInv == VolumesInOrder /\ ShownTruly /\ NamedTruly

\* UIDs are positive numbers, so they are ordered.
LEMMA FenceNumbers ==
  /\ Uids \subseteq Nat /\ 0 \notin Uids /\ \A u \in Uids \cup {0} : u \in Nat
  /\ ClaimUids \subseteq Nat /\ 0 \notin ClaimUids /\ \A c \in ClaimUids \cup {0} : c \in Nat
BY FenceAssumption DEF Uids, ClaimUids

\* The numbers in the objects and registers.
LEMMA FenceFields ==
  ASSUME TypeOK
  PROVE  /\ pod.uid \in Uids \cup {0} /\ cache.uid \in Uids \cup {0} /\ op.uid \in Uids \cup {0}
         /\ stopped.pod \in Uids \cup {0} /\ created \in Nat
         /\ claim.uid \in ClaimUids \cup {0} /\ claim.after \in Nat
<1>1. pod \in PodObject /\ cache \in PodObject /\ op \in Operation /\ stopped \in WriterStopped
      /\ claim \in ClaimObject /\ created \in Uids \cup {0}
  BY DEF TypeOK
<1>2. claim.after \in Uids \cup {0}
  BY <1>1 DEF ClaimObject
<1>3. pod.uid \in Uids \cup {0} /\ cache.uid \in Uids \cup {0}
  BY <1>1 DEF PodObject
<1>4. op.uid \in Uids \cup {0} /\ stopped.pod \in Uids \cup {0}
  BY <1>1 DEF Operation, WriterStopped
<1>5. claim.uid \in ClaimUids \cup {0}
  BY <1>1 DEF ClaimObject
<1>6. created \in Nat /\ claim.after \in Nat
  BY <1>1, <1>2, FenceNumbers
<1> QED BY <1>3, <1>4, <1>5, <1>6

\* The steps that neither stop nor start a container.
Elsewhere == Controller \/ CutShort \/ CacheSync \/ People

\* Those steps leave the nodes, the processes and the volumes alone.
LEMMA ElsewhereKeeps ==
  ASSUME Elsewhere PROVE UNCHANGED <<node, tainted, told, proc, vol, created>>
<1>1. CASE Controller
  BY <1>1 DEF Controller, Reconcile, FenceNothingToDo, FencePlacement, FenceEvidence,
    RecordRunningWriter, AnnotatePod, RecordEvidence, MintPlacementToken, RecordStoppedWriter,
    ReleasePod, LeaveWorkload, EnsurePlacementToken, ReconcileStatefulSet, DeleteStatefulSet,
    LetAgentGo, clusterVars
<1>2. CASE CutShort \/ CacheSync \/ People
  BY <1>2 DEF CutShort, CacheSync, People, DeleteAgent, ChangeHeld, ReleaseByHand, DeleteClaim,
    MakeClaimAgain, clusterVars
<1> QED BY <1>1, <1>2 DEF Elsewhere

\* What a step does to a Pod on its node: a kubelet that is to stop a Pod stays so, what
\* it stopped it never starts, and a mount is for good.
Onward ==
  /\ told \subseteq told'
  /\ \A u \in Uids : u \in told /\ ~Running(u) => ~Running(u)'
  /\ \A u \in Uids : vol[u] # 0 \/ u \in told => vol'[u] = vol[u]
  /\ claim.twins \subseteq claim'.twins

\* The history of claims made in a Pod's second only grows.
LEMMA TwinsStay ==
  ASSUME TypeOK, [Next]_vars PROVE claim.twins \subseteq claim'.twins
<1>0. claim \in ClaimObject
  BY DEF TypeOK
<1>1. ASSUME NEW after \in claim.after..created, claim' = NextClaim(after)
      PROVE  claim.twins \subseteq claim'.twins
  BY <1>1 DEF NextClaim
<1>2. CASE MakeClaimAgain \/ CreatePod
  BY <1>1, <1>2 DEF MakeClaimAgain, CreatePod
<1>3. CASE DeleteClaim \/ RecordRunningWriter \/ RecordStoppedWriter
  BY <1>0, <1>3 DEF DeleteClaim, RecordRunningWriter, RecordStoppedWriter, ClaimObject
<1>4. CASE Elsewhere /\ ~MakeClaimAgain /\ ~DeleteClaim /\ ~RecordRunningWriter /\ ~RecordStoppedWriter
  BY <1>4 DEF Elsewhere, Controller, Reconcile, FenceNothingToDo, FencePlacement,
    FenceEvidence, AnnotatePod, RecordEvidence, MintPlacementToken,
    ReleasePod, LeaveWorkload, EnsurePlacementToken, ReconcileStatefulSet,
    DeleteStatefulSet, LetAgentGo, CutShort, CacheSync, People, DeleteAgent, ChangeHeld,
    ReleaseByHand
<1>5. CASE ControlPlane /\ ~CreatePod
  BY <1>5 DEF ControlPlane, Schedule, ScaleDown, DeletePod, MarkDeleted, PodGC
<1>6. CASE \E u \in Uids : Kubelet(u) \/ Node(u)
  BY <1>6 DEF Kubelet, StartContainer, ExitContainer, ReportStatus, LearnDeletion, TerminatePod,
    Node, LoseNode, LoseNodeObject, RegainNode, ShutDownNode, Untaint, SetNode
<1>7. CASE UNCHANGED vars
  BY <1>7 DEF vars
<1> QED BY <1>2, <1>3, <1>4, <1>5, <1>6, <1>7 DEF Next, Elsewhere

\* Every step goes onward.
LEMMA StepsOnward ==
  ASSUME TypeOK, [Next]_vars PROVE Onward
<1>0. claim.twins \subseteq claim'.twins
  BY TwinsStay
<1>1. ASSUME UNCHANGED <<told, proc, vol>> PROVE Onward
  BY <1>0, <1>1 DEF Onward, Running
<1>2. CASE Elsewhere \/ UNCHANGED vars
  BY <1>1, <1>2, ElsewhereKeeps DEF vars
<1>3. CASE ControlPlane
  <2>1. UNCHANGED <<proc, vol>> /\ told \subseteq told'
    BY <1>3 DEF ControlPlane, CreatePod, Schedule, ScaleDown, DeletePod, MarkDeleted, PodGC
  <2> QED BY <1>0, <2>1 DEF Onward, Running
<1>4. ASSUME NEW u \in Uids, Kubelet(u) PROVE Onward
  <2>1. ASSUME NEW w \in Writers, StartContainer(u, w) PROVE Onward
    <3>1. told' = told /\ u \notin told
      BY <2>1 DEF StartContainer
    <3>2. \A v \in Uids : v # u => proc'[v] = proc[v] /\ vol'[v] = vol[v]
      BY <2>1 DEF StartContainer, TypeOK
    <3>3. vol[u] # 0 => vol' = vol
      BY <2>1 DEF StartContainer
    <3> QED BY <1>0, <3>1, <3>2, <3>3 DEF Onward, Running
  <2>2. ASSUME NEW w \in Writers, ExitContainer(u, w) PROVE Onward
    <3>1. PICK code \in Exited : proc' = [proc EXCEPT ![u][w] = code]
      BY <2>2 DEF ExitContainer, Exited
    <3>2. \A v \in Uids : ~Running(v) => ~Running(v)'
      BY <3>1 DEF TypeOK, Running, Exited
    <3> QED BY <1>0, <2>2, <3>2 DEF Onward, ExitContainer
  <2>3. CASE ReportStatus(u) \/ TerminatePod(u)
    BY <1>1, <2>3 DEF ReportStatus, TerminatePod
  <2>4. CASE LearnDeletion(u)
    BY <1>0, <2>4 DEF LearnDeletion, Onward, Running
  <2> QED BY <1>4, <2>1, <2>2, <2>3, <2>4 DEF Kubelet
<1>5. ASSUME NEW u \in Uids, Node(u) PROVE Onward
  <2>1. CASE ShutDownNode(u)
    <3>1. \A v \in Uids : ~Running(v) => ~Running(v)'
      BY <2>1 DEF ShutDownNode, TypeOK, Running
    <3> QED BY <1>0, <2>1, <3>1 DEF Onward, ShutDownNode, SetNode
  <2>2. CASE ~ShutDownNode(u)
    <3>1. UNCHANGED <<proc, vol>> /\ told \subseteq told'
      BY <1>5, <2>2 DEF Node, LoseNode, LoseNodeObject, RegainNode, Untaint, SetNode
    <3> QED BY <1>0, <3>1 DEF Onward, Running
  <2> QED BY <2>1, <2>2
<1> QED BY <1>2, <1>3, <1>4, <1>5 DEF Next, Elsewhere

\* What is said of a Pod stays so.
LEMMA SaidStays ==
  ASSUME Onward
  PROVE  /\ \A u \in Uids : Halted(u) => Halted(u)'
         /\ \A u \in Uids : \A c : c # 0 /\ Mounted(u, c) => Mounted(u, c)'
         /\ \A u \in Uids : \A c, never : Names(u, c, never) => Names(u, c, never)'
         /\ \A c, never : Names(0, c, never) => Names(0, c, never)'
<1>1. \A u \in Uids : Halted(u) => Halted(u)'
  BY DEF Onward, Halted
<1>2. ASSUME NEW u \in Uids, NEW c, c # 0, Mounted(u, c) PROVE Mounted(u, c)'
  BY <1>2 DEF Onward, Mounted
<1>3. claim.twins \subseteq claim'.twins
  BY DEF Onward
<1> QED BY <1>1, <1>2, <1>3 DEF Names

\* What a Pod object shows, were it the one after the step.
ShowsAfter(p) ==
  p.uid # 0 =>
    /\ p.terminal /\ ~p.disrupted => \A u \in Uids : u = p.uid => Halted(u)'
    /\ \A w \in Writers : p.status[w] \in Exited => vol'[p.uid] # 0

\* What a Pod object shows stays so, whatever the step, where the object stays.
LEMMA ShownStays ==
  ASSUME Onward, NEW p, p.uid \in Uids \cup {0}, Shown(p) PROVE ShowsAfter(p)
BY SaidStays DEF Shown, ShowsAfter, Onward

\* A Pod object that is true of the next state is so wherever it is held.
LEMMA ShownAfter ==
  ASSUME NEW p, p.uid \in Uids \cup {0}, ShowsAfter(p)
  PROVE  (pod' = p => Shown(pod)') /\ (cache' = p => Shown(cache)')
<1>1. ASSUME pod' = p PROVE Shown(pod)'
  BY <1>1 DEF ShowsAfter, Shown, Halted, Running
<1>2. ASSUME cache' = p PROVE Shown(cache)'
  BY <1>2 DEF ShowsAfter, Shown, Halted, Running
<1> QED BY <1>1, <1>2

\* A Pod that is written shows the truth, and so do the API server and the cache after it.
LEMMA SetPodShown ==
  ASSUME TypeOK, ShownTruly, Onward, NEW p \in PodObject, SetPod(p), ShowsAfter(p)
  PROVE  Shown(pod)' /\ Shown(cache)'
<1>1. p.uid \in Uids \cup {0} /\ cache.uid \in Uids \cup {0} /\ NoPod.uid = 0
  BY FenceFields DEF PodObject, NoPod, NewPod
<1>2. ShowsAfter(NoPod) /\ ShowsAfter(cache)
  BY <1>1, ShownStays DEF ShownTruly, ShowsAfter
<1>3. pod' \in {p, NoPod} /\ cache' \in {p, NoPod, cache}
  BY DEF SetPod, Settled
<1> QED BY <1>1, <1>2, <1>3, ShownAfter

\* With no Pod object written, what was shown stays shown.
LEMMA NoPodShown ==
  ASSUME TypeOK, ShownTruly, Onward, pod' = pod, cache' \in {cache, pod}
  PROVE  Shown(pod)' /\ Shown(cache)'
<1>1. pod.uid \in Uids \cup {0} /\ cache.uid \in Uids \cup {0}
  BY FenceFields
<1>2. ShowsAfter(pod) /\ ShowsAfter(cache)
  BY <1>1, ShownStays DEF ShownTruly
<1> QED BY <1>1, <1>2, ShownAfter

\* A Pod written with the flags and the report it had shows what it showed.
LEMMA EditShown ==
  ASSUME TypeOK, ShownTruly, Onward, NEW p \in PodObject, SetPod(p), p.uid = pod.uid,
         p.terminal = pod.terminal, p.disrupted = pod.disrupted,
         \A w \in Writers : p.status[w] \in Exited => pod.status[w] \in Exited \/ vol'[pod.uid] # 0
  PROVE  Shown(pod)' /\ Shown(cache)'
<1>1. ShowsAfter(pod)
  BY FenceFields, ShownStays DEF ShownTruly
<1>2. ShowsAfter(p)
  BY <1>1 DEF ShowsAfter
<1> QED BY <1>2, SetPodShown

\* The claim and the Pods keep their order.
LEMMA VolumesStep ==
  ASSUME TypeOK, TypeOK', VolumesInOrder, [Next]_vars PROVE VolumesInOrder'
<1>0. created \in Nat /\ claim.after \in Nat /\ pod.uid \in Nat /\ \A u \in Uids : u \in Nat /\ u # 0
  BY FenceFields, FenceNumbers
\* A step that mounts nothing keeps the order where it makes no claim, or makes one and
\* records the Pods of its second.
<1> DEFINE SameClaim == UNCHANGED <<claim.uid, claim.after, claim.twins>>
           NewClaim == \A u \in Uids : u <= created /\ claim'.after < u =>
                         <<u, claim'.uid>> \in claim'.twins
<1>1. ASSUME vol' = vol, proc' = proc, pod'.uid \in {0, pod.uid}, created' = created,
             claim'.there => claim'.uid # 0,
             SameClaim \/ NewClaim
      PROVE  VolumesInOrder'
  <2>1. ASSUME NEW u \in Uids, vol[u] # 0
        PROVE  /\ u <= created
               /\ claim'.after < u => vol[u] = claim'.uid \/ <<u, claim'.uid>> \in claim'.twins
    <3>1. /\ u <= created
          /\ claim.after < u => vol[u] = claim.uid \/ <<u, claim.uid>> \in claim.twins
      BY <2>1 DEF VolumesInOrder
    <3> QED BY <1>1, <3>1
  <2>2. pod'.uid <= created
    BY <1>0, <1>1 DEF VolumesInOrder
  <2> QED BY <1>1, <2>1, <2>2 DEF VolumesInOrder
<1>2. ASSUME NEW p \in PodObject, SetPod(p), p.uid = pod.uid PROVE pod'.uid \in {0, pod.uid}
  BY <1>2 DEF SetPod, Settled, NoPod, NewPod
<1>3. \A s \in [Writers -> Reported] : [pod EXCEPT !.status = s] \in PodObject
  BY DEF TypeOK, PodObject
<1>4. ASSUME NEW after \in claim.after..created, claim' = NextClaim(after)
      PROVE  claim'.uid # 0 /\ NewClaim
  <2>0. after \in Nat
    BY <1>0
  <2>1. claim.uid \in Nat /\ after \in Nat
    BY <2>0, FenceFields, FenceNumbers
  <2>2. claim'.uid # 0 /\ claim'.after = after /\ claim'.uid = claim.uid + 1
        /\ ((after + 1)..created) \X {claim.uid + 1} \subseteq claim'.twins
    BY <1>4, <2>1 DEF NextClaim
  <2>3. ASSUME NEW u \in Uids, u <= created, claim'.after < u
        PROVE  <<u, claim'.uid>> \in claim'.twins
    <3>1. u \in (after + 1)..created
      BY <1>0, <2>1, <2>2, <2>3
    <3> QED BY <2>2, <3>1
  <2> QED BY <2>2, <2>3
<1>5. CASE Elsewhere
  <2>1. vol' = vol /\ proc' = proc /\ created' = created
    BY <1>5, ElsewhereKeeps
  <2>2. pod'.uid \in {0, pod.uid}
    <3>1. CASE AnnotatePod
      <4>1. [pod EXCEPT !.pvc = op.pvc] \in PodObject /\ [pod EXCEPT !.pvc = op.pvc].uid = pod.uid
        BY DEF TypeOK, PodObject, Operation
      <4> QED BY <1>2, <3>1, <4>1 DEF AnnotatePod
    <3>2. CASE ReleasePod \/ ReleaseByHand
      <4>1. [pod EXCEPT !.fin = FALSE] \in PodObject /\ [pod EXCEPT !.fin = FALSE].uid = pod.uid
        BY DEF TypeOK, PodObject
      <4> QED BY <1>2, <3>2, <4>1 DEF ReleasePod, ReleaseByHand
    <3>3. CASE ~AnnotatePod /\ ~ReleasePod /\ ~ReleaseByHand
      <4>1. pod' = pod
        BY <1>5, <3>3 DEF Elsewhere, Controller, Reconcile, FenceNothingToDo, FencePlacement,
          FenceEvidence, RecordRunningWriter, RecordEvidence, MintPlacementToken,
          RecordStoppedWriter, LeaveWorkload, EnsurePlacementToken, ReconcileStatefulSet,
          DeleteStatefulSet, LetAgentGo, CutShort, CacheSync, People, DeleteAgent, ChangeHeld,
          DeleteClaim, MakeClaimAgain, clusterVars
      <4> QED BY <4>1
    <3> QED BY <3>1, <3>2, <3>3
  <2>3. /\ claim'.there => claim'.uid # 0
        /\ SameClaim \/ NewClaim
    <3>1. CASE MakeClaimAgain
      BY <1>4, <3>1 DEF MakeClaimAgain
    <3>2. CASE DeleteClaim
      BY <3>2 DEF DeleteClaim, TypeOK, ClaimObject, VolumesInOrder
    <3>3. CASE RecordRunningWriter \/ RecordStoppedWriter
      BY <3>3 DEF RecordRunningWriter, RecordStoppedWriter, TypeOK, ClaimObject, VolumesInOrder
    <3>4. CASE ~MakeClaimAgain /\ ~DeleteClaim /\ ~RecordRunningWriter /\ ~RecordStoppedWriter
      <4>1. claim' = claim
        BY <1>5, <3>4 DEF Elsewhere, Controller, Reconcile, FenceNothingToDo, FencePlacement,
          FenceEvidence, AnnotatePod, RecordEvidence, MintPlacementToken,
          ReleasePod, LeaveWorkload, EnsurePlacementToken, ReconcileStatefulSet,
          DeleteStatefulSet, LetAgentGo, CutShort, CacheSync, People, DeleteAgent, ChangeHeld,
          ReleaseByHand
      <4> QED BY <4>1 DEF VolumesInOrder
    <3> QED BY <3>1, <3>2, <3>3, <3>4
  <2> QED BY <1>1, <2>1, <2>2, <2>3
<1>6. CASE CreatePod
  <2>1. /\ vol' = vol /\ proc' = proc /\ created' = created + 1
        /\ \/ claim.there /\ claim' = claim
           \/ \E after \in claim.after..created : claim' = NextClaim(after)
    BY <1>6 DEF CreatePod
  <2>2. pod'.uid = created + 1
    BY <1>6 DEF CreatePod, SetPod, Settled, NewPod
  <2>3. ASSUME NEW u \in Uids, vol[u] # 0
        PROVE  /\ u <= created + 1
               /\ claim'.after < u => vol[u] = claim'.uid \/ <<u, claim'.uid>> \in claim'.twins
    <3>1. /\ u <= created
          /\ claim.after < u => vol[u] = claim.uid \/ <<u, claim.uid>> \in claim.twins
      BY <2>3 DEF VolumesInOrder
    <3>2. u <= created + 1
      BY <1>0, <3>1
    <3> QED BY <1>4, <2>1, <3>1, <3>2
  <2>4. claim'.there => claim'.uid # 0
    BY <1>4, <2>1 DEF VolumesInOrder
  <2>5. pod'.uid <= created'
    BY <1>0, <2>1, <2>2
  <2> QED BY <2>1, <2>3, <2>4, <2>5 DEF VolumesInOrder
<1>7. CASE ControlPlane /\ ~CreatePod
  <2>1. UNCHANGED <<vol, proc, created, claim>>
    BY <1>7 DEF ControlPlane, Schedule, ScaleDown, DeletePod, MarkDeleted, PodGC
  <2>2. pod'.uid \in {0, pod.uid}
    <3>1. ASSUME NEW forced \in BOOLEAN, MarkDeleted(forced) PROVE pod'.uid \in {0, pod.uid}
      BY <3>1 DEF MarkDeleted, SetPod, Settled, NoPod, NewPod, TypeOK, PodObject
    <3>2. CASE PodGC
      BY <3>2 DEF PodGC, SetPod, Settled, NoPod, NewPod, TypeOK, PodObject
    <3> QED BY <1>7, <3>1, <3>2 DEF ControlPlane, Schedule, ScaleDown, DeletePod
  <2> QED BY <1>1, <2>1, <2>2 DEF VolumesInOrder
<1>8. ASSUME NEW u \in Uids, NEW w \in Writers, StartContainer(u, w) PROVE VolumesInOrder'
  <2>1. UNCHANGED <<created, claim>>
    BY <1>8 DEF StartContainer
  <2>2. pod'.uid \in {0, pod.uid}
    BY <1>8 DEF StartContainer, SetPod, Settled, NoPod, NewPod, TypeOK, PodObject
  <2>3. /\ vol[u] = 0 => claim.there /\ pod.uid = u
        /\ vol'[u] = IF vol[u] = 0 THEN claim.uid ELSE vol[u]
        /\ \A v \in Uids : v # u => vol'[v] = vol[v] /\ proc'[v] = proc[v]
    BY <1>8 DEF StartContainer, TypeOK
  <2>4. vol'[u] # 0
    BY <2>3 DEF VolumesInOrder
  <2>5. ASSUME NEW v \in Uids, vol'[v] # 0
        PROVE  /\ v <= created
               /\ claim.after < v => vol'[v] = claim.uid \/ <<v, claim.uid>> \in claim.twins
    <3>1. CASE v = u /\ vol[u] = 0
      BY <2>3, <3>1 DEF VolumesInOrder
    <3>2. CASE v # u \/ vol[u] # 0
      BY <2>3, <2>5, <3>2 DEF VolumesInOrder
    <3> QED BY <3>1, <3>2
  <2>6. \A v \in Uids, x \in Writers : proc'[v][x] # "never" => vol'[v] # 0
    BY <2>3, <2>4 DEF VolumesInOrder
  <2>7. pod'.uid <= created
    BY <1>0, <2>2 DEF VolumesInOrder
  <2> QED BY <2>1, <2>5, <2>6, <2>7 DEF VolumesInOrder
\* A writer that exits, or is stopped with its node, ran.
<1>9. ASSUME UNCHANGED <<pod, created, claim, vol>>,
             \A v \in Uids, x \in Writers : proc[v][x] = "never" => proc'[v][x] = "never"
      PROVE  VolumesInOrder'
  <2>1. \A v \in Uids, x \in Writers : proc'[v][x] # "never" => vol'[v] # 0
    BY <1>9 DEF VolumesInOrder
  <2> QED BY <1>9, <2>1 DEF VolumesInOrder
<1>10. ASSUME NEW u \in Uids, Kubelet(u) PROVE VolumesInOrder'
  <2>1. ASSUME NEW w \in Writers, ExitContainer(u, w) PROVE VolumesInOrder'
    <3>1. UNCHANGED <<pod, created, claim, vol>>
      BY <2>1 DEF ExitContainer
    <3>2. \A v \in Uids, x \in Writers : proc[v][x] = "never" => proc'[v][x] = "never"
      BY <2>1 DEF ExitContainer, TypeOK
    <3> QED BY <1>9, <3>1, <3>2
  <2>2. CASE ReportStatus(u)
    <3>1. pod'.uid \in {0, pod.uid}
      BY <2>2 DEF ReportStatus, SetPod, Settled, NoPod, NewPod, TypeOK, PodObject
    <3> QED BY <1>1, <2>2, <3>1 DEF ReportStatus, VolumesInOrder
  <2>3. CASE TerminatePod(u)
    <3>1. pod'.uid \in {0, pod.uid}
      BY ZenonT(40), <2>3 DEF TerminatePod, SetPod, Settled, NoPod, NewPod, TypeOK, PodObject
    <3> QED BY <1>1, <2>3, <3>1 DEF TerminatePod, VolumesInOrder
  <2>4. CASE LearnDeletion(u)
    BY <1>1, <2>4 DEF LearnDeletion, VolumesInOrder
  <2> QED BY <1>8, <1>10, <2>1, <2>2, <2>3, <2>4 DEF Kubelet
<1>11. ASSUME NEW u \in Uids, Node(u) PROVE VolumesInOrder'
  <2>1. CASE ShutDownNode(u)
    <3>1. UNCHANGED <<pod, created, claim, vol>>
      BY <2>1 DEF ShutDownNode, SetNode
    <3>2. \A v \in Uids, x \in Writers : proc[v][x] = "never" => proc'[v][x] = "never"
      BY <2>1 DEF ShutDownNode, TypeOK
    <3> QED BY <1>9, <3>1, <3>2
  <2>2. CASE RegainNode(u)
    <3>1. pod'.uid \in {0, pod.uid}
      BY <2>2 DEF RegainNode, SetPod, Settled, NoPod, NewPod, TypeOK, PodObject
    <3> QED BY <1>1, <2>2, <3>1 DEF RegainNode, SetNode, VolumesInOrder
  <2>3. CASE LoseNode(u) \/ LoseNodeObject(u) \/ Untaint(u)
    BY <1>1, <2>3 DEF LoseNode, LoseNodeObject, Untaint, SetNode, VolumesInOrder
  <2> QED BY <1>11, <2>1, <2>2, <2>3 DEF Node
<1>12. CASE UNCHANGED vars
  BY <1>1, <1>12 DEF vars, VolumesInOrder
<1> QED BY <1>5, <1>6, <1>7, <1>10, <1>11, <1>12 DEF Next, Elsewhere

\* What a kubelet reports of exits, the mounts bear out.
LEMMA TruthShown ==
  ASSUME TypeOK, VolumesInOrder, Onward, NEW u \in Uids, NEW w \in Writers, Truth(u)[w] \in Exited
  PROVE  vol'[u] # 0
<1>1. proc[u][w] # "never"
  BY DEF Truth, Exited
<1>2. vol[u] # 0
  BY <1>1 DEF VolumesInOrder
<1> QED BY <1>2 DEF Onward

\* Every step keeps what Pod objects show true.
LEMMA ShownStep ==
  ASSUME TypeOK, TypeOK', VolumesInOrder, ShownTruly, [Next]_vars PROVE ShownTruly'
<1>0. Onward
  BY StepsOnward
<1>1. \A u \in tainted' : Halted(u)'
  <2>1. \A u \in tainted : Halted(u)'
    BY <1>0, SaidStays DEF ShownTruly, TypeOK
  <2>2. ASSUME NEW u \in Uids, ShutDownNode(u) PROVE \A v \in tainted' : Halted(v)'
    <3>1. Halted(u)' /\ tainted' = tainted \cup {u}
      BY <2>2 DEF ShutDownNode, Halted, Running, TypeOK
    <3> QED BY <2>1, <3>1
  <2>3. tainted' \subseteq tainted \/ \E u \in Uids : ShutDownNode(u)
    <3>1. CASE Elsewhere \/ UNCHANGED vars
      BY <3>1, ElsewhereKeeps DEF vars
    <3>2. CASE ControlPlane
      BY <3>2 DEF ControlPlane, CreatePod, Schedule, ScaleDown, DeletePod, MarkDeleted, PodGC
    <3>3. CASE \E u \in Uids : Kubelet(u) \/ Node(u)
      BY <3>3 DEF Kubelet, StartContainer, ExitContainer, ReportStatus, LearnDeletion, TerminatePod,
        Node, LoseNode, LoseNodeObject, RegainNode, Untaint
    <3> QED BY <3>1, <3>2, <3>3 DEF Next, Elsewhere
  <2> QED BY <2>1, <2>2, <2>3
<1> DEFINE Good == Shown(pod)' /\ Shown(cache)'
<1>2. ASSUME Elsewhere PROVE Good
  <2>1. CASE AnnotatePod
    <3>1. CASE pod.uid # 0
      <4> DEFINE p == [pod EXCEPT !.pvc = op.pvc]
      <4>1. p \in PodObject /\ p.uid = pod.uid /\ p.terminal = pod.terminal
            /\ p.disrupted = pod.disrupted /\ p.status = pod.status
        BY DEF TypeOK, PodObject, Operation
      <4>2. SetPod(p)
        BY <2>1, <3>1 DEF AnnotatePod
      <4> HIDE DEF p
      <4> QED BY <1>0, <4>1, <4>2, EditShown
    <3>2. CASE pod.uid = 0
      BY <1>0, <2>1, <3>2, NoPodShown DEF AnnotatePod
    <3> QED BY <3>1, <3>2
  <2>2. CASE ReleasePod \/ ReleaseByHand
    <3> DEFINE p == [pod EXCEPT !.fin = FALSE]
    <3>1. p \in PodObject /\ p.uid = pod.uid /\ p.terminal = pod.terminal
          /\ p.disrupted = pod.disrupted /\ p.status = pod.status
      BY DEF TypeOK, PodObject
    <3>2. SetPod(p) \/ (pod' = pod /\ cache' = cache)
      BY <2>2 DEF ReleasePod, ReleaseByHand
    <3> HIDE DEF p
    <3> QED BY <1>0, <3>1, <3>2, EditShown, NoPodShown
  <2>3. CASE ~AnnotatePod /\ ~ReleasePod /\ ~ReleaseByHand
    <3>1. pod' = pod /\ cache' \in {cache, pod}
      BY <1>2, <2>3 DEF Elsewhere, Controller, Reconcile, FenceNothingToDo, FencePlacement,
        FenceEvidence, RecordRunningWriter, RecordEvidence, MintPlacementToken,
        RecordStoppedWriter, LeaveWorkload, EnsurePlacementToken, ReconcileStatefulSet,
        DeleteStatefulSet, LetAgentGo, CutShort, CacheSync, People, DeleteAgent, ChangeHeld,
        DeleteClaim, MakeClaimAgain, clusterVars
    <3> QED BY <1>0, <3>1, NoPodShown
  <2> QED BY <2>1, <2>2, <2>3
<1>3. ASSUME CreatePod PROVE Good
  <2>1. created + 1 \in Uids
    BY <1>3, FenceFields, FenceAssumption DEF CreatePod, Uids
  <2>2. NewPod(created + 1) \in PodObject /\ ShowsAfter(NewPod(created + 1))
    BY <2>1, PodTypes DEF NewPod, ShowsAfter, Exited
  <2> QED BY <1>0, <1>3, <2>2, SetPodShown DEF CreatePod
<1>4. ASSUME NEW forced \in BOOLEAN, MarkDeleted(forced) PROVE Good
  <2> DEFINE p == [pod EXCEPT !.deleting = TRUE,
                              !.final = pod.final \/ forced \/ node[pod.uid] = "none"]
  <2>1. p \in PodObject /\ p.uid = pod.uid /\ p.terminal = pod.terminal
        /\ p.disrupted = pod.disrupted /\ p.status = pod.status
    <3>1. (pod.final \/ forced \/ node[pod.uid] = "none") \in BOOLEAN
      BY DEF TypeOK, PodObject
    <3> QED BY <3>1 DEF TypeOK, PodObject
  <2>2. SetPod(p)
    BY <1>4 DEF MarkDeleted
  <2> HIDE DEF p
  <2> QED BY <1>0, <2>1, <2>2, EditShown
<1>5. ASSUME PodGC PROVE Good
  <2> DEFINE p == [pod EXCEPT !.terminal = TRUE, !.deleting = TRUE, !.final = TRUE,
                              !.disrupted = (node[pod.uid] = "gone")]
  <2>1. /\ p \in PodObject /\ p.uid = pod.uid /\ p.terminal /\ p.status = pod.status
        /\ p.disrupted <=> (node[pod.uid] = "gone")
    BY DEF TypeOK, PodObject
  <2>2. SetPod(p)
    BY <1>5 DEF PodGC
  <2>3. node[pod.uid] # "gone" => pod.uid \in tainted
    BY <1>5 DEF PodGC
  <2> HIDE DEF p
  <2>4. ShowsAfter(pod)
    BY <1>0, FenceFields, ShownStays DEF ShownTruly
  <2>5. ~p.disrupted => \A u \in Uids : u = p.uid => Halted(u)'
    BY <1>0, <2>1, <2>3, SaidStays DEF ShownTruly
  <2>6. ShowsAfter(p)
    BY <2>1, <2>4, <2>5 DEF ShowsAfter
  <2> QED BY <1>0, <2>1, <2>2, <2>6, SetPodShown
<1>6. ASSUME Schedule PROVE Good
  BY <1>0, <1>6, NoPodShown DEF Schedule
<1>7. ASSUME NEW u \in Uids, Kubelet(u) PROVE Good
  <2>1. ASSUME NEW w \in Writers, StartContainer(u, w) PROVE Good
    <3> DEFINE p == [pod EXCEPT !.status[w] = "running"]
    <3>1. p \in PodObject /\ p.uid = pod.uid /\ p.terminal = pod.terminal
          /\ p.disrupted = pod.disrupted
          /\ \A x \in Writers : p.status[x] \in Exited => pod.status[x] \in Exited
      BY ZenonT(40) DEF TypeOK, PodObject, Reported, Exited
    <3>2. SetPod(p) \/ (pod' = pod /\ cache' = cache)
      BY <2>1 DEF StartContainer
    <3> HIDE DEF p
    <3> QED BY <1>0, <3>1, <3>2, EditShown, NoPodShown
  <2>2. CASE ReportStatus(u)
    <3> DEFINE p == [pod EXCEPT !.status = Truth(u)]
    <3>1. p \in PodObject /\ p.uid = pod.uid /\ p.terminal = pod.terminal
          /\ p.disrupted = pod.disrupted /\ p.status = Truth(u)
      BY TruthType DEF TypeOK, PodObject
    <3>2. SetPod(p) /\ pod.uid = u
      BY <2>2 DEF ReportStatus
    <3> HIDE DEF p
    <3> QED BY <1>0, <3>1, <3>2, TruthShown, EditShown
  <2>3. CASE TerminatePod(u)
    <3>1. PICK lost \in SUBSET Writers :
            SetPod([pod EXCEPT !.terminal = TRUE, !.final = TRUE,
                               !.status = [w \in Writers |-> IF w \in lost THEN "lost"
                                                             ELSE Truth(u)[w]]])
      BY <2>3 DEF TerminatePod
    <3> DEFINE seen == [w \in Writers |-> IF w \in lost THEN "lost" ELSE Truth(u)[w]]
               p == [pod EXCEPT !.terminal = TRUE, !.final = TRUE, !.status = seen]
    <3>2. seen \in [Writers -> Reported]
      BY TruthType DEF Reported
    <3>3. \A w \in Writers : seen[w] \in Exited => vol'[u] # 0
      BY <1>0, TruthShown DEF Exited
    <3>4. SetPod(p)
      BY <3>1
    <3> HIDE DEF seen
    <3>5. p \in PodObject /\ p.uid = pod.uid /\ p.status = seen
      BY <3>2 DEF TypeOK, PodObject
    <3> HIDE DEF p
    <3>6. pod.uid = u /\ Halted(u)
      BY <2>3 DEF TerminatePod, Halted
    <3>7. ShowsAfter(p)
      BY <1>0, <3>3, <3>5, <3>6, SaidStays DEF ShowsAfter
    <3> QED BY <1>0, <3>4, <3>5, <3>7, SetPodShown
  <2>4. CASE LearnDeletion(u) \/ \E w \in Writers : ExitContainer(u, w)
    BY <1>0, <2>4, NoPodShown DEF LearnDeletion, ExitContainer
  <2> QED BY <1>7, <2>1, <2>2, <2>3, <2>4 DEF Kubelet
<1>8. ASSUME NEW u \in Uids, Node(u) PROVE Good
  <2>1. CASE RegainNode(u)
    <3> DEFINE p == [pod EXCEPT !.status = Truth(u)]
    <3>1. p \in PodObject /\ p.uid = pod.uid /\ p.terminal = pod.terminal
          /\ p.disrupted = pod.disrupted /\ p.status = Truth(u)
      BY TruthType DEF TypeOK, PodObject
    <3>2. (SetPod(p) /\ pod.uid = u) \/ (pod' = pod /\ cache' = cache)
      BY <2>1 DEF RegainNode
    <3> HIDE DEF p
    <3> QED BY <1>0, <3>1, <3>2, TruthShown, EditShown, NoPodShown
  <2>2. CASE ~RegainNode(u)
    <3>1. pod' = pod /\ cache' = cache
      BY <1>8, <2>2 DEF Node, LoseNode, LoseNodeObject, ShutDownNode, Untaint
    <3> QED BY <1>0, <3>1, NoPodShown
  <2> QED BY <2>1, <2>2
<1>9. ASSUME UNCHANGED vars PROVE Good
  BY <1>0, <1>9, NoPodShown DEF vars
<1>10. ASSUME ControlPlane PROVE Good
  BY <1>3, <1>4, <1>5, <1>6, <1>10 DEF ControlPlane, ScaleDown, DeletePod
<1>11. Good
  BY <1>2, <1>7, <1>8, <1>9, <1>10 DEF Next, Elsewhere
<1> QED BY <1>1, <1>11 DEF ShownTruly

\* What readFence takes for evidence names the claim the Pod mounted, and as never created
\* only writers that will not run: a claim older than the Pod is the one it mounted, and a
\* Pod none of whose writers exited counts as stopped only where its kubelet made it terminal.
LEMMA EvidenceNames ==
  ASSUME TypeOK, EvidenceInv, cache.uid # 0, Evidence(cache), ~Unassigned(cache)
  PROVE  Names(cache.uid, claim.uid, NeverCreated(cache))
<1>1. cache.uid \in Uids
  BY FenceFields
<1>2. ClaimKept(cache) /\ WritersStopped(cache)
  BY DEF Evidence
<1>3. NeverCreatedCounts(cache) => Halted(cache.uid)
  BY DEF NeverCreatedCounts, EvidenceInv, ShownTruly, Shown
<1>4. NeverCreated(cache) # {} => Halted(cache.uid)
  BY <1>2, <1>3 DEF NeverCreated, WritersStopped, Exited
<1>5. Mounted(cache.uid, claim.uid) \/ <<cache.uid, claim.uid>> \in claim.twins
  <2>1. CASE vol[cache.uid] # 0
    <3>0. claim.after \in Nat /\ cache.uid \in Nat
      BY <1>1, FenceFields, FenceNumbers
    <3>1. claim.after < cache.uid
      BY <1>2, <3>0 DEF ClaimKept
    <3> QED BY <1>1, <2>1, <3>1 DEF EvidenceInv, VolumesInOrder, Mounted
  <2>2. CASE vol[cache.uid] = 0
    <3>1. cache.status[AgentContainer] \notin Exited
      BY <2>2, FenceAssumption DEF EvidenceInv, ShownTruly, Shown
    <3>2. NeverCreated(cache) # {}
      BY <1>2, <3>1, FenceAssumption DEF WritersStopped
    <3> QED BY <1>4, <2>2, <3>2 DEF Mounted, Halted
  <2> QED BY <2>1, <2>2
<1> QED BY <1>4, <1>5 DEF Names

\* A step leaves the evidence read, records it, or reads it.
LEMMA EvidenceSteps ==
  ASSUME TypeOK, [Next]_vars
  PROVE  \/ stopped' = stopped /\ (op' = op \/ op'.pc # "record" \/ FenceEvidence)
         \/ RecordEvidence /\ op'.pc # "record"
<1>0. op \in Operation
  BY DEF TypeOK
<1>1. \A s : [op EXCEPT !.pc = s].pc = s
  BY <1>0 DEF Operation
<1>2. Idle.pc = "idle"
  BY DEF Idle
<1>3. CASE Controller
  <2>1. CASE Reconcile \/ FenceNothingToDo \/ FencePlacement
    BY <1>0, <2>1 DEF Reconcile, FenceNothingToDo, FencePlacement, Idle, Operation, AfterFence
  <2>2. CASE RecordRunningWriter \/ AnnotatePod \/ MintPlacementToken \/ RecordStoppedWriter \/ ReleasePod
    BY <1>1, <1>2, <2>2 DEF RecordRunningWriter, AnnotatePod, MintPlacementToken,
      RecordStoppedWriter, ReleasePod, Goto, AfterFence
  <2>3. CASE RecordEvidence
    BY <1>1, <2>3 DEF RecordEvidence, Goto
  <2>4. CASE LeaveWorkload \/ EnsurePlacementToken \/ ReconcileStatefulSet \/ DeleteStatefulSet \/ LetAgentGo
    BY <1>1, <1>2, <2>4 DEF LeaveWorkload, EnsurePlacementToken, ReconcileStatefulSet,
      DeleteStatefulSet, LetAgentGo, Goto
  <2>5. CASE FenceEvidence
    BY <2>5 DEF FenceEvidence
  <2> QED BY <1>3, <2>1, <2>2, <2>3, <2>4, <2>5 DEF Controller
<1>4. CASE CutShort \/ CacheSync \/ People
  BY <1>2, <1>4 DEF CutShort, CacheSync, People, DeleteAgent, ChangeHeld, ReleaseByHand, DeleteClaim,
    MakeClaimAgain
<1>5. CASE ControlPlane
  BY <1>5 DEF ControlPlane, CreatePod, Schedule, ScaleDown, DeletePod, MarkDeleted, PodGC
<1>6. CASE \E u \in Uids : Kubelet(u) \/ Node(u)
  BY ZenonT(40), <1>6 DEF Kubelet, StartContainer, ExitContainer, ReportStatus, LearnDeletion, TerminatePod,
    Node, LoseNode, LoseNodeObject, RegainNode, ShutDownNode, Untaint, SetNode
<1>7. CASE UNCHANGED vars
  BY <1>7 DEF vars
<1> QED BY <1>3, <1>4, <1>5, <1>6, <1>7 DEF Next

\* Every step keeps what the evidence names true.
LEMMA NamedStep ==
  ASSUME TypeOK, TypeOK', EvidenceInv, [Next]_vars PROVE NamedTruly'
<1>0. op.uid \in Uids \cup {0} /\ stopped.pod \in Uids \cup {0} /\ cache.uid \in Uids \cup {0}
  BY FenceFields
<1>1. \A u \in Uids \cup {0} : \A c, never : Names(u, c, never) => Names(u, c, never)'
  BY StepsOnward, SaidStays
<1>2. stopped' = stopped => Names(stopped.pod, stopped.pvc, stopped.never)'
  <2>1. Names(stopped.pod, stopped.pvc, stopped.never)
    BY DEF EvidenceInv, NamedTruly
  <2> QED BY ZenonT(40), <1>0, <1>1, <2>1 DEF Names, Halted, Mounted, Running
<1>3. op.pc = "record" => Names(op.uid, op.pvc, op.never)
  BY DEF EvidenceInv, NamedTruly
<1>4. CASE RecordEvidence /\ op'.pc # "record"
  <2>1. /\ op.pc = "record" /\ stopped'.pod = op.uid /\ stopped'.pvc = op.pvc
        /\ stopped'.never = op.never
    BY <1>4 DEF RecordEvidence, At
  <2>2. UNCHANGED <<told, proc, vol, claim>>
    BY <1>4 DEF RecordEvidence, clusterVars
  <2>3. Names(stopped.pod, stopped.pvc, stopped.never)'
    BY <1>3, <2>1, <2>2 DEF Names, Halted, Mounted, Running
  <2> QED BY <1>4, <2>3 DEF NamedTruly
<1>5. CASE stopped' = stopped /\ op' = op
  <2>1. op'.pc = "record" => Names(op.uid, op.pvc, op.never)'
    BY <1>0, <1>1, <1>3, <1>5 DEF Names, Halted, Mounted, Running
  <2> QED BY <1>2, <1>5, <2>1 DEF NamedTruly
<1>6. CASE stopped' = stopped /\ op'.pc # "record"
  BY <1>2, <1>6 DEF NamedTruly
<1>7. CASE stopped' = stopped /\ FenceEvidence
  <2>1. /\ op'.uid = cache.uid /\ cache.uid # 0 /\ Evidence(cache)
        /\ op'.pvc = IF Unassigned(cache) THEN 0 ELSE claim.uid
        /\ op'.never = IF Unassigned(cache) THEN {} ELSE NeverCreated(cache)
    BY <1>7 DEF FenceEvidence, TypeOK, Operation
  <2>2. UNCHANGED <<told, proc, vol, claim>>
    BY <1>7 DEF FenceEvidence, clusterVars
  <2>3. Names(cache.uid, op'.pvc, op'.never)
    BY <2>1, EvidenceNames DEF Names
  <2>4. Names(op.uid, op.pvc, op.never)'
    BY <2>1, <2>2, <2>3 DEF Names, Halted, Mounted, Running
  <2> QED BY <1>2, <1>7, <2>4 DEF NamedTruly
<1> QED BY <1>4, <1>5, <1>6, <1>7, EvidenceSteps

\* The invariant of the evidence holds in every environment.
LEMMA EvidenceHolds == Spec => []EvidenceInv
<1>1. Init => EvidenceInv
  <2> SUFFICES ASSUME Init PROVE EvidenceInv
    OBVIOUS
  <2>1. pod.uid = 0 /\ cache.uid = 0 /\ created = 0 /\ op.pc = "idle" /\ ~claim.there
    BY DEF Init, NoPod, NewPod, Idle
  <2>2. stopped.pvc = 0 /\ stopped.never = {} /\ tainted = {}
    BY DEF Init
  <2>3. \A u \in Uids : vol[u] = 0 /\ \A w \in Writers : proc[u][w] = "never"
    BY DEF Init
  <2>4. VolumesInOrder
    BY <2>1, <2>3 DEF VolumesInOrder
  <2>5. ShownTruly
    BY <2>1, <2>2 DEF ShownTruly, Shown
  <2>6. NamedTruly
    BY <2>1, <2>2 DEF NamedTruly, Names
  <2> QED BY <2>4, <2>5, <2>6 DEF EvidenceInv
<1>2. TypeOK /\ TypeOK' /\ EvidenceInv /\ [Next]_vars => EvidenceInv'
  BY VolumesStep, ShownStep, NamedStep DEF EvidenceInv
<1> QED BY <1>1, <1>2, TypeCorrect, PTL DEF Spec

\* In any environment, late kubelets, a lagging cache and releases by hand included, a writer
\* the recorded evidence counts as never created runs nothing (neverCreatedRefusal).
THEOREM NeverCreatedTruthfulHolds == Spec => []NeverCreatedTruthful
<1>1. TypeOK /\ EvidenceInv => NeverCreatedTruthful
  <2> SUFFICES ASSUME TypeOK, EvidenceInv, NEW w \in stopped.never
               PROVE  proc[stopped.pod][w] # "running"
    BY DEF NeverCreatedTruthful
  <2>1. w \in Writers
    BY DEF TypeOK, WriterStopped
  <2>2. ~Running(stopped.pod)
    BY DEF EvidenceInv, NamedTruly, Names, Halted
  <2> QED BY <2>1, <2>2 DEF Running
<1> QED BY <1>1, TypeCorrect, EvidenceHolds, PTL

\* In any environment, the evidence names the claim the Pod mounted, whatever was done to the
\* claim behind the name, or one made after the Pod in the Pod's own second: readClaim compares
\* their creation times to the second.
THEOREM EvidenceNamesVolumeHolds == Spec => []EvidenceNamesVolume
<1>1. EvidenceInv => EvidenceNamesVolume
  BY DEF EvidenceInv, NamedTruly, Names, Mounted, EvidenceNamesVolume
<1> QED BY <1>1, EvidenceHolds, PTL
================================================================================
