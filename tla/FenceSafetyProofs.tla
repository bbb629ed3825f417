--------------------------- MODULE FenceSafetyProofs ---------------------------
(***************************************************************************)
(* The fence's safety properties, for every set of writers and every       *)
(* bound, in an environment that is Sound: the inductive invariant         *)
(* FenceInv holds, and the properties follow from it.  What a claim        *)
(* records of a clean stop needs two more: WritersInOrder and ExitsTrue.   *)
(***************************************************************************)
EXTENDS WriterFenceProofs

\* Without lag, the cache shows the Pod that is written at once.
LEMMA SetPodSound ==
  ASSUME Sound, NEW p, SetPod(p)
  PROVE  pod' = Settled(p) /\ cache' = Settled(p)
BY DEF SetPod, Sound

\* What a sound environment leaves out, event by event.
LEMMA SoundEnvironment ==
  ASSUME Sound PROVE ~Late /\ "hand" \notin Happens /\ "lag" \notin Happens
BY DEF Sound, Late

\* The steps of a reconcile that leave the Pod object alone.
ReadsOrRecords ==
  \/ Reconcile \/ FenceNothingToDo \/ FencePlacement \/ FenceEvidence
  \/ RecordRunningWriter \/ RecordEvidence \/ MintPlacementToken \/ RecordStoppedWriter
  \/ LeaveWorkload \/ EnsurePlacementToken \/ ReconcileStatefulSet
  \/ DeleteStatefulSet \/ LetAgentGo

\* Those steps leave the Pod, its nodes and its processes as they are.
LEMMA ReconcileKeepsPod ==
  ASSUME ReadsOrRecords
  PROVE  UNCHANGED <<pod, cache, created, node, tainted, told, proc>>
BY DEF ReadsOrRecords, Reconcile, FenceNothingToDo, FencePlacement, FenceEvidence,
  RecordRunningWriter, RecordEvidence, MintPlacementToken, RecordStoppedWriter,
  LeaveWorkload, EnsurePlacementToken, ReconcileStatefulSet, DeleteStatefulSet,
  LetAgentGo, clusterVars

\* With the Pod and the nodes as they were, what they say stays so.
LEMMA FrameKeeps ==
  ASSUME UNCHANGED <<pod, cache, created, node, tainted, told, proc>>
  PROVE  /\ OnePod => OnePod'
         /\ ReportsHold => ReportsHold'
         /\ \A u \in Uids : Quiet(u) <=> Quiet(u)'
<1> USE DEF Running, Quiet, Contact
<1>1. OnePod => OnePod'
  BY DEF OnePod
<1>2. ReportsHold => ReportsHold'
  BY DEF ReportsHold
<1>3. \A u \in Uids : Quiet(u) <=> Quiet(u)'
  OBVIOUS
<1> QED BY <1>1, <1>2, <1>3

\* The evidence a reconcile acts on means that the Pod has stopped for good.
LEMMA EvidenceMeansQuiet ==
  ASSUME Sound, TypeOK, FenceInv, pod.uid # 0, pod.deleting, Evidence(pod)
  PROVE  Quiet(pod.uid)
<1>0. pod.uid \in Uids
  BY DEF TypeOK, PodObject
<1>1. CASE Unassigned(pod)
  BY <1>0, <1>1 DEF Unassigned, Quiet, FenceInv, OnePod
<1>2. CASE ~Unassigned(pod)
  <2>1. NodeKnown(pod) /\ WritersStopped(pod)
    BY <1>2 DEF Evidence
  <2>2. Contact(pod.uid)
    BY <1>0, <1>2, <2>1 DEF TypeOK, Unassigned, NodeKnown, Contact
  <2>3. pod.uid \in told
    BY <2>2 DEF FenceInv, ReportsHold
  <2>4. CASE NeverCreatedCounts(pod)
    BY <2>4 DEF NeverCreatedCounts, FenceInv, ReportsHold
  <2>5. CASE ~NeverCreatedCounts(pod)
    <3>1. \A w \in Writers : pod.status[w] \in Exited
      BY <2>1, <2>5 DEF WritersStopped
    <3> QED BY <2>2, <2>3, <3>1 DEF FenceInv, ReportsHold, Quiet, Running, Contact, Exited
  <2> QED BY <2>4, <2>5
<1> QED BY <1>1, <1>2

\* What a reconcile step that leaves the Pod alone does to the records.
LEMMA RecordSteps ==
  ASSUME TypeOK, ReadsOrRecords, cache = pod
  PROVE  /\ \/ stopped' = stopped
            \/ op.pc = "record" /\ stopped'.pod = op.uid
         /\ \/ op'.pc \notin {"record", "mint", "writer", "release"}
            \/ /\ op'.pc = "record" /\ op'.uid = pod.uid
               /\ pod.uid # 0 /\ pod.deleting /\ pod.fin /\ Evidence(pod)
               /\ UNCHANGED <<stopped, token>>
            \/ /\ op'.uid = op.uid
               /\ \/ op.pc = "record" /\ op'.pc = "mint" /\ stopped'.pod = op.uid
                  \/ op.pc = "record" /\ op'.pc = "writer" /\ ~AdapterBuilt /\ stopped'.pod = op.uid
                  \/ op.pc = "mint" /\ op'.pc = "writer" /\ token'.there /\ token'.prev = op.uid /\ stopped' = stopped
                  \/ op.pc = "writer" /\ op'.pc = "release" /\ UNCHANGED <<stopped, token>>
         /\ \/ op.pc = "mint" /\ token'.there /\ token'.prev = op.uid
            \/ AdapterBuilt /\ token.there => token' = token
<1>0. op \in Operation
  BY DEF TypeOK
<1>1. \A s : [op EXCEPT !.pc = s].pc = s /\ [op EXCEPT !.pc = s].uid = op.uid
  BY <1>0 DEF Operation
<1>2. Idle.pc = "idle"
  BY DEF Idle
<1> USE <1>0, <1>1, <1>2 DEF At, Goto
<1>a. CASE Reconcile
  BY <1>a DEF Reconcile, Idle
<1>b. CASE FenceNothingToDo
  <2>1. op'.pc = AfterFence
    BY <1>b DEF FenceNothingToDo, Operation
  <2> QED BY <1>b, <2>1 DEF FenceNothingToDo, AfterFence
<1>c. CASE FencePlacement
  <2>1. op'.pc = "claimWriter"
    BY <1>c DEF FencePlacement, Operation
  <2> QED BY <1>c, <2>1 DEF FencePlacement
<1>d. CASE FenceEvidence
  <2>1. op'.pc = "record" /\ op'.uid = pod.uid
    BY <1>d DEF FenceEvidence, Operation
  <2> QED BY <1>d, <2>1 DEF FenceEvidence
<1>e. CASE RecordRunningWriter
  BY <1>e DEF RecordRunningWriter
<1>f. CASE RecordEvidence
  BY <1>f DEF RecordEvidence
<1>g. CASE MintPlacementToken
  BY <1>g DEF MintPlacementToken
<1>h. CASE RecordStoppedWriter
  BY <1>h DEF RecordStoppedWriter
<1>i. CASE LeaveWorkload
  BY <1>i DEF LeaveWorkload
<1>j. CASE EnsurePlacementToken
  BY <1>j DEF EnsurePlacementToken
<1>k. CASE ReconcileStatefulSet \/ DeleteStatefulSet \/ LetAgentGo
  BY <1>k DEF ReconcileStatefulSet, DeleteStatefulSet, LetAgentGo
<1> QED BY <1>a, <1>b, <1>c, <1>d, <1>e, <1>f, <1>g, <1>h, <1>i, <1>j, <1>k DEF ReadsOrRecords

\* A reconcile step that leaves the Pod alone keeps the invariant.
LEMMA ReadsOrRecordsKeep ==
  ASSUME Sound, TypeOK, FenceInv, ReadsOrRecords
  PROVE  FenceInv'
<1>0. UNCHANGED <<pod, cache, created, node, tainted, told, proc>>
  BY ReconcileKeepsPod
<1>1. OnePod' /\ ReportsHold' /\ (\A u \in Uids : Quiet(u) <=> Quiet(u)')
  BY <1>0, FrameKeeps DEF FenceInv
<1>2. /\ pod.uid \in Uids \cup {0} /\ op.uid \in Uids \cup {0}
      /\ stopped.pod \in Uids \cup {0} /\ created \in Uids \cup {0}
  BY DEF TypeOK, PodObject, Operation, WriterStopped
<1>3. cache = pod /\ pod.uid \in {0, created}
  BY DEF FenceInv, OnePod
<1>4. pod.uid # 0 /\ pod.deleting /\ Evidence(pod) => Quiet(pod.uid)
  BY EvidenceMeansQuiet
<1>5. \A u : pod.uid # 0 /\ pod.deleting /\ Quiet(pod.uid) /\ u = pod.uid => Still(u)'
  BY <1>0, <1>1, <1>2 DEF Still
<1>6. \A u \in Uids : Still(u) => Still(u)'
  BY <1>0, <1>1 DEF Still
<1>7. StoppedForGood'
  <2>1. /\ \A u \in Uids : u <= created' /\ u # pod'.uid => Quiet(u)'
        /\ pod'.uid # 0 /\ ~pod'.fin => Quiet(pod.uid)'
    BY <1>0, <1>1, <1>2 DEF FenceInv, StoppedForGood
  <2>2. stopped'.pod # 0 => stopped'.pod <= created' /\ Still(stopped.pod)'
    <3>1. CASE stopped' = stopped
      BY <3>1, <1>0, <1>2, <1>6 DEF FenceInv, StoppedForGood, Still, Quiet, Running
    <3>2. CASE op.pc = "record" /\ stopped'.pod = op.uid
      <4>1. op.uid = pod.uid /\ pod.uid # 0 /\ pod.deleting /\ Quiet(pod.uid)
        BY <3>2 DEF FenceInv, StoppedForGood
      <4>2. Still(stopped.pod)'
        BY <4>1, <3>2, <1>0, <1>1, <1>2 DEF Still, Quiet, Running
      <4>3. op.uid <= created
        BY <4>1, <1>2, <1>3, FenceAssumption DEF Uids
      <4> QED BY <4>2, <4>3, <3>2, <1>0
    <3> QED BY <3>1, <3>2, <1>3, RecordSteps
  <2>3. op'.pc \in {"record", "mint", "writer", "release"} =>
          /\ op'.uid # 0 /\ op'.uid = pod'.uid
          /\ pod'.fin /\ pod'.deleting /\ Quiet(pod.uid)'
    BY <1>0, <1>1, <1>2, <1>3, <1>4, RecordSteps DEF FenceInv, StoppedForGood
  <2> QED BY <2>1, <2>2, <2>3 DEF StoppedForGood
<1>8. RecordsInOrder'
  BY <1>0, <1>2, <1>3, RecordSteps DEF FenceInv, StoppedForGood, RecordsInOrder, Minted
<1> QED BY <1>1, <1>7, <1>8 DEF FenceInv

--------------------------------------------------------------------------------
\* What a step that makes no Pod must show to keep the invariant: the nodes and
\* the reports hold together, and what is Still stays quiet.
PodStep ==
  /\ UNCHANGED <<created, stopped, token>>
  /\ cache' = pod'
  /\ \/ pod'.uid = pod.uid
     \/ /\ pod.uid # 0 /\ pod'.uid = 0
        /\ stopped.pod = pod.uid /\ Minted(pod.uid)
        /\ \A u \in Uids : u = pod.uid => Quiet(u)'
  /\ pod'.uid # 0 =>
       /\ pod.deleting => pod'.deleting
       /\ pod'.terminal \/ ~pod'.fin => pod'.deleting
       /\ ~pod'.fin => stopped.pod = pod.uid /\ Minted(pod.uid) /\ Quiet(pod.uid)'
  /\ \A u \in Uids : (u > created => node'[u] = "none") /\ (node'[u] = "none" => ~Running(u)')
  /\ \A u \in Uids : u <= created /\ Still(u) => Quiet(u)'
  /\ ReportsHold'
  /\ op'.pc \in {"record", "mint", "writer", "release"} =>
       op' = op /\ pod'.uid = pod.uid /\ pod'.fin

\* A PodStep keeps the invariant.
LEMMA PodStepKeeps ==
  ASSUME TypeOK, TypeOK', FenceInv, PodStep PROVE FenceInv'
<1>0. /\ pod.uid \in Uids \cup {0} /\ op.uid \in Uids \cup {0}
      /\ stopped.pod \in Uids \cup {0} /\ created \in Uids \cup {0}
      /\ pod'.uid \in Uids \cup {0}
  BY DEF TypeOK, PodObject, Operation, WriterStopped
<1>1. Uids \subseteq Nat /\ 0 \notin Uids
  BY FenceAssumption DEF Uids
<1>2. pod.uid \in {0, created} /\ pod'.uid \in {0, pod.uid}
  BY <1>0 DEF PodStep, FenceInv, OnePod
<1>3. OnePod'
  BY <1>2 DEF PodStep, OnePod
<1>4. \A u \in Uids : u <= created /\ u # pod.uid => Quiet(u)'
  BY DEF PodStep, FenceInv, StoppedForGood, Still
<1>5. \A u \in Uids : u <= created' /\ u # pod'.uid => Quiet(u)'
  <2>1. CASE pod'.uid = pod.uid
    BY <2>1, <1>4 DEF PodStep
  <2>2. CASE pod'.uid # pod.uid
    <3>1. \A u \in Uids : u = pod.uid => Quiet(u)'
      BY <2>2 DEF PodStep
    <3> QED BY <3>1, <1>4 DEF PodStep
  <2> QED BY <2>1, <2>2
<1>6. stopped'.pod # 0 => stopped'.pod <= created' /\ Still(stopped.pod)'
  <2> SUFFICES ASSUME stopped.pod # 0
               PROVE  stopped.pod <= created /\ Still(stopped.pod)'
    BY DEF PodStep
  <2>1. stopped.pod <= created /\ Still(stopped.pod)
    BY DEF FenceInv, StoppedForGood
  <2>2. \A u \in Uids : u = stopped.pod => Quiet(u)'
    BY <2>1 DEF PodStep
  <2>3. Quiet(stopped.pod)'
    BY <2>2, <1>0 DEF PodStep, Quiet, Running
  <2>4. pod'.uid = stopped'.pod => pod'.deleting
    BY <2>1, <1>0, <1>1, <1>2 DEF PodStep, Still
  <2> QED BY <2>1, <2>3, <2>4 DEF Still
<1>7. op'.pc \in {"record", "mint", "writer", "release"} =>
        /\ op'.uid # 0 /\ op'.uid = pod'.uid
        /\ pod'.fin /\ pod'.deleting /\ Quiet(pod.uid)'
  <2> SUFFICES ASSUME op'.pc \in {"record", "mint", "writer", "release"}
               PROVE  /\ op'.uid # 0 /\ op'.uid = pod'.uid
                      /\ pod'.fin /\ pod'.deleting /\ Quiet(pod.uid)'
    OBVIOUS
  <2>1. op' = op /\ pod'.uid = pod.uid /\ pod'.fin
    BY DEF PodStep
  <2>2. op.uid # 0 /\ op.uid = pod.uid /\ pod.deleting /\ Quiet(pod.uid)
    BY <2>1 DEF FenceInv, StoppedForGood
  <2>3. \A u \in Uids : u = pod.uid => Quiet(u)'
    BY <2>2, <1>0, <1>1, <1>2 DEF PodStep, Still
  <2>4. Quiet(pod.uid)'
    BY <2>1, <2>2, <2>3, <1>0 DEF Quiet, Running
  <2> QED BY <2>1, <2>2, <2>4 DEF PodStep
<1>8. pod'.uid # 0 /\ ~pod'.fin => Quiet(pod.uid)'
  BY DEF PodStep
<1>9. StoppedForGood'
  BY <1>5, <1>6, <1>7, <1>8 DEF StoppedForGood
<1>10. RecordsInOrder'
  <2>1. \A u : Minted(u) => Minted(u)'
    BY DEF PodStep, Minted
  <2>2. op'.pc \in {"mint", "writer", "release"} => stopped'.pod = op'.uid
    BY DEF PodStep, FenceInv, RecordsInOrder
  <2>3. op'.pc \in {"writer", "release"} => Minted(op.uid)'
    BY DEF PodStep, FenceInv, RecordsInOrder, Minted
  <2>4. pod'.uid # 0 /\ ~pod'.fin => stopped'.pod = pod'.uid /\ Minted(pod.uid)'
    BY <1>2 DEF PodStep, Minted
  <2>5. pod'.uid = 0 /\ created' > 0 => stopped'.pod = created' /\ Minted(created)'
    BY <1>2 DEF PodStep, FenceInv, RecordsInOrder, Minted
  <2>6. pod'.uid > 1 => /\ stopped'.pod \in {pod'.uid - 1, pod'.uid}
                        /\ Minted(pod.uid - 1)' \/ Minted(pod.uid)'
    BY <1>0, <1>1, <1>2 DEF PodStep, FenceInv, RecordsInOrder, Minted
  <2> QED BY <2>2, <2>3, <2>4, <2>5, <2>6 DEF RecordsInOrder
<1> QED BY <1>3, <1>9, <1>10 DEF FenceInv, PodStep

\* A Pod no longer held is Still, and has its records.
LEMMA UnheldIsStill ==
  ASSUME TypeOK, FenceInv, pod.uid # 0, ~pod.fin
  PROVE  Still(pod.uid) /\ pod.uid <= created /\ stopped.pod = pod.uid /\ Minted(pod.uid)
<1>1. pod.uid = created /\ created \in Nat
  BY FenceAssumption DEF FenceInv, OnePod, TypeOK, Uids
<1>2. Still(pod.uid)
  BY DEF FenceInv, OnePod, StoppedForGood, Still
<1> QED BY <1>1, <1>2 DEF FenceInv, RecordsInOrder

\* A step that writes the Pod is a PodStep where what it writes, with the nodes
\* and the processes after it, still holds together.
LEMMA EditIsPodStep ==
  ASSUME Sound, TypeOK, FenceInv, NEW p \in PodObject, pod.uid # 0, p.uid = pod.uid,
         SetPod(p), UNCHANGED <<created, stopped, token>>,
         pod.deleting => p.deleting,
         p.terminal => p.deleting,
         p.fin = pod.fin,
         \A u \in Uids : (u > created => node'[u] = "none") /\ (node'[u] = "none" => ~Running(u)'),
         \A u \in Uids : u <= created /\ Still(u) => Quiet(u)',
         \A u \in tainted' : u \in told' /\ ~Running(u)',
         node'[p.uid] \in {"ready", "notready"} /\ p.deleting => p.uid \in told',
         node'[p.uid] \notin {"unknown", "gone"} =>
           \A w \in Writers : p.status[w] \in Exited => proc'[p.uid][w] \in Exited,
         p.terminal /\ ~p.disrupted => \A u \in Uids : u = p.uid => Quiet(u)',
         op' = op \/ op'.pc \notin {"record", "mint", "writer", "release"}
  PROVE  PodStep
<1>0. pod.uid \in Uids
  BY DEF TypeOK, PodObject
<1>1. pod' = Settled(p) /\ cache' = pod'
  BY SetPodSound
<1>2. NoPod.uid = 0
  BY DEF NoPod, NewPod
<1>3. pod' = p \/ (~p.fin /\ pod' = NoPod)
  BY <1>1 DEF Settled
<1>4. ~p.fin => /\ stopped.pod = pod.uid /\ Minted(pod.uid)
                /\ \A u \in Uids : u = pod.uid => Quiet(u)'
  BY <1>0, UnheldIsStill
<1>5. ReportsHold'
  <2>1. CASE pod' = p
    <3>1. p.terminal /\ ~p.disrupted => Quiet(pod.uid)'
      BY <1>0, <2>1 DEF Quiet, Running
    <3> QED BY <1>0, <2>1, <3>1 DEF ReportsHold, Contact, Running
  <2>2. CASE pod' = NoPod
    BY <2>2, <1>2 DEF ReportsHold
  <2> QED BY <2>1, <2>2, <1>3
<1>6. ~p.fin => p.deleting
  BY DEF FenceInv, OnePod
<1>7. pod'.uid # 0 =>
       /\ pod.deleting => pod'.deleting
       /\ pod'.terminal \/ ~pod'.fin => pod'.deleting
       /\ ~pod'.fin => stopped.pod = pod.uid /\ Minted(pod.uid) /\ Quiet(pod.uid)'
  <2> SUFFICES ASSUME pod'.uid # 0
               PROVE  /\ pod.deleting => p.deleting
                      /\ p.terminal \/ ~p.fin => p.deleting
                      /\ ~p.fin => stopped.pod = pod.uid /\ Minted(pod.uid) /\ Quiet(pod.uid)'
    BY <1>2, <1>3
  <2>1. pod' = p
    BY <1>2, <1>3
  <2>2. ~p.fin => Quiet(pod.uid)'
    BY <2>1, <1>0, <1>4 DEF Quiet, Running
  <2> QED BY <2>2, <1>4, <1>6
<1>8. \/ pod'.uid = pod.uid
      \/ /\ pod.uid # 0 /\ pod'.uid = 0
         /\ stopped.pod = pod.uid /\ Minted(pod.uid)
         /\ \A u \in Uids : u = pod.uid => Quiet(u)'
  BY <1>2, <1>3, <1>4
<1>9. op'.pc \in {"record", "mint", "writer", "release"} =>
       op' = op /\ pod'.uid = pod.uid /\ pod'.fin
  BY <1>3 DEF FenceInv, StoppedForGood
<1> QED BY <1>1, <1>5, <1>7, <1>8, <1>9 DEF PodStep

\* A step that leaves the Pod alone is a PodStep on fewer conditions.
LEMMA NoEditIsPodStep ==
  ASSUME TypeOK, FenceInv, UNCHANGED <<pod, cache, created, stopped, token>>,
         \A u \in Uids : (u > created => node'[u] = "none") /\ (node'[u] = "none" => ~Running(u)'),
         \A u \in Uids : u <= created /\ Still(u) => Quiet(u)',
         \A u \in tainted' : u \in told' /\ ~Running(u)',
         pod.uid # 0 => 
           /\ node'[pod.uid] \in {"ready", "notready"} /\ pod.deleting => pod.uid \in told'
           /\ node'[pod.uid] \notin {"unknown", "gone"} =>
                \A w \in Writers : pod.status[w] \in Exited => proc'[pod.uid][w] \in Exited,
         op' = op \/ op'.pc \notin {"record", "mint", "writer", "release"}
  PROVE  PodStep
<1>0. pod.uid \in Uids \cup {0} /\ created \in Nat /\ pod.uid \in {0, created} /\ 0 \notin Uids
  BY FenceAssumption DEF TypeOK, PodObject, FenceInv, OnePod, Uids
<1>1. pod.uid # 0 /\ pod.deleting /\ Quiet(pod.uid) => Quiet(pod.uid)'
  <2>1. \A u \in Uids : u = pod.uid /\ pod.deleting /\ Quiet(pod.uid) => Quiet(u)'
    BY <1>0 DEF Still
  <2> QED BY <2>1, <1>0 DEF Quiet, Running
<1>2. pod.uid # 0 /\ ~pod.fin =>
        stopped.pod = pod.uid /\ Minted(pod.uid) /\ pod.deleting /\ Quiet(pod.uid)'
  BY <1>1, UnheldIsStill DEF Still, FenceInv, OnePod
<1>3. pod.uid # 0 /\ pod.terminal => pod.deleting
  BY DEF FenceInv, OnePod
<1>4. ReportsHold'
  <2>1. pod.uid # 0 /\ pod.terminal /\ ~pod.disrupted => Quiet(pod.uid)'
    BY <1>1, <1>3 DEF FenceInv, ReportsHold
  <2> QED BY <2>1 DEF ReportsHold, Contact, Running
<1>5. op'.pc \in {"record", "mint", "writer", "release"} =>
       op' = op /\ pod'.uid = pod.uid /\ pod'.fin
  BY DEF FenceInv, StoppedForGood
<1>6. cache' = pod'
  BY DEF FenceInv, OnePod
<1> QED BY <1>2, <1>3, <1>4, <1>5, <1>6 DEF PodStep

--------------------------------------------------------------------------------
\* With the nodes and the processes as they were, Still means quiet.
LEMMA NodesSame ==
  ASSUME TypeOK, FenceInv, UNCHANGED <<created, node, tainted, told, proc>>
  PROVE  /\ \A u \in Uids : (u > created => node'[u] = "none") /\ (node'[u] = "none" => ~Running(u)')
         /\ \A u \in Uids : u <= created /\ Still(u) => Quiet(u)'
         /\ \A u \in tainted' : u \in told' /\ ~Running(u)'
BY DEF FenceInv, OnePod, ReportsHold, Still, Quiet, Running

\* Reading of the Pod that a step leaves alone.
LEMMA ReportsSame ==
  ASSUME FenceInv, pod.uid # 0, UNCHANGED <<node, told, proc>>
  PROVE  /\ node'[pod.uid] \in {"ready", "notready"} /\ pod.deleting => pod.uid \in told'
         /\ node'[pod.uid] \notin {"unknown", "gone"} =>
              \A w \in Writers : pod.status[w] \in Exited => proc'[pod.uid][w] \in Exited
BY DEF FenceInv, ReportsHold, Contact

\* recordPlacement writes its annotation on the Pod it read.
LEMMA AnnotatePodKeeps ==
  ASSUME Sound, TypeOK, TypeOK', FenceInv, AnnotatePod PROVE FenceInv'
<1>0. UNCHANGED <<created, node, tainted, told, proc, stopped, token>>
  BY DEF AnnotatePod, clusterVars
<1>1. op'.pc \notin {"record", "mint", "writer", "release"}
  BY DEF AnnotatePod, Goto, AfterFence, TypeOK, Operation, Idle
<1>2. CASE pod.uid = 0
  <2>1. UNCHANGED <<pod, cache>>
    BY <1>2 DEF AnnotatePod
  <2> QED BY <1>0, <1>1, <1>2, <2>1, NodesSame, NoEditIsPodStep, PodStepKeeps
<1>3. CASE pod.uid # 0
  <2> DEFINE p == [pod EXCEPT !.pvc = op.pvc]
  <2>1. SetPod(p)
    BY <1>3 DEF AnnotatePod
  <2>2. /\ p \in PodObject /\ p.uid = pod.uid /\ p.deleting = pod.deleting
        /\ p.terminal = pod.terminal /\ p.fin = pod.fin /\ p.status = pod.status
        /\ p.disrupted = pod.disrupted
    BY DEF TypeOK, PodObject, Operation
  <2>3. pod.terminal => pod.deleting
    BY <1>3 DEF FenceInv, OnePod
  <2>4. pod.terminal /\ ~pod.disrupted => \A u \in Uids : u = pod.uid => Quiet(u)'
    BY <1>0, <1>3 DEF FenceInv, ReportsHold, Quiet, Running
  <2> HIDE DEF p
  <2>5. PodStep
    BY <1>0, <1>1, <1>3, <2>1, <2>2, <2>3, <2>4, NodesSame, ReportsSame, EditIsPodStep
  <2> QED BY <2>5, PodStepKeeps
<1> QED BY <1>2, <1>3

\* releaseFence takes the finalizer off the Pod whose evidence it recorded.
LEMMA ReleasePodKeeps ==
  ASSUME Sound, TypeOK, TypeOK', FenceInv, ReleasePod PROVE FenceInv'
<1>0. UNCHANGED <<created, node, tainted, told, proc, stopped, token>>
  BY DEF ReleasePod, clusterVars
<1>1. op'.pc \notin {"record", "mint", "writer", "release"}
  BY DEF ReleasePod, Goto, AfterFence, TypeOK, Operation
<1>2. /\ pod.uid # 0 /\ op.uid = pod.uid /\ pod.deleting /\ Quiet(pod.uid)
      /\ stopped.pod = pod.uid /\ Minted(pod.uid)
  BY DEF ReleasePod, At, FenceInv, StoppedForGood, RecordsInOrder
<1> DEFINE p == [pod EXCEPT !.fin = FALSE]
<1>3. /\ p.uid = pod.uid /\ p.deleting = pod.deleting /\ p.terminal = pod.terminal
      /\ p.status = pod.status /\ p.disrupted = pod.disrupted /\ ~p.fin
  BY DEF TypeOK, PodObject
<1>4. pod' = Settled(p) /\ cache' = pod'
  BY <1>2, SetPodSound DEF ReleasePod
<1> HIDE DEF p
<1>5. pod' = p \/ pod' = NoPod
  BY <1>4 DEF Settled
<1>6. NoPod.uid = 0
  BY DEF NoPod, NewPod
<1>7. \A u \in Uids : u = pod.uid => Quiet(u)'
  BY <1>0, <1>2 DEF Quiet, Running
<1>8. pod' = p => Quiet(pod.uid)'
  BY <1>0, <1>2, <1>3 DEF Quiet, Running
<1>9. ReportsHold'
  BY <1>0, <1>2, <1>3, <1>5, <1>6, <1>8, NodesSame, ReportsSame DEF ReportsHold, Contact
<1>10. PodStep
  BY <1>0, <1>1, <1>2, <1>3, <1>4, <1>5, <1>6, <1>7, <1>8, <1>9, NodesSame DEF PodStep
<1> QED BY <1>10, PodStepKeeps

\* A reconcile cut short, and what people do: the Pod, its node and the records
\* stay as they are.  The cache never differs, and nobody takes a finalizer off.
LEMMA AsidesKeep ==
  ASSUME Sound, TypeOK, TypeOK', FenceInv, CutShort \/ CacheSync \/ People
  PROVE  FenceInv'
<1>0. ~CacheSync /\ ~ReleaseByHand
  BY SoundEnvironment DEF CacheSync, ReleaseByHand, FenceInv, OnePod
<1>1. UNCHANGED <<pod, cache, created, node, tainted, told, proc, stopped, token>>
  BY <1>0 DEF CutShort, People, DeleteAgent, ChangeHeld, DeleteClaim, MakeClaimAgain, clusterVars
<1>2. op' = op \/ op'.pc \notin {"record", "mint", "writer", "release"}
  BY <1>0 DEF CutShort, People, DeleteAgent, ChangeHeld, DeleteClaim, MakeClaimAgain, Idle
<1> QED BY <1>1, <1>2, NodesSame, ReportsSame, NoEditIsPodStep, PodStepKeeps

\* A Pod is created only where the one before it has stopped for good.
LEMMA CreatePodKeeps ==
  ASSUME Sound, TypeOK, TypeOK', FenceInv, CreatePod PROVE FenceInv'
<1>0. /\ UNCHANGED <<node, tainted, told, proc, stopped, token, op>>
      /\ pod.uid = 0 /\ created' = created + 1
  BY DEF CreatePod
<1>1. created \in Nat /\ created + 1 \in Uids /\ 0 \notin Uids /\ Uids \subseteq Nat
  BY FenceAssumption DEF CreatePod, TypeOK, Uids
<1>2. /\ NewPod(created + 1).uid = created + 1 /\ NewPod(created + 1).fin = TRUE
      /\ NewPod(created + 1).deleting = FALSE /\ NewPod(created + 1).terminal = FALSE
      /\ \A w \in Writers : NewPod(created + 1).status[w] = "absent"
  BY DEF NewPod
<1>3. pod' = NewPod(created + 1) /\ cache' = pod'
  BY <1>2, SetPodSound DEF CreatePod, Settled
<1>4. \A u \in Uids : u <= created => Quiet(u)'
  BY <1>0, <1>1 DEF FenceInv, StoppedForGood, Quiet, Running
<1>5. node[created + 1] = "none"
  BY <1>1 DEF FenceInv, OnePod
<1>6. op'.pc \notin {"record", "mint", "writer", "release"}
  BY <1>0 DEF FenceInv, StoppedForGood
<1>7. stopped.pod \in Uids \cup {0}
  BY DEF TypeOK, WriterStopped
<1>8. OnePod'
  BY <1>0, <1>1, <1>2, <1>3 DEF FenceInv, OnePod, Running
<1>9. ReportsHold'
  BY <1>0, <1>2, <1>3, <1>5 DEF FenceInv, ReportsHold, Contact, Running, Exited
<1>10. StoppedForGood'
  <2>1. \A u \in Uids : u <= created' /\ u # pod'.uid => Quiet(u)'
    <3>1. \A u \in Uids : u <= created + 1 /\ u # created + 1 => u <= created
      BY <1>1, FenceAssumption DEF Uids
    <3> QED BY <3>1, <1>0, <1>2, <1>3, <1>4
  <2>2. stopped'.pod # 0 => stopped'.pod <= created' /\ Still(stopped.pod)'
    <3> SUFFICES ASSUME stopped.pod # 0 PROVE stopped.pod <= created + 1 /\ Still(stopped.pod)'
      BY <1>0
    <3>1. stopped.pod <= created /\ stopped.pod \in Uids
      BY <1>7 DEF FenceInv, StoppedForGood
    <3>2. Quiet(stopped.pod)'
      BY <3>1, <1>0, <1>4 DEF Quiet, Running
    <3>3. stopped'.pod # pod'.uid
      BY <3>1, <1>0, <1>1, <1>2, <1>3
    <3>4. stopped.pod <= created + 1
      BY <3>1, <1>1, FenceAssumption DEF Uids
    <3> QED BY <3>2, <3>3, <3>4 DEF Still
  <2> QED BY <2>1, <2>2, <1>2, <1>3, <1>6 DEF StoppedForGood
<1>11. RecordsInOrder'
  <2>1. created > 0 => stopped.pod = created /\ Minted(created)
    BY <1>0 DEF FenceInv, RecordsInOrder
  <2>2. pod'.uid > 1 => /\ stopped'.pod \in {pod'.uid - 1, pod'.uid}
                        /\ Minted(pod.uid - 1)' \/ Minted(pod.uid)'
    BY <2>1, <1>0, <1>1, <1>2, <1>3 DEF Minted
  <2> QED BY <2>2, <1>1, <1>2, <1>3, <1>6 DEF RecordsInOrder
<1> QED BY <1>8, <1>9, <1>10, <1>11 DEF FenceInv

\* Only a Pod that is not deleting is given a node: no quiet Pod is woken.
LEMMA ScheduleKeeps ==
  ASSUME TypeOK, TypeOK', FenceInv, Schedule PROVE FenceInv'
<1>0. UNCHANGED <<pod, cache, created, stopped, token, tainted, told, proc, op>>
  BY DEF Schedule
<1>1. pod.uid \in Uids /\ pod.uid = created /\ created \in Nat
  BY FenceAssumption DEF Schedule, TypeOK, PodObject, FenceInv, OnePod, Uids
<1>2. \A u \in Uids : node'[u] = IF u = pod.uid THEN "ready" ELSE node[u]
  BY <1>1 DEF Schedule, TypeOK
<1>3. \A u \in Uids : (u > created => node'[u] = "none") /\ (node'[u] = "none" => ~Running(u)')
  BY <1>0, <1>1, <1>2 DEF FenceInv, OnePod, Running
<1>4. ~pod.deleting /\ node[pod.uid] = "none"
  BY DEF Schedule
<1>5. \A u \in Uids : u <= created /\ Still(u) => Quiet(u)'
  <2> SUFFICES ASSUME NEW u \in Uids, Still(u) PROVE Quiet(u)'
    OBVIOUS
  <2>1. u # pod.uid /\ Quiet(u)
    BY <1>4 DEF Still
  <2> QED BY <2>1, <1>0, <1>2 DEF Quiet, Running
<1>6. \A u \in tainted' : u \in told' /\ ~Running(u)'
  BY <1>0 DEF FenceInv, ReportsHold, Running
<1>7. \A w \in Writers : pod.status[w] \in Exited => proc'[pod.uid][w] \in Exited
  BY <1>0, <1>1, <1>4 DEF FenceInv, ReportsHold, TypeOK, PodObject, Uids
<1>8. PodStep
  BY <1>0, <1>3, <1>4, <1>5, <1>6, <1>7, NoEditIsPodStep
<1> QED BY <1>8, PodStepKeeps

\* The parts of the invariant that nodes, kubelets and deletions can disturb,
\* where no node is given and what runs only becomes less.
LEMMA Calmer ==
  ASSUME TypeOK, FenceInv, UNCHANGED <<created>>, told \subseteq told',
         \A u \in Uids : (node'[u] = "none") <=> (node[u] = "none"),
         \A u \in Uids : ~Running(u) => ~Running(u)'
  PROVE  /\ \A u \in Uids : (u > created => node'[u] = "none") /\ (node'[u] = "none" => ~Running(u)')
         /\ \A u \in Uids : Quiet(u) => Quiet(u)'
         /\ \A u \in Uids : u <= created /\ Still(u) => Quiet(u)'
<1>1. \A u \in Uids : Quiet(u) => Quiet(u)'
  BY DEF Quiet
<1> QED BY <1>1 DEF FenceInv, OnePod, Still

\* A deletion reaches a kubelet in contact, and wakes nothing.
LEMMA MarkDeletedKeeps ==
  ASSUME Sound, TypeOK, TypeOK', FenceInv, pod.uid # 0, NEW forced \in BOOLEAN,
         MarkDeleted(forced)
  PROVE  FenceInv'
<1>0. UNCHANGED <<created, node, tainted, proc, stopped, token, op>>
  BY DEF MarkDeleted
<1>1. told' = IF Contact(pod.uid) THEN told \cup {pod.uid} ELSE told
  BY SoundEnvironment DEF MarkDeleted
<1> DEFINE p == [pod EXCEPT !.deleting = TRUE,
                            !.final = pod.final \/ forced \/ node[pod.uid] = "none"]
<1>2. SetPod(p)
  BY DEF MarkDeleted
<1>3. /\ p \in PodObject /\ p.uid = pod.uid /\ p.deleting /\ p.terminal = pod.terminal
      /\ p.fin = pod.fin /\ p.status = pod.status /\ p.disrupted = pod.disrupted
  <2>1. (pod.final \/ forced \/ node[pod.uid] = "none") \in BOOLEAN
    BY DEF TypeOK, PodObject
  <2> QED BY <2>1 DEF TypeOK, PodObject
<1> HIDE DEF p
<1>4. \A u \in Uids : Running(u)' <=> Running(u)
  BY <1>0 DEF Running
<1>5. /\ \A u \in Uids : (u > created => node'[u] = "none") /\ (node'[u] = "none" => ~Running(u)')
      /\ \A u \in Uids : Quiet(u) => Quiet(u)'
      /\ \A u \in Uids : u <= created /\ Still(u) => Quiet(u)'
  BY <1>0, <1>1, <1>4, Calmer
<1>6. \A u \in tainted' : u \in told' /\ ~Running(u)'
  BY <1>0, <1>1 DEF FenceInv, ReportsHold, Running
<1>7. node'[p.uid] \in {"ready", "notready"} => p.uid \in told'
  BY <1>0, <1>1, <1>3 DEF Contact
<1>8. node'[p.uid] \notin {"unknown", "gone"} =>
        \A w \in Writers : p.status[w] \in Exited => proc'[p.uid][w] \in Exited
  BY <1>0, <1>3 DEF FenceInv, ReportsHold
<1>9. p.terminal /\ ~p.disrupted => \A u \in Uids : u = p.uid => Quiet(u)'
  BY <1>3, <1>5 DEF FenceInv, ReportsHold
<1>10. PodStep
  BY <1>0, <1>2, <1>3, <1>5, <1>6, <1>7, <1>8, <1>9, EditIsPodStep
<1> QED BY <1>10, PodStepKeeps

\* The pod garbage collector takes no finalizer off.
LEMMA PodGCKeeps ==
  ASSUME Sound, TypeOK, TypeOK', FenceInv, PodGC PROVE FenceInv'
<1>0. UNCHANGED <<created, node, tainted, told, proc, stopped, token, op>> /\ pod.uid # 0
  BY DEF PodGC
<1> DEFINE p == [pod EXCEPT !.terminal = TRUE, !.deleting = TRUE, !.final = TRUE,
                            !.disrupted = (node[pod.uid] = "gone")]
<1>1. SetPod(p)
  BY DEF PodGC
<1>2. /\ p \in PodObject /\ p.uid = pod.uid /\ p.deleting /\ p.terminal
      /\ p.fin = pod.fin /\ p.status = pod.status
      /\ p.disrupted <=> (node[pod.uid] = "gone")
  BY DEF TypeOK, PodObject
<1> HIDE DEF p
<1>3. node[pod.uid] # "gone" => pod.uid \in tainted
  BY DEF PodGC
<1>4. pod.uid \in tainted => pod.uid \in told /\ Quiet(pod.uid)
  BY DEF FenceInv, ReportsHold, Quiet
<1>5. node'[p.uid] \in {"ready", "notready"} => p.uid \in told'
  BY <1>0, <1>2, <1>3, <1>4
<1>6. node'[p.uid] \notin {"unknown", "gone"} =>
        \A w \in Writers : p.status[w] \in Exited => proc'[p.uid][w] \in Exited
  BY <1>0, <1>2 DEF FenceInv, ReportsHold
<1>7. ~p.disrupted => \A u \in Uids : u = p.uid => Quiet(u)'
  BY <1>0, <1>2, <1>3, <1>4 DEF Quiet, Running
<1>8. PodStep
  BY <1>0, <1>1, <1>2, <1>5, <1>6, <1>7, NodesSame, EditIsPodStep
<1> QED BY <1>8, PodStepKeeps

\* Every step of the control plane keeps the invariant.
LEMMA ControlPlaneKeeps ==
  ASSUME Sound, TypeOK, TypeOK', FenceInv, ControlPlane PROVE FenceInv'
<1>1. ScaleDown => FenceInv'
  BY MarkDeletedKeeps DEF ScaleDown
<1>2. DeletePod => FenceInv'
  BY MarkDeletedKeeps DEF DeletePod
<1> QED BY <1>1, <1>2, CreatePodKeeps, ScheduleKeeps, PodGCKeeps DEF ControlPlane

--------------------------------------------------------------------------------
\* A container starts only in the newest Pod, where it has not stopped for good.
LEMMA StartContainerKeeps ==
  ASSUME Sound, TypeOK, TypeOK', FenceInv, NEW u \in Uids, NEW w \in Writers,
         StartContainer(u, w)
  PROVE  FenceInv'
<1>0. /\ UNCHANGED <<created, node, tainted, told, stopped, token, op>>
      /\ node[u] # "none" /\ u \notin told
  BY DEF StartContainer
<1>1. /\ \A v \in Uids : v # u => proc'[v] = proc[v]
      /\ \A x \in Writers : x # w => proc'[u][x] = proc[u][x]
  BY DEF StartContainer, TypeOK
<1>2. ~Quiet(u) /\ (\A v \in Uids : v # u => (Quiet(v) <=> Quiet(v)') /\ (Running(v) <=> Running(v)'))
  BY <1>0, <1>1 DEF Quiet, Running
<1>3. \A v \in Uids : (v > created => node'[v] = "none") /\ (node'[v] = "none" => ~Running(v)')
  BY <1>0, <1>2 DEF FenceInv, OnePod
<1>4. \A v \in Uids : v <= created /\ Still(v) => Quiet(v)'
  BY <1>2 DEF Still
<1>5. u \notin tainted /\ tainted \subseteq Uids
  BY <1>0 DEF FenceInv, ReportsHold, TypeOK
<1>6. \A v \in tainted' : v \in told' /\ ~Running(v)'
  BY <1>0, <1>2, <1>5 DEF FenceInv, ReportsHold
<1>7. CASE proc[u][w] \in Exited /\ Contact(u) /\ pod.uid = u
  <2> DEFINE p == [pod EXCEPT !.status[w] = "running"]
  <2>1. SetPod(p) /\ pod.uid # 0
    BY <1>7, SoundEnvironment, FenceAssumption DEF StartContainer, Uids
  <2>2. /\ p \in PodObject /\ p.uid = pod.uid /\ p.deleting = pod.deleting
        /\ p.terminal = pod.terminal /\ p.fin = pod.fin /\ p.disrupted = pod.disrupted
    BY DEF TypeOK, PodObject, Reported
  <2>3. p.status[w] = "running" /\ \A x \in Writers : x # w => p.status[x] = pod.status[x]
    BY DEF TypeOK, PodObject
  <2> HIDE DEF p
  <2>4. node'[p.uid] \in {"ready", "notready"} /\ p.deleting => p.uid \in told'
    BY <1>0, <2>1, <2>2 DEF FenceInv, ReportsHold, Contact
  <2>5. node'[p.uid] \notin {"unknown", "gone"} =>
          \A x \in Writers : p.status[x] \in Exited => proc'[p.uid][x] \in Exited
    BY <1>0, <1>1, <1>7, <2>1, <2>2, <2>3 DEF FenceInv, ReportsHold, Exited
  <2>6. pod.terminal /\ ~pod.disrupted => FALSE
    BY <1>2, <1>7, <2>1 DEF FenceInv, ReportsHold
  <2>7. pod.terminal => pod.deleting
    BY <2>1 DEF FenceInv, OnePod
  <2>8. PodStep
    BY <1>0, <1>3, <1>4, <1>6, <2>1, <2>2, <2>4, <2>5, <2>6, <2>7, EditIsPodStep
  <2> QED BY <2>8, PodStepKeeps
<1>8. CASE ~(proc[u][w] \in Exited /\ Contact(u) /\ pod.uid = u)
  <2>1. UNCHANGED <<pod, cache>>
    BY <1>8, SoundEnvironment DEF StartContainer
  <2>2. pod.uid # 0 /\ node'[pod.uid] \in {"ready", "notready"} /\ pod.deleting => pod.uid \in told'
    BY <1>0 DEF FenceInv, ReportsHold, Contact
  <2>3. pod.uid # 0 /\ node'[pod.uid] \notin {"unknown", "gone"} =>
          \A x \in Writers : pod.status[x] \in Exited => proc'[pod.uid][x] \in Exited
    <3>1. pod.uid = u /\ node[u] \notin {"unknown", "gone"} => Contact(u)
      BY <1>0 DEF TypeOK, Contact
    <3>2. pod.uid = u /\ node[u] \notin {"unknown", "gone"} => pod.status[w] \notin Exited
      BY <3>1, <1>8, FenceAssumption DEF FenceInv, ReportsHold, Uids
    <3> QED BY <1>0, <1>1, <3>2 DEF FenceInv, ReportsHold, TypeOK, PodObject
  <2>4. PodStep
    BY <1>0, <1>3, <1>4, <1>6, <2>1, <2>2, <2>3, NoEditIsPodStep
  <2> QED BY <2>4, PodStepKeeps
<1> QED BY <1>7, <1>8

\* An exit takes nothing away that the invariant says of stopped writers.
LEMMA ExitContainerKeeps ==
  ASSUME TypeOK, TypeOK', FenceInv, NEW u \in Uids, NEW w \in Writers, ExitContainer(u, w)
  PROVE  FenceInv'
<1>0. UNCHANGED <<pod, cache, created, node, tainted, told, stopped, token, op>>
  BY DEF ExitContainer
<1>1. PICK code \in Exited : proc' = [proc EXCEPT ![u][w] = code]
  BY DEF ExitContainer, Exited
<1>2. /\ \A v \in Uids : v # u => proc'[v] = proc[v]
      /\ \A x \in Writers : x # w => proc'[u][x] = proc[u][x]
      /\ proc'[u][w] \in Exited
  BY <1>1 DEF TypeOK
<1>3. \A v \in Uids : ~Running(v) => ~Running(v)'
  BY <1>2 DEF Running, Exited
<1>4. /\ \A v \in Uids : (v > created => node'[v] = "none") /\ (node'[v] = "none" => ~Running(v)')
      /\ \A v \in Uids : v <= created /\ Still(v) => Quiet(v)'
  BY <1>0, <1>3, Calmer
<1>5. \A v \in tainted' : v \in told' /\ ~Running(v)'
  BY <1>0, <1>3 DEF FenceInv, ReportsHold, TypeOK
<1>6. pod.uid # 0 =>
        /\ node'[pod.uid] \in {"ready", "notready"} /\ pod.deleting => pod.uid \in told'
        /\ node'[pod.uid] \notin {"unknown", "gone"} =>
             \A x \in Writers : pod.status[x] \in Exited => proc'[pod.uid][x] \in Exited
  BY <1>0, <1>2 DEF FenceInv, ReportsHold, Contact, TypeOK, PodObject
<1>7. PodStep
  BY <1>0, <1>4, <1>5, <1>6, NoEditIsPodStep
<1> QED BY <1>7, PodStepKeeps

\* A writer shown to have exited did exit.
LEMMA TruthTells ==
  ASSUME NEW u \in Uids, NEW w \in Writers, Truth(u)[w] \in Exited
  PROVE  proc[u][w] \in Exited
BY DEF Truth, Exited

\* A status report shows what the processes do.
LEMMA ReportStatusKeeps ==
  ASSUME Sound, TypeOK, TypeOK', FenceInv, NEW u \in Uids, ReportStatus(u)
  PROVE  FenceInv'
<1>0. /\ UNCHANGED <<created, node, tainted, told, proc, stopped, token, op>>
      /\ pod.uid = u /\ pod.uid # 0 /\ ~pod.terminal
  BY FenceAssumption DEF ReportStatus, Uids
<1> DEFINE p == [pod EXCEPT !.status = Truth(u)]
<1>1. SetPod(p)
  BY DEF ReportStatus
<1>2. /\ p \in PodObject /\ p.uid = pod.uid /\ p.deleting = pod.deleting
      /\ p.terminal = pod.terminal /\ p.fin = pod.fin /\ p.status = Truth(u)
  BY TruthType DEF TypeOK, PodObject
<1> HIDE DEF p
<1>3. node'[p.uid] \notin {"unknown", "gone"} =>
        \A w \in Writers : p.status[w] \in Exited => proc'[p.uid][w] \in Exited
  BY <1>0, <1>2, TruthTells
<1>4. node'[p.uid] \in {"ready", "notready"} /\ p.deleting => p.uid \in told'
  BY <1>0, <1>2 DEF FenceInv, ReportsHold, Contact
<1>5. PodStep
  BY <1>0, <1>1, <1>2, <1>3, <1>4, NodesSame, EditIsPodStep
<1> QED BY <1>5, PodStepKeeps

\* A kubelet makes a Pod terminal only where nothing of it runs.
LEMMA TerminatePodKeeps ==
  ASSUME Sound, TypeOK, TypeOK', FenceInv, NEW u \in Uids, TerminatePod(u)
  PROVE  FenceInv'
<1>0. /\ UNCHANGED <<created, node, tainted, told, proc, stopped, token, op>>
      /\ pod.uid = u /\ pod.uid # 0 /\ pod.deleting /\ u \in told /\ ~Running(u)
  BY FenceAssumption DEF TerminatePod, Uids
<1>1. PICK lost \in SUBSET Writers :
        SetPod([pod EXCEPT !.terminal = TRUE, !.final = TRUE,
                           !.status = [w \in Writers |-> IF w \in lost THEN "lost"
                                                         ELSE Truth(u)[w]]])
  BY DEF TerminatePod
<1> DEFINE seen == [w \in Writers |-> IF w \in lost THEN "lost" ELSE Truth(u)[w]]
           p == [pod EXCEPT !.terminal = TRUE, !.final = TRUE, !.status = seen]
<1>2. SetPod(p)
  BY <1>1
<1>3. seen \in [Writers -> Reported]
  BY TruthType DEF Reported
<1>4. \A w \in Writers : seen[w] \in Exited => proc[u][w] \in Exited
  BY TruthTells DEF Exited
<1> HIDE DEF seen
<1>5. /\ p \in PodObject /\ p.uid = pod.uid /\ p.deleting = pod.deleting
      /\ p.terminal /\ p.fin = pod.fin /\ p.status = seen
  BY <1>3 DEF TypeOK, PodObject
<1> HIDE DEF p
<1>6. \A v \in Uids : v = p.uid => Quiet(v)'
  BY <1>0, <1>5 DEF Quiet, Running
<1>7. PodStep
  BY <1>0, <1>2, <1>4, <1>5, <1>6, NodesSame, EditIsPodStep
<1> QED BY <1>7, PodStepKeeps

\* Every step of a kubelet keeps the invariant.
LEMMA KubeletKeeps ==
  ASSUME Sound, TypeOK, TypeOK', FenceInv, NEW u \in Uids, Kubelet(u) PROVE FenceInv'
<1>1. ~LearnDeletion(u)
  BY SoundEnvironment DEF LearnDeletion
<1> QED BY <1>1, StartContainerKeeps, ExitContainerKeeps, ReportStatusKeeps,
  TerminatePodKeeps DEF Kubelet

\* A node that loses contact, loses its object, is shut down or is untainted.
LEMMA NodeAwayKeeps ==
  ASSUME Sound, TypeOK, TypeOK', FenceInv, NEW u \in Uids,
         LoseNode(u) \/ LoseNodeObject(u) \/ ShutDownNode(u) \/ Untaint(u)
  PROVE  FenceInv'
<1>0. /\ UNCHANGED <<pod, cache, created, stopped, token, op>>
      /\ told \subseteq told' /\ node[u] # "none"
  BY DEF LoseNode, LoseNodeObject, ShutDownNode, Untaint, SetNode, Contact
<1>1. /\ \A v \in Uids : v # u => node'[v] = node[v]
      /\ node'[u] # "none"
      /\ node'[u] \in {"ready", "notready"} => Contact(u) /\ proc' = proc
  BY DEF LoseNode, LoseNodeObject, ShutDownNode, Untaint, SetNode, Contact, TypeOK
<1>2. /\ \A v \in Uids : ~Running(v) => ~Running(v)'
      /\ \A v \in tainted' \ tainted : v \in told' /\ ~Running(v)'
      /\ \A v \in Uids : v # u => proc'[v] = proc[v]
      /\ tainted \subseteq Uids
  BY DEF LoseNode, LoseNodeObject, ShutDownNode, Untaint, SetNode, TypeOK, Running
<1>3. /\ \A v \in Uids : (v > created => node'[v] = "none") /\ (node'[v] = "none" => ~Running(v)')
      /\ \A v \in Uids : v <= created /\ Still(v) => Quiet(v)'
  BY <1>0, <1>1, <1>2, Calmer
<1>4. \A v \in tainted' : v \in told' /\ ~Running(v)'
  BY <1>0, <1>2 DEF FenceInv, ReportsHold
<1>5. pod.uid # 0 =>
        /\ node'[pod.uid] \in {"ready", "notready"} /\ pod.deleting => pod.uid \in told'
        /\ node'[pod.uid] \notin {"unknown", "gone"} =>
             \A x \in Writers : pod.status[x] \in Exited => proc'[pod.uid][x] \in Exited
  <2>1. pod.uid # 0 => pod.uid \in Uids
    BY DEF TypeOK, PodObject
  <2>2. node' \in [Uids -> {"none", "ready", "notready", "unknown", "gone"}]
    BY DEF TypeOK
  <2> QED BY <1>0, <1>1, <1>2, <2>1, <2>2 DEF FenceInv, ReportsHold, Contact
<1>6. PodStep
  BY <1>0, <1>3, <1>4, <1>5, NoEditIsPodStep
<1> QED BY <1>6, PodStepKeeps

\* A node that comes back on time brings its Pod up to date first.
LEMMA RegainNodeKeeps ==
  ASSUME Sound, TypeOK, TypeOK', FenceInv, NEW u \in Uids, RegainNode(u)
  PROVE  FenceInv'
<1>0. /\ UNCHANGED <<created, tainted, proc, stopped, token, op>>
      /\ told' = IF pod.uid = u /\ ~pod.deleting THEN told ELSE told \cup {u}
      /\ node[u] \in {"unknown", "notready", "gone"}
  BY SoundEnvironment DEF RegainNode, SetNode
<1>1. \A v \in Uids : node'[v] = IF v = u THEN "ready" ELSE node[v]
  BY DEF RegainNode, SetNode, TypeOK
<1>2. \A v \in Uids : Running(v)' <=> Running(v)
  BY <1>0 DEF Running
<1>3. /\ \A v \in Uids : (v > created => node'[v] = "none") /\ (node'[v] = "none" => ~Running(v)')
      /\ \A v \in Uids : Quiet(v) => Quiet(v)'
      /\ \A v \in Uids : v <= created /\ Still(v) => Quiet(v)'
  BY <1>0, <1>1, <1>2, Calmer
<1>4. \A v \in tainted' : v \in told' /\ ~Running(v)'
  BY <1>0, <1>2 DEF FenceInv, ReportsHold, TypeOK
<1>5. CASE pod.uid = u
  <2> DEFINE p == [pod EXCEPT !.status = Truth(u)]
  <2>1. SetPod(p) /\ pod.uid # 0
    BY <1>5, SoundEnvironment, FenceAssumption DEF RegainNode, Uids
  <2>2. /\ p \in PodObject /\ p.uid = pod.uid /\ p.deleting = pod.deleting
        /\ p.terminal = pod.terminal /\ p.fin = pod.fin /\ p.status = Truth(u)
        /\ p.disrupted = pod.disrupted
    BY TruthType DEF TypeOK, PodObject
  <2> HIDE DEF p
  <2>3. \A w \in Writers : p.status[w] \in Exited => proc'[p.uid][w] \in Exited
    BY <1>0, <1>5, <2>2, TruthTells
  <2>4. p.deleting => p.uid \in told'
    BY <1>0, <1>5, <2>2
  <2>5. p.terminal /\ ~p.disrupted => \A v \in Uids : v = p.uid => Quiet(v)'
    BY <1>3, <2>1, <2>2 DEF FenceInv, ReportsHold
  <2>6. pod.terminal => pod.deleting
    BY <2>1 DEF FenceInv, OnePod
  <2>7. PodStep
    BY <1>0, <1>3, <1>4, <2>1, <2>2, <2>3, <2>4, <2>5, <2>6, EditIsPodStep
  <2> QED BY <2>7, PodStepKeeps
<1>6. CASE pod.uid # u
  <2>1. UNCHANGED <<pod, cache>>
    BY <1>6, SoundEnvironment DEF RegainNode
  <2>2. pod.uid # 0 => pod.uid \in Uids
    BY DEF TypeOK, PodObject
  <2>3. pod.uid # 0 =>
        /\ node'[pod.uid] \in {"ready", "notready"} /\ pod.deleting => pod.uid \in told'
        /\ node'[pod.uid] \notin {"unknown", "gone"} =>
             \A x \in Writers : pod.status[x] \in Exited => proc'[pod.uid][x] \in Exited
    BY <1>0, <1>1, <1>6, <2>2 DEF FenceInv, ReportsHold, Contact
  <2>4. PodStep
    BY <1>0, <1>3, <1>4, <2>1, <2>3, NoEditIsPodStep
  <2> QED BY <2>4, PodStepKeeps
<1> QED BY <1>5, <1>6

--------------------------------------------------------------------------------
\* FenceInv is inductive: every action of Next keeps it.
LEMMA StepKeepsFence ==
  ASSUME Sound, TypeOK, TypeOK', FenceInv, [Next]_vars PROVE FenceInv'
<1>1. CASE Controller
  BY <1>1, ReadsOrRecordsKeep, AnnotatePodKeeps, ReleasePodKeeps DEF Controller, ReadsOrRecords
<1>2. CASE CutShort \/ CacheSync \/ People
  BY <1>2, AsidesKeep
<1>3. CASE ControlPlane
  BY <1>3, ControlPlaneKeeps
<1>4. CASE \E u \in Uids : Kubelet(u)
  BY <1>4, KubeletKeeps
<1>5. CASE \E u \in Uids : Node(u)
  BY <1>5, NodeAwayKeeps, RegainNodeKeeps DEF Node
<1>6. CASE UNCHANGED vars
  <2>1. UNCHANGED <<pod, cache, created, node, tainted, told, proc, stopped, token, op>>
    BY <1>6 DEF vars
  <2> QED BY <2>1, NodesSame, ReportsSame, NoEditIsPodStep, PodStepKeeps
<1> QED BY <1>1, <1>2, <1>3, <1>4, <1>5, <1>6 DEF Next

\* The fence holds nothing to release in the initial state.
LEMMA FenceStarts == TypeOK /\ Init => FenceInv
<1> SUFFICES ASSUME TypeOK, Init PROVE FenceInv
  OBVIOUS
<1>1. pod.uid = 0 /\ cache = pod /\ created = 0 /\ op.pc = "idle" /\ stopped.pod = 0
  BY DEF Init, NoPod, NewPod, Idle
<1>2. \A u \in Uids : node[u] = "none" /\ ~Running(u)
  BY DEF Init, Running
<1>3. OnePod
  BY <1>1, <1>2 DEF OnePod
<1>4. ReportsHold
  BY <1>1 DEF Init, ReportsHold
<1>5. StoppedForGood
  BY <1>1, <1>2 DEF StoppedForGood, Quiet
<1>6. RecordsInOrder
  BY <1>1 DEF RecordsInOrder
<1> QED BY <1>3, <1>4, <1>5, <1>6 DEF FenceInv

\* The inductive invariant of the fence holds in every reachable state.
THEOREM FenceHolds ==
  ASSUME Sound PROVE Spec => []FenceInv
<1>1. TypeOK /\ Init => FenceInv
  BY FenceStarts
<1>2. TypeOK /\ TypeOK' /\ FenceInv /\ [Next]_vars => FenceInv'
  BY StepKeepsFence
<1> QED BY <1>1, <1>2, TypeCorrect, PTL DEF Spec

\* No two Pods of an Agent ever write one claim at the same time.
THEOREM SingleWriterHolds ==
  ASSUME Sound PROVE Spec => []SingleWriter
<1>1. TypeOK /\ FenceInv => SingleWriter
  <2> SUFFICES ASSUME TypeOK, FenceInv, NEW u \in Uids, NEW v \in Uids,
                      u # v, Running(u), Running(v)
               PROVE  FALSE
    BY DEF SingleWriter
  <2>1. \A x \in Uids : Running(x) => x <= created
    <3>1. \A x \in Uids : Running(x) => ~(x > created)
      BY DEF FenceInv, OnePod
    <3> QED BY <3>1, FenceAssumption DEF TypeOK, Uids
  <2>2. \A x \in Uids : Running(x) => x = pod.uid
    BY <2>1 DEF FenceInv, StoppedForGood, Quiet
  <2> QED BY <2>2
<1> QED BY <1>1, FenceHolds, TypeCorrect, PTL

\* Whatever status.writerStopped names has stopped for good.
THEOREM EvidenceTruthfulHolds ==
  ASSUME Sound PROVE Spec => []EvidenceTruthful
<1>1. FenceInv => EvidenceTruthful
  BY DEF FenceInv, StoppedForGood, EvidenceTruthful, Still
<1> QED BY <1>1, FenceHolds, PTL

\* The evidence and the placement token of a Pod's predecessor precede the Pod.
THEOREM SuccessorFollowsEvidenceHolds ==
  ASSUME Sound PROVE Spec => []SuccessorFollowsEvidence
<1>1. FenceInv => SuccessorFollowsEvidence
  BY DEF FenceInv, RecordsInOrder, Minted, SuccessorFollowsEvidence
<1> QED BY <1>1, FenceHolds, PTL

\* A step that changes the Pod makes no record of a stopped writer.
LEMMA RecordsApart ==
  ASSUME [Next]_vars
  PROVE  pod' = pod \/ (stopped' = stopped /\ (created' = created \/ pod.uid = 0))
<1>1. CASE ReadsOrRecords
  BY <1>1, ReconcileKeepsPod
<1>2. CASE AnnotatePod \/ ReleasePod
  BY <1>2 DEF AnnotatePod, ReleasePod, clusterVars
<1>3. CASE CutShort \/ CacheSync \/ People
  BY <1>3 DEF CutShort, CacheSync, People, DeleteAgent, ChangeHeld, ReleaseByHand, DeleteClaim,
    MakeClaimAgain, clusterVars
<1>4. CASE ControlPlane
  BY <1>4 DEF ControlPlane, CreatePod, Schedule, ScaleDown, DeletePod, MarkDeleted, PodGC
<1>5. CASE \E u \in Uids : Kubelet(u) \/ Node(u)
  BY ZenonT(40), <1>5 DEF Kubelet, StartContainer, ExitContainer, ReportStatus, LearnDeletion, TerminatePod,
    Node, LoseNode, LoseNodeObject, RegainNode, ShutDownNode, Untaint, SetNode
<1>6. CASE UNCHANGED vars
  BY <1>6 DEF vars
<1> QED BY <1>1, <1>2, <1>3, <1>4, <1>5, <1>6 DEF Next, Controller, ReadsOrRecords

\* No Pod loses its finalizer but the one whose evidence is on the Agent.
THEOREM ReleasedOnOwnEvidenceHolds ==
  ASSUME Sound PROVE Spec => ReleasedOnOwnEvidence
<1> DEFINE A == pod.uid # 0 /\ pod'.uid \in {0, pod.uid} /\ pod.fin /\ ~pod'.fin
                  => pod.uid \in hand' \/ (stopped.pod = pod.uid /\ Quiet(pod.uid))
<1>1. TypeOK /\ TypeOK' /\ FenceInv /\ FenceInv' /\ [Next]_vars => A
  <2> SUFFICES ASSUME TypeOK, TypeOK', FenceInv, FenceInv', [Next]_vars,
                      pod.uid # 0, pod'.uid \in {0, pod.uid}, pod.fin, ~pod'.fin
               PROVE  stopped.pod = pod.uid /\ Quiet(pod.uid)
    OBVIOUS
  <2>1. stopped' = stopped /\ created' = created /\ pod.uid = created
    BY RecordsApart DEF FenceInv, OnePod
  <2>2. pod.uid \in Uids /\ created > 0
    BY <2>1, FenceAssumption DEF TypeOK, PodObject, Uids
  <2>3. stopped'.pod = pod.uid
    BY <2>1, <2>2 DEF FenceInv, RecordsInOrder
  <2> QED BY <2>1, <2>2, <2>3 DEF FenceInv, StoppedForGood, Still
<1>2. (TypeOK /\ TypeOK' /\ FenceInv /\ FenceInv' /\ [Next]_vars) => [A]_vars
  BY <1>1
<1> QED BY <1>2, FenceHolds, TypeCorrect, PTL DEF Spec, ReleasedOnOwnEvidence
--------------------------------------------------------------------------------
(* The record of a clean stop on a claim, which a move of the memory trusts.  *)

\* The claim records that its last writer stopped cleanly.
RecordedClean ==
  claim.there /\ claim.writer.state = "stopped" /\ claim.writer.exit = "clean"
DrainedBy(u) == RecordedClean => claim.writer.pod = u

\* A claim learns of a Pod while the Pod is held, and no Pod is let go before the claim
\* names it: a clean stop recorded under a Pod let go is that Pod's.
WritersInOrder ==
  /\ op.pc \in {"claimWriter", "annotate"} => op.uid # 0 /\ op.uid = pod.uid /\ pod.fin
  /\ op.pc = "release" => DrainedBy(op.uid)
  /\ pod.uid # 0 /\ ~pod.fin => DrainedBy(pod.uid)
  /\ pod.uid = 0 /\ created > 0 => DrainedBy(created)

\* A Pod that has stopped for good and whose agent exited cleanly.
Drained(u) == u # 0 /\ u <= created /\ Still(u) /\ proc[u][AgentContainer] = "clean"

\* Of a Pod whose node is known, the API shows the exits its writers really made.
ReportsExact ==
  pod.uid # 0 /\ node[pod.uid] \notin {"unknown", "gone"} =>
    \A w \in Writers : pod.status[w] \in Exited => proc[pod.uid][w] = pod.status[w]

\* The exit the API shows, the one read as evidence and the one recorded are the agent's.
ExitsTrue ==
  /\ ReportsExact
  /\ op.pc \in {"record", "mint", "writer"} /\ op.exit = "clean" => Drained(op.uid)
  /\ RecordedClean => Drained(claim.writer.pod)

\* What a step can do to the Pod object.
LEMMA PodSteps ==
  ASSUME Sound, TypeOK, TypeOK', FenceInv, [Next]_vars
  PROVE  \/ /\ pod'.uid = pod.uid /\ pod'.fin = pod.fin /\ created' = created
            /\ pod.deleting => pod'.deleting
         \/ /\ pod'.uid = 0 /\ ~pod.fin /\ created' = created /\ claim' = claim
         \/ /\ ReleasePod /\ pod'.uid \in {0, pod.uid} /\ created' = created /\ claim' = claim
            /\ pod.deleting => pod'.uid = 0 \/ pod'.deleting
         \/ /\ CreatePod /\ pod.uid = 0 /\ pod'.uid = created + 1 /\ pod'.fin /\ created' = created + 1
<1> DEFINE Same == /\ pod'.uid = pod.uid /\ pod'.fin = pod.fin /\ created' = created
                   /\ pod.deleting => pod'.deleting
           Left == /\ pod'.uid = 0 /\ ~pod.fin /\ created' = created /\ claim' = claim
<1>0. NoPod.uid = 0 /\ pod \in PodObject
  BY DEF NoPod, NewPod, TypeOK
<1>1. ASSUME NEW p, SetPod(p), p.uid = pod.uid, p.fin = pod.fin, pod.deleting => p.deleting,
             created' = created, claim' = claim
      PROVE  Same \/ Left
  <2>1. pod' = p \/ (~p.fin /\ pod' = NoPod)
    BY <1>1, SetPodSound DEF Settled
  <2> QED BY <1>0, <1>1, <2>1
<1>2. ASSUME pod' = pod, created' = created PROVE Same
  BY <1>2
<1>3. CASE ReadsOrRecords
  BY <1>2, <1>3, ReconcileKeepsPod
<1>4. CASE AnnotatePod
  <2>1. created' = created /\ claim' = claim
    BY <1>4 DEF AnnotatePod, clusterVars
  <2>2. CASE pod.uid = 0
    BY <1>2, <1>4, <2>1, <2>2 DEF AnnotatePod
  <2>3. CASE pod.uid # 0
    <3> DEFINE p == [pod EXCEPT !.pvc = op.pvc]
    <3>1. SetPod(p)
      BY <1>4, <2>3 DEF AnnotatePod
    <3>2. p.uid = pod.uid /\ p.fin = pod.fin /\ p.deleting = pod.deleting
      BY <1>0 DEF PodObject
    <3> HIDE DEF p
    <3> QED BY <1>1, <2>1, <3>1, <3>2
  <2> QED BY <2>2, <2>3
<1>5. CASE ReleasePod
  <2>1. created' = created /\ claim' = claim
    BY <1>5 DEF ReleasePod, clusterVars
  <2>2. CASE pod.uid = 0
    BY <1>2, <1>5, <2>1, <2>2 DEF ReleasePod
  <2>3. CASE pod.uid # 0
    <3> DEFINE p == [pod EXCEPT !.fin = FALSE]
    <3>1. pod' \in {p, NoPod}
      BY <1>5, <2>3, SetPodSound DEF ReleasePod, Settled
    <3>2. p.uid = pod.uid /\ p.deleting = pod.deleting
      BY <1>0 DEF PodObject
    <3> HIDE DEF p
    <3> QED BY <1>0, <1>5, <2>1, <3>1, <3>2
  <2> QED BY <2>2, <2>3
<1>6. CASE CutShort \/ CacheSync \/ People
  <2>1. ~ReleaseByHand
    BY SoundEnvironment DEF ReleaseByHand
  <2>2. pod' = pod /\ created' = created
    BY <1>6, <2>1 DEF CutShort, CacheSync, People, DeleteAgent, ChangeHeld, DeleteClaim,
      MakeClaimAgain, clusterVars
  <2> QED BY <1>2, <2>2
<1>7. CASE CreatePod
  <2>1. pod.uid = 0 /\ created' = created + 1
    BY <1>7 DEF CreatePod
  <2>2. pod'.uid = created + 1 /\ pod'.fin
    BY <1>7 DEF CreatePod, SetPod, Settled, NewPod
  <2> QED BY <1>7, <2>1, <2>2
<1>8. ASSUME NEW forced \in BOOLEAN, MarkDeleted(forced) PROVE Same \/ Left
  <2> DEFINE p == [pod EXCEPT !.deleting = TRUE,
                              !.final = pod.final \/ forced \/ node[pod.uid] = "none"]
  <2>1. SetPod(p) /\ created' = created /\ claim' = claim
    BY <1>8 DEF MarkDeleted
  <2>2. p.uid = pod.uid /\ p.fin = pod.fin /\ p.deleting
    BY <1>0 DEF PodObject
  <2> HIDE DEF p
  <2> QED BY <1>1, <2>1, <2>2
<1>9. CASE PodGC
  <2> DEFINE p == [pod EXCEPT !.terminal = TRUE, !.deleting = TRUE, !.final = TRUE,
                              !.disrupted = (node[pod.uid] = "gone")]
  <2>1. SetPod(p) /\ created' = created /\ claim' = claim
    BY <1>9 DEF PodGC
  <2>2. p.uid = pod.uid /\ p.fin = pod.fin /\ p.deleting
    BY <1>0 DEF PodObject
  <2> HIDE DEF p
  <2> QED BY <1>1, <2>1, <2>2
<1>10. CASE ControlPlane
  BY <1>2, <1>7, <1>8, <1>9, <1>10 DEF ControlPlane, Schedule, ScaleDown, DeletePod
<1>11. ASSUME NEW u \in Uids, Kubelet(u) \/ Node(u) PROVE Same \/ Left
  <2>1. created' = created /\ claim' = claim
    BY <1>11 DEF Kubelet, StartContainer, ExitContainer, ReportStatus, LearnDeletion, TerminatePod,
      Node, LoseNode, LoseNodeObject, RegainNode, ShutDownNode, Untaint, SetNode
  <2>2. ASSUME NEW s, SetPod([pod EXCEPT !.status = s]) PROVE Same \/ Left
    <3>1. LET p == [pod EXCEPT !.status = s]
          IN p.uid = pod.uid /\ p.fin = pod.fin /\ p.deleting = pod.deleting
      BY <1>0 DEF PodObject
    <3> QED BY <1>1, <2>1, <2>2, <3>1
  <2>3. ASSUME NEW w \in Writers, StartContainer(u, w) PROVE Same \/ Left
    <3> DEFINE p == [pod EXCEPT !.status[w] = "running"]
    <3>1. SetPod(p) \/ pod' = pod
      BY <2>3 DEF StartContainer
    <3>2. p.uid = pod.uid /\ p.fin = pod.fin /\ p.deleting = pod.deleting
      BY <1>0 DEF PodObject
    <3> HIDE DEF p
    <3> QED BY <1>1, <1>2, <2>1, <3>1, <3>2
  <2>4. CASE ReportStatus(u) \/ RegainNode(u)
    BY <1>2, <2>1, <2>2, <2>4 DEF ReportStatus, RegainNode
  <2>5. CASE TerminatePod(u)
    <3>1. PICK lost \in SUBSET Writers :
            SetPod([pod EXCEPT !.terminal = TRUE, !.final = TRUE,
                               !.status = [w \in Writers |-> IF w \in lost THEN "lost"
                                                             ELSE Truth(u)[w]]])
      BY <2>5 DEF TerminatePod
    <3> DEFINE seen == [w \in Writers |-> IF w \in lost THEN "lost" ELSE Truth(u)[w]]
               p == [pod EXCEPT !.terminal = TRUE, !.final = TRUE, !.status = seen]
    <3>2. SetPod(p)
      BY <3>1
    <3> HIDE DEF seen
    <3>3. p.uid = pod.uid /\ p.fin = pod.fin /\ p.deleting = pod.deleting
      BY <1>0 DEF PodObject
    <3> HIDE DEF p
    <3> QED BY <1>1, <2>1, <3>2, <3>3
  <2>6. CASE LearnDeletion(u) \/ (\E w \in Writers : ExitContainer(u, w))
             \/ LoseNode(u) \/ LoseNodeObject(u) \/ ShutDownNode(u) \/ Untaint(u)
    BY <1>2, <2>1, <2>6 DEF LearnDeletion, ExitContainer, LoseNode, LoseNodeObject, ShutDownNode, Untaint
  <2> QED BY <1>11, <2>3, <2>4, <2>5, <2>6 DEF Kubelet, Node
<1>12. CASE UNCHANGED vars
  BY <1>2, <1>12 DEF vars
<1> QED BY <1>3, <1>4, <1>5, <1>6, <1>10, <1>11, <1>12 DEF Next, Controller, ReadsOrRecords

\* What a step can do to the claim's record of its writer.
LEMMA ClaimSteps ==
  ASSUME TypeOK, [Next]_vars
  PROVE  \/ claim' = claim \/ ~claim'.there \/ claim'.writer.state = "none"
         \/ op.pc = "claimWriter" /\ claim'.writer.state = "running"
         \/ /\ op.pc = "writer" /\ op'.pc = "release" /\ op'.uid = op.uid
            /\ claim'.writer.pod = op.uid /\ claim'.writer.exit = op.exit
<1>0. claim \in ClaimObject /\ op \in Operation
  BY DEF TypeOK
<1>1. CASE RecordRunningWriter
  BY <1>0, <1>1 DEF RecordRunningWriter, At, ClaimObject
<1>2. CASE RecordStoppedWriter
  BY <1>0, <1>2 DEF RecordStoppedWriter, At, Goto, ClaimObject, Operation
<1>3. CASE DeleteClaim
  BY <1>0, <1>3 DEF DeleteClaim, ClaimObject
<1>4. CASE MakeClaimAgain \/ CreatePod
  BY <1>4 DEF MakeClaimAgain, CreatePod, NextClaim, NoWriter
<1>5. CASE Controller /\ ~RecordRunningWriter /\ ~RecordStoppedWriter
  BY <1>5 DEF Controller, Reconcile, FenceNothingToDo, FencePlacement, FenceEvidence, AnnotatePod,
    RecordEvidence, MintPlacementToken, ReleasePod, LeaveWorkload, EnsurePlacementToken,
    ReconcileStatefulSet, DeleteStatefulSet, LetAgentGo
<1>6. CASE CutShort \/ CacheSync \/ (People /\ ~DeleteClaim /\ ~MakeClaimAgain)
  BY <1>6 DEF CutShort, CacheSync, People, DeleteAgent, ChangeHeld, ReleaseByHand
<1>7. CASE ControlPlane /\ ~CreatePod
  BY <1>7 DEF ControlPlane, Schedule, ScaleDown, DeletePod, MarkDeleted, PodGC
<1>8. CASE \E u \in Uids : Kubelet(u) \/ Node(u)
  BY <1>8 DEF Kubelet, StartContainer, ExitContainer, ReportStatus, LearnDeletion, TerminatePod,
    Node, LoseNode, LoseNodeObject, RegainNode, ShutDownNode, Untaint, SetNode
<1>9. CASE UNCHANGED vars
  BY <1>9 DEF vars
<1> QED BY <1>1, <1>2, <1>3, <1>4, <1>5, <1>6, <1>7, <1>8, <1>9 DEF Next

\* How a reconcile goes from step to step, as far as the claim's record is concerned.
LEMMA OperationSteps ==
  ASSUME TypeOK, [Next]_vars
  PROVE  \/ op' = op
         \/ op'.pc \notin {"claimWriter", "annotate", "record", "mint", "writer", "release"}
         \/ /\ op'.pc = "claimWriter" /\ op'.uid = cache.uid /\ cache.uid # 0 /\ ~cache.deleting
            /\ UNCHANGED <<pod, claim>>
         \/ /\ op.pc = "claimWriter" /\ op'.pc = "annotate" /\ op'.uid = op.uid /\ pod' = pod
         \/ /\ op'.pc = "record" /\ op'.uid = cache.uid /\ op'.exit = ExitOf(cache)
            /\ cache.uid # 0 /\ cache.deleting /\ cache.fin /\ Evidence(cache)
            /\ UNCHANGED <<pod, node, told, proc, created, claim>>
         \/ /\ op'.uid = op.uid /\ op'.exit = op.exit
            /\ \/ op.pc \in {"record", "mint"} /\ op'.pc \in {"mint", "writer"} /\ claim' = claim
               \/ op.pc = "writer" /\ op'.pc = "release"
<1>0. op \in Operation
  BY DEF TypeOK
<1>1. \A s : /\ [op EXCEPT !.pc = s].pc = s /\ [op EXCEPT !.pc = s].uid = op.uid
             /\ [op EXCEPT !.pc = s].exit = op.exit
  BY <1>0 DEF Operation
<1>2. Idle.pc = "idle"
  BY DEF Idle
<1>3. CASE Reconcile \/ FenceNothingToDo
  <2>1. CASE Reconcile
    BY <2>1 DEF Reconcile, Idle
  <2>2. CASE FenceNothingToDo
    <3>1. op'.pc = AfterFence
      BY <1>0, <2>2 DEF FenceNothingToDo, Operation
    <3> QED BY <3>1 DEF AfterFence
  <2> QED BY <1>3, <2>1, <2>2
<1>4. CASE FencePlacement
  BY <1>0, <1>4 DEF FencePlacement, Operation
<1>5. CASE FenceEvidence
  <2>1. op'.pc = "record" /\ op'.uid = cache.uid /\ op'.exit = ExitOf(cache)
    BY <1>0, <1>5 DEF FenceEvidence, Operation
  <2> QED BY <1>5, <2>1 DEF FenceEvidence, clusterVars
<1>6. CASE RecordRunningWriter
  BY ZenonT(40), <1>1, <1>2, <1>6 DEF RecordRunningWriter, Goto, At
<1>7. CASE AnnotatePod \/ ReleasePod
  BY <1>1, <1>2, <1>7 DEF AnnotatePod, ReleasePod, Goto, AfterFence
<1>8. CASE RecordEvidence \/ MintPlacementToken \/ RecordStoppedWriter
  <2>1. CASE RecordEvidence
    BY <1>1, <2>1 DEF RecordEvidence, Goto, At
  <2>2. CASE MintPlacementToken
    BY <1>1, <2>2 DEF MintPlacementToken, Goto, At
  <2>3. CASE RecordStoppedWriter
    BY <1>1, <2>3 DEF RecordStoppedWriter, Goto, At
  <2> QED BY <1>8, <2>1, <2>2, <2>3
<1>9. CASE LeaveWorkload \/ EnsurePlacementToken \/ ReconcileStatefulSet \/ DeleteStatefulSet \/ LetAgentGo
  BY <1>1, <1>2, <1>9 DEF LeaveWorkload, EnsurePlacementToken, ReconcileStatefulSet,
    DeleteStatefulSet, LetAgentGo, Goto
<1>10. CASE CutShort
  BY <1>2, <1>10 DEF CutShort
<1>11. CASE CacheSync \/ People \/ ControlPlane
  BY <1>11 DEF CacheSync, People, DeleteAgent, ChangeHeld, ReleaseByHand, DeleteClaim, MakeClaimAgain,
    ControlPlane, CreatePod, Schedule, ScaleDown, DeletePod, MarkDeleted, PodGC
<1>12. CASE \E u \in Uids : Kubelet(u) \/ Node(u)
  BY <1>12 DEF Kubelet, StartContainer, ExitContainer, ReportStatus, LearnDeletion, TerminatePod,
    Node, LoseNode, LoseNodeObject, RegainNode, ShutDownNode, Untaint, SetNode
<1>13. CASE UNCHANGED vars
  BY <1>13 DEF vars
<1> QED BY <1>3, <1>4, <1>5, <1>6, <1>7, <1>8, <1>9, <1>10, <1>11, <1>12, <1>13 DEF Next, Controller

\* A reconcile leaves the step that records a stopped writer only by recording it, or cut short.
LEMMA AtWriter ==
  ASSUME TypeOK, [Next]_vars, op.pc = "writer", op'.pc = "release" PROVE RecordStoppedWriter
<1>1. Idle.pc = "idle"
  BY DEF Idle
<1>2. CASE Controller
  BY <1>2 DEF Controller, At, Reconcile, FenceNothingToDo, FencePlacement, FenceEvidence,
    RecordRunningWriter, AnnotatePod, RecordEvidence, MintPlacementToken, ReleasePod, LeaveWorkload,
    EnsurePlacementToken, ReconcileStatefulSet, DeleteStatefulSet, LetAgentGo
<1>3. CASE CutShort
  BY <1>1, <1>3 DEF CutShort
<1>4. CASE CacheSync \/ People \/ ControlPlane
  BY <1>4 DEF CacheSync, People, DeleteAgent, ChangeHeld, ReleaseByHand, DeleteClaim, MakeClaimAgain,
    ControlPlane, CreatePod, Schedule, ScaleDown, DeletePod, MarkDeleted, PodGC
<1>5. CASE \E u \in Uids : Kubelet(u) \/ Node(u)
  BY <1>5 DEF Kubelet, StartContainer, ExitContainer, ReportStatus, LearnDeletion, TerminatePod,
    Node, LoseNode, LoseNodeObject, RegainNode, ShutDownNode, Untaint, SetNode
<1>6. CASE UNCHANGED vars
  BY <1>6 DEF vars
<1> QED BY <1>2, <1>3, <1>4, <1>5, <1>6 DEF Next

\* What is recorded of the claim's writers stays in order.
LEMMA WritersStep ==
  ASSUME Sound, TypeOK, TypeOK', FenceInv, WritersInOrder, [Next]_vars PROVE WritersInOrder'
<1>0. /\ cache = pod /\ pod.uid \in {0, created} /\ (pod.uid # 0 /\ ~pod.fin => pod.deleting)
      /\ created \in Nat
  BY FenceFields DEF FenceInv, OnePod
<1>1. op.pc \in {"record", "mint", "writer", "release"} => op.uid # 0 /\ op.uid = pod.uid /\ pod.fin
  BY DEF FenceInv, StoppedForGood
<1>2. op.pc \in {"claimWriter", "annotate"} => op.uid # 0 /\ op.uid = pod.uid /\ pod.fin
  BY DEF WritersInOrder
<1>3. ReleasePod => op.pc = "release" /\ op'.pc \in {"token", "deleteSts"}
  BY DEF ReleasePod, At, Goto, AfterFence, TypeOK, Operation
<1>4. op'.pc \in {"claimWriter", "annotate"} => op'.uid # 0 /\ op'.uid = pod'.uid /\ pod'.fin
  <2> SUFFICES ASSUME op'.pc \in {"claimWriter", "annotate"}
               PROVE  op'.uid # 0 /\ op'.uid = pod'.uid /\ pod'.fin
    OBVIOUS
  <2>1. CASE op' = op
    BY <1>2, <1>3, <2>1, PodSteps
  <2>2. CASE op' # op
    BY <1>0, <1>2, <2>2, OperationSteps
  <2> QED BY <2>1, <2>2
\* A record of a clean stop is the old one, unless a release just made it.
<1>5. RecordedClean' => claim' = claim \/ (op.pc = "writer" /\ op'.pc = "release"
                                            /\ op'.uid = op.uid /\ claim'.writer.pod = op.uid)
  BY ClaimSteps DEF RecordedClean
<1>6. op'.pc = "release" => DrainedBy(op.uid)'
  <2> SUFFICES ASSUME op'.pc = "release", RecordedClean' PROVE claim'.writer.pod = op'.uid
    BY DEF DrainedBy
  <2>1. CASE claim' = claim
    <3>1. CASE op' = op
      BY <2>1, <3>1 DEF WritersInOrder, DrainedBy, RecordedClean
    <3>2. CASE op' # op
      <4>1. RecordStoppedWriter
        <5>1. op.pc = "writer"
          BY <3>2, OperationSteps
        <5> QED BY <3>2, <5>1, AtWriter
      <4>2. claim.there
        BY <2>1 DEF RecordedClean
      <4> QED BY <4>1, <4>2 DEF RecordStoppedWriter, Goto, TypeOK, ClaimObject, Operation
    <3> QED BY <3>1, <3>2
  <2> QED BY <1>5, <2>1
<1>7. pod'.uid # 0 /\ ~pod'.fin => DrainedBy(pod.uid)'
  <2> SUFFICES ASSUME pod'.uid # 0, ~pod'.fin, RecordedClean' PROVE claim'.writer.pod = pod'.uid
    BY DEF DrainedBy
  <2>1. CASE ReleasePod
    <3>1. claim' = claim /\ pod'.uid = pod.uid
      BY <1>1, <1>3, <2>1, PodSteps DEF CreatePod
    <3> QED BY <1>1, <1>3, <2>1, <3>1 DEF WritersInOrder, DrainedBy, RecordedClean
  <2>2. CASE ~ReleasePod
    <3>1. pod'.uid = pod.uid /\ ~pod.fin
      BY <2>2, PodSteps
    <3>2. claim' = claim
      BY <1>1, <1>5, <3>1
    <3> QED BY <3>1, <3>2 DEF WritersInOrder, DrainedBy, RecordedClean
  <2> QED BY <2>1, <2>2
<1>8. pod'.uid = 0 /\ created' > 0 => DrainedBy(created)'
  <2> SUFFICES ASSUME pod'.uid = 0, created' > 0, RecordedClean' PROVE claim'.writer.pod = created'
    BY DEF DrainedBy
  <2>0. created' = created
    BY <1>0, PodSteps
  <2>1. CASE pod.uid = 0
    <3>1. claim' = claim
      BY <1>1, <1>5, <2>1
    <3> QED BY <2>0, <2>1, <3>1 DEF WritersInOrder, DrainedBy, RecordedClean
  <2>2. CASE pod.uid # 0
    <3>1. pod.uid = created /\ claim' = claim /\ (ReleasePod \/ ~pod.fin)
      BY <1>0, <2>2, PodSteps
    <3>2. DrainedBy(pod.uid)
      BY <1>1, <1>3, <2>2, <3>1 DEF WritersInOrder
    <3> QED BY <2>0, <3>1, <3>2 DEF DrainedBy, RecordedClean
  <2> QED BY <2>1, <2>2
<1> QED BY <1>4, <1>6, <1>7, <1>8 DEF WritersInOrder

\* A Pod that stopped for good stays so, and what its writers left as their exits.
LEMMA DrainedStays ==
  ASSUME Sound, TypeOK, TypeOK', FenceInv, [Next]_vars, NEW u \in Uids, u <= created, Still(u)
  PROVE  u <= created' /\ Still(u)' /\ proc'[u][AgentContainer] = proc[u][AgentContainer]
<1>0. /\ created \in Nat /\ created' \in Nat /\ u \in Nat /\ u # 0 /\ AgentContainer \in Writers
      /\ ~Running(u) /\ (u \in told \/ node[u] = "none")
  BY FenceFields, FenceNumbers, FenceAssumption DEF Still, Quiet, TypeOK
<1>1. u <= created' /\ (pod'.uid = u => pod'.deleting)
  <2>1. created' = created \/ created' = created + 1
    BY PodSteps
  <2>2. u <= created'
    BY <1>0, <2>1
  <2>3. pod.uid = u => pod.deleting
    BY DEF Still
  <2>4. pod.uid = u => u # 0
    BY <1>0
  <2>5. u # created + 1
    BY <1>0
  <2> QED BY <1>0, <2>2, <2>3, <2>5, PodSteps
<1>2. \A w \in Writers : proc'[u][w] = proc[u][w]
  <2>1. ASSUME NEW v \in Uids, NEW w \in Writers, StartContainer(v, w)
        PROVE  \A x \in Writers : proc'[u][x] = proc[u][x]
    <3>1. v # u
      BY <1>0, <2>1 DEF StartContainer
    <3> QED BY <2>1, <3>1 DEF StartContainer, TypeOK
  <2>2. ASSUME NEW v \in Uids, NEW w \in Writers, ExitContainer(v, w)
        PROVE  \A x \in Writers : proc'[u][x] = proc[u][x]
    <3>1. v # u
      BY <1>0, <2>2 DEF ExitContainer, Running
    <3> QED BY <2>2, <3>1 DEF ExitContainer, TypeOK
  <2>3. ASSUME NEW v \in Uids, ShutDownNode(v)
        PROVE  \A x \in Writers : proc'[u][x] = proc[u][x]
    BY <1>0, <2>3 DEF ShutDownNode, TypeOK, Running
  <2>4. \/ proc' = proc
        \/ \E v \in Uids : ShutDownNode(v) \/ \E w \in Writers : StartContainer(v, w) \/ ExitContainer(v, w)
    <3>1. CASE Elsewhere \/ UNCHANGED vars
      BY <3>1, ElsewhereKeeps DEF vars
    <3>2. CASE ControlPlane
      BY <3>2 DEF ControlPlane, CreatePod, Schedule, ScaleDown, DeletePod, MarkDeleted, PodGC
    <3>3. CASE \E v \in Uids : Kubelet(v) \/ Node(v)
      BY <3>3 DEF Kubelet, ReportStatus, LearnDeletion, TerminatePod, Node, LoseNode, LoseNodeObject,
        RegainNode, Untaint
    <3> QED BY <3>1, <3>2, <3>3 DEF Next, Elsewhere
  <2> QED BY <2>1, <2>2, <2>3, <2>4
<1>3. u \in told' \/ node'[u] = "none"
  <2>1. CASE u \in told
    BY <2>1, StepsOnward DEF Onward
  <2>2. CASE u \notin told /\ node[u] = "none"
    <3>1. CASE Elsewhere \/ UNCHANGED vars
      BY <2>2, <3>1, ElsewhereKeeps DEF vars
    <3>2. CASE Schedule
      BY <2>2, <3>2 DEF Schedule, TypeOK, Still
    <3>3. CASE ControlPlane /\ ~Schedule
      BY <2>2, <3>3 DEF ControlPlane, CreatePod, ScaleDown, DeletePod, MarkDeleted, PodGC
    <3>4. ASSUME NEW v \in Uids, Kubelet(v) PROVE node' = node
      BY <3>4 DEF Kubelet, StartContainer, ExitContainer, ReportStatus, LearnDeletion, TerminatePod
    <3>5. ASSUME NEW v \in Uids, Node(v) PROVE node'[u] = "none"
      <4>1. node[v] # "none" /\ \E s : node' = [node EXCEPT ![v] = s]
        BY <3>5 DEF Node, LoseNode, LoseNodeObject, RegainNode, ShutDownNode, Untaint, SetNode, Contact
      <4> QED BY <2>2, <4>1 DEF TypeOK
    <3> QED BY <2>2, <3>1, <3>2, <3>3, <3>4, <3>5 DEF Next, Elsewhere
  <2> QED BY <1>0, <2>1, <2>2
<1> QED BY <1>0, <1>1, <1>2, <1>3 DEF Still, Quiet, Running

\* A kubelet's report shows the exits as they are.
LEMMA TruthExact ==
  ASSUME NEW u \in Uids, NEW w \in Writers, Truth(u)[w] \in Exited
  PROVE  proc[u][w] = Truth(u)[w]
BY DEF Truth, Exited

\* No step leaves the API with an exit the writer did not make.
LEMMA ReportsExactStep ==
  ASSUME Sound, TypeOK, TypeOK', FenceInv, ReportsExact, [Next]_vars PROVE ReportsExact'
<1>0. /\ pod \in PodObject /\ (pod.uid # 0 => pod.uid \in Uids) /\ NoPod.uid = 0
      /\ 0 \notin Uids
  BY FenceFields, FenceNumbers DEF TypeOK, NoPod, NewPod
\* A step that leaves the statuses, and does not make the node known.
<1>1. ASSUME pod'.uid # 0 => pod'.uid = pod.uid /\ pod'.status = pod.status,
             proc' = proc, node' = node
      PROVE  ReportsExact'
  BY <1>1 DEF ReportsExact
<1>2. ASSUME NEW p, SetPod(p), p.uid = pod.uid, p.status = pod.status, proc' = proc, node' = node
      PROVE  ReportsExact'
  <2>1. pod' = p \/ pod' = NoPod
    BY <1>2, SetPodSound DEF Settled
  <2> QED BY <1>0, <1>1, <1>2, <2>1
<1>3. ASSUME NEW p, SetPod(p), p.uid = pod.uid, pod.uid # 0,
             \A w \in Writers : p.status[w] \in Exited => proc'[pod.uid][w] = p.status[w]
      PROVE  ReportsExact'
  <2>1. pod' = p \/ pod' = NoPod
    BY <1>3, SetPodSound DEF Settled
  <2> QED BY <1>0, <1>3, <2>1 DEF ReportsExact
<1>4. CASE ReadsOrRecords
  BY <1>1, <1>4, ReconcileKeepsPod
<1>5. CASE AnnotatePod \/ ReleasePod
  <2>1. proc' = proc /\ node' = node
    BY <1>5 DEF AnnotatePod, ReleasePod, clusterVars
  <2>2. CASE pod.uid = 0
    BY <1>1, <1>5, <2>1, <2>2 DEF AnnotatePod, ReleasePod
  <2>3. CASE pod.uid # 0
    <3>1. \/ SetPod([pod EXCEPT !.pvc = op.pvc]) \/ SetPod([pod EXCEPT !.fin = FALSE])
      BY <1>5, <2>3 DEF AnnotatePod, ReleasePod
    <3>2. /\ [pod EXCEPT !.pvc = op.pvc].uid = pod.uid /\ [pod EXCEPT !.pvc = op.pvc].status = pod.status
          /\ [pod EXCEPT !.fin = FALSE].uid = pod.uid /\ [pod EXCEPT !.fin = FALSE].status = pod.status
      BY <1>0 DEF PodObject
    <3> QED BY <1>2, <2>1, <3>1, <3>2
  <2> QED BY <2>2, <2>3
<1>6. CASE CutShort \/ CacheSync \/ People
  <2>1. ~ReleaseByHand
    BY SoundEnvironment DEF ReleaseByHand
  <2>2. UNCHANGED <<pod, proc, node>>
    BY <1>6, <2>1 DEF CutShort, CacheSync, People, DeleteAgent, ChangeHeld, DeleteClaim,
      MakeClaimAgain, clusterVars
  <2> QED BY <1>1, <2>2
<1>7. CASE CreatePod
  <2>1. pod'.status = [w \in Writers |-> "absent"]
    BY <1>7 DEF CreatePod, SetPod, Settled, NewPod
  <2> QED BY <2>1 DEF ReportsExact, Exited
<1>8. CASE Schedule
  BY <1>0, <1>8 DEF Schedule, ReportsExact, TypeOK
<1>9. ASSUME NEW forced \in BOOLEAN, MarkDeleted(forced) PROVE ReportsExact'
  <2> DEFINE p == [pod EXCEPT !.deleting = TRUE,
                              !.final = pod.final \/ forced \/ node[pod.uid] = "none"]
  <2>1. SetPod(p) /\ UNCHANGED <<proc, node>>
    BY <1>9 DEF MarkDeleted
  <2>2. p.uid = pod.uid /\ p.status = pod.status
    BY <1>0 DEF PodObject
  <2> HIDE DEF p
  <2> QED BY <1>2, <2>1, <2>2
<1>10. CASE PodGC
  <2> DEFINE p == [pod EXCEPT !.terminal = TRUE, !.deleting = TRUE, !.final = TRUE,
                              !.disrupted = (node[pod.uid] = "gone")]
  <2>1. SetPod(p) /\ UNCHANGED <<proc, node>>
    BY <1>10 DEF PodGC
  <2>2. p.uid = pod.uid /\ p.status = pod.status
    BY <1>0 DEF PodObject
  <2> HIDE DEF p
  <2> QED BY <1>2, <2>1, <2>2
<1>11. CASE ControlPlane
  BY <1>7, <1>8, <1>9, <1>10, <1>11 DEF ControlPlane, ScaleDown, DeletePod
<1>12. ASSUME NEW u \in Uids, NEW w \in Writers, StartContainer(u, w) PROVE ReportsExact'
  <2>1. /\ \A v \in Uids : v # u => proc'[v] = proc[v]
        /\ \A x \in Writers : x # w => proc'[u][x] = proc[u][x]
        /\ node' = node /\ node[u] # "none" /\ proc[u][w] # "running"
    BY <1>12 DEF StartContainer, TypeOK
  <2>2. CASE pod.uid # u
    <3>1. pod' = pod
      BY <1>12, <2>2 DEF StartContainer
    <3> QED BY <1>0, <2>1, <2>2, <3>1 DEF ReportsExact
  <2>3. CASE pod.uid = u /\ proc[u][w] \in Exited /\ Contact(u)
    <3> DEFINE p == [pod EXCEPT !.status[w] = "running"]
    <3>1. SetPod(p)
      BY <1>12, <2>3, SoundEnvironment DEF StartContainer
    <3>2. p.uid = pod.uid /\ p.status[w] = "running" /\ \A x \in Writers : x # w => p.status[x] = pod.status[x]
      BY <1>0 DEF PodObject
    <3> HIDE DEF p
    <3>3. node[u] \notin {"unknown", "gone"}
      BY <2>3 DEF Contact
    <3>4. \A x \in Writers : p.status[x] \in Exited => proc'[pod.uid][x] = p.status[x]
      BY <1>0, <2>1, <2>3, <3>2, <3>3 DEF ReportsExact, Exited
    <3> QED BY <1>0, <1>3, <2>3, <3>1, <3>2, <3>4
  <2>4. CASE pod.uid = u /\ ~(proc[u][w] \in Exited /\ Contact(u))
    <3>1. pod' = pod
      BY <1>12, <2>4 DEF StartContainer
    <3>2. node[u] \notin {"unknown", "gone"} => Contact(u)
      BY <2>1 DEF TypeOK, Contact
    <3>3. node[u] \notin {"unknown", "gone"} => pod.status[w] \notin Exited
      BY <1>0, <2>4, <3>2 DEF ReportsExact
    <3> QED BY <1>0, <2>1, <2>4, <3>1, <3>3 DEF ReportsExact
  <2> QED BY <2>2, <2>3, <2>4
<1>13. ASSUME NEW u \in Uids, NEW w \in Writers, ExitContainer(u, w) PROVE ReportsExact'
  <2>1. /\ \A v \in Uids : v # u => proc'[v] = proc[v]
        /\ \A x \in Writers : x # w => proc'[u][x] = proc[u][x]
        /\ node' = node /\ pod' = pod /\ proc[u][w] = "running"
    BY <1>13 DEF ExitContainer, TypeOK
  <2> QED BY <1>0, <2>1 DEF ReportsExact, Exited
<1>14. ASSUME NEW u \in Uids, ReportStatus(u) \/ (RegainNode(u) /\ pod.uid = u) PROVE ReportsExact'
  <2> DEFINE p == [pod EXCEPT !.status = Truth(u)]
  <2>1. SetPod(p) /\ pod.uid = u /\ proc' = proc
    BY <1>14, SoundEnvironment DEF ReportStatus, RegainNode
  <2>2. p.uid = pod.uid /\ p.status = Truth(u)
    BY <1>0 DEF PodObject
  <2> HIDE DEF p
  <2> QED BY <1>0, <1>3, <2>1, <2>2, TruthExact
<1>15. ASSUME NEW u \in Uids, TerminatePod(u) PROVE ReportsExact'
  <2>1. PICK lost \in SUBSET Writers :
          SetPod([pod EXCEPT !.terminal = TRUE, !.final = TRUE,
                             !.status = [w \in Writers |-> IF w \in lost THEN "lost"
                                                           ELSE Truth(u)[w]]])
    BY <1>15 DEF TerminatePod
  <2> DEFINE seen == [w \in Writers |-> IF w \in lost THEN "lost" ELSE Truth(u)[w]]
             p == [pod EXCEPT !.terminal = TRUE, !.final = TRUE, !.status = seen]
  <2>2. SetPod(p) /\ pod.uid = u /\ proc' = proc
    BY <1>15, <2>1 DEF TerminatePod
  <2>3. \A w \in Writers : seen[w] \in Exited => proc[u][w] = seen[w]
    BY TruthExact DEF Exited
  <2> HIDE DEF seen
  <2>4. p.uid = pod.uid /\ p.status = seen
    BY <1>0 DEF PodObject
  <2> HIDE DEF p
  <2> QED BY <1>0, <1>3, <2>2, <2>3, <2>4
<1>16. ASSUME NEW u \in Uids, LoseNode(u) \/ LoseNodeObject(u) \/ Untaint(u) \/ ShutDownNode(u)
              \/ (RegainNode(u) /\ pod.uid # u)
       PROVE  ReportsExact'
  <2>1. /\ pod' = pod /\ \A v \in Uids : v # u => proc'[v] = proc[v] /\ node'[v] = node[v]
        /\ proc' = proc \/ node'[u] = "unknown"
    BY <1>16, SoundEnvironment DEF LoseNode, LoseNodeObject, Untaint, ShutDownNode, RegainNode, SetNode, TypeOK
  <2>2. pod.uid = u => /\ node'[u] \notin {"unknown", "gone"} => node[u] \notin {"unknown", "gone"}
    BY <1>16 DEF LoseNode, LoseNodeObject, Untaint, ShutDownNode, SetNode, TypeOK, Contact
  <2> QED BY <1>0, <2>1, <2>2 DEF ReportsExact
<1>17. CASE \E u \in Uids : Kubelet(u) \/ Node(u)
  <2>1. PICK u \in Uids : Kubelet(u) \/ Node(u)
    BY <1>17
  <2>2. ~LearnDeletion(u)
    BY SoundEnvironment DEF LearnDeletion
  <2> QED BY <1>12, <1>13, <1>14, <1>15, <1>16, <2>1, <2>2 DEF Kubelet, Node
<1>18. CASE UNCHANGED vars
  BY <1>1, <1>18 DEF vars
<1> QED BY <1>4, <1>5, <1>6, <1>11, <1>17, <1>18 DEF Next, Controller, ReadsOrRecords

\* What was read as a clean exit, and what is recorded of it, stays the agent's exit.
LEMMA ExitsStep ==
  ASSUME Sound, TypeOK, TypeOK', FenceInv, ExitsTrue, [Next]_vars PROVE ExitsTrue'
<1>0. /\ cache = pod /\ pod.uid \in {0, created} /\ created \in Nat /\ AgentContainer \in Writers
      /\ pod.uid \in Uids \cup {0} /\ op.uid \in Uids \cup {0}
  BY FenceFields, FenceAssumption DEF FenceInv, OnePod
<1>1. claim.writer.pod \in Uids \cup {0}
  BY DEF TypeOK, ClaimObject, LastWriter
<1>2. \A u \in Uids \cup {0} : Drained(u) => Drained(u)'
  <2> SUFFICES ASSUME NEW u \in Uids \cup {0}, Drained(u) PROVE Drained(u)'
    OBVIOUS
  <2>1. u \in Uids /\ u <= created /\ Still(u) /\ proc[u][AgentContainer] = "clean"
    BY DEF Drained
  <2> QED BY <2>1, FenceNumbers, DrainedStays DEF Drained
<1>3. ReportsExact'
  BY ReportsExactStep DEF ExitsTrue
<1>4. op'.pc \in {"record", "mint", "writer"} /\ op'.exit = "clean" => Drained(op.uid)'
  <2> SUFFICES ASSUME op'.pc \in {"record", "mint", "writer"}, op'.exit = "clean"
               PROVE  Drained(op.uid)'
    OBVIOUS
  <2>1. CASE /\ op'.uid = op.uid /\ op'.exit = op.exit /\ op.pc \in {"record", "mint", "writer"}
    <3>1. Drained(op.uid)
      BY <2>1 DEF ExitsTrue
    <3>2. \A u : u = op.uid /\ u = op'.uid /\ Drained(u)' => Drained(op.uid)'
      BY DEF Drained, Still, Quiet, Running
    <3> QED BY <1>0, <1>2, <2>1, <3>1, <3>2
  <2>2. CASE /\ op'.pc = "record" /\ op'.uid = pod.uid /\ op'.exit = ExitOf(pod)
             /\ pod.uid # 0 /\ pod.deleting /\ pod.fin /\ Evidence(pod)
    <3>1. ~Unassigned(pod) /\ pod.status[AgentContainer] = "clean"
      BY <2>2 DEF ExitOf
    <3>2. NodeKnown(pod)
      BY <2>2, <3>1 DEF Evidence
    <3>3. proc[pod.uid][AgentContainer] = "clean"
      BY <1>0, <2>2, <3>1, <3>2 DEF ExitsTrue, ReportsExact, NodeKnown, Exited
    <3>4. Drained(pod.uid)
      BY <1>0, <2>2, <3>3, EvidenceMeansQuiet DEF Drained, Still
    <3>5. \A u : u = pod.uid /\ u = op'.uid /\ Drained(u)' => Drained(op.uid)'
      BY DEF Drained, Still, Quiet, Running
    <3> QED BY <1>0, <1>2, <2>2, <3>4, <3>5
  <2> QED BY <1>0, <2>1, <2>2, OperationSteps
<1>5. RecordedClean' => Drained(claim.writer.pod)'
  <2> SUFFICES ASSUME RecordedClean' PROVE Drained(claim.writer.pod)'
    OBVIOUS
  <2>1. \A u : u = claim'.writer.pod /\ Drained(u)' => Drained(claim.writer.pod)'
    BY DEF Drained, Still, Quiet, Running
  <2>2. CASE claim' = claim
    <3>1. Drained(claim.writer.pod)
      BY <2>2 DEF ExitsTrue, RecordedClean
    <3> QED BY <1>1, <1>2, <2>1, <2>2, <3>1
  <2>3. CASE op.pc = "writer" /\ claim'.writer.pod = op.uid /\ claim'.writer.exit = op.exit
    <3>1. Drained(op.uid)
      BY <2>3 DEF ExitsTrue, RecordedClean
    <3> QED BY <1>0, <1>2, <2>1, <2>3, <3>1
  <2> QED BY <2>2, <2>3, ClaimSteps DEF RecordedClean
<1> QED BY <1>3, <1>4, <1>5 DEF ExitsTrue

\* What the claims record of their writers holds in every reachable state.
LEMMA DrainHolds ==
  ASSUME Sound PROVE Spec => [](WritersInOrder /\ ExitsTrue)
<1>1. Init => WritersInOrder /\ ExitsTrue
  <2> SUFFICES ASSUME Init PROVE WritersInOrder /\ ExitsTrue
    OBVIOUS
  <2>1. pod.uid = 0 /\ created = 0 /\ op.pc = "idle" /\ ~claim.there
    BY DEF Init, NoPod, NewPod, Idle
  <2> QED BY <2>1 DEF WritersInOrder, ExitsTrue, ReportsExact, RecordedClean
<1>2. TypeOK /\ TypeOK' /\ FenceInv /\ WritersInOrder /\ ExitsTrue /\ [Next]_vars
        => WritersInOrder' /\ ExitsTrue'
  BY WritersStep, ExitsStep
<1> QED BY <1>1, <1>2, FenceHolds, TypeCorrect, PTL DEF Spec

\* With no Pod left, a claim that records a clean stop (recordStoppedWriter's annotation)
\* was last written by the Pod it names, and that Pod's agent did exit 0: what a move of
\* the memory copies on the strength of the record alone is what the agent left.
THEOREM DrainRecordTruthfulHolds ==
  ASSUME Sound PROVE Spec => []DrainRecordTruthful
<1>1. TypeOK /\ FenceInv /\ EvidenceInv /\ WritersInOrder /\ ExitsTrue => DrainRecordTruthful
  <2> SUFFICES ASSUME TypeOK, FenceInv, EvidenceInv, WritersInOrder, ExitsTrue,
                      pod.uid = 0, RecordedClean
               PROVE  /\ \A u \in Uids : vol[u] = claim.uid => u <= claim.writer.pod /\ ~Running(u)
                      /\ proc[claim.writer.pod][AgentContainer] = "clean"
    BY DEF DrainRecordTruthful, RecordedClean
  <2>1. Drained(claim.writer.pod)
    BY DEF ExitsTrue
  <2>2. claim.writer.pod \in Uids \cup {0} /\ created \in Nat
    BY FenceFields DEF TypeOK, ClaimObject, LastWriter
  <2>3. claim.writer.pod = created
    <3>1. claim.writer.pod \in Nat /\ claim.writer.pod # 0 /\ claim.writer.pod <= created
      BY <2>1, <2>2, FenceNumbers DEF Drained
    <3>2. created > 0
      BY <2>2, <3>1
    <3> QED BY <3>2 DEF WritersInOrder, DrainedBy
  <2>4. \A u \in Uids : vol[u] = claim.uid => u <= created
    BY DEF EvidenceInv, VolumesInOrder, RecordedClean
  <2>5. \A u \in Uids : u <= created => ~Running(u)
    BY FenceNumbers DEF FenceInv, StoppedForGood, Quiet
  <2> QED BY <2>1, <2>3, <2>4, <2>5 DEF Drained
<1> QED BY <1>1, FenceHolds, EvidenceHolds, DrainHolds, TypeCorrect, PTL
================================================================================
