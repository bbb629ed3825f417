---------------------------- MODULE PlacementProofs ----------------------------
(***************************************************************************)
(* What TLAPS proves of the placements, for any number of Pods, tokens and *)
(* epochs.                                                                 *)
(***************************************************************************)
EXTENDS Placement, TLAPS

\* What a registration leaves the registrar to do is one of its three states.
LEMMA OutcomeType ==
  ASSUME NEW answer
  PROVE  Outcome(answer) \in {"due", "accepted", "superseded"}
BY DEF Outcome

\* The placement stored for a body is a placement, and so are those it leaves.
LEMMA StoreType ==
  ASSUME TypeOK, NEW b \in Body
  PROVE  Store(b) \in [Uids -> Stored]
<1> SUFFICES ASSUME NEW u \in Uids
             PROVE  (IF u = b.pod THEN [state |-> "current", body |-> b]
                     ELSE IF Current(u) THEN [registry[u] EXCEPT !.state = "superseded"]
                     ELSE registry[u]) \in Stored
  BY DEF Store
<1>1. registry[u] \in Stored
  BY DEF TypeOK
<1>2. [state |-> "current", body |-> b] \in Stored
  BY DEF Stored
<1>3. [registry[u] EXCEPT !.state = "superseded"] \in Stored
  BY <1>1 DEF Stored
<1> QED BY <1>1, <1>2, <1>3

\* The body the registrar reads is a body.
LEMMA PlacementOfType ==
  ASSUME TypeOK, Listed
  PROVE  PlacementOf \in Body
BY DEF TypeOK, Listed, PlacementOf, Body, PodObject, PlacementSecret

\* Every step of the service and of the registrar keeps the types.
LEMMA ControlTypes == TypeOK /\ (Service \/ Registrar \/ Network) => TypeOK'
<1> SUFFICES ASSUME TypeOK, Service \/ Registrar \/ Network PROVE TypeOK'
  OBVIOUS
<1>1. ASSUME NEW b \in net, NEW arrives \in BOOLEAN, RegisterPlacement(b, arrives)
      PROVE  TypeOK'
  <2>1. b \in Body
    BY DEF TypeOK
  <2>2. registry' \in [Uids -> Stored]
    BY <1>1, <2>1, StoreType DEF RegisterPlacement, TypeOK
  <2>3. reg' \in Registration /\ asked' \in Body \cup {NoBody}
    <3>1. [reg EXCEPT !.status = Outcome(Answer(b))] \in Registration
      BY OutcomeType DEF TypeOK, Registration
    <3> QED BY <1>1, <3>1 DEF RegisterPlacement, TypeOK
  <2> QED BY <1>1, <2>2, <2>3 DEF RegisterPlacement, TypeOK, podVars, epochVars
<1>2. CASE Register
  <2>1. PlacementOf \in Body
    BY <1>2, PlacementOfType DEF Register
  <2>2. reg' \in Registration
    BY <1>2, <2>1 DEF Register, Registration
  <2> QED BY <1>2, <2>1, <2>2 DEF Register, TypeOK, podVars, epochVars
<1>3. CASE Forget \/ GiveUp \/ Restart
  <2>1. Forgotten \in Registration
    BY DEF Forgotten, Registration
  <2> QED BY <1>3, <2>1 DEF Forget, GiveUp, Restart, TypeOK, podVars, epochVars
<1>4. CASE CacheSync
  BY <1>4 DEF CacheSync, TypeOK, epochVars
<1>5. ASSUME NEW b \in net, LoseRequest(b) PROVE TypeOK'
  BY <1>5 DEF LoseRequest, TypeOK, podVars, epochVars
<1> QED BY <1>1, <1>2, <1>3, <1>4, <1>5 DEF Service, Registrar, Network

\* Every step of the reconciler, of Kubernetes and of the assignment keeps them.
LEMMA ClusterTypes == TypeOK /\ (Fence \/ Pods \/ Assignment) => TypeOK'
<1> SUFFICES ASSUME TypeOK, Fence \/ Pods \/ Assignment PROVE TypeOK'
  OBVIOUS
<1> USE PlacementAssumption
<1>1. CASE Fence
  <2>1. CASE EnsurePlacementToken
    <3>1. minted + 1 \in Tokens
      BY <2>1 DEF EnsurePlacementToken, TypeOK, Tokens
    <3>2. secret' \in PlacementSecret
      BY <2>1, <3>1 DEF EnsurePlacementToken, PlacementSecret
    <3> QED BY <2>1, <3>1, <3>2
        DEF EnsurePlacementToken, TypeOK, controlVars, epochVars
  <2>2. CASE MintPlacementToken
    <3>1. minted + 1 \in Tokens
      BY <2>2 DEF MintPlacementToken, TypeOK, Tokens
    <3>2. secret' \in PlacementSecret
      BY <2>2, <3>1 DEF MintPlacementToken, PlacementSecret, TypeOK, PodObject
    <3> QED BY <2>2, <3>1, <3>2
        DEF MintPlacementToken, TypeOK, controlVars, epochVars
  <2>3. CASE ReleasePod
    <3>1. NoPod \in PodObject
      BY DEF NoPod, PodObject
    <3> QED BY <2>3, <3>1 DEF ReleasePod, TypeOK, controlVars, epochVars
  <2> QED BY <1>1, <2>1, <2>2, <2>3 DEF Fence
<1>2. CASE Pods
  <2>1. CASE CreatePod
    <3>1. created + 1 \in Uids
      BY <2>1 DEF CreatePod, TypeOK, Uids
    <3>2. pod' \in PodObject
      BY <2>1, <3>1 DEF CreatePod, PodObject
    <3> QED BY <2>1, <3>1, <3>2 DEF CreatePod, TypeOK, controlVars, epochVars
  <2>2. CASE PodRuns \/ DeletePod
    <3>1. pod' \in PodObject
      BY <2>2 DEF PodRuns, DeletePod, PodObject, TypeOK
    <3> QED BY <2>2, <3>1 DEF PodRuns, DeletePod, TypeOK, controlVars, epochVars
  <2>3. CASE StopPod
    <3>1. pod.uid \in Uids
      BY <2>3 DEF StopPod, TypeOK, PodObject
    <3> QED BY <2>3, <3>1 DEF StopPod, TypeOK, controlVars, epochVars
  <2> QED BY <1>2, <2>1, <2>2, <2>3 DEF Pods
<1>3. CASE Assignment
  <2>1. CASE Reassign
    <3>1. proved + 1 \in Epochs
      BY <2>1 DEF Reassign, TypeOK, Epochs
    <3> QED BY <2>1, <3>1 DEF Reassign, TypeOK, podVars, controlVars
  <2>2. CASE RecordEpoch \/ RenderEpoch
    BY <2>2 DEF RecordEpoch, RenderEpoch, TypeOK, podVars, controlVars
  <2> QED BY <1>3, <2>1, <2>2 DEF Assignment
<1> QED BY <1>1, <1>2, <1>3

\* The initial state is typed.
LEMMA StartTypes == Init => TypeOK
<1> SUFFICES ASSUME Init PROVE TypeOK
  OBVIOUS
<1> USE PlacementAssumption
<1>1. pod \in PodObject /\ cache \in PodObject
  BY DEF Init, NoPod, PodObject
<1>2. registry \in [Uids -> Stored]
  BY DEF Init, Unstored, Stored
<1>3. reg \in Registration
  BY DEF Init, Forgotten, Registration
<1>4. epoch \in Epochs /\ recorded \in Epochs /\ proved \in Epochs
  BY DEF Init, Epochs
<1>5. secret \in PlacementSecret
  BY DEF Init, PlacementSecret
<1> QED BY <1>1, <1>2, <1>3, <1>4, <1>5 DEF Init, TypeOK

\* The placement Secret, the registrar's memory, the bodies in transit and the
\* stored placements keep their types through every step of the system.
THEOREM PlacementTypes == Spec => []TypeOK
<1>1. TypeOK /\ [Next]_vars => TypeOK'
  <2> SUFFICES ASSUME TypeOK, [Next]_vars PROVE TypeOK'
    OBVIOUS
  <2>1. CASE Next
    BY <2>1, ControlTypes, ClusterTypes DEF Next
  <2>2. CASE UNCHANGED vars
    BY <2>2 DEF vars, TypeOK
  <2> QED BY <2>1, <2>2
<1> QED BY <1>1, StartTypes, PTL DEF Spec

\* The checks that let a body be stored: it is of a new Pod, and names as replaced
\* the placement that is current, or none where none is.
LEMMA RegisterMeans ==
  ASSUME TypeOK, NEW b \in Body, Answer(b) = "register"
  PROVE  /\ b.prev # b.pod
         /\ registry[b.pod].state = "none"
         /\ b.prev = 0 => \A u \in Uids : ~Current(u)
         /\ b.prev # 0 => Current(b.prev)
<1>1. b.prev # b.pod /\ DecidePlacement(b) = "register"
  BY DEF Answer
<1>2. registry[b.pod].state \in {"none", "current", "superseded"}
  BY DEF TypeOK, Stored, Body
<1>3. registry[b.pod].state = "none"
  BY <1>1, <1>2 DEF DecidePlacement
<1>4. ~(IF b.prev = 0 THEN \E u \in Uids : Current(u) ELSE ~Current(b.prev))
  BY <1>1, <1>3 DEF DecidePlacement
<1> QED BY <1>1, <1>3, <1>4

\* A body stored in order is that of the Pod after the current placement's.
LEMMA RegisterIsNext ==
  ASSUME TypeOK, RegistryInOrder, NEW b \in Body, BodyInOrder(b), Answer(b) = "register"
  PROVE  /\ b.pod = b.prev + 1
         /\ \A u \in Uids : Registered(u) => u <= b.prev
         /\ \A u \in Uids : u <= b.prev => Registered(u)
<1> USE PlacementAssumption DEF Uids
<1>1. b.pod \in Nat /\ b.prev \in Nat /\ b.pod \in Uids /\ b.pod # 0
  BY DEF Body
<1>2. CASE b.prev = 0
  <2>1. \A u \in Uids : ~Registered(u)
    BY <1>2, RegisterMeans DEF RegistryInOrder
  <2> QED BY <1>1, <1>2, <2>1 DEF BodyInOrder
<1>3. CASE b.prev # 0
  <2>1. Current(b.prev) /\ b.prev \in Uids
    BY <1>3, RegisterMeans DEF Body
  <2>2. Registered(b.prev)
    BY <2>1 DEF Registered, Current
  <2>3. ~(b.pod < b.prev)
    BY <1>1, <2>1, <2>2, RegisterMeans DEF RegistryInOrder
  <2>4. b.pod = b.prev + 1
    BY <1>1, <2>3, RegisterMeans DEF BodyInOrder
  <2>5. \A u \in Uids : u < b.prev => Registered(u)
    BY <2>1, <2>2 DEF RegistryInOrder, Registered
  <2>6. ASSUME NEW u \in Uids, Registered(u) PROVE u <= b.prev
    BY <2>1, <2>6 DEF RegistryInOrder, Current
  <2> QED BY <1>1, <2>2, <2>4, <2>5, <2>6
<1> QED BY <1>2, <1>3

\* Storing a body in order leaves the registry in order.
LEMMA StoreKeepsOrder ==
  ASSUME TypeOK, RegistryInOrder, NEW b \in Body, BodyInOrder(b), Answer(b) = "register",
         registry' = Store(b), UNCHANGED podVars
  PROVE  RegistryInOrder'
<1> USE PlacementAssumption DEF Uids
<1>1. /\ b.pod \in Uids /\ b.prev \in Nat /\ b.pod = b.prev + 1
      /\ \A u \in Uids : Registered(u) => u <= b.prev
      /\ \A u \in Uids : u <= b.prev => Registered(u)
  BY RegisterIsNext DEF Body
<1>2. /\ registry'[b.pod] = [state |-> "current", body |-> b]
      /\ \A u \in Uids : u # b.pod /\ Current(u) => registry'[u].state = "superseded"
      /\ \A u \in Uids : u # b.pod /\ ~Current(u) => registry'[u] = registry[u]
  <2>1. \A u \in Uids : registry[u] \in Stored
    BY DEF TypeOK
  <2> QED BY <1>1, <2>1 DEF Store, Stored
<1>3. Current(b.pod)'
  BY <1>2 DEF Current
<1>4. \A u \in Uids : u # b.pod => (Registered(u)' <=> Registered(u)) /\ ~Current(u)'
  BY <1>2 DEF Registered, Current
<1>5. \A u \in Uids : Registered(u)' => u <= b.pod
  BY <1>1, <1>4
<1>6. ASSUME NEW u \in Uids, Registered(u)'
      PROVE  u <= created' /\ \E v \in Uids : v >= u /\ Current(v)'
  BY <1>1, <1>3, <1>4, <1>5, <1>6 DEF BodyInOrder, RegistryInOrder, podVars, TypeOK
<1>7. ASSUME NEW u \in Uids, u < b.pod
      PROVE  registry'[u].state = "superseded" /\ u \in quiet'
  <2>1. u <= b.prev /\ Registered(u) /\ registry[u] \in Stored
    BY <1>1, <1>7 DEF TypeOK
  <2>2. registry'[u].state = "superseded"
    BY <1>2, <1>7, <2>1 DEF Registered, Current, Stored
  <2>3. u \in quiet
    <3>1. CASE u = b.prev
      BY <3>1, <1>1 DEF BodyInOrder
    <3>2. CASE u # b.prev
      <4>1. b.prev \in Uids /\ Registered(b.prev) /\ u < b.prev
        BY <3>2, <2>1, <1>1
      <4>2. registry[u].state = "superseded"
        BY <4>1 DEF RegistryInOrder
      <4> QED BY <4>2 DEF RegistryInOrder, ReplacedOnceStopped
    <3> QED BY <3>1, <3>2
  <2> QED BY <2>2, <2>3 DEF podVars
<1>8. ASSUME NEW u \in Uids, NEW v \in Uids, Registered(u)', v < u
      PROVE  registry'[v].state = "superseded"
  BY <1>1, <1>5, <1>7, <1>8
<1>9. ReplacedOnceStopped'
  <2> SUFFICES ASSUME NEW u \in Uids, registry'[u].state = "superseded"
               PROVE  u \in quiet' /\ \E v \in Uids : v > u /\ Current(v)'
    BY DEF ReplacedOnceStopped
  <2>1. u # b.pod
    BY <1>2
  <2>2. Registered(u)'
    BY DEF Registered
  <2>3. u < b.pod
    BY <2>1, <2>2, <1>1, <1>5
  <2> QED BY <2>3, <1>1, <1>3, <1>7
<1>10. TokenMatches'
  <2> SUFFICES ASSUME NEW u \in Uids, Current(u)', pod'.uid = u, ~pod'.deleting
               PROVE  registry'[u].body.token = secret'.token
    BY DEF TokenMatches
  <2>1. u = b.pod
    BY <1>4
  <2> QED BY <2>1, <1>1, <1>2 DEF BodyInOrder, podVars
<1> QED BY <1>6, <1>8, <1>9, <1>10 DEF RegistryInOrder

\* What the registrar reads, though its cache is old, is a body in order.
LEMMA ReadInOrder ==
  ASSUME TypeOK, PodsInOrder, SecretInOrder, Listed
  PROVE  BodyInOrder(PlacementOf)
<1> USE PlacementAssumption DEF Uids
<1>1. cache.uid \in Nat /\ secret.prev \in Nat /\ created \in Nat
  BY DEF TypeOK, PodObject, PlacementSecret
<1> QED BY <1>1 DEF PodsInOrder, SecretInOrder, BodyInOrder, PlacementOf

\* The service, the registrar and the network keep everything in order.
LEMMA ControlKeepsOrder ==
  TypeOK /\ PlacementInv /\ (Service \/ Registrar \/ Network) => PlacementInv'
<1> SUFFICES ASSUME TypeOK, PlacementInv, Service \/ Registrar \/ Network
             PROVE  PlacementInv'
  OBVIOUS
<1> USE DEF PlacementInv
<1>0. ASSUME UNCHANGED podVars
      PROVE  /\ PodsInOrder' /\ SecretInOrder'
             /\ \A b \in Body : BodyInOrder(b) => BodyInOrder(b)'
  BY <1>0 DEF podVars, PodsInOrder, SecretInOrder, BodyInOrder
<1>00. ASSUME UNCHANGED podVars, UNCHANGED registry PROVE RegistryInOrder'
  BY <1>00 DEF podVars, RegistryInOrder, ReplacedOnceStopped, TokenMatches, Registered, Current
<1>1. ASSUME NEW b \in net, NEW arrives \in BOOLEAN, RegisterPlacement(b, arrives)
      PROVE  PlacementInv'
  <2>1. UNCHANGED podVars /\ net' \subseteq net /\ net \subseteq Body
    BY <1>1 DEF RegisterPlacement, TypeOK
  <2>2. RegistryInOrder'
    <3>1. CASE Answer(b) = "register"
      BY <1>1, <2>1, <3>1, StoreKeepsOrder DEF RegisterPlacement
    <3>2. CASE Answer(b) # "register"
      BY <1>1, <2>1, <3>2, <1>00 DEF RegisterPlacement
    <3> QED BY <3>1, <3>2
  <2> QED BY <2>1, <2>2, <1>0
<1>2. CASE Register
  <2>1. UNCHANGED podVars /\ UNCHANGED registry /\ net' = net \cup {PlacementOf}
        /\ net \subseteq Body /\ PlacementOf \in Body
    BY <1>2, PlacementOfType DEF Register, TypeOK
  <2>2. BodyInOrder(PlacementOf)
    BY <1>2, ReadInOrder DEF Register
  <2>3. \A b \in net' : b \in Body /\ BodyInOrder(b)
    BY <2>1, <2>2
  <2> QED BY <2>1, <2>3, <1>0, <1>00
<1>3. CASE Forget \/ GiveUp \/ Restart \/ \E b \in net : LoseRequest(b)
  <2>1. UNCHANGED podVars /\ UNCHANGED registry /\ net' \subseteq net /\ net \subseteq Body
    BY <1>3 DEF Forget, GiveUp, Restart, LoseRequest, TypeOK
  <2> QED BY <2>1, <1>0, <1>00
<1>4. CASE CacheSync
  <2>1. PodsInOrder'
    BY <1>4 DEF CacheSync, PodsInOrder, TypeOK, Uids
  <2> QED BY <1>4, <2>1 DEF CacheSync, SecretInOrder, BodyInOrder, RegistryInOrder,
        ReplacedOnceStopped, TokenMatches, Registered, Current
<1> QED BY <1>1, <1>2, <1>3, <1>4 DEF Service, Registrar, Network

\* The reconciler, Kubernetes and the assignment keep everything in order: a token
\* names only a stopped Pod, and a Pod is made only once the one before it stopped.
LEMMA ClusterKeepsOrder ==
  TypeOK /\ PlacementInv /\ (Fence \/ Pods \/ Assignment) => PlacementInv'
<1> SUFFICES ASSUME TypeOK, PlacementInv, Fence \/ Pods \/ Assignment
             PROVE  PlacementInv'
  OBVIOUS
<1> USE PlacementAssumption DEF PlacementInv
<1>0. /\ created \in Nat /\ pod.uid \in Nat /\ cache.uid \in Nat /\ secret.prev \in Nat
      /\ net \subseteq Body /\ \A b \in Body : b.pod \in Nat /\ b.prev \in Nat
      /\ \A u \in Uids : u \in Nat
  BY DEF TypeOK, PodObject, PlacementSecret, Body, Uids
<1>1. CASE EnsurePlacementToken
  <2>1. created = 0 /\ pod.uid = 0
    BY <1>0, <1>1 DEF EnsurePlacementToken, PodsInOrder, SecretInOrder
  <2>2. \A u \in Uids : u > 0
    BY DEF Uids
  <2>3. PodsInOrder'
    BY <1>1 DEF EnsurePlacementToken, PodsInOrder
  <2>4. SecretInOrder'
    BY <1>0, <1>1, <2>1 DEF EnsurePlacementToken, SecretInOrder, TypeOK, Tokens
  <2>5. RegistryInOrder'
    BY <1>0, <1>1, <2>1, <2>2 DEF EnsurePlacementToken, RegistryInOrder, controlVars,
       ReplacedOnceStopped, TokenMatches, Registered, Current
  <2>6. \A b \in net' : BodyInOrder(b)'
    BY <1>0, <1>1, <2>1 DEF EnsurePlacementToken, BodyInOrder, controlVars
  <2> QED BY <2>3, <2>4, <2>5, <2>6
<1>2. CASE MintPlacementToken
  <2>1. PodsInOrder'
    BY <1>2 DEF MintPlacementToken, PodsInOrder
  <2>2. SecretInOrder'
    BY <1>0, <1>2 DEF MintPlacementToken, SecretInOrder, PodsInOrder, TypeOK, Tokens
  <2>3. RegistryInOrder'
    BY <1>2 DEF MintPlacementToken, RegistryInOrder, controlVars,
       ReplacedOnceStopped, TokenMatches, Registered, Current
  <2>4. \A b \in net' : BodyInOrder(b)'
    BY <1>2 DEF MintPlacementToken, BodyInOrder, controlVars
  <2> QED BY <2>1, <2>2, <2>3, <2>4
<1>3. CASE ReleasePod
  <2>0. pod'.uid = 0
    BY <1>3 DEF ReleasePod, NoPod
  <2>1. PodsInOrder'
    BY <1>0, <1>3, <2>0 DEF ReleasePod, PodsInOrder
  <2>2. SecretInOrder'
    BY <1>0, <1>3, <2>0 DEF ReleasePod, SecretInOrder, PodsInOrder
  <2>3. RegistryInOrder'
    <3>1. \A u \in Uids : u # 0
      BY DEF Uids
    <3> QED BY <1>3, <2>0, <3>1 DEF ReleasePod, RegistryInOrder, controlVars,
        ReplacedOnceStopped, TokenMatches, Registered, Current
  <2>4. \A b \in net' : BodyInOrder(b)'
    <3>1. \A b \in Body : b.pod # 0
      BY DEF Body, Uids
    <3> QED BY <1>0, <1>3, <2>0, <3>1 DEF ReleasePod, BodyInOrder, controlVars
  <2> QED BY <2>1, <2>2, <2>3, <2>4
<1>4. CASE CreatePod
  <2>0. /\ pod'.uid = created + 1 /\ ~pod'.deleting /\ created' = created + 1
        /\ UNCHANGED <<cache, quiet, secret, registry, net>> /\ pod.uid = 0
    BY <1>4 DEF CreatePod, controlVars
  <2>1. PodsInOrder'
    <3>1. created + 1 \notin quiet
      BY <1>0 DEF PodsInOrder, TypeOK
    <3>2. \A u \in Uids : u # 0
      BY DEF Uids
    <3> QED BY <1>0, <2>0, <3>1, <3>2 DEF PodsInOrder
  <2>2. SecretInOrder'
    BY <1>0, <1>4, <2>0 DEF CreatePod, SecretInOrder
  <2>3. RegistryInOrder'
    <3>1. ~ \E u \in Uids : Registered(u) /\ u = created + 1
      BY <1>0 DEF RegistryInOrder
    <3> QED BY <1>0, <2>0, <3>1 DEF RegistryInOrder, ReplacedOnceStopped, TokenMatches,
        Registered, Current
  <2>4. \A b \in net' : BodyInOrder(b)'
    BY <1>0, <2>0 DEF BodyInOrder
  <2> QED BY <2>1, <2>2, <2>3, <2>4
<1>5. CASE PodRuns \/ DeletePod
  <2>0. /\ pod'.uid = pod.uid /\ (pod.deleting => pod'.deleting)
        /\ UNCHANGED <<cache, created, quiet, secret, registry, net>>
    BY <1>5 DEF PodRuns, DeletePod, controlVars, TypeOK, PodObject
  <2>1. PodsInOrder'
    BY <2>0 DEF PodsInOrder
  <2>2. SecretInOrder'
    BY <2>0 DEF SecretInOrder
  <2>3. RegistryInOrder'
    BY <2>0 DEF RegistryInOrder, ReplacedOnceStopped, TokenMatches, Registered, Current
  <2>4. \A b \in net' : BodyInOrder(b)'
    BY <2>0 DEF BodyInOrder
  <2> QED BY <2>1, <2>2, <2>3, <2>4
<1>6. CASE StopPod
  <2>0. /\ quiet' = quiet \cup {pod.uid} /\ pod.deleting /\ pod.uid # 0
        /\ UNCHANGED <<pod, cache, created, secret, registry, net>>
    BY <1>6 DEF StopPod, controlVars
  <2>1. PodsInOrder'
    BY <1>0, <2>0 DEF PodsInOrder
  <2>2. SecretInOrder'
    BY <2>0 DEF SecretInOrder
  <2>3. RegistryInOrder'
    BY <2>0 DEF RegistryInOrder, ReplacedOnceStopped, TokenMatches, Registered, Current
  <2>4. \A b \in net' : BodyInOrder(b)'
    BY <2>0 DEF BodyInOrder
  <2> QED BY <2>1, <2>2, <2>3, <2>4
<1>7. CASE Assignment
  BY <1>7 DEF Assignment, Reassign, RecordEpoch, RenderEpoch, podVars, controlVars,
     PodsInOrder, SecretInOrder, RegistryInOrder, BodyInOrder, ReplacedOnceStopped,
     TokenMatches, Registered, Current
<1> QED BY <1>1, <1>2, <1>3, <1>4, <1>5, <1>6, <1>7 DEF Fence, Pods

\* The initial state is in order.
LEMMA StartInOrder == Init => PlacementInv
<1> SUFFICES ASSUME Init PROVE PlacementInv
  OBVIOUS
<1> USE PlacementAssumption DEF Init, Uids
<1>1. PodsInOrder
  BY DEF PodsInOrder, NoPod
<1>2. SecretInOrder
  BY DEF SecretInOrder, NoPod
<1>3. \A u \in Uids : registry[u].state = "none"
  BY DEF Unstored
<1>4. RegistryInOrder
  BY <1>3 DEF RegistryInOrder, ReplacedOnceStopped, TokenMatches, Registered, Current
<1> QED BY <1>1, <1>2, <1>4 DEF PlacementInv

\* The Pods, the placement Secret, the bodies in transit and the stored placements
\* stay in one order, whatever is delayed, repeated, lost or read late: the control
\* service stores the placements of the first Pods, each replacing the one before.
THEOREM PlacementsInOrder == Spec => []PlacementInv
<1>1. TypeOK /\ PlacementInv /\ [Next]_vars => PlacementInv'
  <2> SUFFICES ASSUME TypeOK, PlacementInv, [Next]_vars PROVE PlacementInv'
    OBVIOUS
  <2>1. CASE Next
    BY <2>1, ControlKeepsOrder, ClusterKeepsOrder DEF Next
  <2>2. CASE UNCHANGED vars
    BY <2>2 DEF vars, PlacementInv, PodsInOrder, SecretInOrder, RegistryInOrder,
       BodyInOrder, ReplacedOnceStopped, TokenMatches, Registered, Current
  <2> QED BY <2>1, <2>2
<1> QED BY <1>1, StartInOrder, PlacementTypes, PTL DEF Spec

\* DecidePlacement never replaces a placement whose Pod may still write.
THEOREM ReplacedOnceStoppedHolds == Spec => []ReplacedOnceStopped
<1>1. PlacementInv => ReplacedOnceStopped
  BY DEF PlacementInv, RegistryInOrder
<1> QED BY <1>1, PlacementsInOrder, PTL

\* A registered Pod's token is the one the control service stored for it.
THEOREM TokenMatchesHolds == Spec => []TokenMatches
<1>1. PlacementInv => TokenMatches
  BY DEF PlacementInv, RegistryInOrder
<1> QED BY <1>1, PlacementsInOrder, PTL
================================================================================
