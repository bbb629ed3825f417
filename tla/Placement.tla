------------------------------- MODULE Placement -------------------------------
(***************************************************************************)
(* The registration of an agent's Pods with the control service: the       *)
(* registrar of the operator (internal/desired) presents the Pod that runs,*)
(* and the control service (internal/distribution, internal/definition)    *)
(* keeps one chain of placements, each replacing the one before it.        *)
(*                                                                         *)
(* One agent on one controller.  Pods and placement tokens are numbered in *)
(* the order they are made.  The writer fence is that of WriterFence,      *)
(* where neither cache nor kubelet is late: a token is minted and the Pod  *)
(* released only once its writers stopped.  A Pod's claim is left out, as  *)
(* it is annotated once.  The store decides a registration in one          *)
(* transaction that locks the rows it reads, so a decision is one step.    *)
(***************************************************************************)
EXTENDS Naturals

CONSTANTS
  MaxPods,    \* bound: Pods ever created
  MaxTokens,  \* bound: placement tokens ever minted
  MaxEpochs   \* bound: epochs the agent is assigned under

ASSUME PlacementAssumption ==
  MaxPods \in Nat /\ MaxTokens \in Nat /\ MaxEpochs \in Nat \ {0}

VARIABLES
  pod,       \* the agent's Pod; uid 0 where there is none
  cache,     \* the Pod as the registrar's cache shows it
  created,   \* Pods created so far, the newest UID
  quiet,     \* the Pods whose writers stopped for good
  secret,    \* the placement Secret: its token and the Pod it replaces
  minted,    \* tokens minted so far
  epoch,     \* spec.identity.assignmentEpoch of the Agent
  recorded,  \* the epoch the agent's latest revision records
  proved,    \* the epoch garam proves the agent placed under
  registry,  \* the placements the control service stores, by Pod
  reg,       \* what the registrar remembers of the agent's placement
  asked,     \* the body the registrar awaits an answer for
  net        \* the bodies sent that the control service may still decide

vars == <<pod, cache, created, quiet, secret, minted, epoch, recorded, proved,
          registry, reg, asked, net>>
podVars == <<pod, cache, created, quiet, secret, minted>>
epochVars == <<epoch, recorded, proved>>

Uids == 1..MaxPods
Tokens == 1..MaxTokens
Epochs == 1..MaxEpochs

\* prev is the Pod replaced and evidence the Pod whose stop the digest is of; 0
\* where the body names none.
Body == [pod: Uids, token: Tokens, epoch: Epochs, prev: Uids \cup {0},
         evidence: Uids \cup {0}]
NoBody == [pod |-> 0, token |-> 0, epoch |-> 0, prev |-> 0, evidence |-> 0]
PodObject == [uid: Uids \cup {0}, up: BOOLEAN, deleting: BOOLEAN]
NoPod == [uid |-> 0, up |-> FALSE, deleting |-> FALSE]
PlacementSecret == [token: Tokens \cup {0}, prev: Uids \cup {0}]
Stored == [state: {"none", "current", "superseded"}, body: Body \cup {NoBody}]
Unstored == [state |-> "none", body |-> NoBody]
Registration == [body: Body \cup {NoBody}, status: {"due", "accepted", "superseded"}]
Forgotten == [body |-> NoBody, status |-> "due"]

Registered(u) == registry[u].state # "none"
Current(u) == registry[u].state = "current"

--------------------------------------------------------------------------------
(* The control service                                                       *)

\* Mutant: a registration may replace whichever placement is current.
DecideAnyPrevious(b) ==
  LET same == registry[b.pod]
  IN CASE same.state = "superseded" -> "superseded"
       [] same.state = "current" -> IF same.body = b THEN "repeat" ELSE "conflict"
       [] OTHER -> "register"

\* DecidePlacement, against the current placement and the one of the same Pod.
DecidePlacement(b) ==
  LET same == registry[b.pod]
      mismatch == IF b.prev = 0 THEN \E u \in Uids : Current(u) ELSE ~Current(b.prev)
  IN CASE same.state = "superseded" -> "superseded"
       [] same.state = "current" -> IF same.body = b THEN "repeat" ELSE "conflict"
       [] same.state = "none" /\ mismatch -> "mismatch"
       [] same.state = "none" /\ ~mismatch ->
            IF b.prev # 0 /\ b.evidence = 0 THEN "evidence" ELSE "register"

\* registerPlacement: what the service answers a body, in the order of its checks.
Answer(b) ==
  CASE b.prev = b.pod -> "invalid"
    [] b.prev # b.pod /\ (proved # b.epoch \/ proved # recorded) -> "epoch"
    [] OTHER -> DecidePlacement(b)

\* The store revokes the current placement and makes this one current.
Store(b) ==
  [u \in Uids |->
     IF u = b.pod THEN [state |-> "current", body |-> b]
     ELSE IF Current(u) THEN [registry[u] EXCEPT !.state = "superseded"]
     ELSE registry[u]]

\* What the registrar makes of an answer: accepted, refused for good, or to be
\* presented again after a wait.
Outcome(answer) ==
  CASE answer \in {"register", "repeat"} -> "accepted"
    [] answer \in {"superseded", "epoch"} -> "superseded"
    [] OTHER -> "due"

\* The service decides a body in transit, and its answer arrives or is lost.
RegisterPlacement(b, arrives) ==
  /\ b \in net
  /\ registry' = IF Answer(b) = "register" THEN Store(b) ELSE registry
  /\ net' = net \ {b}
  /\ IF arrives
     THEN /\ asked = b
          /\ asked' = NoBody
          /\ reg' = [reg EXCEPT !.status = Outcome(Answer(b))]
     ELSE UNCHANGED <<asked, reg>>
  /\ UNCHANGED podVars /\ UNCHANGED epochVars

--------------------------------------------------------------------------------
(* The registrar                                                             *)

\* placementOf: the Pod is the cache's, the Secret is read from the API server.
Listed == cache.uid # 0 /\ cache.up /\ ~cache.deleting /\ secret.token # 0
PlacementOf ==
  [pod |-> cache.uid, token |-> secret.token, epoch |-> epoch, prev |-> secret.prev,
   evidence |-> secret.prev]

\* Mutant: a placement is told apart by its Pod alone.
RegisterByPod ==
  /\ asked = NoBody /\ Listed
  /\ reg.body.pod # cache.uid \/ reg.status = "due"
  /\ reg' = [body |-> PlacementOf, status |-> "due"]
  /\ asked' = PlacementOf
  /\ net' = net \cup {PlacementOf}
  /\ UNCHANGED registry /\ UNCHANGED podVars /\ UNCHANGED epochVars

\* register: a body that changed starts afresh, and one that is due is sent.
Register ==
  /\ asked = NoBody /\ Listed
  /\ reg.body # PlacementOf \/ reg.status = "due"
  /\ reg' = [body |-> PlacementOf, status |-> "due"]
  /\ asked' = PlacementOf
  /\ net' = net \cup {PlacementOf}
  /\ UNCHANGED registry /\ UNCHANGED podVars /\ UNCHANGED epochVars

\* registerAll forgets an agent that has no current placement.
Forget ==
  /\ asked = NoBody /\ ~Listed /\ reg # Forgotten
  /\ reg' = Forgotten
  /\ UNCHANGED <<registry, asked, net>> /\ UNCHANGED podVars /\ UNCHANGED epochVars

\* The request times out; it may have arrived, or still arrive.
GiveUp ==
  /\ asked # NoBody
  /\ asked' = NoBody
  /\ UNCHANGED <<registry, reg, net>> /\ UNCHANGED podVars /\ UNCHANGED epochVars

\* The manager restarts: what the registrar remembered was in memory only.
Restart ==
  /\ reg' = Forgotten /\ asked' = NoBody
  /\ UNCHANGED <<registry, net>> /\ UNCHANGED podVars /\ UNCHANGED epochVars

LoseRequest(b) ==
  /\ b \in net
  /\ net' = net \ {b}
  /\ UNCHANGED <<registry, reg, asked>> /\ UNCHANGED podVars /\ UNCHANGED epochVars

CacheSync ==
  /\ cache # pod
  /\ cache' = pod
  /\ UNCHANGED <<pod, created, quiet, secret, minted, registry, reg, asked, net>>
  /\ UNCHANGED epochVars

--------------------------------------------------------------------------------
(* The reconciler: tokens and the release of a Pod                           *)

controlVars == <<registry, reg, asked, net>>

\* Mutant: a token is minted whether or not there is one.
EnsureTokenAgain ==
  /\ minted < MaxTokens
  /\ minted' = minted + 1
  /\ secret' = [secret EXCEPT !.token = minted + 1]
  /\ UNCHANGED <<pod, cache, created, quiet>> /\ UNCHANGED controlVars /\ UNCHANGED epochVars

\* ensurePlacementToken: the first placement's token, where there is none.
EnsurePlacementToken ==
  /\ secret.token = 0 /\ minted < MaxTokens
  /\ minted' = minted + 1
  /\ secret' = [token |-> minted + 1, prev |-> 0]
  /\ UNCHANGED <<pod, cache, created, quiet>> /\ UNCHANGED controlVars /\ UNCHANGED epochVars

\* mintPlacementToken: the next placement's token with the Pod it replaces, which
\* a release that was cut short writes again.
MintPlacementToken ==
  /\ pod.uid # 0 /\ pod.deleting /\ pod.uid \in quiet /\ minted < MaxTokens
  /\ minted' = minted + 1
  /\ secret' = [token |-> minted + 1, prev |-> pod.uid]
  /\ UNCHANGED <<pod, cache, created, quiet>> /\ UNCHANGED controlVars /\ UNCHANGED epochVars

\* releaseFence lets the Pod go last.
ReleasePod ==
  /\ pod.uid # 0 /\ pod.deleting /\ pod.uid \in quiet /\ secret.prev = pod.uid
  /\ pod' = NoPod
  /\ UNCHANGED <<cache, created, quiet, secret, minted>>
  /\ UNCHANGED controlVars /\ UNCHANGED epochVars

--------------------------------------------------------------------------------
(* The environment: Kubernetes, and the agent's assignment                   *)

CreatePod ==
  /\ pod.uid = 0 /\ secret.token # 0 /\ created < MaxPods
  /\ created' = created + 1
  /\ pod' = [uid |-> created + 1, up |-> FALSE, deleting |-> FALSE]
  /\ UNCHANGED <<cache, quiet, secret, minted>> /\ UNCHANGED controlVars /\ UNCHANGED epochVars

\* The Pod is in phase Running and the fence recorded its claim on it.
PodRuns ==
  /\ pod.uid # 0 /\ ~pod.up /\ ~pod.deleting
  /\ pod' = [pod EXCEPT !.up = TRUE]
  /\ UNCHANGED <<cache, created, quiet, secret, minted>>
  /\ UNCHANGED controlVars /\ UNCHANGED epochVars

\* The Pod is deleted, registered or not: scaled down, rolled or evicted.
DeletePod ==
  /\ pod.uid # 0 /\ ~pod.deleting
  /\ pod' = [pod EXCEPT !.deleting = TRUE]
  /\ UNCHANGED <<cache, created, quiet, secret, minted>>
  /\ UNCHANGED controlVars /\ UNCHANGED epochVars

StopPod ==
  /\ pod.uid # 0 /\ pod.deleting /\ pod.uid \notin quiet
  /\ quiet' = quiet \cup {pod.uid}
  /\ UNCHANGED <<pod, cache, created, secret, minted>>
  /\ UNCHANGED controlVars /\ UNCHANGED epochVars

\* garam assigns the agent anew.
Reassign ==
  /\ proved < MaxEpochs
  /\ proved' = proved + 1
  /\ UNCHANGED <<epoch, recorded>> /\ UNCHANGED podVars /\ UNCHANGED controlVars

\* A console configures the agent again, if it ever does: its next revision records the
\* assignment.
RecordEpoch ==
  /\ recorded # proved
  /\ recorded' = proved
  /\ UNCHANGED <<epoch, proved>> /\ UNCHANGED podVars /\ UNCHANGED controlVars

\* The feed brings the revision's epoch to the Agent, from an answer made before the agent
\* moved or after.
RenderEpoch ==
  /\ epoch # recorded
  /\ epoch' = recorded
  /\ UNCHANGED <<recorded, proved>> /\ UNCHANGED podVars /\ UNCHANGED controlVars

--------------------------------------------------------------------------------
Init ==
  /\ pod = NoPod /\ cache = NoPod /\ created = 0 /\ quiet = {}
  /\ secret = [token |-> 0, prev |-> 0] /\ minted = 0
  /\ epoch = 1 /\ recorded = 1 /\ proved = 1
  /\ registry = [u \in Uids |-> Unstored]
  /\ reg = Forgotten /\ asked = NoBody /\ net = {}

Service == \E b \in net : RegisterPlacement(b, TRUE) \/ RegisterPlacement(b, FALSE)
Registrar == Register \/ Forget \/ GiveUp \/ Restart
Network == CacheSync \/ \E b \in net : LoseRequest(b)
Fence == EnsurePlacementToken \/ MintPlacementToken \/ ReleasePod
Pods == CreatePod \/ PodRuns \/ DeletePod \/ StopPod
Assignment == Reassign \/ RecordEpoch \/ RenderEpoch

Next == Service \/ Registrar \/ Network \/ Fence \/ Pods \/ Assignment

Spec == Init /\ [][Next]_vars

--------------------------------------------------------------------------------
TypeOK ==
  /\ pod \in PodObject /\ cache \in PodObject
  /\ created \in Uids \cup {0} /\ quiet \subseteq Uids
  /\ secret \in PlacementSecret /\ minted \in Tokens \cup {0}
  /\ epoch \in Epochs /\ recorded \in Epochs /\ proved \in Epochs
  /\ registry \in [Uids -> Stored]
  /\ reg \in Registration /\ asked \in Body \cup {NoBody} /\ net \subseteq Body

\* A placement is replaced only once its Pod's writers stopped, and by a newer Pod,
\* whatever registrations are delayed, repeated or read from a stale cache: the
\* control service activates nothing on a Pod while an older one may still run.
ReplacedOnceStopped ==
  \A u \in Uids : registry[u].state = "superseded" =>
    u \in quiet /\ \E v \in Uids : v > u /\ Current(v)

\* The current placement's token is the one in the Secret its Pod mounts, for as
\* long as the Pod is wanted, so the adapter of a registered Pod is never refused.
TokenMatches ==
  \A u \in Uids : Current(u) /\ pod.uid = u /\ ~pod.deleting =>
    registry[u].body.token = secret.token

--------------------------------------------------------------------------------
(* The inductive invariant behind the two properties above.                  *)

\* Every Pod before the one there is has stopped.
PodsInOrder ==
  /\ pod.uid \in {0, created} /\ cache.uid <= created
  /\ \A u \in Uids : u \in quiet => u <= created
  /\ \A u \in Uids : u <= created /\ u # pod.uid => u \in quiet
  /\ pod.uid # 0 /\ ~pod.deleting => pod.uid \notin quiet

\* The Secret names a stopped Pod: the last one, or the one before it.
SecretInOrder ==
  /\ secret.prev # 0 => secret.prev \in quiet
  /\ created \in {secret.prev, secret.prev + 1}
  /\ pod.uid = 0 => secret.prev = created
  /\ pod.uid # 0 /\ ~pod.deleting => secret.prev + 1 = created
  /\ secret.token = 0 => created = 0

\* A body names a Pod no newer than the one after the Pod it replaces; where it is
\* the body of the Pod there is, its token is the Secret's.
BodyInOrder(b) ==
  /\ b.pod <= created /\ b.pod <= b.prev + 1
  /\ b.prev # 0 => b.prev \in quiet
  /\ b.pod = b.prev + 1 /\ b.pod = pod.uid /\ ~pod.deleting => b.token = secret.token

\* The placements stored are those of the first Pods, and the last is current.
RegistryInOrder ==
  /\ \A u \in Uids : Registered(u) => u <= created /\ \E v \in Uids : v >= u /\ Current(v)
  /\ \A u, v \in Uids : Registered(u) /\ v < u => registry[v].state = "superseded"
  /\ ReplacedOnceStopped /\ TokenMatches

PlacementInv ==
  PodsInOrder /\ SecretInOrder /\ RegistryInOrder /\ \A b \in net : BodyInOrder(b)

--------------------------------------------------------------------------------
\* Liveness: the registrar's loop runs and its requests time out, the cache follows, the
\* feed follows for an agent it does not withhold, and a request that is repeated for ever
\* is answered some time.  Nobody has to configure an agent that moved.
Fairness ==
  /\ WF_vars(Register) /\ WF_vars(GiveUp) /\ WF_vars(CacheSync)
  /\ WF_vars(recorded = proved /\ RenderEpoch)
  /\ SF_vars(asked # NoBody /\ RegisterPlacement(asked, TRUE))

FairSpec == Spec /\ Fairness

Waits(u) == pod.uid = u /\ pod.up /\ ~pod.deleting

\* The agent is placed under the epoch its latest revision records: it has not moved since,
\* or was configured again.
InPlace == recorded = proved

\* A running Pod whose predecessor was registered gets registered, unless it is deleted
\* first, for as long as its agent's latest revision records where the agent is placed: no
\* refusal, restart, lost answer or epoch of an earlier assignment is final.
ChainContinues ==
  \A u \in Uids :
    (Waits(u) /\ InPlace /\ (u = 1 \/ Registered(u - 1)))
      ~> (Registered(u) \/ ~Waits(u) \/ ~InPlace)
================================================================================
