# A TLA+ verification of the garam agent operator

This directory models the parts of garam-agent-operator on which an agent's
memory, its activations, its definition and its credential depend, model-checks
them with TLC on small instances, and proves the central results with TLAPS for
every instance. `PROJECT.json` lists the runs, the
mutants that show each property can fail, the source lines behind each
definition, the hazards and the theorems.

## 1. The system

Two processes share one repository.

* The **operator** (`cmd/main.go`) runs in a cluster. Its reconciler turns an
  `Agent` object into a StatefulSet of one Pod, a state claim and Secrets. Its
  background loops pull desired agents from the control service, register the
  Pods that run, carry out credential recoveries and refresh tokens.
* The **control service** (`cmd/control/main.go`) keeps agent definitions in
  PostgreSQL, and serves consoles, operators (`distribution`) and running agents
  (`execution`). It calls garam for activations, lifecycle and recovery.

### Components

| Component | State it keeps | Operations | Correct when |
|---|---|---|---|
| Writer fence `internal/controller/agent_fence.go` | a finalizer and annotations on the Pod, `status.writerStopped`, a placement Secret, the claim's last-writer annotations | record the running writer, read the evidence of a deleting Pod, record it, mint the next token, release | no two Pods write one claim; what is recorded is true; a successor starts only after its predecessor's records |
| Agent reconciler `agent_controller.go` | the Agent's finalizer and status | `Reconcile`, `reconcileWorkload`, `reconcileDeletion` | the fence goes first; the Agent outlives its Pod |
| Memory move `agent_move.go` | labels and annotations on claims, two Jobs per move | begin, copy, verify, switch, settle, restore | the claim in use holds what the agent last wrote; a move ends |
| StatefulSet rendering `agent_statefulset.go` | the StatefulSet | create, update, replace, roll | one replica unless held; the Pod runs on the planned claim |
| Agent status, types `agent_status.go`, `agent_types.go` | conditions; configuration | pure translation | conditions say what was read |
| Placement registry `definition.DecidePlacement`, `distribution/placement.go`, `desired/registrar.go`, `desired/placement/pods.go` | the store's placements, by Pod; the last one asked | register, repeat, refuse | one chain of Pods, each replacing the last on evidence; every Pod that runs gets registered |
| Activation and stop `execution/activation.go`, `definition/activation.go`, `definition/stop.go`, `console/stop.go` | activations, stops, operation references | prepare, call garam, record, stop, start | activations form one chain control has on record; a stop excludes attempts and ends what is on record |
| Definition store `internal/definition`, `definition/repository` | agents, revisions, creations | create, configure, publish, read | each revision is one request's; a configured embedding is kept; a creation and its first revision exist together |
| Recovery `console/recovery.go`, `desired/recoverer.go`, `desired/credential`, `postgres_lifecycle.go` | the recovery row, a request Secret, the lineage annotation | open, prepare, carry out, report, finalize | one recovery at a time; the agent ends with the credential garam holds |
| Desired feed `distribution/desired.go`, `desired/puller.go`, `renderer/agent.go` | a position per change; the puller's cursor | wait past a position, answer, apply | every published change is eventually rendered, never an older one over a newer |
| Token refresher `internal/garam`, `garam/constructor` | token Secrets, tokens minted and unwritten | find holders, mint, store | a holder's token is replaced before it expires, and no minted token is lost while it matters |
| Machine tokens `internal/machinetoken`, `garammachine` | a cached credential, a failure streak | exchange, invalidate, check | an invalidated token is not used again |
| Sessions and status `execution/status.go`, `distribution/status.go`, `contact.go` | the latest status and contact | record | the newest report wins |
| Console, operator registry, image catalogue, migrations, certificates, wiring, names | requests; an upsert; a read; SQL; a file pair; none | | not concurrent beyond a lock of their own |

### Interactions

The reconciler and Kubernetes meet only through objects: everything the
reconciler reads may change before it writes, Pods come from a cache, and every
write is an API call that may be the last before the manager stops. The fence's
placement Secret goes into the Pod and is read by the registrar, which reports
the Pod, its token, the Pod it replaces and the digest of the evidence to the
control service; the service accepts one chain of placements, and an activation
needs the current one. A move reads the last-writer record the fence leaves on
the claim. Consoles write definitions, which reach the operator by the feed: the
store's position moves with every change, the puller asks past its cursor, renders
each agent of the answer and reports it. A recovery goes the same way and comes
back as a lineage on the credential Secret, which the token refresher writes too.

### What is hard

Interleavings with the StatefulSet controller, kubelets and people; a manager
that stops between two writes; caches and nodes that tell old news; a claim
replaced behind its name; Jobs that fail, vanish, are seen late or cannot be read any more; a move
cleared and asked again; registrations and statuses out of order; a call to garam
whose answer is lost, or that garam executes after the caller gave up; a value read
ahead of the transaction that relies on it; what a loop remembers beside what it
did. `PROJECT.json` lists these as hazards at their lines, with
the properties that cover them.

## 2. The modules

### `WriterFence`: one Agent's fence

The StatefulSet creates the next Pod as soon as no Pod object is left, so only
the finalizer `writer-stopped` ties a new Pod to the old one's writers having
stopped.

| State | Code |
|---|---|
| `agentPhase`, `agentFin`, `held` | the Agent, its finalizer, `spec.suspended` / `spec.stopped` |
| `sts`, `pod`, `cache` | the StatefulSet's replicas, the Pod, the Pod in the manager's cache |
| `pod.pvc`, `pod.final`, `pod.terminal`, `pod.disrupted` | the claim annotation, a zero grace period, a terminal phase, the `DisruptionTarget` condition |
| `claim` | the state claim: UID, creation time to the second (`after`: the newest Pod created in an earlier second), last-writer annotations; `twins` is history, the Pods created in a later claim's second, with that claim |
| `token`, `stopped` | the placement Secret, `status.writerStopped` |
| `node`, `tainted`, `told`, `proc`, `vol` | what is so on the nodes, which the code sees only through `pod.status` and `node` |
| `op` | the reconcile in progress: the next write and what it read |

A reconcile is a sequence of steps, one per write: `Reconcile`, one of
`FenceNothingToDo` / `FencePlacement` / `FenceEvidence`, then the writes
(`RecordRunningWriter`, `AnnotatePod`, or `RecordEvidence`,
`MintPlacementToken`, `RecordStoppedWriter`, `ReleasePod`), then
`EnsurePlacementToken` and `ReconcileStatefulSet`, or `DeleteStatefulSet` and
`LetAgentGo`. `CutShort` ends it after any of them. A missing Secret and an
unknown agent type are one early return, `LeaveWorkload`. Rollouts, evictions and
people's deletions are all `DeletePod`.

What Kubernetes and people may do is the constant `Happens`, so that a run can
say which of it its result needs; the proofs say the same with `Sound`.

### `MemoryMove`: a move of the agent's memory

Claims are numbered: 0 is the StatefulSet's own, `m` the target of the move with
id `m`. What is on a claim is the Pod that last wrote it; a cut or mixed copy is
`Torn`, and a digest is what it is a digest of. `claim` holds every annotation
agent_move.go reads or writes (`movedTo`, `phase`, `source`, `sourceWriter`,
`digest`, `started`, `writer`). Each branch of `reconcileMove` is an action;
`SwitchMove`, `SettleMove`, `ReadFirstPod` and `RestoreSource` are separate
because each writes. The fence is one step here, as its own steps are
`WriterFence`'s; it lets a Pod go that stopped and whose claim was noted, or that never
had a node (`WriterStopped`), which is settled when the Pod is deleted (`bound`). A Job
whose Pod is deleted once it is done is `unread`: it never ends (`NotEnded`). The scripts of the two Jobs are `BeginCopy`, `EndCopy` and
`VerifyCopy`. Digests come from the Job's termination message; a message that
cannot be parsed is a failed Job. The agent program is the environment: it serves
if it may make a store or finds one, and exits otherwise. Ids of moves are names, so `AskMove` names the first ones
first.

### `Placement`: the registration of Pods with the control service

| State | Code |
|---|---|
| `pod`, `cache` | the agent's Pod, and the Pod in the cache `placementOf` reads |
| `quiet` | the Pods whose writers stopped, as the fence's evidence says |
| `secret` | the placement Secret: its token and the `previous` annotations minted with it |
| `epoch`, `recorded`, `proved` | the epoch on the Agent, on the agent's latest revision, and garam's, which a person's configuration records |
| `registry` | the store's placements by Pod: current or superseded, with their body |
| `reg` | the registrar's `registration`: the body and whether it is due, accepted or refused for good |
| `asked`, `net` | the request awaited, and the requests that may still be decided |

`Register` is `registerAll` reading the Pod and presenting a body that is due;
`RegisterPlacement` is the handler with its proof of the epoch, `DecidePlacement`
and the store, whose answer arrives (`Outcome`) or not. A request given up on
stays in `net`. The body's digests are what they are digests of; the claim UID is
left out, as it never changes for a Pod. A decision is one step: PostgreSQL locks
the rows it reads and decides again after a unique violation. Requests and
answers are not numbered: a repeated body is the same body. The fence is its
contract, proved of `WriterFence`: a token naming a Pod is minted, and the Pod
goes, only once that Pod stopped.

### `Activation` and `ActivationChain`: activations and stops of one agent

| State | Code |
|---|---|
| `gens` | the runtime generations and the revision each runs |
| `rows`, `latest` | `activation_requests` by generation, and `agent_activations` |
| `applied`, `reports` | `agent_status` of the runtime; reports admitted and not recorded |
| `stops`, `ends` | the console's stops; deactivations garam may still execute |
| `tries`, `calls` | attempts in progress over all instances; activations garam may still execute |
| `made`, `live`, `given` | garam: its latest activation, whether it routes to it, and each generation's |

An attempt is `CurrentPlacement` (read before the lock), `PrepareActivation` (the
lock, the stop check, the row), `CallActivate` / `SendAgain`, garam's own step and
`RecordActivation`; `EndAttempt` is every way it ends with nothing recorded. A
console's stop is `RecordStop`, `Deactivate` and garam's step, its start `Start`.
`ActivationChain` is the promise: garam makes one activation after another, each in
place of the one control has on record, ends only that one, and the record is at
most one behind. `Activation` is shown to implement it (`RefinesChain`).

### `Definitions` and `DefinitionLog`: creation and configuration

`Definitions` has one agent: its creation through the store and garam's two
stages, with attempts overlapping and failing between any two, and its configure
requests, with the authority and the comparison of the embedding ahead of the transaction
that appends the revision. A request may expect a revision that is not stored yet, the
latest plus one included; `ahead` keeps, of a revision, what of its request was judged
before the revision it expects was stored. `DefinitionLog` is what the feed relies on: revisions grow by
one, stops turn, and the position moves with either. `Definitions` is shown to
implement it (`RefinesLog`), and `DesiredFeed` extends it as its store.

### `DesiredFeed`: from the store to the Agents and back

`Snapshot` is the feed's read of position and agents together, `Release` garam's
proof per agent and the answer, or `FeedRefuses` where there are more agents than one
answer carries (`maxAgents`, any of `AgentLimits`), then one of `Skip`, `Render`, `CreateRefused`,
`RefuseMalformed`, `RenderFails` for each agent, and `Advance`. `Render` patches
the difference from the Agent as cached (`seen`), so a lagging cache matters. A
report stays in `reports` until the control service records it, also after the
puller gave up on it or restarted. `rendered` is what the puller remembers, and is
set only when the report is answered.

### `Credentials`: recovery beside the token refresher

`recs` is the store's recoveries, `lineage` and `spent` garam's, `request` the
persisted request Secret, `secret` and `seen` the credential Secret and its cached
metadata, `hold` and `kept` the refresher's holder and unwritten tokens, `tmpl` the
lineage on the Pod template. The console's `OpenRecovery`, `FinalizeAsked` and
`FinalizeRecovery`, garam's `GaramRecover`, the recoverer's steps from
`SaveRecovery` to `DeleteRequest`, the refresher's `ReadHolder`, `Mint` and
`StoreTokens`, and the reconciler's `ApplyLineage` interleave; `Restart` forgets
what is not persisted.

### Proof and run modules

`WriterFenceProofs` (types of the fence, and what its evidence names),
`FenceSafetyProofs` (its safety), `MemoryMoveProofs`, `PlacementProofs`,
`ActivationProofs`, `CredentialsProofs`, `DefinitionsProofs` and
`DesiredFeedProofs`. The `MC` modules are those of the runs. A definition whose
comment begins with "Mutant" is a plausible fault of the definition after it; no
specification uses it.

## 3. The runs

Bounds: `MaxPods`, `MaxClaims`, `MaxMoves`, `MaxAsks`, `MaxLost`, `MaxCrashes`, `MaxTokens`,
`MaxEpochs`, `MaxGens`, `MaxStops`, `MaxTurns`, `MaxEvents`, `MaxRevision`,
`MaxRecoveries`, `MaxExpected`, `AgentLimits`. Two Pods are needed for two writers; a second claim for one
replaced; a second move for a chain; two asks to ask, clear or change; one Job
lost, at any point of either move, for a step with no outcome; one crash
for any one place between two writes; a second epoch for a body refused for good; a
third generation for one that waited while two others were activated; two attempts
or requests for a race; two revisions for one that overtakes; a request for
revision 2 for one that expects a revision not stored yet; answers of one agent and of two,
with two agents, for one too many; two recoveries for a
lineage that could go back. Larger environments are split over runs by `Happens`,
since most events do not interact.

| Run | Bounds and events | Shows |
|---|---|---|
| `fence_nodes` | 2 Pods, 1 crash, nodes lost, gone, out of service, Agent deletion | `SingleWriter`, `EvidenceTruthful`, `SuccessorFollowsEvidence`, `DrainRecordTruthful`, `ReleasedOnOwnEvidence`, types |
| `fence_stale` | 2 Pods, 2 claims, manual releases, late kubelets, lost containers, suspension | `EvidenceNamesVolume`: comparing creation times, not only UIDs, is needed, and leaves the window of one second; `NeverCreatedTruthful` |
| `fence_live` | 2 Pods, 1 crash, lagging cache, fair | `DrainedPodLeaves` |
| `move_safe` | 2 moves, 3 Pods, 2 asks, 1 crash, evictions, failed Jobs, 1 Job lost or unread, an image that refuses the copy | `MemoryHome`, `CopyOfDrained`, `ServesLatest`, `AcceptedLinkStays` over the second move, and `NoWriterUnderJob` while no reconcile was cut short |
| `move_live` | 1 move, 2 Pods, 1 crash, every event but a move asked again, fair | `LinkNamesVerifiedCopy`, `JobRunsOnce`, `MoveSettles` |
| `placement` | 3 Pods, 3 tokens, 2 epochs, reconfigured or not, fair | `ReplacedOnceStopped`, `TokenMatches`, `ChainContinues` |
| `activation` | 3 generations, 2 revisions, 1 stop, 2 attempts | `StopExcludesAttempts`, `StopRoutesNothingKnown`, `EffectiveOfLatest`, `UnreferencedSameRevision`, `RefinesChain`, types |
| `credentials` | 2 recoveries, 2 epochs, 1 event, fair | `CollectedLineageServed`, `LineageNeverBack`, `RecoveryCompletes` |
| `definitions` | 2 embeddings, 2 creation and 2 configure attempts, 2 requests expecting revision 1 or 2, 2 epochs, 1 stop | `EmbeddingImmutable`, `AppliedOnce`, `CreationWhole`, `EpochsInOrder`, `RefinesLog`, types |
| `feed` | 2 agents, 2 revisions, 1 stop, 1 failure or restart, a malformed revision, lagging cache, answers of 1 agent or 2, fair | `CursorCoversAnswer`, `ReportTruthful`, `RevisionNeverBack`, `RevisionReached`, types |

Deadlock is checked where the system goes on for ever within the bounds; the other
runs stop where a bound is used up or, in `fence_nodes`, the Agent is gone.

### Where the code and its words differ

Two runs check what a comment or a document says and find a behaviour of the code
against it; each is a finding in `PROJECT.json`.

* `fence_stale_release` (`SingleWriter`): a release decided on a cached Pod that
  was already replaced takes the finalizer off its successor, as the patch names
  the Pod but not its UID.
* `feed_stop` (`StopCleared`): a stop is rendered and its report fails, so the
  puller still remembers the rendering before it. The start makes the answer equal
  to what is remembered, the agent is skipped, and it stays stopped.

The passing runs leave out the events that lead to these. The models show more of
the same with other constants, each worth a discussion beside the line it is
about. The first three of the move came out of its proofs: each is a hypothesis the
proof could not do without.

* `SingleWriter` fails with `late` added to `fence_nodes`: a container that
  terminated in a Pod deleted by force counts as stopped, though its kubelet has
  not seen the deletion and restarts it (agent_fence.go:338).
* `DrainRecordTruthful` fails with `hand` added to `fence_nodes`: a manual release
  of a Pod not yet recorded leaves the record of the Pod before it
  (agent_fence.go:106).
* `MemoryHome` fails with only `resumed` in `move_safe`, with 1 move, 3 asks and no
  crash: the hold of a move takes effect at the StatefulSet step, the last of a
  reconcile. A verified move that is cleared, so that a replica is wanted again, and
  asked once more before the Pod is there, is switched; the Pod then comes up on the
  source and writes there (agent_move.go:422, whose comment says that nothing runs on
  the source while a move holds the agent).
* `AcceptedLinkStays` fails with only `resumed`, 2 moves and 3 asks: a move left for
  another and asked again after the other was accepted passes `sourceUnchanged`, since
  what was written since was written to the copy, and takes the source's link from the
  accepted copy to its own (agent_move.go:452).
* `MemoryHome` fails with `sourceDeleted` in `move_safe`: docs/architecture/agent.md:251
  lets a person delete the claim moved off once the move is accepted, and the chain of
  links starts at that claim (agent_move.go:241).
* `NoWriterUnderJob` says nothing after a reconcile cut short, where it fails, and
  fails where a Job just made is not in the cache yet (`jobLag`). `MemoryHome` fails
  with five reconciles cut short, one after each step of a move and before its
  StatefulSet step: the whole move then runs beside a StatefulSet that still asks for a
  replica, and a Pod comes up on the source after the switch, as with `resumed`.
* `MemoryHome` fails with `agentFails` in `move_safe`: an agent that served on the
  copy and failed before a reconcile saw it ready is refused, and what it wrote
  stays behind (agent_move.go:595). Conversely a Pod without a readiness probe is
  ready before it serves, so a copy can be accepted that was never served on.
* A claim made after the Pod in the second of the Pod's creation passes `readClaim`'s
  comparison (agent_fence.go:266), and the evidence then names a claim the Pod never
  mounted: ADR 0042:62 and docs/architecture/agent.md:300 state this window, for a person
  who edits the annotation. In the model no edit is needed: where the reconcile annotates
  the Pod only after the claim was replaced, it annotates the new claim itself.
  `EvidenceNamesVolume` excuses exactly the claims made in a Pod's second.
* A move waits for a person where the Pod of a Complete Job was deleted before a
  reconcile read it (agent_move.go:722), and where a Pod with a node was deleted before
  its claim was noted (agent_fence.go:261). `MoveSettles` is about a move that does
  neither. Clearing such a move does not free the agent: its Job never ends, and a Job
  that has not ended holds the agent stopped (agent_move.go:276).
* A Pod created between the fence's read and the deletion of the StatefulSet
  outlives its Agent (agent_controller.go:143).
* A Pod replaced before it registered leaves a `previous` the control service never
  stored; the next Pod is refused, so it never registers either, and so on
  (definition.go:564). `ChainContinues` is therefore about a registered predecessor.
  Nor does a Pod of an agent that moved register before a person configures the agent
  under its new assignment (docs/architecture/control.md:159); the property is about an
  agent that is placed where its latest revision says, again or still.
* A call to garam executed late: an activation whose answer was lost may be routed
  to while a stop holds the agent and is answered as deactivated, because it is not
  on record (hence `StopRoutesNothingKnown`); a deactivation may take effect after
  the start; and a generation that waited for the lock may be activated after its
  successor. Where the answer is lost and the generation replaced before it repeats
  its request, the next request is anchored at the activation before, which garam
  no longer has as its latest, and is refused however often it is repeated.
* garam may hold an agent it admitted whose creation is recorded as failed, when the
  two attempts of one creation are answered differently (create.go:57).
* A configure may expect a revision that is not stored yet, since `parseConfigure` asks
  only for a canonical number. `embeddingKept` then compares nothing (configure.go:63),
  and if that revision is stored by another request before the transaction, the first is
  appended after it, with any embedding and under the epoch it was authorised with, which
  may be behind. `EmbeddingImmutable` and `EpochsInOrder` excuse exactly the revisions so
  judged ahead of their base; every other keeps both.
* An operator with more agents than one answer carries is answered none of them
  (desired.go:110), so no new revision reaches any. `RevisionReached` is about an operator
  whose agents fit.
* A stale configure moves the position in PostgreSQL and not in the memory store.
* The renderer patches the difference from a cached Agent, so over a cache that
  lags a whole answer behind, a field that goes back to the value cached keeps the
  value of the revision between (renderer/agent.go:95). Of the spec, the model keeps
  the revision, which never goes back, and the stop.
* A recovery collected while no credential Secret exists records nothing; tokens the
  refresher minted before it and wrote after are of the old lineage
  (credential/recovery.go:91). `CollectedLineageServed` is about a recorded lineage.
* A recovery request persisted under an epoch the agent left is refused for good and
  keeps the next one from being begun (recoverer.go:171). `RecoveryCompletes` is
  about the first epoch.
* `WithAgentLock` holds its advisory lock on one connection while the statements run
  on others; a connection that drops loses the lock and not the attempt. The model's
  lock is held while the attempt runs.

### Fairness

`WF(Controller)`: the reconciler is woken by the objects it owns and watches, and
`fenceResult` requeues a reconcile that found no evidence, so one always follows
and, unless cut short (at most `MaxCrashes` times), ends. `WF` of the cache, of a
kubelet that stops and reports a Pod it knows to be deleting, of the StatefulSet
controller, and of Jobs is what Kubernetes promises of running nodes; no fairness
is assumed of nodes coming back, of people, of failures, or of the agent other
than that it opens a store it can open and exits where it cannot.

In `Placement`, the registrar's loop, its request timeout and the cache are weakly fair,
and so is the feed while it does not withhold the agent, that is, while garam places it
under the epoch of its latest revision. Recording a new epoch is a person's configuration
and not fair. The answered registration is strongly fair: requests and answers
may be lost any number of times, but a body presented for ever is answered some
time. Nothing makes a Pod run, stop or stay, or a restart happen.

In `DesiredFeed` the puller's loop, the control service's handling of a report in
transit and the watch are weakly fair: the loop runs until the manager stops, a
request has a deadline and the loop goes on after it, a refused answer included. Failures and restarts are
bounded by `MaxEvents`; `RevisionReached` needs no other answer than those the
puller asks for, since the long poll answers after its wait. In `Credentials` the
recoverer's and the refresher's passes, the feed's offers, the cache and the
reconciler are weakly fair; the administrator, garam and the clock are not.

## 4. The proofs

Each proof module states its theorems for every value of the constants its module
declares; a hypothesis, where there is one, says which events of the environment are
left out.

**The fence.** `TypeCorrect` proves `Spec => []TypeOK` with no hypothesis. So do
`NeverCreatedTruthfulHolds` and `EvidenceNamesVolumeHolds`: what the evidence says of
a Pod is true, but for the claims made in a Pod's own second, with late kubelets, a lagging cache and manual releases, all of them at
once and in any number, where the run `fence_stale` has some of them. Their invariant
is `EvidenceInv`: a Pod mounts the claim there is, so a claim not of a later second than
a Pod that mounted one is the one it mounted or was made after it in its second
(`VolumesInOrder`, the reason `readClaim` compares creation times, and what a comparison
of whole seconds leaves); a Pod object shown terminal and not disrupted, in the API server or
the cache, is of a Pod that was told to stop and runs nothing, and a writer shown to
have exited has mounted a claim (`ShownTruly`); a record, once written or on its way to
be, stays true, since a Pod told to stop never starts or mounts again (`StepsOnward`,
`NamedTruly`).

The others assume `Sound`: no late kubelet, no lagging cache, no manual release, each
of which breaks `SingleWriter` or `DrainRecordTruthful` (see above). Nodes may be
lost, deleted, tainted and come back, claims replaced, the Agent suspended and
deleted, containers lost and reconciles cut short, for any number of Pods,
claims and writers.

`SingleWriter` is not inductive: it says nothing of why a Pod that is gone stays
quiet. The invariant `FenceInv` adds

* `OnePod`: the Pod object is the newest Pod, seen as it is, and a Pod without a
  node runs nothing;
* `ReportsHold`: a Pod in contact that is shown stopped has stopped, a deleting
  one is known to its kubelet, and a terminal one that was not disrupted is quiet;
* `StoppedForGood`: every Pod that is gone or released is quiet, and so are the
  one the evidence names and the one a release in progress is about;
* `RecordsInOrder`: evidence, token and finalizer in that order, at every step at
  which a reconcile may be cut short.

`EvidenceMeansQuiet` is the heart: what `readFence` accepts is a quiet Pod.
`StepKeepsFence` has a lemma for each action that changes a Pod, a node or a
record, most of them instances of `PodStepKeeps` and `ReadsOrRecordsKeep`. From
`FenceHolds` follow `SingleWriterHolds`, `EvidenceTruthfulHolds`,
`SuccessorFollowsEvidenceHolds` and the action property
`ReleasedOnOwnEvidenceHolds`.

`DrainRecordTruthful`, on which a move relies, needs two more. `WritersInOrder`: a
reconcile that notes a running writer does so of a Pod still held, so no note can
overtake the record of a stop, and a Pod that is let go or gone is the one a clean
stop is recorded under. `ExitsTrue`: of a Pod whose node is known, the API shows the
very exits its writers made (a restart replaces the exit before it), a clean exit read
as evidence or recorded is that of a Pod that has stopped for good, and such a Pod's
exits never change (`DrainedStays`).

**The move.** `MemoryMoveProofs` builds four layers, each inductive over those below:

* the types and `Records`, in any environment in which nobody deletes a source
  (`Kept`): a link is to a claim begun from this one and verified, a Job was marked
  before it was made, and a reconcile between two writes has the records its step
  presumes. `LinkNamesVerifiedCopyHolds` and `JobRunsOnceHolds` follow. The types
  (`MoveTypes`) need no hypothesis;
* `OneChain`, where an id left for another is not asked again (`Unresumed`): the links
  form one chain from the StatefulSet's claim, at most one move can still come to its
  switch, and that one was begun on the end of the chain, which is why a switch
  lengthens the chain and never bends it. `AcceptedLinkStaysHolds` follows;
* `MemoryKept`, where in addition an agent that served does not fail unseen, nobody
  takes a finalizer off and fewer than five reconciles are cut short (`Careful`): the
  end of the chain holds what the agent last wrote (`HomeKept`); a move's target holds
  what its source held as long as no Pod came to the source since (`CopyFaithful`); a
  Pod that can open its store is on the end of the chain (`PodInPlace`,
  `PlansInPlace`). `StopsCounted` is what ties them together: a move takes five
  reconciles, each of which that comes to its end leaves the StatefulSet without a
  replica, so a Pod can meet the switch only if all five were cut short. The bound is
  tight, as said in section 3. `MemoryHomeHolds`, `ServesLatestHolds` and
  `CopyOfDrainedHolds` follow, for any number of moves and Pods, with evictions,
  failed, lost and late Jobs, an old agent and suspension;
* `JobsAlone`, where Jobs are seen as they are made (`Prompt`): while a Job reads, its
  source has no Pod and no StatefulSet that would make one, as long as no reconcile was
  cut short. `NoWriterUnderJobHolds` follows.

**The credential.** `CredentialsProofs` has no hypothesis. `CredInv`: recoveries are
finalized in order, each in the lineage of its number (`RecoveriesInOrder`); the
persisted request is the newest the operator has to answer for (`RequestInOrder`); the
lineage on the Secret is that of a finalized recovery (`LineageRecorded`); and tokens
minted, kept unwritten under a version of the Secret or placed are not older than the
lineage that version records (`TokensFollow`), which is why the conditional write and
not the order of the two loops protects the recovery.

**The placements.** `PlacementProofs` assumes only the constants' ranges. `ReplacedOnceStopped` and
`TokenMatches` are about the store, but a body already in transit decides what the
store becomes, and the Secret and the cache decide the body. `PlacementInv` links
them:

* `PodsInOrder`: Pods are numbered, and every one before the Pod there is stopped;
* `SecretInOrder`: the Secret names a stopped Pod, the last one or the one before;
* `BodyInOrder`: a body pairs a Pod with a Secret at most one release ahead, never
  behind: a stale cache can only name a Pod too old, and a body of the Pod there is
  carries its token;
* `RegistryInOrder`: the stored placements are those of the first Pods, with no
  gap, and only the last is current.

`RegisterIsNext` is the heart: a body in order that `DecidePlacement` stores is of
exactly the Pod after the current placement's. Late and repeated bodies are refused
because their Pod is stored already or their `previous` is not current.

**Activations and stops.** `ActivationProofs` proves every property of `Activation` that is checked, from
`ActInv`. The lock admits one attempt (`OneLocked`), so an answer waiting to be
recorded is still garam's latest or the one on record (`AnswerCurrent`); a request
is anchored at what was on record (`Anchored`), so garam, which replaces only its
latest, replaces only what control knows (`GaramStep`), and every step is one of
`ActivationChain` (`StepChain`, `RefinesChainHolds`). A report names the activation
of a generation running the revision reported (`ReportsGiven`), whatever order it
is recorded in, which gives `EffectiveOfLatest` and, through the anchor,
`UnreferencedSameRevision`. While a stop holds, no attempt can move the record
(`StopsKnow`), so what garam ended is what is on record.

**Definitions.** `DefinitionsProofs` proves all of `Definitions`, from `DefInv`. Its point is what
is read ahead of a transaction: a request authorised after the revision it expects was
stored is based on a stored revision (`SendsBased`), and while that one is the latest, the
epoch it was authorised under is not behind the latest's (`SendsCurrent`); compared after
it was stored, the embedding is the latest's (`SendsKeep`). Any append puts every other such
request behind, so `appendDefinition`'s one comparison is enough for them. A request judged
before its base was stored has no such protection, and the two theorems,
`EmbeddingImmutableHolds` and `EpochsInOrderHolds`, are about the revisions of the others:
the history `ahead` of a revision says which it is of. `RefinesLogHolds` shows
the store implements `DefinitionLog`.

**The feed.** `DesiredFeedProofs` orders the places a revision is at: store, last answer, Agent,
then cache and reports, each never ahead of the one before (`PageBehind`,
`SpecBehind`, `ReportsBehind`). `RenderedBetween` is the heart: a merge patch over a
cached Agent still leaves the answer's revision, because where the answer's equals
the cached one, so does the Agent's.

Every safety property a passing run checks is now also a theorem, under the
hypotheses named here. Only model-checked are the liveness properties
`DrainedPodLeaves`, `MoveSettles`, `ChainContinues`, `RecoveryCompletes` and
`RevisionReached`: they rest on fairness, which is out of the prover's reach.

## 5. Not modelled

The contents of the Pod template and of the configuration; conditions and
messages; `reconcileRecovery`'s condition; `replaceSharedShape`, which orphans a
StatefulSet of an earlier shape; the refusals of a move before it records anything
(no copy image, shared or foreign claim) and the limit on a chain's length; a
controller that is not authenticated, an agent reassigned to another controller; an
`Agent` a person wrote under the feed's name, which the renderer leaves alone;
publication of profiles and templates, which only adds versions; the operator
registry (one upsert), the image catalogue (one read), schema migration (SQL in one
transaction), certificate reloading and machine tokens (a value under a mutex), and
the wiring of the processes. `agent_status.go`, `agent_types.go` and the schema are
translations without state.

## 6. Plan

In this order:

1. The fence with late kubelets: a weaker `SingleWriter` that says which Pods may
   overlap, and its proof.
2. An abstract specification of the fence's promise (evidence, then token, then the
   successor), shown to be implemented by `WriterFence` and used by `Placement`.
3. The abstract specification of a move: one chain of claims that only grows, shown to
   be implemented by `MemoryMove` where `OneChain` holds.
4. The rest of the refusals of a move, and the roll of an outdated Pod.
