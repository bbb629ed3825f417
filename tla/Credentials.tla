------------------------------ MODULE Credentials ------------------------------
(***************************************************************************)
(* An agent's credential: its recovery, from the administrator's opening   *)
(* to the agent's Pod in the new lineage (internal/console,                *)
(* internal/definition, internal/distribution, internal/desired,           *)
(* internal/controller), beside the refresher that keeps the agent's       *)
(* tokens fresh (internal/garam).                                          *)
(*                                                                         *)
(* One agent, held by one operator throughout; its assignment may move to  *)
(* a later epoch, which garam and the agent's latest revision then both    *)
(* name.  Recoveries are numbered in the order they are opened, lineages   *)
(* in the order garam makes them, 0 being the first; a token is the        *)
(* lineage it was minted in.  garam makes one lineage for a recovery,      *)
(* however often it is asked.  The operator reads the credential Secret's  *)
(* metadata from a cache that may lag, except where the code does not.     *)
(***************************************************************************)
EXTENDS Integers

CONSTANTS
  MaxRecoveries,  \* bound: recoveries opened
  MaxEpoch,       \* bound: the agent's last epoch
  MaxEvents       \* bound: restarts, failed refreshes, dues and moves of the epoch

ASSUME CredentialsAssumption ==
  MaxRecoveries \in Nat /\ MaxEpoch \in Nat \ {0} /\ MaxEvents \in Nat

VARIABLES
  recs,      \* control: recoveries
  epoch,     \* the agent's assignment epoch
  asked,     \* recoveries whose Recover garam may still execute
  answers,   \* recoveries garam answered the console for
  lineage,   \* garam: the latest lineage it made
  spent,     \* garam: the lineage each recovery was answered with, 0 for none
  offered,   \* recoverer: the open recovery of the feed's last answer, 0 for none
  spec,      \* the epoch the Agent's spec names
  request,   \* the request Secret: the recovery persisted, 0 for none
  recorded,  \* recoverer: the recovery last recorded, 0 for none
  step,      \* recoverer: where it is with the persisted request
  got,       \* recoverer: the lineage the request was answered with
  secret,    \* the credential Secret; version 0 while absent
  seen,      \* its metadata as the operator's cache holds it
  hold,      \* refresher: the version of the holder it refreshes, None between
  kept,      \* refresher: unwritten tokens
  tmpl,      \* the lineage on the StatefulSet's Pod template, 0 for none
  events     \* the bounded events so far

vars == <<recs, epoch, asked, answers, lineage, spent, offered, spec, request, recorded,
          step, got, secret, seen, hold, kept, tmpl, events>>
controlVars == <<recs, epoch, asked, answers, lineage, spent>>
recovererVars == <<offered, spec, request, recorded, step, got>>
refresherVars == <<hold, kept>>

Recs == 1..MaxRecoveries
Lineages == 0..MaxRecoveries
None == -1

Recovery == [stage: {"none", "requested", "prepared", "finalized"}, epoch: 0..MaxEpoch,
             lineage: Lineages]
Refresh == {"none", "later", "now"}   \* tokens-refresh: absent, ahead, or passed
Metadata == [ver: Nat, ann: Lineages, refresh: Refresh]
Secret == [ver: Nat, ann: Lineages, refresh: Refresh, tok: Lineages, ctl: Lineages]
Tokens == [ver: Nat \cup {None}, tok: Lineages \cup {None}, ctl: Lineages \cup {None}]
NoTokens(v) == [ver |-> v, tok |-> None, ctl |-> None]
Absent == [ver |-> 0, ann |-> 0, refresh |-> "none", tok |-> 0, ctl |-> 0]
MetadataOf(s) == [ver |-> s.ver, ann |-> s.ann, refresh |-> s.refresh]

\* One more of the bounded events.
Event == events < MaxEvents /\ events' = events + 1

Open(r) == recs[r].stage \in {"requested", "prepared"}
Finalized(r) == recs[r].stage = "finalized"

\* LatestRecovery: the open recovery, else the most recently opened.
Latest(r) ==
  /\ recs[r].stage # "none"
  /\ \A q \in Recs : q > r => recs[q].stage = "none"

--------------------------------------------------------------------------------
(* The control service and garam                                             *)

\* OpenRecovery, the store's: a new one, while none is open.
NoneOpen(r) == recs[r].stage = "none" /\ \A q \in Recs : q < r => Finalized(q)

\* OpenRecovery, the service's: under the epoch of the agent's latest revision.
Opened == [stage |-> "requested", epoch |-> epoch, lineage |-> 0]

\* openRecovery.
OpenRecovery(r) ==
  /\ NoneOpen(r)
  /\ recs' = [recs EXCEPT ![r] = Opened]
  /\ UNCHANGED <<epoch, asked, answers, lineage, spent, secret, seen, tmpl>>
  /\ UNCHANGED recovererVars /\ UNCHANGED refresherVars /\ UNCHANGED events

\* Recover, the call: garam may execute it from here on.
SendRecover(r) == r \notin asked /\ asked' = asked \cup {r}

\* finalizeRecovery, until garam is asked.  One finalized already changes nothing.
FinalizeAsked(r) ==
  /\ Latest(r) /\ recs[r].stage = "prepared"
  /\ SendRecover(r)
  /\ UNCHANGED <<recs, epoch, answers, lineage, spent, secret, seen, tmpl>>
  /\ UNCHANGED recovererVars /\ UNCHANGED refresherVars /\ UNCHANGED events

\* garam executes the recovery, at the epoch it names, or answers it again.  Its
\* answer reaches the console, or is lost and the administrator sends it again.
GaramRecover(r) ==
  /\ r \in asked
  /\ asked' = asked \ {r}
  /\ IF spent[r] # 0 \/ recs[r].epoch = epoch
     THEN /\ spent' = [spent EXCEPT ![r] = IF @ = 0 THEN lineage + 1 ELSE @]
          /\ lineage' = IF spent[r] = 0 THEN lineage + 1 ELSE lineage
          /\ answers' \in {answers, answers \cup {r}}
     ELSE UNCHANGED <<spent, lineage, answers>>
  /\ UNCHANGED <<recs, epoch, secret, seen, tmpl>>
  /\ UNCHANGED recovererVars /\ UNCHANGED refresherVars /\ UNCHANGED events

\* FinalizeRecovery: garam's answer is recorded, once.
FinalizeRecovery(r) ==
  /\ r \in answers
  /\ answers' = answers \ {r}
  /\ recs' = IF recs[r].stage = "prepared"
             THEN [recs EXCEPT ![r].stage = "finalized", ![r].lineage = spent[r]] ELSE recs
  /\ UNCHANGED <<epoch, asked, lineage, spent, secret, seen, tmpl>>
  /\ UNCHANGED recovererVars /\ UNCHANGED refresherVars /\ UNCHANGED events

\* The agent is assigned at a later epoch, and its latest revision records it.
MoveEpoch ==
  /\ epoch < MaxEpoch
  /\ Event
  /\ epoch' = epoch + 1
  /\ UNCHANGED <<recs, asked, answers, lineage, spent, secret, seen, tmpl>>
  /\ UNCHANGED recovererVars /\ UNCHANGED refresherVars

--------------------------------------------------------------------------------
(* The operator's recoverer                                                  *)

\* One answer of the feed: the open recovery is offered, the Agent rendered.
Offer ==
  LET open == {r \in Recs : Open(r)}
      named == IF open = {} THEN 0 ELSE CHOOSE r \in open : TRUE
  IN /\ <<offered, spec>> # <<named, epoch>>
     /\ offered' = named
     /\ spec' = epoch
     /\ UNCHANGED <<request, recorded, step, got, secret, seen, tmpl>>
     /\ UNCHANGED controlVars /\ UNCHANGED refresherVars /\ UNCHANGED events

\* Recovering and LoadRecovery: a request is persisted, read past the cache.
Persisted == request # 0

\* SaveRecovery, the store's: the request Secret is created.
CreateRequest(r) == request' = r

\* begin: the request is persisted before it is sent, unless one is there.
SaveRecovery ==
  /\ step = "idle" /\ ~Persisted /\ offered # 0 /\ recorded # offered
  /\ CreateRequest(offered)
  /\ UNCHANGED <<offered, spec, recorded, step, got, secret, seen, tmpl>>
  /\ UNCHANGED controlVars /\ UNCHANGED refresherVars /\ UNCHANGED events

\* provePlacedAt: the request's epoch is no longer the agent's.
EpochSuperseded(r) == recs[r].epoch # epoch

\* prepareRecovery, the route: another epoch's request is refused.
RouteAdmits(r) == ~EpochSuperseded(r)

\* PrepareRecovery, the store's: the first request prepares the recovery.
StorePrepared(r) ==
  /\ recs[r].stage = "requested"
  /\ recs' = [recs EXCEPT ![r].stage = "prepared"]

\* PrepareRecovery, the client's: once finalized, the answer brings the new lineage.
AnsweredLineage(r) ==
  /\ Finalized(r)
  /\ step' = "answered" /\ got' = recs[r].lineage

\* recover: the persisted request is sent, whatever the feed names now.
PrepareRecovery ==
  /\ step = "idle" /\ Persisted /\ RouteAdmits(request)
  /\ \/ StorePrepared(request) /\ UNCHANGED <<step, got>>
     \/ AnsweredLineage(request) /\ UNCHANGED recs
  /\ UNCHANGED <<epoch, asked, answers, lineage, spent, offered, spec, request, recorded>>
  /\ UNCHANGED <<secret, seen, tmpl>> /\ UNCHANGED refresherVars /\ UNCHANGED events

\* Recovered: whether a credential is placed, read past the cache.
ReadPlaced ==
  /\ step = "answered"
  /\ step' = IF secret.ver = 0 THEN "recorded" ELSE "placed"
  /\ UNCHANGED <<offered, spec, request, recorded, got, secret, seen, tmpl>>
  /\ UNCHANGED controlVars /\ UNCHANGED refresherVars /\ UNCHANGED events

\* A patch that changes nothing leaves the Secret's version.
Written(s) == IF s = secret THEN secret ELSE [s EXCEPT !.ver = secret.ver + 1]

\* Mutant: the refresh time is left as it is.
PatchLineageOnly ==
  /\ step = "placed"
  /\ secret' = Written([secret EXCEPT !.ann = got])
  /\ step' = "recorded"
  /\ UNCHANGED <<offered, spec, request, recorded, got, seen, tmpl>>
  /\ UNCHANGED controlVars /\ UNCHANGED refresherVars /\ UNCHANGED events

\* Recovered: one patch records the lineage and removes the refresh time.
PatchLineage ==
  /\ step = "placed"
  /\ secret' = Written([secret EXCEPT !.ann = got, !.refresh = "none"])
  /\ step' = "recorded"
  /\ UNCHANGED <<offered, spec, request, recorded, got, seen, tmpl>>
  /\ UNCHANGED controlVars /\ UNCHANGED refresherVars /\ UNCHANGED events

\* retryTransient: recording the lineage failed part way, and starts over.
RetryTransient ==
  /\ step # "idle" /\ Event
  /\ step' = "idle" /\ got' = 0
  /\ UNCHANGED <<offered, spec, request, recorded, secret, seen, tmpl>>
  /\ UNCHANGED controlVars /\ UNCHANGED refresherVars

\* deleteSecret: the request Secret is removed last, and the recovery remembered.
DeleteRequest ==
  /\ step = "recorded"
  /\ request' = 0 /\ recorded' = request
  /\ step' = "idle" /\ got' = 0
  /\ UNCHANGED <<offered, spec, secret, seen, tmpl>>
  /\ UNCHANGED controlVars /\ UNCHANGED refresherVars /\ UNCHANGED events

--------------------------------------------------------------------------------
(* The operator's refresher                                                  *)

\* refresh: what an earlier attempt minted against the same version is kept.
KeptFor(v) == IF kept.ver = v THEN kept ELSE NoTokens(v)

\* readDue: no refresh time, or one that passed.
Due == seen.refresh # "later"

\* Holders: the agent, at the version of the Secret the cache shows.
HolderVersion == seen.ver

\* Refresh: a holder that is due is taken; tokens that expired unwritten are dropped.
ReadHolder ==
  /\ hold = None /\ Due
  /\ hold' = HolderVersion
  /\ kept' \in {KeptFor(HolderVersion), NoTokens(HolderVersion)}
  /\ UNCHANGED <<secret, seen, tmpl>>
  /\ UNCHANGED controlVars /\ UNCHANGED recovererVars /\ UNCHANGED events

\* MintAgentToken: garam mints in the lineage it holds.
MintedToken == lineage

\* mint: a token of another epoch than the spec names is refused.
MintAdmitted == spec = epoch

\* refresh: the garam token is minted first, then the control token.
Mint ==
  /\ hold # None /\ MintAdmitted
  /\ \/ kept.tok = None /\ kept' = [kept EXCEPT !.tok = MintedToken]
     \/ kept.tok # None /\ kept.ctl = None /\ kept' = [kept EXCEPT !.ctl = MintedToken]
  /\ UNCHANGED <<hold, secret, seen, tmpl>>
  /\ UNCHANGED controlVars /\ UNCHANGED recovererVars /\ UNCHANGED events

\* Mutant: the patch names no version.
StoreAccepted(v) == (v = 0) = (secret.ver = 0)

\* Store's write is accepted: the Secret is at the version the holder was read at,
\* or absent still.
StoreAdmitted(v) == secret.ver = v

\* Mutant: the Secret is replaced with what the refresher knows of it.
StoreReplacing ==
  /\ hold # None /\ kept.tok # None /\ kept.ctl # None
  /\ hold' = None
  /\ IF StoreAdmitted(hold)
     THEN /\ secret' = [ver |-> secret.ver + 1, refresh |-> "later", ann |-> 0,
                        tok |-> kept.tok, ctl |-> kept.ctl]
          /\ kept' = NoTokens(None)
     ELSE UNCHANGED <<secret, kept>>
  /\ UNCHANGED <<seen, tmpl>>
  /\ UNCHANGED controlVars /\ UNCHANGED recovererVars /\ UNCHANGED events

\* tokenData and the refresh time, written over the Secret.
TokensWritten ==
  [secret EXCEPT !.ver = @ + 1, !.refresh = "later", !.tok = kept.tok, !.ctl = kept.ctl]

\* Store: the tokens and their refresh time are written over that version, or the
\* Secret created with them; refused, they are kept.
StoreTokens ==
  /\ hold # None /\ kept.tok # None /\ kept.ctl # None
  /\ hold' = None
  /\ IF StoreAdmitted(hold)
     THEN secret' = TokensWritten /\ kept' = NoTokens(None)
     ELSE UNCHANGED <<secret, kept>>
  /\ UNCHANGED <<seen, tmpl>>
  /\ UNCHANGED controlVars /\ UNCHANGED recovererVars /\ UNCHANGED events

\* A mint is refused or a call fails: what was minted is kept for the next attempt,
\* and a write that did happen went unanswered.
RefreshFails ==
  /\ Event
  /\ hold # None
  /\ hold' = None
  /\ \/ UNCHANGED secret
     \/ kept.tok # None /\ kept.ctl # None /\ StoreAdmitted(hold) /\ secret' = TokensWritten
  /\ UNCHANGED <<kept, seen, tmpl>>
  /\ UNCHANGED controlVars /\ UNCHANGED recovererVars

\* The refresh time of the placed tokens passes.
BecomeDue ==
  /\ Event
  /\ secret.refresh = "later"
  /\ secret' = [secret EXCEPT !.refresh = "now"]
  /\ seen' = IF seen.refresh = "later" THEN [seen EXCEPT !.refresh = "now"] ELSE seen
  /\ UNCHANGED tmpl
  /\ UNCHANGED controlVars /\ UNCHANGED recovererVars /\ UNCHANGED refresherVars

--------------------------------------------------------------------------------
(* The operator's cache and controller                                       *)

\* The watch delivers the credential Secret's metadata.
CacheSync ==
  /\ seen # MetadataOf(secret)
  /\ seen' = MetadataOf(secret)
  /\ UNCHANGED <<secret, tmpl>>
  /\ UNCHANGED controlVars /\ UNCHANGED recovererVars /\ UNCHANGED refresherVars
  /\ UNCHANGED events

\* credentialLineage: the lineage recorded on the credential, as the cache shows it.
CredentialLineage == seen.ann

\* applyLineage: the template carries the recorded lineage.
ApplyLineage ==
  /\ tmpl # CredentialLineage
  /\ tmpl' = CredentialLineage
  /\ UNCHANGED <<secret, seen>>
  /\ UNCHANGED controlVars /\ UNCHANGED recovererVars /\ UNCHANGED refresherVars
  /\ UNCHANGED events

\* The operator restarts: only what it persisted is left, and its cache lists anew.
Restart ==
  /\ Event
  /\ offered' = 0 /\ recorded' = 0 /\ step' = "idle" /\ got' = 0
  /\ hold' = None /\ kept' = NoTokens(None)
  /\ seen' = MetadataOf(secret)
  /\ UNCHANGED <<spec, request, secret, tmpl>>
  /\ UNCHANGED controlVars

--------------------------------------------------------------------------------
(* The specification                                                         *)

Init ==
  /\ recs = [r \in Recs |-> [stage |-> "none", epoch |-> 0, lineage |-> 0]]
  /\ epoch = 1 /\ asked = {} /\ answers = {}
  /\ lineage = 0 /\ spent = [r \in Recs |-> 0]
  /\ offered = 0 /\ spec = 1 /\ request = 0 /\ recorded = 0 /\ step = "idle" /\ got = 0
  /\ secret = Absent /\ seen = MetadataOf(Absent)
  /\ hold = None /\ kept = NoTokens(None)
  /\ tmpl = 0
  /\ events = 0

Recoverer == SaveRecovery \/ PrepareRecovery \/ ReadPlaced \/ PatchLineage \/ DeleteRequest
Refresher == ReadHolder \/ Mint \/ StoreTokens

Next ==
  \/ \E r \in Recs : OpenRecovery(r) \/ FinalizeAsked(r) \/ GaramRecover(r) \/ FinalizeRecovery(r)
  \/ MoveEpoch
  \/ Offer
  \/ SaveRecovery \/ PrepareRecovery \/ ReadPlaced \/ PatchLineage \/ DeleteRequest
  \/ RetryTransient
  \/ ReadHolder \/ Mint \/ StoreTokens \/ RefreshFails \/ BecomeDue
  \/ CacheSync \/ ApplyLineage
  \/ Restart

\* The operator's loops run, its watch delivers and its controller reconciles; an
\* administrator, garam and the clock need do nothing.
Fairness ==
  /\ WF_vars(Offer) /\ WF_vars(Recoverer) /\ WF_vars(Refresher)
  /\ WF_vars(CacheSync) /\ WF_vars(ApplyLineage)

Spec == Init /\ [][Next]_vars
FairSpec == Spec /\ Fairness

--------------------------------------------------------------------------------
(* Properties                                                                *)

\* The shape of the state.
TypeOK ==
  /\ recs \in [Recs -> Recovery]
  /\ epoch \in 1..MaxEpoch /\ spec \in 1..MaxEpoch
  /\ asked \subseteq Recs /\ answers \subseteq Recs
  /\ lineage \in Lineages /\ spent \in [Recs -> Lineages]
  /\ offered \in 0..MaxRecoveries /\ request \in 0..MaxRecoveries
  /\ recorded \in 0..MaxRecoveries
  /\ step \in {"idle", "answered", "placed", "recorded"} /\ got \in Lineages
  /\ secret \in Secret /\ seen \in Metadata
  /\ hold \in Nat \cup {None} /\ kept \in Tokens
  /\ tmpl \in Lineages
  /\ events \in 0..MaxEvents

\* A finalized recovery whose request is gone has been recorded: the tokens placed
\* and not asked for again are of its lineage or a later one, both of them, whatever
\* the refresher had minted before, restarted or written unanswered.  Where no
\* credential was placed nothing was recorded (Recovered), which is the case the
\* annotation tells apart.
CollectedLineageServed ==
  \A r \in Recs :
    (Finalized(r) /\ request # r /\ secret.ann # 0) =>
       /\ secret.ann >= recs[r].lineage
       /\ secret.refresh # "none" =>
            secret.tok >= recs[r].lineage /\ secret.ctl >= recs[r].lineage

\* The lineage recorded on the credential, and the one the Pod template carries, never
\* go back, so a Pod never returns to a generation garam fenced (Recovered,
\* applyLineage).
LineageNeverBack == [][secret'.ann >= secret.ann /\ tmpl' >= tmpl]_vars

\* A recovery never stays with the operator: one opened is prepared, and one finalized
\* is collected and the agent's tokens and Pod template reach its lineage, whatever
\* restarts and failed refreshes come between, while the agent's epoch stays
\* (Recoverer.recover, Refresher.refresh, applyLineage).
RecoveryCompletes ==
  \A r \in Recs :
    (recs[r].stage \in {"requested", "finalized"}) ~>
       \/ epoch > 1
       \/ recs[r].stage = "prepared"
       \/ /\ Finalized(r) /\ request # r
          /\ secret.ann = 0 \/ ( /\ secret.refresh # "none" /\ secret.tok >= recs[r].lineage
                                 /\ secret.ctl >= recs[r].lineage /\ tmpl >= recs[r].lineage )
================================================================================
