------------------------------ MODULE Definitions ------------------------------
(***************************************************************************)
(* An agent's creation and configuration in the control service            *)
(* (internal/definition, its repository and registrar, and the console     *)
(* routes that call it).                                                   *)
(*                                                                         *)
(* One agent, created under one request from one template version; its     *)
(* configure requests are keyed.  A repeat of a request carries the body   *)
(* of the first; one with another body is refused and changes nothing.  Of *)
(* a configuration the model keeps the embedding it names, the part a      *)
(* later revision may not change.  A client may base a configure on any    *)
(* revision, one not stored yet included, and of every revision the model  *)
(* keeps what was read ahead of the one it is based on.  garam is the      *)
(* environment: it admits one agent for the creation, may move its         *)
(* assignment to a later epoch, and judges the administrator's authority   *)
(* each time it is asked.                                                  *)
(***************************************************************************)
EXTENDS Integers, Sequences

CONSTANTS
  Agent,        \* the agent
  Embeddings,   \* the embeddings a configuration may name
  NoEmbedding,  \* a configuration that names none
  Creators,     \* creation attempts served at one time
  Senders,      \* configure attempts served at one time
  Requests,     \* the keys of configure requests
  NoRequest,    \* none of them
  MaxExpected,  \* bound: the last revision a request is based on
  MaxEpoch,     \* bound: the assignment's last epoch
  MaxTurns      \* bound: stops and starts

ASSUME DefinitionsAssumption ==
  /\ NoEmbedding \notin Embeddings /\ NoRequest \notin Requests
  /\ MaxExpected \in Nat /\ MaxEpoch \in Nat \ {0} /\ MaxTurns \in Nat

VARIABLES
  template,   \* the embedding the template version names
  creation,   \* the creation, as stored
  tries,      \* creation attempts
  defs,       \* definitions: the agent's revisions
  requests,   \* configure requests, as stored
  bodies,     \* the body of each configure request
  sends,      \* configure attempts
  stopped,    \* whether a stop holds the agent
  position,   \* the store's position
  turns,      \* stops and starts so far
  admitted,   \* garam: whether it admitted the agent
  epoch,      \* garam: the agent's assignment epoch
  authorised  \* garam: whether it authorises the administrator

vars == <<template, creation, tries, defs, requests, bodies, sends, stopped, position,
          turns, admitted, epoch, authorised>>
garamVars == <<admitted, epoch, authorised>>
createVars == <<creation, tries>>
configureVars == <<requests, bodies, sends>>
logState == <<defs, stopped, position>>

Embedding == Embeddings \cup {NoEmbedding}
Epochs == 1..MaxEpoch
\* History: what of a request was read before the revision it is based on was stored:
\* nothing, its authority, or its authority and the latest revision.
Ahead == {"nothing", "authority", "latest"}
Definition == [embedding: Embedding, epoch: Epochs, ahead: Ahead]
Creation == [state: {"none", "pending", "registered", "failed"}, epoch: 0..MaxEpoch]
Try == [pc: {"idle", "begun", "approved", "answered", "refused"},
        epoch: 0..MaxEpoch]
NoTry == [pc |-> "idle", epoch |-> 0]
Request == [outcome: {"none", "stale", "applied"}, revision: Nat]
Body == [expected: Nat, embedding: Embedding]
NoBody == [expected |-> 0, embedding |-> NoEmbedding]
Send == [pc: {"idle", "received", "checked"}, request: Requests \cup {NoRequest},
         epoch: Epochs, ahead: Ahead]
NoSend == [pc |-> "idle", request |-> NoRequest, epoch |-> 1, ahead |-> "nothing"]

\* GetDefinition: the latest revision.
Latest == defs[Len(defs)]

\* Introspect: what garam says an authority binds, and the assignment of the agent it is
\* bound under, which an agent not admitted has not.
Introspected == [known |-> authorised, assigned |-> admitted, epoch |-> epoch]

\* authorize: only an authority garam knows, for this request, admits it; a configure's
\* must name the agent's assignment besides.
Authorizes(b) == b.known

--------------------------------------------------------------------------------
(* Creation                                                                  *)

\* BeginCreation, in the store: stored pending where the key has none.
Begun == IF creation.state = "none" THEN [creation EXCEPT !.state = "pending"] ELSE creation

\* create: a request under an authority for it.  A failed creation is answered as it is,
\* and a repeat of a registered one asks garam again and stores nothing.
CreateAsked == Authorizes(Introspected) /\ creation.state \in {"none", "pending"}

\* CreateAgent: the creation is begun or resumed.  The template is read here: a version
\* never changes.
BeginCreation(c) ==
  /\ tries[c].pc = "idle" /\ CreateAsked
  /\ creation' = Begun
  /\ tries' = [tries EXCEPT ![c].pc = "begun"]
  /\ UNCHANGED <<template, turns>>
  /\ UNCHANGED logState /\ UNCHANGED configureVars /\ UNCHANGED garamVars

\* enroll: a stage's refusal or conflict.
Refused(c) == [tries EXCEPT ![c].pc = "refused"]

\* Register, first stage: garam approves, the same approval however often, or refuses.
PrepareEnrollment(c) ==
  /\ tries[c].pc = "begun"
  /\ tries' = IF authorised THEN [tries EXCEPT ![c].pc = "approved"] ELSE Refused(c)
  /\ UNCHANGED <<template, creation, turns>>
  /\ UNCHANGED logState /\ UNCHANGED configureVars /\ UNCHANGED garamVars

\* Register, second stage: garam admits the agent, or answers the one it admitted; an
\* agent that moved is a conflict, or answered at its epoch.
AdmitEnrollment(c) ==
  /\ tries[c].pc = "approved"
  /\ \/ /\ authorised
        /\ admitted' = TRUE
        /\ tries' = [tries EXCEPT ![c] = [@ EXCEPT !.pc = "answered", !.epoch = epoch]]
     \/ /\ ~authorised \/ epoch > 1
        /\ tries' = Refused(c)
        /\ UNCHANGED admitted
  /\ UNCHANGED <<template, creation, turns, epoch, authorised>>
  /\ UNCHANGED logState /\ UNCHANGED configureVars

\* Mutant: the outcome of an attempt is stored whatever the creation's state.
FailAnyway(c) ==
  /\ tries[c].pc = "refused"
  /\ tries' = [tries EXCEPT ![c] = NoTry]
  /\ creation' = [creation EXCEPT !.state = "failed"]
  /\ UNCHANGED <<template, turns>>
  /\ UNCHANGED logState /\ UNCHANGED configureVars /\ UNCHANGED garamVars

\* FailCreation: a pending creation garam refused has failed.
FailCreation(c) ==
  /\ tries[c].pc = "refused"
  /\ tries' = [tries EXCEPT ![c] = NoTry]
  /\ creation' = IF creation.state = "pending"
                 THEN [creation EXCEPT !.state = "failed"] ELSE creation
  /\ UNCHANGED <<template, turns>>
  /\ UNCHANGED logState /\ UNCHANGED configureVars /\ UNCHANGED garamVars

\* The first revision, of the template and the epoch garam answered.
FirstDefinition(e) == [embedding |-> template, epoch |-> e, ahead |-> "nothing"]

\* Mutant: the first revision is recorded for the epoch the creation had before garam's
\* answer, which is none.
RegisterEpochless(c) ==
  /\ tries[c].pc = "answered"
  /\ tries' = [tries EXCEPT ![c] = NoTry]
  /\ IF creation.state = "pending"
     THEN /\ creation' = [state |-> "registered", epoch |-> tries[c].epoch]
          /\ defs' = <<[FirstDefinition(tries[c].epoch) EXCEPT !.epoch = creation.epoch]>>
          /\ position' = position + 1
     ELSE UNCHANGED <<creation, defs, position>>
  /\ UNCHANGED <<template, turns, stopped>>
  /\ UNCHANGED configureVars /\ UNCHANGED garamVars

\* RegisterCreation: a pending creation is registered and its first revision stored,
\* in one transaction; one another attempt registered or failed is left as it is.
RegisterCreation(c) ==
  /\ tries[c].pc = "answered"
  /\ tries' = [tries EXCEPT ![c] = NoTry]
  /\ IF creation.state = "pending"
     THEN /\ creation' = [state |-> "registered", epoch |-> tries[c].epoch]
          /\ defs' = <<FirstDefinition(tries[c].epoch)>>
          /\ position' = position + 1
     ELSE UNCHANGED <<creation, defs, position>>
  /\ UNCHANGED <<template, turns, stopped>>
  /\ UNCHANGED configureVars /\ UNCHANGED garamVars

\* An attempt ends with its outcome unknown, or its process does.
EndTry(c) ==
  /\ tries[c].pc # "idle"
  /\ tries' = [tries EXCEPT ![c] = NoTry]
  /\ UNCHANGED <<template, creation, turns>>
  /\ UNCHANGED logState /\ UNCHANGED configureVars /\ UNCHANGED garamVars

--------------------------------------------------------------------------------
(* Configuration                                                             *)

\* parseConfigure: a body names a revision, stored or not, and the key its first request
\* had.
Parsed(q, b) == b.expected # 0 /\ (bodies[q] = b \/ bodies[q] = NoBody)

\* The revision a request is based on is not stored yet.
BaseMissing(b) == b.expected > Len(defs)

\* configure: a request arrives under the authority and assignment garam introspected
\* for it.
Receive(s, q, b) ==
  /\ sends[s].pc = "idle" /\ Authorizes(Introspected) /\ Introspected.assigned
  /\ Parsed(q, b)
  /\ bodies' = [bodies EXCEPT ![q] = b]
  /\ sends' = [sends EXCEPT ![s] =
       [pc |-> "received", request |-> q, epoch |-> Introspected.epoch,
        ahead |-> IF BaseMissing(b) THEN "authority" ELSE "nothing"]]
  /\ UNCHANGED <<template, turns, requests>>
  /\ UNCHANGED logState /\ UNCHANGED createVars /\ UNCHANGED garamVars

\* Mutant: a configuration that names no embedding is let through.
SameOrNone(e, was) == e \in {was, NoEmbedding}

\* sameEndpoint: an embedding is named, and it is the one before.
SameEndpoint(e, was) == e # NoEmbedding /\ e = was

\* embeddingKept: only a request based on the latest revision is compared with it.
Keeps(b) ==
  \/ Len(defs) # b.expected \/ Latest.embedding = NoEmbedding
  \/ SameEndpoint(b.embedding, Latest.embedding)

\* Configure: the latest revision is read, ahead of the transaction.
EmbeddingKept(s) ==
  /\ sends[s].pc = "received"
  /\ LET b == bodies[sends[s].request]
         a == IF BaseMissing(b) THEN "latest" ELSE sends[s].ahead
     IN sends' = [sends EXCEPT ![s] =
          IF Keeps(b) THEN [@ EXCEPT !.pc = "checked", !.ahead = a] ELSE NoSend]
  /\ UNCHANGED <<template, turns, requests, bodies>>
  /\ UNCHANGED logState /\ UNCHANGED createVars /\ UNCHANGED garamVars

\* Mutant: a revision is stored whatever it was based on.
NextAnyway(b) == TRUE

\* appendDefinition: the revision is one past the latest.
IsNext(b) == b.expected = Len(defs)

\* Mutant: the key of a stored request is not looked up.
StoredUnseen(q) == FALSE

\* beginRequest found the key taken.
Stored(q) == requests[q].outcome # "none"

\* Configure: the definition a request becomes.
DefinitionOf(s) == [embedding |-> bodies[sends[s].request].embedding,
                    epoch |-> sends[s].epoch, ahead |-> sends[s].ahead]

\* Configure, the transaction: a key already stored is answered as it was, and an agent
\* with no revision is not found; else the revision is appended if it is the next one,
\* and the request is stored with the outcome.  The position moves either way.
Configure(s) ==
  LET q == sends[s].request
      b == bodies[q]
  IN /\ sends[s].pc = "checked"
     /\ sends' = [sends EXCEPT ![s] = NoSend]
     /\ \/ /\ Stored(q) \/ defs = <<>>
           /\ UNCHANGED <<defs, requests, position>>
        \/ /\ ~Stored(q) /\ defs # <<>> /\ IsNext(b)
           /\ defs' = Append(defs, DefinitionOf(s))
           /\ requests' = [requests EXCEPT ![q] = [outcome |-> "applied", revision |-> Len(defs) + 1]]
           /\ position' = position + 1
        \/ /\ ~Stored(q) /\ defs # <<>> /\ ~IsNext(b)
           /\ requests' = [requests EXCEPT ![q] = [@ EXCEPT !.outcome = "stale"]]
           /\ position' = position + 1
           /\ UNCHANGED defs
     /\ UNCHANGED <<template, turns, bodies, stopped>>
     /\ UNCHANGED createVars /\ UNCHANGED garamVars

\* An attempt's process ends.
EndSend(s) ==
  /\ sends[s].pc # "idle"
  /\ sends' = [sends EXCEPT ![s] = NoSend]
  /\ UNCHANGED <<template, turns, requests, bodies>>
  /\ UNCHANGED logState /\ UNCHANGED createVars /\ UNCHANGED garamVars

\* Mutant: a stop does not move the position.
TurnQuietly ==
  /\ turns < MaxTurns /\ Len(defs) > 0
  /\ stopped' = ~stopped
  /\ turns' = turns + 1
  /\ UNCHANGED <<template, defs, position>>
  /\ UNCHANGED createVars /\ UNCHANGED configureVars /\ UNCHANGED garamVars

\* RecordStop and RecordStart.
TurnStop ==
  /\ turns < MaxTurns /\ Len(defs) > 0
  /\ stopped' = ~stopped
  /\ position' = position + 1
  /\ turns' = turns + 1
  /\ UNCHANGED <<template, defs>>
  /\ UNCHANGED createVars /\ UNCHANGED configureVars /\ UNCHANGED garamVars

--------------------------------------------------------------------------------
(* garam                                                                     *)

MoveAssignment ==
  /\ admitted /\ epoch < MaxEpoch
  /\ epoch' = epoch + 1
  /\ UNCHANGED <<template, turns, admitted, authorised>>
  /\ UNCHANGED logState /\ UNCHANGED createVars /\ UNCHANGED configureVars

ChangeAuthority ==
  /\ authorised' = ~authorised
  /\ UNCHANGED <<template, turns, admitted, epoch>>
  /\ UNCHANGED logState /\ UNCHANGED createVars /\ UNCHANGED configureVars

--------------------------------------------------------------------------------
(* The specification                                                         *)

Init ==
  /\ template \in Embedding
  /\ creation = [state |-> "none", epoch |-> 0]
  /\ tries = [c \in Creators |-> NoTry]
  /\ defs = <<>>
  /\ requests = [q \in Requests |-> [outcome |-> "none", revision |-> 0]]
  /\ bodies = [q \in Requests |-> NoBody]
  /\ sends = [s \in Senders |-> NoSend]
  /\ stopped = FALSE /\ position = 0 /\ turns = 0
  /\ admitted = FALSE /\ epoch = 1 /\ authorised = TRUE

Next ==
  \/ \E c \in Creators : BeginCreation(c) \/ PrepareEnrollment(c) \/ AdmitEnrollment(c)
                         \/ FailCreation(c) \/ RegisterCreation(c) \/ EndTry(c)
  \/ \E s \in Senders :
       \/ \E q \in Requests, b \in [expected: 1..MaxExpected, embedding: Embedding] : Receive(s, q, b)
       \/ EmbeddingKept(s) \/ Configure(s) \/ EndSend(s)
  \/ TurnStop
  \/ MoveAssignment \/ ChangeAuthority

Spec == Init /\ [][Next]_vars

--------------------------------------------------------------------------------
(* Properties                                                                *)

TypeOK ==
  /\ template \in Embedding
  /\ creation \in Creation /\ tries \in [Creators -> Try]
  /\ defs \in Seq(Definition)
  /\ requests \in [Requests -> Request] /\ bodies \in [Requests -> Body]
  /\ sends \in [Senders -> Send]
  /\ \A s \in Senders : sends[s].pc # "idle" => sends[s].request \in Requests
  /\ stopped \in BOOLEAN /\ position \in Nat /\ turns \in 0..MaxTurns
  /\ admitted \in BOOLEAN /\ epoch \in Epochs /\ authorised \in BOOLEAN

\* An embedding, once a revision names one, is the next revision's too, though it is
\* compared with a revision read ahead of the transaction (embeddingKept): it changes at
\* most with a request compared before the revision it is based on was stored.
EmbeddingImmutable ==
  \A i \in 2..Len(defs) :
    defs[i - 1].embedding # NoEmbedding /\ defs[i].ahead # "latest" =>
      defs[i].embedding = defs[i - 1].embedding

\* Every revision past the first is the body of exactly one request, the one answered
\* as applied with its number, and was based on the revision before it, over concurrent
\* requests and repeats (Configure).
AppliedOnce ==
  /\ \A q \in Requests : requests[q].outcome = "applied" =>
       /\ requests[q].revision \in 2..Len(defs)
       /\ bodies[q].expected = requests[q].revision - 1
       /\ defs[requests[q].revision].embedding = bodies[q].embedding
  /\ \A i \in 2..Len(defs) :
       \E q \in Requests : requests[q].outcome = "applied" /\ requests[q].revision = i

\* The agent has revisions exactly where its creation is registered, garam then
\* admitted it, and the first is recorded for the epoch the creation answers, whatever
\* attempts overlapped, failed or repeated (CreateAgent).
CreationWhole ==
  /\ (creation.state = "registered") = (Len(defs) > 0)
  /\ creation.state = "registered" => admitted /\ defs[1].epoch = creation.epoch

\* The epochs the revisions are recorded for never go back, though each was read from
\* garam ahead of the transaction (Configure, bindings): a request authorised before the
\* agent moved is stored after one of the later epoch at most where it was authorised
\* before the revision it is based on was stored.
EpochsInOrder ==
  \A i \in 2..Len(defs) :
    defs[i].ahead = "nothing" => defs[i - 1].epoch <= defs[i].epoch

\* What the store does is what the desired feed relies on: the revisions grow by one,
\* and the position moves with every change.
Log == INSTANCE DefinitionLog
         WITH Agents <- {Agent}, latest <- [a \in {Agent} |-> Len(defs)],
              held <- IF stopped THEN {Agent} ELSE {}
RefinesLog == Log!LogSpec
================================================================================
