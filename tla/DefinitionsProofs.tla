--------------------------- MODULE DefinitionsProofs ---------------------------
(***************************************************************************)
(* Proofs about creation and configuration, for any creators, senders,     *)
(* requests, embeddings and epochs, and that the store they share is the   *)
(* one the desired feed is modelled over (DefinitionLog).                  *)
(*                                                                         *)
(* The properties are about the revisions alone; DefInv adds what makes    *)
(* them inductive: what a configure learned of the revision it is based on *)
(* is still true when it is the next revision, because otherwise that one  *)
(* is no longer the latest.  What it learned before that revision was      *)
(* stored, which Ahead records of it, says nothing of it.                  *)
(***************************************************************************)
EXTENDS Definitions, TLAPS

\* garam's answer to a creation: the agent is admitted, at an epoch it has had.
AnsweredInv ==
  \A c \in Creators : tries[c].pc = "answered" => admitted /\ tries[c].epoch \in 1..epoch

\* The revisions are of epochs the assignment has had.
EpochsBehind == \A i \in 1..Len(defs) : defs[i].epoch <= epoch

\* A request being served names a revision and is authorised under an epoch the
\* assignment has had.
SendsNamed ==
  \A s \in Senders : sends[s].pc # "idle" =>
    bodies[sends[s].request].expected # 0 /\ sends[s].epoch <= epoch

\* The revision it is based on is stored where nothing was read ahead of that revision,
\* and where only the authority was once the request is compared.
SendsBased ==
  \A s \in Senders :
    \/ sends[s].pc # "idle" /\ sends[s].ahead = "nothing"
    \/ sends[s].pc = "checked" /\ sends[s].ahead # "latest"
    => bodies[sends[s].request].expected <= Len(defs)

\* While the revision a request is based on is the latest, the epoch it was authorised
\* under is not behind that revision's.
SendsCurrent ==
  \A s \in Senders :
    sends[s].pc # "idle" /\ sends[s].ahead = "nothing"
      /\ bodies[sends[s].request].expected = Len(defs) =>
      Latest.epoch <= sends[s].epoch

\* And once compared, the request keeps that revision's embedding.
SendsKeep ==
  \A s \in Senders :
    sends[s].pc = "checked" /\ sends[s].ahead # "latest"
      /\ bodies[sends[s].request].expected = Len(defs) =>
      Latest.embedding \in {NoEmbedding, bodies[sends[s].request].embedding}

DefInv ==
  /\ TypeOK
  /\ CreationWhole /\ AnsweredInv
  /\ EpochsBehind /\ SendsNamed /\ SendsBased /\ SendsCurrent /\ SendsKeep
  /\ EpochsInOrder /\ EmbeddingImmutable

--------------------------------------------------------------------------------
(* Types                                                                     *)

\* A sender that serves nothing is a sender.
LEMMA NoSendType == NoSend \in Send /\ NoSend.pc = "idle"
  <1>1. 1 \in Epochs
    BY DefinitionsAssumption DEF Epochs
  <1> QED
    BY <1>1 DEF NoSend, Send, Ahead

\* An attempt that is not under way is an attempt.
LEMMA NoTryType == NoTry \in Try /\ NoTry.pc = "idle"
  BY DefinitionsAssumption DEF NoTry, Try

\* The initial state has its types.
LEMMA InitType == Init => TypeOK
  <1> SUFFICES ASSUME Init PROVE TypeOK
    OBVIOUS
  <1>1. creation \in Creation /\ tries \in [Creators -> Try] /\ sends \in [Senders -> Send]
    BY DefinitionsAssumption, NoSendType, NoTryType DEF Init, Creation
  <1>2. requests \in [Requests -> Request] /\ bodies \in [Requests -> Body]
    BY DEF Init, Request, Body, NoBody, Embedding
  <1>3. epoch \in Epochs /\ turns \in 0..MaxTurns /\ defs \in Seq(Definition)
    BY DefinitionsAssumption DEF Init, Epochs
  <1>4. \A s \in Senders : sends[s].pc = "idle"
    BY NoSendType DEF Init
  <1> QED
    BY <1>1, <1>2, <1>3, <1>4 DEF Init, TypeOK

\* Every step keeps the types, where a creation answered has an epoch.
LEMMA StepType == TypeOK /\ AnsweredInv /\ [Next]_vars => TypeOK'
  <1> SUFFICES ASSUME TypeOK, AnsweredInv, [Next]_vars PROVE TypeOK'
    OBVIOUS
  <1> USE DefinitionsAssumption DEF garamVars, createVars, configureVars, logState
  <1>1. ASSUME NEW c \in Creators, BeginCreation(c) PROVE TypeOK'
    <2>1. creation' \in Creation
      BY <1>1 DEF BeginCreation, Begun, TypeOK, Creation
    <2>2. tries' \in [Creators -> Try]
      BY <1>1 DEF BeginCreation, TypeOK, Try
    <2> QED
      BY <1>1, <2>1, <2>2 DEF BeginCreation, TypeOK
  <1>2. ASSUME NEW c \in Creators, PrepareEnrollment(c) PROVE TypeOK'
    <2>1. tries' \in [Creators -> Try]
      BY <1>2 DEF PrepareEnrollment, Refused, TypeOK, Try
    <2> QED
      BY <1>2, <2>1 DEF PrepareEnrollment, TypeOK
  <1>3. ASSUME NEW c \in Creators, AdmitEnrollment(c) PROVE TypeOK'
    <2>1. [tries[c] EXCEPT !.pc = "answered", !.epoch = epoch] \in Try
      <3>1. epoch \in 0..MaxEpoch
        BY DEF TypeOK, Epochs
      <3> QED
        BY <3>1 DEF TypeOK, Try
    <2>2. Refused(c) \in [Creators -> Try]
      BY DEF Refused, TypeOK, Try
    <2> QED
      BY <1>3, <2>1, <2>2 DEF AdmitEnrollment, TypeOK
  <1>4. ASSUME NEW c \in Creators, FailCreation(c) PROVE TypeOK'
    <2>1. creation' \in Creation
      BY <1>4 DEF FailCreation, TypeOK, Creation
    <2> QED
      BY <1>4, <2>1, NoTryType DEF FailCreation, TypeOK
  <1>5. ASSUME NEW c \in Creators, RegisterCreation(c) PROVE TypeOK'
    <2>1. tries[c].epoch \in 1..epoch /\ epoch \in Epochs
      BY <1>5 DEF RegisterCreation, AnsweredInv, TypeOK
    <2>2. FirstDefinition(tries[c].epoch) \in Definition
      BY <2>1 DEF FirstDefinition, TypeOK, Definition, Epochs, Ahead
    <2>3. [state |-> "registered", epoch |-> tries[c].epoch] \in Creation
      BY <2>1 DEF Creation, Epochs
    <2>4. <<FirstDefinition(tries[c].epoch)>> \in Seq(Definition)
      BY <2>2
    <2>5. defs' \in Seq(Definition)
      BY <1>5, <2>4 DEF RegisterCreation, TypeOK
    <2>6. creation' \in Creation /\ position' \in Nat
      BY <1>5, <2>3 DEF RegisterCreation, TypeOK
    <2> QED
      BY <1>5, <2>5, <2>6, NoTryType DEF RegisterCreation, TypeOK
  <1>6. ASSUME NEW c \in Creators, EndTry(c) PROVE TypeOK'
    BY <1>6, NoTryType DEF EndTry, TypeOK
  <1>7. ASSUME NEW s \in Senders, NEW q \in Requests,
               NEW b \in [expected: 1..MaxExpected, embedding: Embedding], Receive(s, q, b)
        PROVE  TypeOK'
    <2>1. b \in Body
      BY DEF Body, TypeOK
    <2>2. /\ UNCHANGED <<template, creation, tries, defs, requests, stopped, position, turns,
                       admitted, epoch, authorised>>
          /\ bodies' = [bodies EXCEPT ![q] = b]
          /\ \E a \in Ahead : sends' = [sends EXCEPT ![s] =
                [pc |-> "received", request |-> q, epoch |-> epoch, ahead |-> a]]
      BY <1>7 DEF Receive, Introspected, Ahead
    <2>3. \A a \in Ahead : [pc |-> "received", request |-> q, epoch |-> epoch, ahead |-> a] \in Send
      BY DEF Send, TypeOK
    <2>4. sends' \in [Senders -> Send]
      BY <2>2, <2>3 DEF TypeOK
    <2>5. \A t \in Senders : sends'[t].pc # "idle" => sends'[t].request \in Requests
      BY <2>2 DEF TypeOK
    <2> QED
      BY <2>1, <2>2, <2>4, <2>5 DEF TypeOK
  <1>8. ASSUME NEW s \in Senders, EmbeddingKept(s) PROVE TypeOK'
    <2>1. /\ UNCHANGED <<template, creation, tries, defs, requests, bodies, stopped, position,
                       turns, admitted, epoch, authorised>>
          /\ sends[s].pc = "received"
          /\ \/ \E a \in Ahead : sends' = [sends EXCEPT ![s] =
                   [@ EXCEPT !.pc = "checked", !.ahead = a]]
             \/ sends' = [sends EXCEPT ![s] = NoSend]
      <3>1. sends[s].ahead \in Ahead
        BY DEF TypeOK, Send
      <3> QED
        BY <1>8, <3>1 DEF EmbeddingKept, Ahead
    <2>2. \A a \in Ahead : [sends[s] EXCEPT !.pc = "checked", !.ahead = a] \in Send
      BY DEF TypeOK, Send
    <2>3. sends' \in [Senders -> Send]
      BY <2>1, <2>2, NoSendType DEF TypeOK
    <2>4. \A t \in Senders : sends'[t].pc # "idle" => sends'[t].request \in Requests
      <3>1. sends[s].request \in Requests /\ sends \in [Senders -> Send]
        BY <2>1 DEF TypeOK
      <3>2. \A t \in Senders : t # s => sends'[t] = sends[t]
        BY <2>1, <3>1
      <3>3. sends'[s].pc # "idle" => sends'[s].request = sends[s].request
        BY <2>1, <3>1, NoSendType DEF Send
      <3> QED
        BY <3>1, <3>2, <3>3 DEF TypeOK
    <2> QED
      BY <2>1, <2>3, <2>4 DEF TypeOK
  <1>9. ASSUME NEW s \in Senders, Configure(s) PROVE TypeOK'
    <2>1. /\ sends[s].request \in Requests /\ sends[s].epoch \in Epochs
          /\ sends[s].ahead \in Ahead
      BY <1>9 DEF Configure, TypeOK, Send
    <2>2. DefinitionOf(s) \in Definition
      BY <2>1 DEF DefinitionOf, Definition, TypeOK, Body
    <2>3. defs' \in Seq(Definition) /\ position' \in Nat
      <3>1. Append(defs, DefinitionOf(s)) \in Seq(Definition)
        BY <2>2 DEF TypeOK
      <3> QED
        <4>1. position \in Nat /\ defs \in Seq(Definition)
          BY DEF TypeOK
        <4>2. \/ defs' = defs /\ (position' = position \/ position' = position + 1)
              \/ defs' = Append(defs, DefinitionOf(s)) /\ position' = position + 1
          BY <1>9 DEF Configure
        <4> QED
          BY <3>1, <4>1, <4>2
    <2>4. requests' \in [Requests -> Request]
      <3>1. [outcome |-> "applied", revision |-> Len(defs) + 1] \in Request
        BY DEF TypeOK, Request
      <3>2. [requests[sends[s].request] EXCEPT !.outcome = "stale"] \in Request
        BY <2>1 DEF TypeOK, Request
      <3> QED
        BY <1>9, <2>1, <3>1, <3>2 DEF Configure, TypeOK
    <2> QED
      BY <1>9, <2>3, <2>4, NoSendType DEF Configure, TypeOK
  <1>10. ASSUME NEW s \in Senders, EndSend(s) PROVE TypeOK'
    BY <1>10, NoSendType DEF EndSend, TypeOK
  <1>11. CASE TurnStop
    <2>1. stopped' \in BOOLEAN
      BY <1>11 DEF TurnStop
    <2>2. turns' \in 0..MaxTurns /\ position' \in Nat
      BY <1>11 DEF TurnStop, TypeOK
    <2> QED
      BY <1>11, <2>1, <2>2 DEF TurnStop, TypeOK
  <1>12. CASE MoveAssignment \/ ChangeAuthority
    <2>1. epoch' \in Epochs
      BY <1>12 DEF MoveAssignment, ChangeAuthority, TypeOK, Epochs
    <2>2. authorised' \in BOOLEAN
      BY <1>12 DEF MoveAssignment, ChangeAuthority, TypeOK
    <2> QED
      BY <1>12, <2>1, <2>2 DEF MoveAssignment, ChangeAuthority, TypeOK
  <1>13. CASE UNCHANGED vars
    BY <1>13 DEF vars, TypeOK
  <1> QED
    BY <1>1, <1>2, <1>3, <1>4, <1>5, <1>6, <1>7, <1>8, <1>9, <1>10, <1>11, <1>12, <1>13 DEF Next

--------------------------------------------------------------------------------
(* The invariant                                                             *)

\* The epoch of a revision is a natural number.
LEMMA EpochNat == TypeOK => \A i \in 1..Len(defs) : defs[i].epoch \in Nat
  <1> SUFFICES ASSUME TypeOK, NEW i \in 1..Len(defs) PROVE defs[i].epoch \in Nat
    OBVIOUS
  <1>1. defs[i] \in Definition
    BY DEF TypeOK
  <1> QED
    BY <1>1, DefinitionsAssumption DEF Definition, Epochs

\* The initial state has the invariant.
LEMMA InitInv == Init => DefInv
  <1> SUFFICES ASSUME Init PROVE DefInv
    OBVIOUS
  <1>1. TypeOK
    BY InitType
  <1>2. CreationWhole /\ EpochsBehind /\ EpochsInOrder /\ EmbeddingImmutable
    BY DEF Init, CreationWhole, EpochsBehind, EpochsInOrder, EmbeddingImmutable
  <1>3. AnsweredInv
    BY NoTryType DEF Init, AnsweredInv
  <1>4. SendsNamed /\ SendsBased /\ SendsCurrent /\ SendsKeep
    BY NoSendType DEF Init, SendsNamed, SendsBased, SendsCurrent, SendsKeep
  <1> QED
    BY <1>1, <1>2, <1>3, <1>4 DEF DefInv

\* A step that changes neither the revisions nor who serves what, nor takes garam back,
\* keeps what is known of the revisions and of the requests.
LEMMA QuietStep ==
  ASSUME DefInv, UNCHANGED <<defs, bodies, sends>>, epoch' \in Nat, epoch' >= epoch
  PROVE  (EpochsBehind /\ SendsNamed /\ SendsBased /\ SendsCurrent /\ SendsKeep
          /\ EpochsInOrder /\ EmbeddingImmutable)'
  <1>1. \A i \in 1..Len(defs) : defs[i].epoch \in Nat
    BY EpochNat DEF DefInv
  <1>2. epoch \in Nat
    BY DefinitionsAssumption DEF DefInv, TypeOK, Epochs
  <1>3. EpochsBehind'
    BY <1>1, <1>2 DEF DefInv, EpochsBehind
  <1>4. SendsNamed'
    <2>1. \A s \in Senders : sends[s].epoch \in Nat
      BY DefinitionsAssumption DEF DefInv, TypeOK, Send, Epochs
    <2> QED
      BY <1>2, <2>1 DEF DefInv, SendsNamed
  <1>5. (SendsBased /\ SendsCurrent /\ SendsKeep)'
    BY DEF DefInv, SendsBased, SendsCurrent, SendsKeep, Latest
  <1>6. (EpochsInOrder /\ EmbeddingImmutable)'
    BY DEF DefInv, EpochsInOrder, EmbeddingImmutable
  <1> QED
    BY <1>3, <1>4, <1>5, <1>6

\* A creation step keeps the invariant.
LEMMA CreateStep ==
  ASSUME DefInv, TypeOK', NEW c \in Creators,
         \/ BeginCreation(c) \/ PrepareEnrollment(c) \/ AdmitEnrollment(c)
         \/ FailCreation(c) \/ EndTry(c)
  PROVE  DefInv'
  <1>1. UNCHANGED <<defs, bodies, sends, epoch>>
    BY DEF BeginCreation, PrepareEnrollment, AdmitEnrollment, FailCreation, EndTry,
           logState, configureVars, garamVars
  <1>2. epoch \in Nat /\ epoch >= 1
    BY DefinitionsAssumption DEF DefInv, TypeOK, Epochs
  <1>3. admitted => admitted'
    BY DEF BeginCreation, PrepareEnrollment, AdmitEnrollment, FailCreation, EndTry, garamVars
  <1>4. /\ (creation'.state = "registered") = (creation.state = "registered")
        /\ creation'.epoch = creation.epoch
    BY DEF BeginCreation, Begun, PrepareEnrollment, AdmitEnrollment, FailCreation, EndTry,
           DefInv, TypeOK, Creation
  <1>5. CreationWhole'
    BY <1>1, <1>3, <1>4 DEF DefInv, CreationWhole
  <1>6. AnsweredInv'
    <2> SUFFICES ASSUME NEW d \in Creators, tries'[d].pc = "answered"
                 PROVE  admitted' /\ tries'[d].epoch \in 1..epoch
      BY <1>1 DEF AnsweredInv
    <2>1. tries \in [Creators -> Try]
      BY DEF DefInv, TypeOK
    <2>2. CASE tries'[d] = tries[d]
      BY <1>3, <2>2 DEF DefInv, AnsweredInv
    <2>3. CASE tries'[d] # tries[d]
      <3>1. d = c /\ AdmitEnrollment(c)
        BY <2>1, <2>3, NoTryType DEF BeginCreation, PrepareEnrollment, AdmitEnrollment, Refused,
                FailCreation, EndTry, Try
      <3>2. admitted' /\ tries'[d].epoch = epoch
        BY <2>1, <3>1 DEF AdmitEnrollment, Refused, Try
      <3> QED
        BY <1>2, <3>2
    <2> QED
      BY <2>2, <2>3
  <1> QED
    BY <1>1, <1>2, <1>5, <1>6, QuietStep DEF DefInv

\* The registration of a creation keeps the invariant: there was no revision, so all a
\* request being served has read it read ahead of the one it is based on.
LEMMA RegisterStep ==
  ASSUME DefInv, TypeOK', NEW c \in Creators, RegisterCreation(c)
  PROVE  DefInv'
  <1> DEFINE first == FirstDefinition(tries[c].epoch)
  <1>1. epoch \in Nat /\ tries[c].epoch \in 1..epoch /\ admitted
    BY DefinitionsAssumption DEF DefInv, TypeOK, Epochs, AnsweredInv, RegisterCreation
  <1>2. UNCHANGED <<bodies, sends, epoch, admitted>> /\ tries' = [tries EXCEPT ![c] = NoTry]
    BY DEF RegisterCreation, configureVars, garamVars
  <1>3. AnsweredInv'
    BY <1>2, NoTryType DEF DefInv, TypeOK, AnsweredInv
  <1>4. CASE UNCHANGED <<creation, defs>>
    <2>1. CreationWhole'
      BY <1>2, <1>4 DEF DefInv, CreationWhole
    <2> QED
      BY <1>1, <1>2, <1>3, <1>4, <2>1, QuietStep DEF DefInv
  <1>5. CASE creation.state = "pending" /\ creation' = [state |-> "registered", epoch |-> tries[c].epoch]
             /\ defs' = <<first>>
    <2>1. Len(defs) = 0
      BY <1>5 DEF DefInv, CreationWhole, TypeOK
    <2>2. Len(defs') = 1 /\ defs'[1] = first
      BY <1>5
    <2>3. \A s \in Senders :
            ~(\/ sends[s].pc # "idle" /\ sends[s].ahead = "nothing"
              \/ sends[s].pc = "checked" /\ sends[s].ahead # "latest")
      <3> SUFFICES ASSUME NEW s \in Senders,
                          \/ sends[s].pc # "idle" /\ sends[s].ahead = "nothing"
                          \/ sends[s].pc = "checked" /\ sends[s].ahead # "latest"
                   PROVE  FALSE
        OBVIOUS
      <3>1. bodies[sends[s].request].expected <= 0
        BY <2>1 DEF DefInv, SendsBased
      <3>2. bodies[sends[s].request].expected # 0
        BY DEF DefInv, SendsNamed
      <3>3. bodies[sends[s].request].expected \in Nat
        BY DEF DefInv, TypeOK, Body
      <3> QED
        BY <3>1, <3>2, <3>3
    <2>4. SendsNamed' /\ SendsBased' /\ SendsCurrent' /\ SendsKeep'
      BY <1>2, <2>3 DEF DefInv, SendsNamed, SendsBased, SendsCurrent, SendsKeep
    <2>5. CreationWhole'
      BY <1>1, <1>2, <1>5, <2>2 DEF CreationWhole, FirstDefinition
    <2>6. EpochsBehind' /\ EpochsInOrder' /\ EmbeddingImmutable'
      BY <1>1, <1>2, <2>2 DEF EpochsBehind, EpochsInOrder, EmbeddingImmutable, FirstDefinition
    <2> QED
      BY <1>3, <2>4, <2>5, <2>6 DEF DefInv
  <1> QED
    BY <1>4, <1>5 DEF RegisterCreation

\* The arrival of a request, its comparison and its end keep the invariant.
LEMMA ServeStep ==
  ASSUME DefInv, TypeOK', NEW s \in Senders,
         \/ \E q \in Requests, b \in [expected: 1..MaxExpected, embedding: Embedding] :
              Receive(s, q, b)
         \/ EmbeddingKept(s) \/ EndSend(s)
  PROVE  DefInv'
  <1>1. UNCHANGED <<defs, creation, tries, admitted, epoch>>
    BY DEF Receive, EmbeddingKept, EndSend, logState, createVars, garamVars
  <1>2. (CreationWhole /\ AnsweredInv /\ EpochsBehind /\ EpochsInOrder /\ EmbeddingImmutable)'
    BY <1>1 DEF DefInv, CreationWhole, AnsweredInv, EpochsBehind, EpochsInOrder,
                EmbeddingImmutable
  <1>3. sends \in [Senders -> Send] /\ bodies \in [Requests -> Body] /\ defs \in Seq(Definition)
    BY DEF DefInv, TypeOK
  <1>4. (SendsNamed /\ SendsBased /\ SendsCurrent /\ SendsKeep)'
    <2>1. ASSUME NEW q \in Requests, NEW b \in [expected: 1..MaxExpected, embedding: Embedding],
                 Receive(s, q, b)
          PROVE  (SendsNamed /\ SendsBased /\ SendsCurrent /\ SendsKeep)'
      <3>1. /\ sends' = [sends EXCEPT ![s] =
                 [pc |-> "received", request |-> q, epoch |-> epoch,
                  ahead |-> IF b.expected > Len(defs) THEN "authority" ELSE "nothing"]]
            /\ bodies' = [bodies EXCEPT ![q] = b]
            /\ b.expected # 0 /\ (bodies[q] = b \/ bodies[q] = NoBody)
        BY <2>1 DEF Receive, Introspected, Parsed, BaseMissing
      <3>2. \A t \in Senders : sends[t].pc # "idle" =>
              bodies'[sends[t].request] = bodies[sends[t].request]
        <4> SUFFICES ASSUME NEW t \in Senders, sends[t].pc # "idle",
                            sends[t].request = q
                     PROVE  bodies'[q] = bodies[q]
          BY <1>3, <3>1
        <4>1. bodies[q].expected # 0
          BY DEF DefInv, SendsNamed
        <4>2. bodies[q] # NoBody
          BY <4>1 DEF NoBody
        <4> QED
          BY <1>3, <3>1, <4>2
      <3>3. \A t \in Senders : t # s => sends'[t] = sends[t]
        BY <1>3, <3>1
      <3>4. /\ sends'[s].pc = "received" /\ sends'[s].request = q /\ sends'[s].epoch = epoch
            /\ sends'[s].ahead = "nothing" => ~(b.expected > Len(defs))
        BY <1>3, <3>1
      <3>5. bodies'[q] = b /\ b.expected \in Nat /\ b.expected # 0
        BY <1>3, <3>1, DefinitionsAssumption
      <3>6. SendsNamed' /\ SendsBased'
        <4>1. epoch \in Nat /\ Len(defs) \in Nat
          BY <1>3, DefinitionsAssumption DEF DefInv, TypeOK, Epochs
        <4>2. SendsNamed'
          BY <1>1, <3>2, <3>3, <3>4, <3>5, <4>1 DEF DefInv, SendsNamed
        <4>3. SendsBased'
          BY <1>1, <3>2, <3>3, <3>4, <3>5, <4>1 DEF DefInv, SendsBased
        <4> QED
          BY <4>2, <4>3
      <3>7. SendsCurrent'
        <4> SUFFICES ASSUME NEW t \in Senders, sends'[t].pc # "idle",
                            sends'[t].ahead = "nothing",
                            bodies'[sends'[t].request].expected = Len(defs)
                     PROVE  defs[Len(defs)].epoch <= sends'[t].epoch
          BY <1>1 DEF SendsCurrent, Latest
        <4>1. CASE t = s
          <5>1. Len(defs) \in 1..Len(defs)
            BY <1>3, <3>4, <3>5, <4>1
          <5> QED
            BY <3>4, <4>1, <5>1 DEF DefInv, EpochsBehind
        <4>2. CASE t # s
          BY <3>2, <3>3, <4>2 DEF DefInv, SendsCurrent, Latest
        <4> QED
          BY <4>1, <4>2
      <3>8. SendsKeep'
        BY <1>1, <3>2, <3>3, <3>4 DEF DefInv, SendsKeep, Latest
      <3> QED
        BY <3>6, <3>7, <3>8
    <2>2. CASE EmbeddingKept(s)
      <3> DEFINE b == bodies[sends[s].request]
      <3>1. /\ bodies' = bodies
            /\ sends[s].pc = "received"
            /\ sends' = [sends EXCEPT ![s] =
                 IF Keeps(b)
                 THEN [sends[s] EXCEPT !.pc = "checked",
                                       !.ahead = IF b.expected > Len(defs) THEN "latest"
                                                 ELSE sends[s].ahead]
                 ELSE NoSend]
        BY <2>2 DEF EmbeddingKept, BaseMissing
      <3>2. \A t \in Senders : t # s => sends'[t] = sends[t]
        BY <1>3, <3>1
      <3>3. b.expected \in Nat /\ Len(defs) \in Nat
        BY <1>3, <3>1 DEF DefInv, TypeOK, Body
      <3>4. \/ sends'[s].pc = "idle"
            \/ /\ Keeps(b)
               /\ sends'[s].pc = "checked" /\ sends'[s].request = sends[s].request
               /\ sends'[s].epoch = sends[s].epoch
               /\ sends'[s].ahead = IF b.expected > Len(defs) THEN "latest" ELSE sends[s].ahead
        BY <1>3, <3>1, NoSendType DEF Send
      <3>5. SendsNamed' /\ SendsBased'
        <4>1. SendsNamed'
          BY <1>1, <3>1, <3>2, <3>4 DEF DefInv, SendsNamed
        <4>2. SendsBased'
          BY <1>1, <3>1, <3>2, <3>3, <3>4 DEF DefInv, SendsBased
        <4> QED
          BY <4>1, <4>2
      <3>6. SendsCurrent'
        BY <1>1, <3>1, <3>2, <3>3, <3>4 DEF DefInv, SendsCurrent, Latest
      <3>7. SendsKeep'
        BY <1>1, <3>1, <3>2, <3>3, <3>4 DEF DefInv, SendsKeep, Keeps, SameEndpoint, Latest
      <3> QED
        BY <3>5, <3>6, <3>7
    <2>3. CASE EndSend(s)
      <3>1. bodies' = bodies /\ \A t \in Senders : sends'[t] = IF t = s THEN NoSend ELSE sends[t]
        BY <1>3, <2>3 DEF EndSend
      <3> QED
        BY <1>1, <3>1, NoSendType DEF DefInv, SendsNamed, SendsBased, SendsCurrent, SendsKeep, Latest
    <2> QED
      BY <2>1, <2>2, <2>3
  <1> QED
    BY <1>2, <1>4 DEF DefInv

\* The transaction of a configure keeps the invariant: the revision it appends is the
\* one its request is based on, and every other request is now behind.
LEMMA ConfigureStep ==
  ASSUME DefInv, TypeOK', NEW s \in Senders, Configure(s)
  PROVE  DefInv'
  <1> DEFINE q == sends[s].request
             n == Len(defs)
  <1>1. /\ sends \in [Senders -> Send] /\ defs \in Seq(Definition) /\ epoch \in Nat
        /\ bodies \in [Requests -> Body]
    BY DefinitionsAssumption DEF DefInv, TypeOK, Epochs
  <1>2. /\ sends[s].pc = "checked" /\ bodies' = bodies
        /\ UNCHANGED <<creation, tries, admitted, epoch>>
        /\ \A t \in Senders : sends'[t] = IF t = s THEN NoSend ELSE sends[t]
    BY <1>1 DEF Configure, createVars, garamVars
  <1>3. AnsweredInv'
    BY <1>2 DEF DefInv, AnsweredInv
  <1>4. CASE defs' = defs
    <2>1. (CreationWhole /\ EpochsBehind /\ EpochsInOrder /\ EmbeddingImmutable)'
      BY <1>2, <1>4 DEF DefInv, CreationWhole, EpochsBehind, EpochsInOrder, EmbeddingImmutable
    <2>2. (SendsNamed /\ SendsBased /\ SendsCurrent /\ SendsKeep)'
      BY <1>2, <1>4, NoSendType DEF DefInv, SendsNamed, SendsBased, SendsCurrent, SendsKeep, Latest
    <2> QED
      BY <1>3, <2>1, <2>2 DEF DefInv
  <1>5. CASE bodies[q].expected = n /\ defs' = Append(defs, DefinitionOf(s))
    <2>1. n \in Nat /\ n >= 1 /\ Len(defs') = n + 1
      <3>1. n # 0
        BY <1>2, <1>5 DEF DefInv, SendsNamed
      <3> QED
        BY <1>1, <1>5, <3>1
    <2>2. /\ \A i \in 1..n : defs'[i] = defs[i]
          /\ defs'[n + 1] = DefinitionOf(s)
      BY <1>1, <1>5, <2>1
    <2>3. /\ \A i \in 1..n : defs[i].epoch \in Nat
          /\ sends[s].epoch \in Nat /\ sends[s].epoch <= epoch
          /\ sends[s].ahead = "nothing" => defs[n].epoch <= sends[s].epoch
      <3>1. \A i \in 1..n : defs[i].epoch \in Nat
        BY EpochNat DEF DefInv
      <3>2. sends[s].epoch \in Nat
        BY <1>1, DefinitionsAssumption DEF Send, Epochs
      <3>3. sends[s].ahead = "nothing" => defs[n].epoch <= sends[s].epoch
        BY <1>2, <1>5 DEF DefInv, SendsCurrent, Latest
      <3>4. sends[s].epoch <= epoch
        BY <1>2 DEF DefInv, SendsNamed
      <3> QED
        BY <3>1, <3>2, <3>3, <3>4
    <2>4. EpochsBehind'
      BY <1>2, <2>1, <2>2, <2>3 DEF DefInv, EpochsBehind, DefinitionOf
    <2>5. EpochsInOrder'
      <3> SUFFICES ASSUME NEW i \in 2..(n + 1), defs'[i].ahead = "nothing"
                   PROVE  defs'[i - 1].epoch <= defs'[i].epoch
        BY <2>1 DEF EpochsInOrder
      <3>1. CASE i <= n
        BY <2>1, <2>2, <3>1 DEF DefInv, EpochsInOrder
      <3>2. CASE i = n + 1
        BY <2>1, <2>2, <2>3, <3>2 DEF DefinitionOf
      <3> QED
        BY <2>1, <3>1, <3>2
    <2>6. EmbeddingImmutable'
      <3> SUFFICES ASSUME NEW i \in 2..(n + 1), defs'[i - 1].embedding # NoEmbedding,
                          defs'[i].ahead # "latest"
                   PROVE  defs'[i].embedding = defs'[i - 1].embedding
        BY <2>1 DEF EmbeddingImmutable
      <3>1. CASE i <= n
        BY <2>1, <2>2, <3>1 DEF DefInv, EmbeddingImmutable
      <3>2. CASE i = n + 1
        <4>1. sends[s].ahead # "latest"
          BY <2>1, <2>2, <3>2 DEF DefinitionOf
        <4>2. defs[n].embedding \in {NoEmbedding, bodies[q].embedding}
          BY <1>2, <1>5, <4>1 DEF DefInv, SendsKeep, Latest
        <4> QED
          BY <2>1, <2>2, <3>2, <4>2 DEF DefinitionOf
      <3> QED
        BY <2>1, <3>1, <3>2
    <2>7. \A t \in Senders : sends'[t].pc # "idle" => bodies[sends'[t].request].expected \in Nat
      BY <1>2, NoSendType DEF DefInv, TypeOK, Body
    <2>8. SendsNamed' /\ SendsBased'
      <3>1. SendsNamed'
        BY <1>2, NoSendType DEF DefInv, SendsNamed
      <3>2. SendsBased'
        BY <1>2, <2>1, <2>7, NoSendType DEF DefInv, SendsBased
      <3> QED
        BY <3>1, <3>2
    <2>9. SendsCurrent' /\ SendsKeep'
      <3> SUFFICES ASSUME NEW t \in Senders,
                          \/ sends'[t].pc # "idle" /\ sends'[t].ahead = "nothing"
                          \/ sends'[t].pc = "checked" /\ sends'[t].ahead # "latest",
                          bodies'[sends'[t].request].expected = Len(defs')
                   PROVE  FALSE
        BY DEF SendsCurrent, SendsKeep
      <3>1. bodies[sends[t].request].expected <= n
        BY <1>2, NoSendType DEF DefInv, SendsBased
      <3>2. bodies[sends[t].request].expected = n + 1
        BY <1>2, <2>1, NoSendType
      <3> QED
        BY <2>1, <3>1, <3>2
    <2>10. CreationWhole'
      BY <1>2, <2>1, <2>2 DEF DefInv, CreationWhole
    <2> QED
      BY <1>3, <2>4, <2>5, <2>6, <2>8, <2>9, <2>10 DEF DefInv
  <1> QED
    BY <1>4, <1>5 DEF Configure, IsNext

\* Every step preserves the invariant.
LEMMA StepInv == DefInv /\ [Next]_vars => DefInv'
  <1> SUFFICES ASSUME DefInv, [Next]_vars PROVE DefInv'
    OBVIOUS
  <1>0. TypeOK'
    BY StepType DEF DefInv
  <1>1. ASSUME epoch' \in Nat, epoch' >= epoch,
               UNCHANGED <<defs, bodies, sends, creation, tries, admitted>>
        PROVE  DefInv'
    <2>1. CreationWhole'
      BY <1>1 DEF DefInv, CreationWhole
    <2>2. AnsweredInv'
      <3>1. epoch \in Nat
        BY DefinitionsAssumption DEF DefInv, TypeOK, Epochs
      <3> QED
        BY <1>1, <3>1 DEF DefInv, AnsweredInv
    <2> QED
      BY <1>0, <1>1, <2>1, <2>2, QuietStep DEF DefInv
  <1>2. CASE TurnStop \/ MoveAssignment \/ ChangeAuthority \/ UNCHANGED vars
    <2>1. epoch \in Nat
      BY DefinitionsAssumption DEF DefInv, TypeOK, Epochs
    <2>2. epoch' \in Nat /\ epoch' >= epoch
      BY <1>2, <2>1 DEF TurnStop, MoveAssignment, ChangeAuthority, vars, garamVars
    <2>3. UNCHANGED <<defs, bodies, sends, creation, tries, admitted>>
      BY <1>2 DEF TurnStop, MoveAssignment, ChangeAuthority, vars,
                  garamVars, logState, createVars, configureVars
    <2> QED
      BY <1>1, <2>2, <2>3
  <1> QED
    BY <1>0, <1>2, CreateStep, RegisterStep, ServeStep, ConfigureStep DEF Next

\* The invariant holds throughout.
LEMMA InvHolds == Spec => []DefInv
  BY InitInv, StepInv, PTL DEF Spec

\* Every step keeps the revisions and the requests answered as applied one to one.
LEMMA StepApplied == DefInv /\ AppliedOnce /\ [Next]_vars => AppliedOnce'
  <1> SUFFICES ASSUME DefInv, AppliedOnce, [Next]_vars PROVE AppliedOnce'
    OBVIOUS
  <1>0. /\ defs \in Seq(Definition) /\ requests \in [Requests -> Request]
        /\ bodies \in [Requests -> Body] /\ sends \in [Senders -> Send]
    BY DEF DefInv, TypeOK
  <1>1. ASSUME UNCHANGED <<defs, requests, bodies>> PROVE AppliedOnce'
    BY <1>1 DEF AppliedOnce
  <1>2. ASSUME NEW c \in Creators, RegisterCreation(c) PROVE AppliedOnce'
    <2>1. UNCHANGED <<requests, bodies>>
      BY <1>2 DEF RegisterCreation, configureVars
    <2>2. CASE UNCHANGED defs
      BY <1>1, <2>1, <2>2
    <2>3. CASE /\ creation.state = "pending"
               /\ defs' = <<FirstDefinition(tries[c].epoch)>>
      <3>1. Len(defs) = 0 /\ Len(defs') = 1
        BY <1>0, <2>3 DEF DefInv, CreationWhole
      <3>2. \A q \in Requests : requests[q].outcome # "applied"
        BY <3>1 DEF AppliedOnce
      <3> QED
        BY <2>1, <3>1, <3>2 DEF AppliedOnce
    <2> QED
      BY <1>2, <2>2, <2>3 DEF RegisterCreation
  <1>3. ASSUME NEW s \in Senders, NEW q \in Requests,
               NEW b \in [expected: 1..MaxExpected, embedding: Embedding], Receive(s, q, b)
        PROVE  AppliedOnce'
    <2>1. /\ UNCHANGED <<defs, requests>> /\ bodies' = [bodies EXCEPT ![q] = b]
          /\ bodies[q] = b \/ bodies[q] = NoBody
      BY <1>3 DEF Receive, Parsed, logState
    <2>2. \A r \in Requests : requests[r].outcome = "applied" => bodies'[r] = bodies[r]
      <3> SUFFICES ASSUME requests[q].outcome = "applied" PROVE bodies'[q] = bodies[q]
        BY <1>0, <2>1
      <3>1. bodies[q].expected # 0
        BY <1>0 DEF AppliedOnce
      <3>2. bodies[q] # NoBody
        BY <3>1 DEF NoBody
      <3> QED
        BY <1>0, <2>1, <3>2
    <2> QED
      BY <2>1, <2>2 DEF AppliedOnce
  <1>4. ASSUME NEW s \in Senders, Configure(s) PROVE AppliedOnce'
    <2> DEFINE q == sends[s].request
               n == Len(defs)
    <2>1. q \in Requests /\ bodies' = bodies
      BY <1>4 DEF Configure, DefInv, TypeOK
    <2>2. CASE UNCHANGED <<defs, requests>>
      BY <1>1, <2>1, <2>2
    <2>3. CASE /\ ~Stored(q) /\ UNCHANGED defs
               /\ requests' = [requests EXCEPT ![q] = [@ EXCEPT !.outcome = "stale"]]
      <3>1. \A r \in Requests : r # q => requests'[r] = requests[r]
        BY <1>0, <2>3
      <3>2. requests[q].outcome = "none" /\ requests'[q].outcome = "stale"
        BY <1>0, <2>1, <2>3 DEF Stored, Request
      <3> QED
        BY <2>1, <2>3, <3>1, <3>2 DEF AppliedOnce
    <2>4. CASE /\ ~Stored(q) /\ IsNext(bodies[q]) /\ defs' = Append(defs, DefinitionOf(s))
               /\ requests' = [requests EXCEPT ![q] = [outcome |-> "applied", revision |-> n + 1]]
      <3>1. \A r \in Requests : r # q => requests'[r] = requests[r]
        BY <1>0, <2>4
      <3>2. /\ requests[q].outcome # "applied"
            /\ requests'[q].outcome = "applied" /\ requests'[q].revision = n + 1
        BY <1>0, <2>1, <2>4 DEF Stored
      <3>3. n \in Nat /\ n >= 1 /\ Len(defs') = n + 1 /\ bodies[q].expected = n
        <4>1. bodies[q].expected = n /\ bodies[q].expected # 0
          BY <1>4, <2>4 DEF DefInv, SendsNamed, Configure, IsNext
        <4> QED
          BY <1>0, <2>4, <4>1
      <3>4. /\ \A i \in 1..n : defs'[i] = defs[i]
            /\ defs'[n + 1].embedding = bodies[q].embedding
        BY <1>0, <2>4, <3>3 DEF DefinitionOf
      <3>5. ASSUME NEW r \in Requests, requests'[r].outcome = "applied"
            PROVE  /\ requests'[r].revision \in 2..Len(defs')
                   /\ bodies'[r].expected = requests'[r].revision - 1
                   /\ defs'[requests'[r].revision].embedding = bodies'[r].embedding
        <4>1. CASE r = q
          BY <2>1, <3>2, <3>3, <3>4, <4>1
        <4>2. CASE r # q
          <5>1. /\ requests[r].revision \in 2..n
                /\ bodies[r].expected = requests[r].revision - 1
                /\ defs[requests[r].revision].embedding = bodies[r].embedding
            BY <3>1, <3>5, <4>2 DEF AppliedOnce
          <5> QED
            BY <2>1, <3>1, <3>3, <3>4, <4>2, <5>1
        <4> QED
          BY <4>1, <4>2
      <3>6. ASSUME NEW i \in 2..Len(defs')
            PROVE  \E r \in Requests : requests'[r].outcome = "applied" /\ requests'[r].revision = i
        <4>1. CASE i = n + 1
          BY <2>1, <3>2, <4>1
        <4>2. CASE i \in 2..n
          <5>1. PICK r \in Requests : requests[r].outcome = "applied" /\ requests[r].revision = i
            BY <4>2 DEF AppliedOnce
          <5> QED
            BY <3>1, <3>2, <5>1
        <4> QED
          BY <3>3, <4>1, <4>2
      <3> QED
        BY <3>5, <3>6 DEF AppliedOnce
    <2> QED
      BY <1>4, <2>2, <2>3, <2>4 DEF Configure
  <1>5. ASSUME NEW c \in Creators,
               \/ BeginCreation(c) \/ PrepareEnrollment(c) \/ AdmitEnrollment(c)
               \/ FailCreation(c) \/ EndTry(c)
        PROVE  UNCHANGED <<defs, requests, bodies>>
    BY <1>5 DEF BeginCreation, PrepareEnrollment, AdmitEnrollment, FailCreation, EndTry,
                logState, configureVars
  <1>6. ASSUME NEW s \in Senders, EmbeddingKept(s) \/ EndSend(s)
        PROVE  UNCHANGED <<defs, requests, bodies>>
    BY <1>6 DEF EmbeddingKept, EndSend, logState
  <1>7. CASE TurnStop \/ MoveAssignment \/ ChangeAuthority \/ UNCHANGED vars
    BY <1>1, <1>7 DEF TurnStop, MoveAssignment, ChangeAuthority, vars, logState, configureVars
  <1> QED
    BY <1>1, <1>2, <1>3, <1>4, <1>5, <1>6, <1>7 DEF Next

--------------------------------------------------------------------------------
(* The store the desired feed is modelled over                               *)

\* The initial state of the store is the log's.
LEMMA InitLog == Init => Log!LogInit
  BY DEF Init, Log!LogInit

\* Every step is one of the log's, or leaves the log as it is.
LEMMA StepLog == DefInv /\ [Next]_vars => [Log!LogNext]_(Log!logVars)
  <1> SUFFICES ASSUME DefInv, [Next]_vars PROVE [Log!LogNext]_(Log!logVars)
    OBVIOUS
  <1>0. defs \in Seq(Definition) /\ position \in Nat
    BY DEF DefInv, TypeOK
  <1>1. ASSUME UNCHANGED <<defs, stopped, position>> PROVE [Log!LogNext]_(Log!logVars)
    BY <1>1 DEF Log!logVars
  <1>2. ASSUME Len(defs') = Len(defs) + 1, position' = position + 1, UNCHANGED stopped
        PROVE  Log!AppendRevision(Agent)
    BY <1>2 DEF Log!AppendRevision
  <1>3. ASSUME position' = position + 1, UNCHANGED <<defs, stopped>> PROVE Log!Move
    BY <1>3 DEF Log!Move
  <1>4. ASSUME NEW c \in Creators, RegisterCreation(c) PROVE [Log!LogNext]_(Log!logVars)
    <2>1. CASE UNCHANGED <<creation, defs, position>>
      BY <1>1, <1>4, <2>1 DEF RegisterCreation
    <2>2. CASE /\ creation.state = "pending" /\ position' = position + 1
               /\ defs' = <<FirstDefinition(tries[c].epoch)>>
      <3>1. Len(defs) = 0 /\ Len(defs') = 1
        BY <1>0, <2>2 DEF DefInv, CreationWhole
      <3> QED
        BY <1>2, <1>4, <2>2, <3>1 DEF RegisterCreation, Log!LogNext
    <2> QED
      BY <1>4, <2>1, <2>2 DEF RegisterCreation
  <1>5. ASSUME NEW s \in Senders, Configure(s) PROVE [Log!LogNext]_(Log!logVars)
    <2>1. CASE UNCHANGED <<defs, position>>
      BY <1>1, <1>5, <2>1 DEF Configure
    <2>2. CASE defs' = Append(defs, DefinitionOf(s)) /\ position' = position + 1
      <3>1. Len(defs') = Len(defs) + 1
        BY <1>0, <2>2
      <3> QED
        BY <1>2, <1>5, <2>2, <3>1 DEF Configure, Log!LogNext
    <2>3. CASE UNCHANGED defs /\ position' = position + 1
      BY <1>3, <1>5, <2>3 DEF Configure, Log!LogNext
    <2> QED
      BY <1>5, <2>1, <2>2, <2>3 DEF Configure
  <1>6. CASE TurnStop
    <2>1. stopped \in BOOLEAN /\ stopped' = ~stopped
      BY <1>6 DEF TurnStop, DefInv, TypeOK
    <2>2. Log!Turn(Agent)
      <3>1. Len(defs) # 0 /\ position' = position + 1 /\ defs' = defs
        BY <1>0, <1>6 DEF TurnStop
      <3>2. CASE stopped
        BY <2>1, <3>1, <3>2 DEF Log!Turn
      <3>3. CASE ~stopped
        BY <2>1, <3>1, <3>3 DEF Log!Turn
      <3> QED
        BY <2>1, <3>2, <3>3
    <2> QED
      BY <2>2 DEF Log!LogNext
  <1>7. ASSUME NEW c \in Creators,
               \/ BeginCreation(c) \/ PrepareEnrollment(c) \/ AdmitEnrollment(c)
               \/ FailCreation(c) \/ EndTry(c)
        PROVE  UNCHANGED <<defs, stopped, position>>
    BY <1>7 DEF BeginCreation, PrepareEnrollment, AdmitEnrollment, FailCreation, EndTry, logState
  <1>8. ASSUME NEW s \in Senders,
               \/ \E q \in Requests, b \in [expected: 1..MaxExpected, embedding: Embedding] :
                    Receive(s, q, b)
               \/ EmbeddingKept(s) \/ EndSend(s)
        PROVE  UNCHANGED <<defs, stopped, position>>
    BY <1>8 DEF Receive, EmbeddingKept, EndSend, logState
  <1>9. CASE MoveAssignment \/ ChangeAuthority \/ UNCHANGED vars
    BY <1>1, <1>9 DEF MoveAssignment, ChangeAuthority, vars, logState
  <1> QED
    BY <1>1, <1>4, <1>5, <1>6, <1>7, <1>8, <1>9 DEF Next

--------------------------------------------------------------------------------
(* The theorems                                                              *)

\* Creation and configuration keep their types.
THEOREM DefinitionTypes == Spec => []TypeOK
  <1>1. DefInv => TypeOK
    BY DEF DefInv
  <1> QED
    BY <1>1, InvHolds, PTL

\* Revisions exist exactly for a registered creation, of an agent garam admitted, the
\* first for the epoch the creation answers (CreateAgent).
THEOREM CreationWholeHolds == Spec => []CreationWhole
  <1>1. DefInv => CreationWhole
    BY DEF DefInv
  <1> QED
    BY <1>1, InvHolds, PTL

\* An embedding once named is the next revision's too, though it is compared ahead of the
\* transaction, wherever it was compared once the revision the request is based on was
\* stored (embeddingKept, Configure).
THEOREM EmbeddingImmutableHolds == Spec => []EmbeddingImmutable
  <1>1. DefInv => EmbeddingImmutable
    BY DEF DefInv
  <1> QED
    BY <1>1, InvHolds, PTL

\* A revision's epoch is not behind the one before it, wherever its request was
\* authorised once that one was stored (Configure).
THEOREM EpochsInOrderHolds == Spec => []EpochsInOrder
  <1>1. DefInv => EpochsInOrder
    BY DEF DefInv
  <1> QED
    BY <1>1, InvHolds, PTL

\* Every revision past the first is the body of exactly one request, answered as applied
\* with its number and based on the revision before it (Configure).
THEOREM AppliedOnceHolds == Spec => []AppliedOnce
  <1>1. Init => AppliedOnce
    BY DEF Init, AppliedOnce
  <1> QED
    BY <1>1, StepApplied, InvHolds, PTL DEF Spec

\* The control service's store implements the log the desired feed relies on
\* (RegisterCreation, Configure, RecordStop, RecordStart, movePosition).
THEOREM RefinesLogHolds == Spec => RefinesLog
  BY InitLog, StepLog, InvHolds, PTL DEF Spec, RefinesLog, Log!LogSpec
================================================================================
