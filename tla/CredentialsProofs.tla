--------------------------- MODULE CredentialsProofs ---------------------------
(***************************************************************************)
(* Proofs about an agent's credential, for any number of recoveries,       *)
(* epochs, restarts and failed refreshes.  CredInv strengthens the         *)
(* properties to what every step preserves: recoveries are finalized in    *)
(* order, each in the lineage of its number; the operator's request is the *)
(* newest it has to answer for; the lineage on the credential is that of a *)
(* finalized recovery; and tokens kept for a version of the Secret are not *)
(* older than the lineage that version records.                            *)
(***************************************************************************)
EXTENDS Credentials, TLAPS

Prepared(r) == recs[r].stage \in {"prepared", "finalized"}

\* One recovery after the other, and garam's lineages follow their numbers.
RecoveriesInOrder ==
  \A r \in Recs :
    /\ recs[r].stage # "none" => \A q \in Recs : q < r => Finalized(q)
    /\ spent[r] = IF r <= lineage THEN r ELSE 0
    /\ (Finalized(r) \/ r \in answers) => r <= lineage
    /\ Finalized(r) => recs[r].lineage = r
    /\ (r \in asked \/ r \in answers) => Prepared(r)

\* The request persisted, and the recovery offered, are not behind one that is
\* prepared, and a prepared one is the request's.
RequestInOrder ==
  /\ offered # 0 => recs[offered].stage # "none"
  /\ request # 0 => recs[request].stage # "none"
  /\ (offered # 0 /\ request # 0) => offered >= request
  /\ \A q \in Recs :
       /\ Prepared(q) => (request # 0 => request >= q) /\ (offered # 0 => offered >= q)
       /\ recs[q].stage = "prepared" => request = q
  /\ step # "idle" => request # 0 /\ Finalized(request)
  /\ step \in {"answered", "placed"} => got = request

\* The lineage recorded is a finalized recovery's, and the latest whose request is gone.
LineageRecorded ==
  /\ secret.ann # 0 => Finalized(secret.ann)
  /\ (step = "recorded" /\ secret.ann # 0) => secret.ann >= request
  /\ \A r \in Recs : (Finalized(r) /\ request # r /\ secret.ann # 0) => secret.ann >= r
  /\ secret.ver = 0 => secret.ann = 0
  /\ tmpl <= seen.ann /\ seen.ann <= secret.ann

\* Tokens kept for the Secret's version, and those placed and not asked for again, are
\* of the lineage recorded or a later one.
TokensFollow ==
  /\ seen.ver <= secret.ver /\ hold <= secret.ver /\ kept.ver <= secret.ver
  /\ hold # None => kept.ver = hold
  /\ kept.ver = secret.ver => /\ kept.tok # None => kept.tok >= secret.ann
                              /\ kept.ctl # None => kept.ctl >= secret.ann
  /\ secret.refresh # "none" => secret.tok >= secret.ann /\ secret.ctl >= secret.ann

CredInv == TypeOK /\ RecoveriesInOrder /\ RequestInOrder /\ LineageRecorded /\ TokensFollow

--------------------------------------------------------------------------------
(* Types                                                                     *)

\* The recoveries are natural numbers above zero, and a lineage is one or zero.
LEMMA RecsNat ==
  /\ \A r \in Recs : r \in Nat /\ r # 0 /\ r \in Lineages
  /\ \A l \in Lineages : l \in Nat /\ (l # 0 => l \in Recs)
  /\ Lineages = 0..MaxRecoveries
  BY CredentialsAssumption DEF Recs, Lineages

\* The numbers the invariant compares.
LEMMA StateNat ==
  ASSUME TypeOK
  PROVE  /\ lineage \in Nat /\ tmpl \in Nat
         /\ secret.ver \in Nat /\ secret.ann \in Nat /\ secret.tok \in Nat /\ secret.ctl \in Nat
         /\ seen.ver \in Nat /\ seen.ann \in Nat
         /\ hold \in Int /\ kept.ver \in Int /\ kept.tok \in Int /\ kept.ctl \in Int
         /\ offered \in Nat /\ (offered # 0 => offered \in Recs)
         /\ request \in Nat /\ (request # 0 => request \in Recs)
         /\ secret.ann # 0 => secret.ann \in Recs
  <1>1. lineage \in Lineages /\ tmpl \in Lineages /\ offered \in Lineages /\ request \in Lineages
    BY DEF TypeOK, Lineages
  <1>2. secret.ver \in Nat /\ secret.ann \in Lineages /\ secret.tok \in Lineages
        /\ secret.ctl \in Lineages /\ seen.ver \in Nat /\ seen.ann \in Lineages
    BY DEF TypeOK, Secret, Metadata
  <1>3. hold \in Int /\ kept.ver \in Int /\ kept.tok \in Lineages \cup {None}
        /\ kept.ctl \in Lineages \cup {None} /\ None \in Int
    BY DEF TypeOK, Tokens, None
  <1>4. kept.tok \in Int /\ kept.ctl \in Int
    BY <1>3, RecsNat
  <1> QED
    BY <1>1, <1>2, <1>3, <1>4, RecsNat

\* garam executes a recovery asked for as the next lineage, the recovery's own number:
\* those before it are finalized, so garam made theirs (Recover).
LEMMA NextLineage ==
  ASSUME CredInv, NEW r \in Recs, Prepared(r), spent[r] = 0
  PROVE  lineage + 1 = r
  <1>1. r > lineage
    BY StateNat, RecsNat DEF CredInv, RecoveriesInOrder
  <1>2. \A q \in Recs : q < r => q <= lineage
    BY DEF CredInv, RecoveriesInOrder, Prepared
  <1>3. r = 1 \/ r - 1 \in Recs
    BY CredentialsAssumption DEF Recs
  <1>4. lineage \in Nat /\ r \in Nat
    BY StateNat, RecsNat DEF CredInv
  <1>5. r - 1 \in Recs => r - 1 <= lineage
    BY <1>2, <1>4
  <1> QED
    BY <1>1, <1>3, <1>4, <1>5

\* What an unchanged or rewritten Secret is (Written).
LEMMA WrittenType ==
  ASSUME NEW s \in Secret, secret \in Secret
  PROVE  /\ Written(s) \in Secret
         /\ Written(s) = secret \/ Written(s) = [s EXCEPT !.ver = secret.ver + 1]
  BY DEF Written, Secret

\* What the tokens written over the Secret make of it (Store).
LEMMA TokensWrittenIs ==
  ASSUME TypeOK, kept.tok # None, kept.ctl # None
  PROVE  /\ TokensWritten \in Secret
         /\ TokensWritten.ver = secret.ver + 1 /\ TokensWritten.ann = secret.ann
         /\ TokensWritten.refresh = "later"
         /\ TokensWritten.tok = kept.tok /\ TokensWritten.ctl = kept.ctl
  <1> DEFINE v == [secret EXCEPT !.ver = @ + 1]
             r == [v EXCEPT !.refresh = "later"]
             t == [r EXCEPT !.tok = kept.tok]
  <1>1. secret \in Secret /\ kept.tok \in Lineages /\ kept.ctl \in Lineages
    BY DEF TypeOK, Tokens
  <1>2. TokensWritten = [t EXCEPT !.ctl = kept.ctl]
    BY DEF TokensWritten
  <1>3. v \in Secret /\ v.ver = secret.ver + 1 /\ v.ann = secret.ann
    BY <1>1 DEF Secret
  <1> HIDE DEF v
  <1>4. r \in Secret /\ r.ver = v.ver /\ r.ann = v.ann /\ r.refresh = "later"
    BY <1>3 DEF Secret, Refresh
  <1> HIDE DEF r
  <1>5. t \in Secret /\ t.ver = r.ver /\ t.ann = r.ann /\ t.refresh = "later" /\ t.tok = kept.tok
    BY <1>1, <1>4 DEF Secret
  <1> HIDE DEF t
  <1> QED
    BY <1>1, <1>2, <1>3, <1>4, <1>5 DEF Secret

\* The initial state has its types.
LEMMA InitType == Init => TypeOK
  BY CredentialsAssumption
  DEF Init, TypeOK, Recs, Lineages, None, Recovery, Refresh, Secret, Metadata, Tokens, NoTokens,
      Absent, MetadataOf

\* Every step keeps the types.
LEMMA StepType == CredInv /\ [Next]_vars => TypeOK'
  <1> SUFFICES ASSUME CredInv, [Next]_vars PROVE TypeOK'
    OBVIOUS
  <1> USE CredentialsAssumption DEF controlVars, recovererVars, refresherVars
  <1>0. TypeOK
    BY DEF CredInv
  <1>1. ASSUME NEW r \in Recs, OpenRecovery(r) PROVE TypeOK'
    <2>1. Opened \in Recovery
      BY <1>0 DEF Opened, Recovery, TypeOK, Lineages
    <2> QED
      BY <1>0, <1>1, <2>1 DEF OpenRecovery, TypeOK
  <1>2. ASSUME NEW r \in Recs, FinalizeAsked(r) PROVE TypeOK'
    BY <1>0, <1>2 DEF FinalizeAsked, SendRecover, TypeOK
  <1>3. ASSUME NEW r \in Recs, GaramRecover(r) PROVE TypeOK'
    <2>1. spent[r] = 0 => lineage + 1 \in Lineages
      <3>1. Prepared(r)
        BY <1>3 DEF GaramRecover, CredInv, RecoveriesInOrder
      <3> QED
        BY <3>1, NextLineage, RecsNat
    <2>2. spent' \in [Recs -> Lineages] /\ lineage' \in Lineages
      BY <1>0, <1>3, <2>1 DEF GaramRecover, TypeOK
    <2> QED
      BY <1>0, <1>3, <2>2 DEF GaramRecover, TypeOK
  <1>4. ASSUME NEW r \in Recs, FinalizeRecovery(r) PROVE TypeOK'
    <2>1. [recs EXCEPT ![r].stage = "finalized", ![r].lineage = spent[r]] \in [Recs -> Recovery]
      BY <1>0 DEF TypeOK, Recovery
    <2> QED
      BY <1>0, <1>4, <2>1 DEF FinalizeRecovery, TypeOK
  <1>5. CASE MoveEpoch
    BY <1>0, <1>5 DEF MoveEpoch, Event, TypeOK
  <1>6. CASE Offer
    BY <1>0, <1>6 DEF Offer, TypeOK, Recs
  <1>7. CASE SaveRecovery
    BY <1>0, <1>7 DEF SaveRecovery, CreateRequest, TypeOK
  <1>8. CASE PrepareRecovery
    <2>1. request \in Recs
      BY <1>0, <1>8, StateNat DEF PrepareRecovery, Persisted
    <2>2. CASE StorePrepared(request) /\ UNCHANGED <<step, got>>
      <3>1. recs' \in [Recs -> Recovery]
        BY <1>0, <2>1, <2>2 DEF StorePrepared, TypeOK, Recovery
      <3> QED
        BY <1>0, <1>8, <2>2, <3>1 DEF PrepareRecovery, TypeOK
    <2>3. CASE AnsweredLineage(request) /\ UNCHANGED recs
      <3>1. got' \in Lineages /\ step' = "answered"
        BY <1>0, <2>1, <2>3 DEF AnsweredLineage, TypeOK, Recovery
      <3> QED
        BY <1>0, <1>8, <2>3, <3>1 DEF PrepareRecovery, TypeOK
    <2> QED
      BY <1>8, <2>2, <2>3 DEF PrepareRecovery
  <1>9. CASE ReadPlaced
    BY <1>0, <1>9 DEF ReadPlaced, TypeOK
  <1>10. CASE PatchLineage
    <2>1. [secret EXCEPT !.ann = got, !.refresh = "none"] \in Secret
      BY <1>0 DEF TypeOK, Secret, Refresh
    <2>2. secret' \in Secret
      BY <1>0, <1>10, <2>1, WrittenType DEF PatchLineage, TypeOK
    <2> QED
      BY <1>0, <1>10, <2>2 DEF PatchLineage, TypeOK
  <1>11. CASE DeleteRequest
    BY <1>0, <1>11 DEF DeleteRequest, TypeOK, Lineages
  <1>12. CASE RetryTransient
    BY <1>0, <1>12 DEF RetryTransient, Event, TypeOK, Lineages
  <1>13. CASE ReadHolder
    <2>1. seen.ver \in Nat /\ NoTokens(seen.ver) \in Tokens
      BY <1>0 DEF TypeOK, Metadata, NoTokens, Tokens
    <2> QED
      BY <1>0, <1>13, <2>1 DEF ReadHolder, KeptFor, HolderVersion, TypeOK
  <1>14. CASE Mint
    BY <1>0, <1>14 DEF Mint, MintedToken, TypeOK, Tokens
  <1>15. ASSUME kept.tok # None, kept.ctl # None PROVE TokensWritten \in Secret
    BY <1>0, <1>15, TokensWrittenIs
  <1>16. CASE StoreTokens
    <2>1. NoTokens(None) \in Tokens
      BY DEF NoTokens, Tokens
    <2> QED
      BY <1>0, <1>15, <1>16, <2>1 DEF StoreTokens, TypeOK
  <1>17. CASE RefreshFails
    BY <1>0, <1>15, <1>17 DEF RefreshFails, Event, TypeOK
  <1>18. CASE BecomeDue
    BY <1>0, <1>18 DEF BecomeDue, Event, TypeOK, Secret, Metadata, Refresh
  <1>19. MetadataOf(secret) \in Metadata
    BY <1>0 DEF MetadataOf, Metadata, TypeOK, Secret
  <1>20. CASE CacheSync
    BY <1>0, <1>19, <1>20 DEF CacheSync, TypeOK
  <1>21. CASE ApplyLineage
    BY <1>0, <1>21 DEF ApplyLineage, CredentialLineage, TypeOK, Metadata
  <1>22. CASE Restart
    BY <1>0, <1>19, <1>22 DEF Restart, Event, TypeOK, NoTokens, Tokens, Lineages
  <1>23. CASE UNCHANGED vars
    BY <1>0, <1>23 DEF vars, TypeOK
  <1> QED
    BY <1>1, <1>2, <1>3, <1>4, <1>5, <1>6, <1>7, <1>8, <1>9, <1>10, <1>11, <1>12, <1>13, <1>14,
       <1>16, <1>17, <1>18, <1>20, <1>21, <1>22, <1>23 DEF Next

--------------------------------------------------------------------------------
(* The invariant                                                             *)

\* The initial state has the invariant.
LEMMA InitInv == Init => CredInv
  <1> SUFFICES ASSUME Init PROVE CredInv
    OBVIOUS
  <1> USE RecsNat
  <1>1. TypeOK
    BY InitType
  <1>2. RecoveriesInOrder
    BY DEF Init, RecoveriesInOrder, Finalized, Prepared
  <1>3. RequestInOrder
    BY DEF Init, RequestInOrder, Finalized, Prepared
  <1>4. LineageRecorded /\ TokensFollow
    BY DEF Init, LineageRecorded, TokensFollow, Finalized, Absent, MetadataOf, NoTokens, None
  <1> QED
    BY <1>1, <1>2, <1>3, <1>4 DEF CredInv

\* Recoveries stay in order, and garam's lineages with them.
LEMMA StepRecoveries == CredInv /\ [Next]_vars => RecoveriesInOrder'
  <1> SUFFICES ASSUME CredInv, [Next]_vars PROVE RecoveriesInOrder'
    OBVIOUS
  <1> USE DEF controlVars, recovererVars, refresherVars
  <1>0. TypeOK /\ RecoveriesInOrder /\ lineage \in Nat /\ recs \in [Recs -> Recovery]
        /\ \A r \in Recs : r \in Nat /\ r # 0
    BY StateNat, RecsNat DEF CredInv, TypeOK
  <1>1. ASSUME UNCHANGED <<recs, asked, answers, lineage, spent>> PROVE RecoveriesInOrder'
    BY <1>0, <1>1 DEF RecoveriesInOrder, Finalized, Prepared
  <1>2. ASSUME NEW r \in Recs, OpenRecovery(r) PROVE RecoveriesInOrder'
    <2>1. recs'[r].stage = "requested" /\ \A q \in Recs : q # r => recs'[q] = recs[q]
      BY <1>0, <1>2 DEF OpenRecovery, Opened
    <2>2. recs[r].stage = "none" /\ \A q \in Recs : q < r => Finalized(q)
      BY <1>2 DEF OpenRecovery, NoneOpen
    <2> QED
      BY <1>0, <1>2, <2>1, <2>2 DEF OpenRecovery, RecoveriesInOrder, Finalized, Prepared
  <1>3. ASSUME NEW r \in Recs, FinalizeAsked(r) PROVE RecoveriesInOrder'
    BY <1>0, <1>3 DEF FinalizeAsked, SendRecover, RecoveriesInOrder, Finalized, Prepared
  <1>4. ASSUME NEW r \in Recs, GaramRecover(r) PROVE RecoveriesInOrder'
    <2>1. Prepared(r) /\ recs' = recs
      BY <1>0, <1>4 DEF GaramRecover, RecoveriesInOrder
    <2>2. CASE UNCHANGED <<spent, lineage, answers>>
      BY <1>0, <1>4, <2>2 DEF GaramRecover, RecoveriesInOrder, Finalized, Prepared
    <2>3. CASE spent[r] # 0 /\ ~UNCHANGED <<spent, lineage, answers>>
      <3>1. r <= lineage
        BY <1>0, <2>3 DEF RecoveriesInOrder
      <3>2. spent' = spent /\ lineage' = lineage /\ answers' \subseteq answers \cup {r}
        BY <1>0, <1>4, <2>3 DEF GaramRecover, TypeOK
      <3> QED
        BY <1>0, <1>4, <2>1, <3>1, <3>2 DEF GaramRecover, RecoveriesInOrder, Finalized, Prepared
    <2>4. CASE spent[r] = 0 /\ ~UNCHANGED <<spent, lineage, answers>>
      <3>1. lineage + 1 = r
        BY <2>1, <2>4, NextLineage
      <3>2. /\ spent' = [spent EXCEPT ![r] = r] /\ lineage' = r
            /\ answers' \subseteq answers \cup {r} /\ spent \in [Recs -> Lineages]
        BY <1>0, <1>4, <2>4, <3>1 DEF GaramRecover, TypeOK
      <3>3. \A q \in Recs : spent'[q] = IF q <= lineage' THEN q ELSE 0
        BY <1>0, <3>1, <3>2 DEF RecoveriesInOrder
      <3>4. \A q \in Recs : q <= lineage => q <= lineage'
        BY <1>0, <3>1, <3>2
      <3>5. r <= lineage'
        BY <1>0, <3>2
      <3> QED
        BY <1>0, <1>4, <2>1, <3>2, <3>3, <3>4, <3>5
        DEF GaramRecover, RecoveriesInOrder, Finalized, Prepared
    <2> QED
      BY <2>2, <2>3, <2>4
  <1>5. ASSUME NEW r \in Recs, FinalizeRecovery(r) PROVE RecoveriesInOrder'
    <2>1. CASE recs[r].stage = "prepared"
      <3>1. spent[r] = r
        BY <1>0, <1>5 DEF FinalizeRecovery, RecoveriesInOrder
      <3>2. /\ recs'[r].stage = "finalized" /\ recs'[r].lineage = r
            /\ \A q \in Recs : q # r => recs'[q] = recs[q]
        BY <1>0, <1>5, <2>1, <3>1 DEF FinalizeRecovery, Recovery
      <3>3. \A q \in Recs : Finalized(q) => Finalized(q)'
        BY <3>2 DEF Finalized
      <3>4. \A q \in Recs : recs'[q].stage # "none" => recs[q].stage # "none"
        BY <2>1, <3>2
      <3>5. \A q \in Recs : Prepared(q) => Prepared(q)'
        BY <3>2 DEF Prepared
      <3>6. \A q \in Recs : Finalized(q)' => (Finalized(q) \/ q = r) /\ (Finalized(q)' => recs'[q].lineage = q)
        BY <1>0, <3>2 DEF Finalized, RecoveriesInOrder
      <3> QED
        BY <1>0, <1>5, <3>3, <3>4, <3>5, <3>6 DEF FinalizeRecovery, RecoveriesInOrder
    <2>2. CASE recs[r].stage # "prepared"
      BY <1>0, <1>5, <2>2 DEF FinalizeRecovery, RecoveriesInOrder, Finalized, Prepared
    <2> QED
      BY <2>1, <2>2
  <1>6. CASE PrepareRecovery
    <2>1. request \in Recs
      BY <1>0, <1>6, StateNat DEF PrepareRecovery, Persisted
    <2>2. CASE StorePrepared(request)
      <3>1. /\ recs'[request].stage = "prepared" /\ recs[request].stage = "requested"
            /\ \A q \in Recs : q # request => recs'[q] = recs[q]
        BY <1>0, <2>1, <2>2 DEF StorePrepared, Recovery
      <3>2. UNCHANGED <<asked, answers, lineage, spent>>
        BY <1>6 DEF PrepareRecovery
      <3> QED
        BY <1>0, <2>1, <3>1, <3>2 DEF RecoveriesInOrder, Finalized, Prepared
    <2> QED
      BY <1>1, <1>6, <2>2 DEF PrepareRecovery
  <1>7. CASE MoveEpoch \/ Offer \/ SaveRecovery \/ ReadPlaced \/ PatchLineage \/ DeleteRequest
    BY <1>1, <1>7 DEF MoveEpoch, Offer, SaveRecovery, ReadPlaced, PatchLineage, DeleteRequest
  <1>8. CASE RetryTransient \/ ReadHolder \/ Mint \/ StoreTokens \/ RefreshFails \/ BecomeDue
    BY <1>1, <1>8 DEF RetryTransient, ReadHolder, Mint, StoreTokens, RefreshFails, BecomeDue
  <1>9. CASE CacheSync \/ ApplyLineage \/ Restart \/ UNCHANGED vars
    BY <1>1, <1>9 DEF CacheSync, ApplyLineage, Restart, vars
  <1> QED
    BY <1>2, <1>3, <1>4, <1>5, <1>6, <1>7, <1>8, <1>9 DEF Next

\* The request stays the newest recovery the operator has to answer for.
LEMMA StepRequest == CredInv /\ [Next]_vars => RequestInOrder'
  <1> SUFFICES ASSUME CredInv, [Next]_vars PROVE RequestInOrder'
    OBVIOUS
  <1> USE DEF controlVars, recovererVars, refresherVars
  <1>0. /\ TypeOK /\ RecoveriesInOrder /\ RequestInOrder /\ recs \in [Recs -> Recovery]
        /\ \A r \in Recs : r \in Nat /\ r # 0
        /\ offered \in Nat /\ (offered # 0 => offered \in Recs)
        /\ request \in Nat /\ (request # 0 => request \in Recs)
    BY StateNat, RecsNat DEF CredInv, TypeOK
  <1>1. ASSUME UNCHANGED <<recs, offered, request, step, got>> PROVE RequestInOrder'
    BY <1>0, <1>1 DEF RequestInOrder, Finalized, Prepared
  <1>2. ASSUME NEW r \in Recs, OpenRecovery(r) PROVE RequestInOrder'
    <2>1. recs'[r].stage = "requested" /\ \A q \in Recs : q # r => recs'[q] = recs[q]
      BY <1>0, <1>2 DEF OpenRecovery, Opened
    <2>2. recs[r].stage = "none" /\ UNCHANGED <<offered, request, step, got>>
      BY <1>2 DEF OpenRecovery, NoneOpen
    <2> QED
      BY <1>0, <2>1, <2>2 DEF RequestInOrder, Finalized, Prepared
  <1>3. ASSUME NEW r \in Recs, FinalizeRecovery(r) PROVE RequestInOrder'
    <2>1. UNCHANGED <<offered, request, step, got>>
      BY <1>3 DEF FinalizeRecovery
    <2>2. CASE recs[r].stage = "prepared"
      <3>1. recs'[r].stage = "finalized" /\ \A q \in Recs : q # r => recs'[q] = recs[q]
        BY <1>0, <1>3, <2>2 DEF FinalizeRecovery, Recovery
      <3> QED
        BY <1>0, <2>1, <2>2, <3>1 DEF RequestInOrder, Finalized, Prepared
    <2>3. CASE recs[r].stage # "prepared"
      BY <1>1, <1>3, <2>1, <2>3 DEF FinalizeRecovery
    <2> QED
      BY <2>2, <2>3
  <1>4. CASE Offer
    <2>1. UNCHANGED <<recs, request, step, got>>
      BY <1>4 DEF Offer
    <2>2. CASE {r \in Recs : Open(r)} = {}
      <3>1. offered' = 0
        BY <1>4, <2>2 DEF Offer
      <3> QED
        BY <1>0, <2>1, <3>1 DEF RequestInOrder, Finalized, Prepared
    <2>3. CASE {r \in Recs : Open(r)} # {}
      <3>1. offered' \in Recs /\ Open(offered')
        BY <1>4, <2>3 DEF Offer
      <3>2. \A q \in Recs : recs[q].stage # "none" => offered' >= q
        BY <1>0, <3>1 DEF RecoveriesInOrder, Open, Finalized
      <3>3. recs'[offered'].stage # "none"
        BY <2>1, <3>1 DEF Open
      <3>4. \A q \in Recs : Prepared(q) => offered' >= q
        BY <3>2 DEF Prepared
      <3> QED
        BY <1>0, <2>1, <3>1, <3>2, <3>3, <3>4 DEF RequestInOrder, Finalized, Prepared
    <2> QED
      BY <2>2, <2>3
  <1>5. CASE SaveRecovery
    <2>1. /\ request' = offered /\ offered # 0 /\ request = 0 /\ step = "idle"
          /\ UNCHANGED <<recs, offered, step, got>>
      BY <1>5 DEF SaveRecovery, CreateRequest, Persisted
    <2> QED
      BY <1>0, <2>1 DEF RequestInOrder, Finalized, Prepared
  <1>6. CASE PrepareRecovery
    <2>1. request \in Recs /\ step = "idle" /\ UNCHANGED <<offered, request>>
      BY <1>0, <1>6, StateNat DEF PrepareRecovery, Persisted
    <2>2. CASE StorePrepared(request) /\ UNCHANGED <<step, got>>
      <3>1. /\ recs'[request].stage = "prepared"
            /\ \A q \in Recs : q # request => recs'[q] = recs[q]
        BY <1>0, <2>1, <2>2 DEF StorePrepared, Recovery
      <3> QED
        BY <1>0, <2>1, <2>2, <3>1 DEF RequestInOrder, Finalized, Prepared
    <2>3. CASE AnsweredLineage(request) /\ UNCHANGED recs
      <3>1. got' = request
        BY <1>0, <2>1, <2>3 DEF AnsweredLineage, RecoveriesInOrder
      <3> QED
        BY <1>0, <2>1, <2>3, <3>1 DEF RequestInOrder, Finalized, Prepared, AnsweredLineage
    <2> QED
      BY <1>6, <2>2, <2>3 DEF PrepareRecovery
  <1>7. CASE ReadPlaced \/ PatchLineage
    <2>1. step \in {"answered", "placed"} /\ UNCHANGED <<recs, offered, request, got>>
      BY <1>7 DEF ReadPlaced, PatchLineage
    <2> QED
      BY <1>0, <2>1 DEF RequestInOrder, Finalized, Prepared
  <1>8. CASE DeleteRequest
    <2>1. step = "recorded" /\ request' = 0 /\ step' = "idle" /\ UNCHANGED <<recs, offered>>
      BY <1>8 DEF DeleteRequest
    <2> QED
      BY <1>0, <2>1 DEF RequestInOrder, Finalized, Prepared
  <1>9. CASE RetryTransient
    BY <1>0, <1>9 DEF RetryTransient, RequestInOrder, Finalized, Prepared
  <1>10. CASE Restart
    BY <1>0, <1>10 DEF Restart, RequestInOrder, Finalized, Prepared
  <1>11. ASSUME NEW r \in Recs, FinalizeAsked(r) \/ GaramRecover(r) PROVE RequestInOrder'
    BY <1>1, <1>11 DEF FinalizeAsked, GaramRecover
  <1>12. CASE MoveEpoch \/ ReadHolder \/ Mint \/ StoreTokens \/ RefreshFails \/ BecomeDue
    BY <1>1, <1>12 DEF MoveEpoch, ReadHolder, Mint, StoreTokens, RefreshFails, BecomeDue
  <1>13. CASE CacheSync \/ ApplyLineage \/ UNCHANGED vars
    BY <1>1, <1>13 DEF CacheSync, ApplyLineage, vars
  <1> QED
    BY <1>2, <1>3, <1>4, <1>5, <1>6, <1>7, <1>8, <1>9, <1>10, <1>11, <1>12, <1>13 DEF Next

\* The lineage a patch records is the request's, not below the one recorded before
\* (Recovered).
LEMMA PatchRaises ==
  ASSUME CredInv, PatchLineage
  PROVE  /\ secret' \in Secret /\ secret'.ann = request /\ secret'.refresh = "none"
         /\ request \in Recs /\ Finalized(request) /\ request >= secret.ann
         /\ secret' = secret \/ secret'.ver = secret.ver + 1
  <1>1. /\ got = request /\ request \in Recs /\ Finalized(request)
    BY StateNat DEF PatchLineage, CredInv, RequestInOrder
  <1>2. request >= secret.ann
    BY <1>1, StateNat, RecsNat DEF CredInv, RequestInOrder, LineageRecorded, Prepared, Finalized
  <1> DEFINE s == [secret EXCEPT !.ann = got, !.refresh = "none"]
  <1>3. secret \in Secret /\ s \in Secret /\ s.ann = got /\ s.refresh = "none"
    BY DEF CredInv, TypeOK, Secret, Refresh
  <1>4. secret' = Written(s)
    BY DEF PatchLineage
  <1> HIDE DEF s
  <1>5. /\ secret' \in Secret /\ secret'.ann = s.ann /\ secret'.refresh = s.refresh
        /\ secret' = secret \/ secret'.ver = secret.ver + 1
    BY <1>3, <1>4 DEF Written, Secret
  <1> QED
    BY <1>1, <1>2, <1>3, <1>5

\* What a refresh, finished or unanswered, makes of the Secret: the tokens kept for its
\* version, under the lineage it records (Store).
LEMMA StoreEffect ==
  ASSUME CredInv, StoreTokens \/ RefreshFails, secret' # secret
  PROVE  /\ secret'.ver = secret.ver + 1 /\ secret'.ann = secret.ann
         /\ secret'.tok >= secret.ann /\ secret'.ctl >= secret.ann
  <1>1. /\ hold # None /\ kept.tok # None /\ kept.ctl # None /\ hold = secret.ver
        /\ secret' = TokensWritten
    BY DEF StoreTokens, RefreshFails, StoreAdmitted
  <1>2. kept.tok >= secret.ann /\ kept.ctl >= secret.ann
    BY <1>1 DEF CredInv, TokensFollow
  <1> QED
    BY <1>1, <1>2, TokensWrittenIs DEF CredInv

\* A recovery finalized stays so (FinalizeRecovery is the last of its changes).
LEMMA FinalizedStays ==
  ASSUME CredInv, [Next]_vars, NEW r \in Recs, Finalized(r)
  PROVE  Finalized(r)'
  <1> USE DEF controlVars, recovererVars, refresherVars
  <1>0. recs \in [Recs -> Recovery]
    BY DEF CredInv, TypeOK
  <1>1. ASSUME UNCHANGED recs PROVE Finalized(r)'
    BY <1>1 DEF Finalized
  <1>2. ASSUME NEW q \in Recs, OpenRecovery(q) PROVE Finalized(r)'
    BY <1>0, <1>2 DEF OpenRecovery, NoneOpen, Finalized
  <1>3. ASSUME NEW q \in Recs, FinalizeRecovery(q) PROVE Finalized(r)'
    BY <1>0, <1>3 DEF FinalizeRecovery, Finalized, Recovery
  <1>4. CASE PrepareRecovery
    BY <1>0, <1>4 DEF PrepareRecovery, StorePrepared, Finalized, Recovery
  <1>5. ASSUME NEW q \in Recs, FinalizeAsked(q) \/ GaramRecover(q) PROVE Finalized(r)'
    BY <1>1, <1>5 DEF FinalizeAsked, GaramRecover
  <1>6. CASE MoveEpoch \/ Offer \/ SaveRecovery \/ ReadPlaced \/ PatchLineage \/ DeleteRequest
    BY <1>1, <1>6 DEF MoveEpoch, Offer, SaveRecovery, ReadPlaced, PatchLineage, DeleteRequest
  <1>7. CASE RetryTransient \/ ReadHolder \/ Mint \/ StoreTokens \/ RefreshFails \/ BecomeDue
    BY <1>1, <1>7 DEF RetryTransient, ReadHolder, Mint, StoreTokens, RefreshFails, BecomeDue
  <1>8. CASE CacheSync \/ ApplyLineage \/ Restart \/ UNCHANGED vars
    BY <1>1, <1>8 DEF CacheSync, ApplyLineage, Restart, vars
  <1> QED
    BY <1>2, <1>3, <1>4, <1>5, <1>6, <1>7, <1>8 DEF Next

\* A recovery becomes finalized only while its request is persisted.
LEMMA FinalizedUnderRequest ==
  ASSUME CredInv, NEW q \in Recs, FinalizeRecovery(q), NEW r \in Recs, Finalized(r)'
  PROVE  Finalized(r) \/ request = r
  BY DEF CredInv, TypeOK, RequestInOrder, FinalizeRecovery, Finalized, Recovery

\* The lineage recorded stays the latest whose request is gone, and the cache and the
\* Pod template stay behind it.
LEMMA StepLineage == CredInv /\ [Next]_vars => LineageRecorded'
  <1> SUFFICES ASSUME CredInv, [Next]_vars PROVE LineageRecorded'
    OBVIOUS
  <1> USE DEF controlVars, recovererVars, refresherVars
  <1>0. /\ TypeOK /\ RequestInOrder /\ LineageRecorded
        /\ secret.ann \in Nat /\ seen.ann \in Nat /\ tmpl \in Nat /\ secret.ver \in Nat
        /\ secret.ann # 0 => secret.ann \in Recs
        /\ \A r \in Recs : r \in Nat /\ r # 0
        /\ request \in Nat /\ (request # 0 => request \in Recs)
    BY StateNat, RecsNat DEF CredInv
  <1>1. \A r \in Recs : Finalized(r) => Finalized(r)'
    BY FinalizedStays
  <1>2. ASSUME UNCHANGED <<request, step, secret, seen, tmpl>>,
               \A r \in Recs : Finalized(r)' => Finalized(r) \/ request = r
        PROVE LineageRecorded'
    BY <1>0, <1>1, <1>2 DEF LineageRecorded
  <1>3. ASSUME NEW r \in Recs, OpenRecovery(r) PROVE LineageRecorded'
    <2>1. \A q \in Recs : Finalized(q)' => Finalized(q)
      BY <1>0, <1>3 DEF OpenRecovery, Opened, Finalized, TypeOK
    <2> QED
      BY <1>2, <1>3, <2>1 DEF OpenRecovery
  <1>4. ASSUME NEW r \in Recs, FinalizeRecovery(r) PROVE LineageRecorded'
    BY <1>2, <1>4, FinalizedUnderRequest DEF FinalizeRecovery
  <1>5. ASSUME NEW r \in Recs, FinalizeAsked(r) \/ GaramRecover(r) PROVE LineageRecorded'
    BY <1>2, <1>5 DEF FinalizeAsked, GaramRecover, Finalized
  <1>6. CASE MoveEpoch \/ Offer \/ ReadHolder \/ Mint \/ UNCHANGED vars
    BY <1>2, <1>6 DEF MoveEpoch, Offer, ReadHolder, Mint, vars, Finalized
  <1>7. CASE SaveRecovery
    <2>1. request = 0 /\ step = "idle" /\ UNCHANGED <<recs, step, secret, seen, tmpl>>
      BY <1>7 DEF SaveRecovery, Persisted
    <2> QED
      BY <1>0, <2>1 DEF LineageRecorded, Finalized
  <1>8. CASE PrepareRecovery
    <2>1. /\ step = "idle" /\ step' \in {"idle", "answered"}
          /\ UNCHANGED <<request, secret, seen, tmpl>>
      BY <1>8 DEF PrepareRecovery, StorePrepared, AnsweredLineage
    <2>2. \A q \in Recs : Finalized(q)' => Finalized(q)
      BY <1>0, <1>8 DEF PrepareRecovery, StorePrepared, Finalized, TypeOK, Recovery
    <2> QED
      BY <1>0, <1>1, <2>1, <2>2 DEF LineageRecorded
  <1>9. CASE ReadPlaced
    <2>1. /\ step' = "recorded" => secret.ann = 0
          /\ UNCHANGED <<recs, request, secret, seen, tmpl>>
      BY <1>0, <1>9 DEF ReadPlaced, LineageRecorded
    <2> QED
      BY <1>0, <2>1 DEF LineageRecorded, Finalized
  <1>10. CASE PatchLineage
    <2>1. UNCHANGED <<recs, request, seen, tmpl>>
      BY <1>10 DEF PatchLineage
    <2>2. secret'.ver = 0 => secret' = secret
      BY <1>0, <1>10, PatchRaises
    <2>3. \A r \in Recs : Finalized(r) => request >= r
      BY <1>0, <1>10, PatchRaises DEF RequestInOrder, Prepared, Finalized
    <2> QED
      BY <1>0, <1>10, <2>1, <2>2, <2>3, PatchRaises DEF LineageRecorded, Finalized
  <1>11. CASE DeleteRequest
    <2>1. step = "recorded" /\ step' = "idle" /\ UNCHANGED <<recs, secret, seen, tmpl>>
      BY <1>11 DEF DeleteRequest
    <2> QED
      BY <1>0, <2>1 DEF LineageRecorded, Finalized
  <1>12. CASE RetryTransient
    BY <1>0, <1>12 DEF RetryTransient, LineageRecorded, Finalized
  <1>13. CASE StoreTokens \/ RefreshFails
    <2>1. UNCHANGED <<recs, request, step, seen, tmpl>>
      BY <1>13 DEF StoreTokens, RefreshFails
    <2>2. CASE secret' = secret
      BY <1>2, <2>1, <2>2 DEF Finalized
    <2>3. CASE secret' # secret
      <3>1. secret'.ann = secret.ann /\ secret'.ver = secret.ver + 1
        BY <1>13, <2>3, StoreEffect
      <3> QED
        BY <1>0, <2>1, <3>1 DEF LineageRecorded, Finalized
    <2> QED
      BY <2>2, <2>3
  <1>14. CASE BecomeDue
    <2>1. /\ secret'.ann = secret.ann /\ secret'.ver = secret.ver /\ seen'.ann = seen.ann
          /\ UNCHANGED <<recs, request, step, tmpl>>
      BY <1>0, <1>14 DEF BecomeDue, TypeOK, Secret, Metadata
    <2> QED
      BY <1>0, <2>1 DEF LineageRecorded, Finalized
  <1>15. CASE CacheSync \/ ApplyLineage
    <2>1. UNCHANGED <<recs, request, step, secret>>
      BY <1>15 DEF CacheSync, ApplyLineage
    <2>2. tmpl' <= seen'.ann /\ seen'.ann <= secret.ann
      BY <1>0, <1>15 DEF CacheSync, ApplyLineage, MetadataOf, CredentialLineage, LineageRecorded
    <2> QED
      BY <1>0, <2>1, <2>2 DEF LineageRecorded, Finalized
  <1>16. CASE Restart
    <2>1. step' = "idle" /\ seen'.ann = secret.ann /\ UNCHANGED <<recs, request, secret, tmpl>>
      BY <1>16 DEF Restart, MetadataOf
    <2> QED
      BY <1>0, <2>1 DEF LineageRecorded, Finalized
  <1> QED
    BY <1>3, <1>4, <1>5, <1>6, <1>7, <1>8, <1>9, <1>10, <1>11, <1>12, <1>13, <1>14, <1>15, <1>16
    DEF Next

\* Tokens kept and placed stay of the lineage recorded or a later one.
LEMMA StepTokens == CredInv /\ [Next]_vars => TokensFollow'
  <1> SUFFICES ASSUME CredInv, [Next]_vars PROVE TokensFollow'
    OBVIOUS
  <1> USE DEF controlVars, recovererVars, refresherVars
  <1>0. /\ TypeOK /\ LineageRecorded /\ TokensFollow /\ None = -1
        /\ lineage \in Nat /\ secret.ver \in Nat /\ secret.ann \in Nat /\ secret.tok \in Nat
        /\ secret.ctl \in Nat /\ seen.ver \in Nat /\ hold \in Int /\ kept.ver \in Int
        /\ kept.tok \in Int /\ kept.ctl \in Int
    BY StateNat DEF CredInv, None
  <1>1. ASSUME UNCHANGED <<secret, seen, hold, kept>> PROVE TokensFollow'
    BY <1>0, <1>1 DEF TokensFollow
  <1>2. ASSUME NEW r \in Recs,
               OpenRecovery(r) \/ FinalizeAsked(r) \/ GaramRecover(r) \/ FinalizeRecovery(r)
        PROVE TokensFollow'
    BY <1>1, <1>2 DEF OpenRecovery, FinalizeAsked, GaramRecover, FinalizeRecovery
  <1>3. CASE MoveEpoch \/ Offer \/ SaveRecovery \/ PrepareRecovery \/ ReadPlaced \/ DeleteRequest
    BY <1>1, <1>3 DEF MoveEpoch, Offer, SaveRecovery, PrepareRecovery, ReadPlaced, DeleteRequest
  <1>4. CASE RetryTransient \/ ApplyLineage \/ UNCHANGED vars
    BY <1>1, <1>4 DEF RetryTransient, ApplyLineage, vars
  <1>5. CASE PatchLineage
    <2>1. UNCHANGED <<seen, hold, kept>>
      BY <1>5 DEF PatchLineage
    <2>2. CASE secret' = secret
      BY <1>1, <2>1, <2>2
    <2>3. CASE secret'.ver = secret.ver + 1
      BY <1>0, <1>5, <2>1, <2>3, PatchRaises DEF TokensFollow
    <2> QED
      BY <1>5, <2>2, <2>3, PatchRaises
  <1>6. CASE ReadHolder
    <2>1. /\ hold' = seen.ver /\ kept'.ver = seen.ver /\ UNCHANGED <<secret, seen>>
          /\ kept' = kept \/ (kept'.tok = None /\ kept'.ctl = None)
      <3>1. /\ hold' = seen.ver /\ UNCHANGED <<secret, seen>>
            /\ (kept' = kept /\ kept.ver = seen.ver) \/ kept' = NoTokens(seen.ver)
        BY <1>6 DEF ReadHolder, KeptFor, HolderVersion
      <3> QED
        BY <3>1 DEF NoTokens
    <2> QED
      BY <1>0, <2>1 DEF TokensFollow
  <1>7. CASE Mint
    <2>1. secret.ann <= lineage
      BY <1>0, StateNat DEF LineageRecorded, CredInv, RecoveriesInOrder
    <2>2. /\ kept'.ver = kept.ver /\ UNCHANGED <<secret, seen, hold>>
          /\ \/ kept'.tok = lineage /\ kept'.ctl = kept.ctl
             \/ kept'.tok = kept.tok /\ kept'.ctl = lineage
      BY <1>0, <1>7 DEF Mint, MintedToken, TypeOK, Tokens
    <2> QED
      BY <1>0, <2>1, <2>2 DEF TokensFollow
  <1>8. CASE StoreTokens \/ RefreshFails
    <2>1. /\ hold' = None /\ UNCHANGED seen
          /\ kept' = kept \/ kept'.ver = None
      BY <1>8 DEF StoreTokens, RefreshFails, NoTokens
    <2>2. CASE secret' = secret
      BY <1>0, <2>1, <2>2 DEF TokensFollow
    <2>3. CASE secret' # secret
      BY <1>0, <1>8, <2>1, <2>3, StoreEffect DEF TokensFollow
    <2> QED
      BY <2>2, <2>3
  <1>9. CASE BecomeDue
    <2>1. /\ secret'.ann = secret.ann /\ secret'.ver = secret.ver /\ seen'.ver = seen.ver
          /\ secret'.tok = secret.tok /\ secret'.ctl = secret.ctl /\ secret.refresh # "none"
          /\ UNCHANGED <<hold, kept>>
      BY <1>0, <1>9 DEF BecomeDue, TypeOK, Secret, Metadata
    <2> QED
      BY <1>0, <2>1 DEF TokensFollow
  <1>10. CASE CacheSync
    BY <1>0, <1>10 DEF CacheSync, MetadataOf, TokensFollow
  <1>11. CASE Restart
    BY <1>0, <1>11 DEF Restart, MetadataOf, NoTokens, TokensFollow
  <1> QED
    BY <1>2, <1>3, <1>4, <1>5, <1>6, <1>7, <1>8, <1>9, <1>10, <1>11 DEF Next

\* Every step keeps the invariant.
LEMMA StepInv == CredInv /\ [Next]_vars => CredInv'
  BY StepType, StepRecoveries, StepRequest, StepLineage, StepTokens DEF CredInv

\* The invariant holds throughout.
LEMMA InvAlways == Spec => []CredInv
  BY InitInv, StepInv, PTL DEF Spec

--------------------------------------------------------------------------------
(* What it gives                                                             *)

\* The state has its types, for every number of recoveries, epochs and events: above all
\* garam never makes more lineages than recoveries were opened (Recover), however often
\* it is asked.
THEOREM CredentialTypes == Spec => []TypeOK
  BY InvAlways, PTL DEF CredInv

\* A finalized recovery whose request is gone has been recorded, and the tokens placed
\* and not asked for again are of its lineage or a later one, both of them (Recovered,
\* Refresher.refresh, Store).
THEOREM CollectedLineageServedHolds == Spec => []CollectedLineageServed
  <1>1. CredInv => CollectedLineageServed
    <2> SUFFICES ASSUME CredInv, NEW r \in Recs, Finalized(r), request # r, secret.ann # 0
                 PROVE  /\ secret.ann >= recs[r].lineage
                        /\ secret.refresh # "none" =>
                             secret.tok >= recs[r].lineage /\ secret.ctl >= recs[r].lineage
      BY DEF CollectedLineageServed
    <2>1. recs[r].lineage = r /\ secret.ann >= r /\ r \in Nat
      BY RecsNat DEF CredInv, RecoveriesInOrder, LineageRecorded
    <2>2. secret.refresh # "none" => secret.tok >= secret.ann /\ secret.ctl >= secret.ann
      BY DEF CredInv, TokensFollow
    <2> QED
      BY <2>1, <2>2, StateNat DEF CredInv
  <1> QED
    BY <1>1, InvAlways, PTL

\* The lineage on the credential and on the Pod template never goes back (Recovered,
\* applyLineage).
THEOREM LineageNeverBackHolds == Spec => LineageNeverBack
  <1>1. CredInv /\ [Next]_vars => [secret'.ann >= secret.ann /\ tmpl' >= tmpl]_vars
    <2> SUFFICES ASSUME CredInv, Next PROVE secret'.ann >= secret.ann /\ tmpl' >= tmpl
      OBVIOUS
    <2> USE DEF controlVars, recovererVars, refresherVars
    <2>0. /\ secret.ann \in Nat /\ tmpl \in Nat /\ secret \in Secret /\ tmpl <= seen.ann
          /\ seen.ann \in Nat
      BY StateNat DEF CredInv, TypeOK, LineageRecorded
    <2>1. ASSUME NEW r \in Recs,
                 OpenRecovery(r) \/ FinalizeAsked(r) \/ GaramRecover(r) \/ FinalizeRecovery(r)
          PROVE UNCHANGED <<secret, tmpl>>
      BY <2>1 DEF OpenRecovery, FinalizeAsked, GaramRecover, FinalizeRecovery
    <2>2. CASE MoveEpoch \/ Offer \/ SaveRecovery \/ PrepareRecovery \/ ReadPlaced
      BY <2>0, <2>2 DEF MoveEpoch, Offer, SaveRecovery, PrepareRecovery, ReadPlaced
    <2>3. CASE DeleteRequest \/ RetryTransient \/ ReadHolder \/ Mint \/ CacheSync \/ Restart
      BY <2>0, <2>3 DEF DeleteRequest, RetryTransient, ReadHolder, Mint, CacheSync, Restart
    <2>4. CASE PatchLineage
      BY <2>0, <2>4, PatchRaises DEF PatchLineage
    <2>5. CASE StoreTokens \/ RefreshFails
      BY <2>0, <2>5, StoreEffect DEF StoreTokens, RefreshFails
    <2>6. CASE BecomeDue
      BY <2>0, <2>6 DEF BecomeDue, Secret
    <2>7. CASE ApplyLineage
      BY <2>0, <2>7 DEF ApplyLineage, CredentialLineage
    <2> QED
      BY <2>0, <2>1, <2>2, <2>3, <2>4, <2>5, <2>6, <2>7 DEF Next
  <1> QED
    BY <1>1, InvAlways, PTL DEF Spec, LineageNeverBack
================================================================================
