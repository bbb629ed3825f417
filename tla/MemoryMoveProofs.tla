---------------------------- MODULE MemoryMoveProofs ----------------------------
(***************************************************************************)
(* Proofs about a memory move, for any number of moves, Pods and changes   *)
(* of the spec.                                                            *)
(***************************************************************************)
EXTENDS MemoryMove, FiniteSetTheorems, WellFoundedInduction, TLAPS

--------------------------------------------------------------------------------
(* Walks.  stateInUse follows the claims' links from the own claim, one claim *)
(* a step, for as many steps as there are moves.                              *)

Hops == [Claims -> Claims]
HopOf(cl) ==
  [c \in Claims |-> IF cl[c].there /\ cl[c].movedTo # 0 THEN cl[c].movedTo ELSE c]

Walks(h) ==
  {f \in [0..MaxMoves -> Claims] : f[0] = 0 /\ \A n \in 1..MaxMoves : f[n] = h[f[n - 1]]}
EndOf(h) == (CHOOSE f \in Walks(h) : TRUE)[MaxMoves]

\* The claims a walk can come to: those in every set closed under the links.
Closed(h, S) == S \subseteq Claims /\ 0 \in S /\ \A c \in S : h[c] \in S
Reach(h) == {c \in Claims : \A S \in SUBSET Claims : Closed(h, S) => c \in S}

\* Every link leads to a claim of its own, and none to the own claim.
Simple(h) ==
  /\ \A c, d \in Claims : h[c] = h[d] /\ h[c] # c /\ h[d] # d => c = d
  /\ \A c \in Claims : h[c] # c => h[c] # 0

\* A set of numbers has a least one.
LEMMA Least ==
  ASSUME NEW T, T \subseteq Nat, T # {}
  PROVE  \E x \in T : \A y \in T : x <= y
  <1> DEFINE Less == {ss \in Nat \X Nat : ss[1] < ss[2]}
  <1>1. IsWellFoundedOn(Less, Nat)
    BY NatLessThanWellFounded DEF OpToRel
  <1> HIDE DEF Less
  <1>2. PICK x \in T : \A y \in T : ~(<<y, x>> \in Less)
    BY <1>1, WFMin
  <1>3. \A y \in T : ~(y < x)
    BY <1>2 DEF Less
  <1> QED
    BY <1>3

\* A set of numbers with 0, and with n + 1 wherever it has n, has all of them.
LEMMA SetInduction ==
  ASSUME NEW S, 0 \in S, \A n \in Nat : n \in S => n + 1 \in S
  PROVE  \A n \in Nat : n \in S
  <1> SUFFICES ASSUME Nat \ S # {} PROVE FALSE
    OBVIOUS
  <1>1. PICK x \in Nat \ S : \A y \in Nat \ S : x <= y
    BY Least
  <1>2. x # 0 /\ x - 1 \in Nat \ S
    OBVIOUS
  <1> QED
    BY <1>1, <1>2

\* Claims and steps are numbered alike.
LEMMA ClaimNumbers ==
  /\ MaxMoves \in Nat /\ MaxMoves # 0 /\ Claims = 0..MaxMoves /\ 0 \in Claims
  /\ MoveIds \subseteq Claims /\ \A c \in Claims : c \in Nat /\ (c # 0 => c \in MoveIds)
  BY MoveAssumption DEF Claims, MoveIds

\* There is a walk.
LEMMA WalkExists ==
  ASSUME NEW h \in Hops PROVE Walks(h) # {}
  <1> USE ClaimNumbers
  <1> DEFINE Steps(k, f) == f[0] = 0 /\ \A n \in 1..k : f[n] = h[f[n - 1]]
             S == {k \in Nat : k <= MaxMoves => \E f \in [0..k -> Claims] : Steps(k, f)}
  <1>1. 0 \in S
    <2>1. [n \in 0..0 |-> 0] \in [0..0 -> Claims]
      OBVIOUS
    <2>2. Steps(0, [n \in 0..0 |-> 0])
      OBVIOUS
    <2> QED
      BY <2>1, <2>2
  <1>2. ASSUME NEW k \in Nat, k \in S PROVE k + 1 \in S
    <2> SUFFICES ASSUME k + 1 <= MaxMoves PROVE \E f \in [0..(k + 1) -> Claims] : Steps(k + 1, f)
      OBVIOUS
    <2>1. PICK f \in [0..k -> Claims] : Steps(k, f)
      BY <1>2
    <2> DEFINE g == [n \in 0..(k + 1) |-> IF n <= k THEN f[n] ELSE h[f[k]]]
    <2>2. f[k] \in Claims /\ h[f[k]] \in Claims
      BY <2>1 DEF Hops
    <2>3. g \in [0..(k + 1) -> Claims]
      BY <2>1, <2>2
    <2>4. Steps(k + 1, g)
      <3>1. g[0] = 0
        BY <2>1
      <3>2. ASSUME NEW n \in 1..(k + 1) PROVE g[n] = h[g[n - 1]]
        <4>1. n - 1 \in 0..k /\ g[n - 1] = f[n - 1]
          OBVIOUS
        <4>2. CASE n <= k
          BY <2>1, <4>1, <4>2
        <4>3. CASE n = k + 1
          BY <4>1, <4>3
        <4> QED
          BY <4>2, <4>3
      <3> QED
        BY <3>1, <3>2
    <2> QED
      BY <2>3, <2>4
  <1> HIDE DEF S
  <1>3. MaxMoves \in S
    BY <1>1, <1>2, SetInduction
  <1> QED
    BY <1>3, SMTT(20) DEF S, Walks

\* What holds of the own claim, and of the next claim wherever it holds of one, holds
\* of every claim of a walk.
LEMMA WalkStays ==
  ASSUME NEW h \in Hops, NEW f \in Walks(h), NEW S, Closed(h, S)
  PROVE  \A n \in 0..MaxMoves : f[n] \in S
  <1> USE ClaimNumbers
  <1> DEFINE T == {n \in Nat : n <= MaxMoves => f[n] \in S}
  <1>1. 0 \in T
    BY DEF Walks, Closed
  <1>2. ASSUME NEW n \in Nat, n \in T PROVE n + 1 \in T
    <2> SUFFICES ASSUME n + 1 <= MaxMoves PROVE f[n + 1] \in S
      OBVIOUS
    <2>1. f[n + 1] = h[f[(n + 1) - 1]] /\ (n + 1) - 1 = n
      BY DEF Walks
    <2>2. f[n] \in S
      BY <1>2
    <2> QED
      BY <2>1, <2>2 DEF Closed
  <1> HIDE DEF T
  <1>3. \A n \in Nat : n \in T
    BY <1>1, <1>2, SetInduction
  <1> QED
    BY <1>3 DEF T

\* The end of the walk.
LEMMA EndIs ==
  ASSUME NEW h \in Hops
  PROVE  \E f \in Walks(h) : EndOf(h) = f[MaxMoves] /\ EndOf(h) \in Claims
  <1>1. (CHOOSE f \in Walks(h) : TRUE) \in Walks(h)
    BY WalkExists
  <1>2. \A f \in Walks(h) : f[MaxMoves] \in Claims
    BY ClaimNumbers DEF Walks
  <1> QED
    BY <1>1, <1>2 DEF EndOf

\* The links are hops.
LEMMA HopOfType ==
  ASSUME NEW cl \in [Claims -> Claim] PROVE HopOf(cl) \in Hops
  BY DEF HopOf, Hops, Claim

\* stateInUse is the end of the walk.
LEMMA InUseIs == claim \in [Claims -> Claim] => InUse = EndOf(HopOf(claim))
  <1> SUFFICES ASSUME claim \in [Claims -> Claim] PROVE InUse = EndOf(HopOf(claim))
    OBVIOUS
  <1> USE ClaimNumbers
  <1> DEFINE h == HopOf(claim)
             Eq(g) == g = [n \in 0..MaxMoves |-> IF n = 0 THEN 0 ELSE Hop(g[n - 1])]
  <1>1. h \in Hops /\ \A c \in Claims : h[c] = Hop(c)
    BY HopOfType DEF HopOf, Hop
  <1> HIDE DEF h
  <1>2. PICK f \in Walks(h) : EndOf(h) = f[MaxMoves]
    BY <1>1, EndIs
  <1>3. f \in [0..MaxMoves -> Claims] /\ f[0] = 0 /\ \A n \in 1..MaxMoves : f[n] = h[f[n - 1]]
    BY <1>2 DEF Walks
  <1>4. \A n \in 1..MaxMoves : f[n] = Hop(f[n - 1])
    <2> TAKE n \in 1..MaxMoves
    <2>1. f[n - 1] \in Claims
      BY <1>3
    <2> QED
      BY <1>1, <1>3, <2>1
  <1>5. Eq(f)
    BY <1>3, <1>4
  <1>6. Chain = CHOOSE g : Eq(g)
    BY DEF Chain
  <1>7. Eq(Chain)
    BY <1>5, <1>6
  <1>8. Chain[0] = 0 /\ \A n \in 1..MaxMoves : Chain[n] = Hop(Chain[n - 1])
    <2>1. \A n \in 0..MaxMoves : Chain[n] = IF n = 0 THEN 0 ELSE Hop(Chain[n - 1])
      BY <1>7
    <2> QED
      BY <2>1
  <1> DEFINE T == {n \in Nat : n <= MaxMoves => f[n] = Chain[n]}
  <1>9. 0 \in T
    BY <1>3, <1>8
  <1>10. ASSUME NEW n \in Nat, n \in T PROVE n + 1 \in T
    <2> SUFFICES ASSUME n + 1 <= MaxMoves PROVE f[n + 1] = Chain[n + 1]
      OBVIOUS
    <2>1. (n + 1) - 1 = n /\ n + 1 \in 1..MaxMoves /\ f[n] = Chain[n]
      BY <1>10
    <2>2. f[n + 1] = Hop(f[n]) /\ Chain[n + 1] = Hop(Chain[n])
      BY <1>4, <1>8, <2>1
    <2> QED
      BY <2>1, <2>2
  <1> HIDE DEF T
  <1>11. \A n \in Nat : n \in T
    BY <1>9, <1>10, SetInduction
  <1>12. f[MaxMoves] = Chain[MaxMoves]
    BY <1>11 DEF T
  <1> QED
    BY <1>2, <1>12 DEF InUse, h

\* And after a step.
LEMMA InUseIsAfter ==
  ASSUME claim' \in [Claims -> Claim] PROVE InUse' = EndOf(HopOf(claim'))
  <1>1. (claim \in [Claims -> Claim] => InUse = EndOf(HopOf(claim)))'
    BY InUseIs, PTL
  <1> QED
    BY <1>1

\* A walk that comes to a claim without a link stays there.
LEMMA WalkSettles ==
  ASSUME NEW h \in Hops, NEW f \in Walks(h), NEW k \in 0..MaxMoves, h[f[k]] = f[k]
  PROVE  f[MaxMoves] = f[k]
  <1> USE ClaimNumbers
  <1> DEFINE T == {n \in Nat : k + n <= MaxMoves => f[k + n] = f[k]}
  <1>1. 0 \in T
    OBVIOUS
  <1>2. ASSUME NEW n \in Nat, n \in T PROVE n + 1 \in T
    <2> SUFFICES ASSUME k + (n + 1) <= MaxMoves PROVE f[k + (n + 1)] = f[k]
      OBVIOUS
    <2>1. f[k + n] = f[k]
      BY <1>2
    <2>2. k + (n + 1) \in 1..MaxMoves /\ (k + (n + 1)) - 1 = k + n
      OBVIOUS
    <2>3. f[k + (n + 1)] = h[f[k + n]]
      BY <2>2 DEF Walks
    <2> QED
      BY <2>1, <2>3
  <1> HIDE DEF T
  <1>3. \A n \in Nat : n \in T
    BY <1>1, <1>2, SetInduction
  <1>4. MaxMoves - k \in Nat /\ k + (MaxMoves - k) = MaxMoves
    OBVIOUS
  <1> QED
    BY <1>3, <1>4 DEF T

\* Where every link leads to a claim of its own the walk is long enough: a claim met
\* twice would be the own claim, which no link leads to, and there are more steps than
\* claims.
LEMMA EndHasNoLink ==
  ASSUME NEW h \in Hops, Simple(h)
  PROVE  h[EndOf(h)] = EndOf(h)
  <1> USE ClaimNumbers
  <1>1. PICK f \in Walks(h) : EndOf(h) = f[MaxMoves]
    BY EndIs
  <1> SUFFICES ASSUME h[f[MaxMoves]] # f[MaxMoves] PROVE FALSE
    BY <1>1
  <1>2. f \in [0..MaxMoves -> Claims] /\ f[0] = 0 /\ \A n \in 1..MaxMoves : f[n] = h[f[n - 1]]
    BY DEF Walks
  <1>3. \A n \in 0..MaxMoves : h[f[n]] # f[n]
    BY WalkSettles
  <1> DEFINE last == MaxMoves + 1
             g == [n \in 0..last |-> IF n <= MaxMoves THEN f[n] ELSE h[f[MaxMoves]]]
  <1>4. g \in [0..last -> Claims]
    <2>1. f[MaxMoves] \in Claims
      BY <1>2
    <2>2. h[f[MaxMoves]] \in Claims
      BY <2>1 DEF Hops
    <2> QED
      BY <1>2, <2>2
  <1>5. g[0] = 0 /\ \A n \in 1..last : g[n] = h[g[n - 1]] /\ h[g[n - 1]] # g[n - 1]
    <2>1. g[0] = 0
      BY <1>2
    <2>2. ASSUME NEW n \in 1..last PROVE g[n] = h[g[n - 1]] /\ h[g[n - 1]] # g[n - 1]
      <3>1. n - 1 \in 0..MaxMoves /\ g[n - 1] = f[n - 1]
        OBVIOUS
      <3>2. g[n] = h[f[n - 1]]
        <4>1. CASE n = last
          BY <4>1
        <4>2. CASE n # last
          <5>1. n \in 1..MaxMoves /\ n \in 0..last
            BY <4>2
          <5>2. g[n] = f[n]
            BY <5>1
          <5> HIDE DEF g
          <5> QED
            BY <1>2, <5>1, <5>2
        <4> QED
          BY <4>1, <4>2
      <3> QED
        BY <1>3, <3>1, <3>2
    <2> QED
      BY <2>1, <2>2
  <1>6. \E x, y \in 0..last : x # y /\ g[x] = g[y]
    <2>1. IsFiniteSet(0..last) /\ Cardinality(0..last) = MaxMoves + 2
      BY FS_Interval
    <2>2. IsFiniteSet(Claims) /\ Cardinality(Claims) = MaxMoves + 1
      BY FS_Interval
    <2>3. Cardinality(Claims) < Cardinality(0..last)
      BY <2>1, <2>2
    <2> HIDE DEF g, last
    <2> QED
      BY <1>4, <2>1, <2>2, <2>3, FS_PigeonHole
  <1> HIDE DEF g
  <1> DEFINE T == {x \in 0..last : \E y \in 0..last : x < y /\ g[x] = g[y]}
  <1>7. T # {}
    <2>1. PICK x \in 0..last, y \in 0..last : x # y /\ g[x] = g[y]
      BY <1>6
    <2>2. x < y \/ y < x
      BY <2>1
    <2> QED
      BY <2>1, <2>2
  <1>8. PICK x \in T : \A z \in T : x <= z
    <2>1. T \subseteq Nat
      OBVIOUS
    <2> HIDE DEF T
    <2> QED
      BY <1>7, <2>1, Least
  <1>9. PICK y \in 0..last : x < y /\ g[x] = g[y]
    BY <1>8
  <1>10. CASE x = 0
    <2>1. y \in 1..last /\ g[y] = 0
      BY <1>5, <1>9, <1>10
    <2>2. y - 1 \in 0..last
      BY <2>1
    <2>3. g[y - 1] \in Claims /\ h[g[y - 1]] = 0 /\ h[g[y - 1]] # g[y - 1]
      BY <1>4, <1>5, <2>1, <2>2
    <2> QED
      BY <2>3 DEF Simple
  <1>11. CASE x # 0
    <2>1. x \in 1..last /\ y \in 1..last /\ x - 1 \in 0..last /\ y - 1 \in 0..last /\ x - 1 < y - 1
      BY <1>9, <1>11
    <2>2. h[g[x - 1]] = h[g[y - 1]] /\ h[g[x - 1]] # g[x - 1] /\ h[g[y - 1]] # g[y - 1]
          /\ g[x - 1] \in Claims /\ g[y - 1] \in Claims
      BY <1>4, <1>5, <1>9, <2>1
    <2>3. g[x - 1] = g[y - 1]
      BY <2>2 DEF Simple
    <2>4. x - 1 \in T
      BY <2>1, <2>3
    <2> QED
      BY <1>8, <2>1, <2>4
  <1> QED
    BY <1>10, <1>11

\* The end is a claim the walk can come to, and the only one without a link.
LEMMA EndReached ==
  ASSUME NEW h \in Hops, Simple(h)
  PROVE  /\ EndOf(h) \in Reach(h) /\ 0 \in Reach(h)
         /\ \A c \in Reach(h) : h[c] \in Reach(h)
         /\ \A c \in Reach(h) : h[c] = c => c = EndOf(h)
  <1> USE ClaimNumbers
  <1>1. PICK f \in Walks(h) : EndOf(h) = f[MaxMoves] /\ EndOf(h) \in Claims
    BY EndIs
  <1>2. EndOf(h) \in Reach(h)
    BY <1>1, WalkStays DEF Reach
  <1>3. 0 \in Reach(h) /\ \A c \in Reach(h) : h[c] \in Reach(h)
    BY DEF Reach, Closed, Hops
  <1>4. ASSUME NEW c \in Reach(h), h[c] = c PROVE c = EndOf(h)
    <2> DEFINE S == {f[n] : n \in 0..MaxMoves}
    <2>1. h[f[MaxMoves]] = f[MaxMoves]
      BY <1>1, EndHasNoLink
    <2>2. Closed(h, S)
      <3>1. S \subseteq Claims /\ 0 \in S
        BY DEF Walks
      <3>2. ASSUME NEW n \in 0..MaxMoves PROVE h[f[n]] \in S
        <4>1. CASE n = MaxMoves
          BY <2>1, <4>1
        <4>2. CASE n # MaxMoves
          <5>1. n + 1 \in 1..MaxMoves /\ (n + 1) - 1 = n
            BY <4>2
          <5>2. f[n + 1] = h[f[n]]
            BY <5>1 DEF Walks
          <5> QED
            BY <5>1, <5>2
        <4> QED
          BY <4>1, <4>2
      <3> QED
        BY <3>1, <3>2 DEF Closed
    <2>3. c \in S
      BY <2>2 DEF Reach, Closed
    <2>4. PICK n \in 0..MaxMoves : c = f[n]
      BY <2>3
    <2> QED
      BY <1>1, <1>4, <2>4, WalkSettles
  <1> QED
    BY <1>2, <1>3, <1>4

\* A claim the walk comes to is the own claim, or a link of another one leads to it.
LEMMA ReachLinked ==
  ASSUME NEW h \in Hops, NEW c \in Reach(h), c # 0
  PROVE  \E d \in Claims : h[d] = c /\ d # c
  <1> SUFFICES ASSUME \A d \in Claims : h[d] = c => d = c PROVE FALSE
    OBVIOUS
  <1>1. Closed(h, Claims \ {c})
    BY ClaimNumbers DEF Closed, Hops
  <1> QED
    BY <1>1 DEF Reach, Closed

\* Where the walk ends at the own claim it comes to no other.
LEMMA ReachOwn ==
  ASSUME NEW h \in Hops, Simple(h), EndOf(h) = 0, NEW c \in Reach(h)
  PROVE  c = 0
  <1>1. Closed(h, {0})
    BY EndHasNoLink, ClaimNumbers DEF Closed
  <1> QED
    BY <1>1 DEF Reach, Closed

\* switchMove: a link from the end to a claim nothing leads to makes that claim the end.
LEMMA EndAfterLink ==
  ASSUME NEW h \in Hops, Simple(h), NEW m \in Claims, m # 0, h[m] = m,
         \A c \in Claims : h[c] = m => c = m
  PROVE  LET hh == [h EXCEPT ![EndOf(h)] = m]
         IN /\ Simple(hh) /\ EndOf(hh) = m /\ hh[m] = m
            /\ Reach(h) \subseteq Reach(hh) /\ EndOf(h) # m
  <1> USE ClaimNumbers
  <1> DEFINE e == EndOf(h)
             hh == [h EXCEPT ![e] = m]
  <1>1. e \in Claims /\ h[e] = e /\ e \in Reach(h)
    BY EndIs, EndHasNoLink, EndReached
  <1>2. e # m
    BY <1>1, ReachLinked
  <1> HIDE DEF e
  <1>3. hh \in Hops /\ hh[e] = m /\ hh[m] = m /\ \A c \in Claims : c # e => hh[c] = h[c]
    BY <1>1, <1>2 DEF Hops
  <1> HIDE DEF hh
  <1>4. Simple(hh)
    BY <1>1, <1>2, <1>3 DEF Simple
  <1>5. Reach(h) \subseteq Reach(hh)
    <2>1. \A S \in SUBSET Claims : Closed(hh, S) => Closed(h, S)
      BY <1>1, <1>3 DEF Closed
    <2> QED
      BY <2>1 DEF Reach
  <1>6. m \in Reach(hh)
    BY <1>1, <1>3, <1>4, <1>5, EndReached
  <1>7. EndOf(hh) = m
    BY <1>3, <1>4, <1>6, EndReached
  <1> QED
    BY <1>2, <1>3, <1>4, <1>5, <1>7 DEF e, hh

\* restoreSource: the link to the end taken off makes the claim it was on the end.
LEMMA EndAfterUnlink ==
  ASSUME NEW h \in Hops, Simple(h), EndOf(h) # 0,
         NEW c \in Claims, c # EndOf(h), h[c] = EndOf(h)
  PROVE  LET hh == [h EXCEPT ![c] = c]
         IN /\ Simple(hh) /\ EndOf(hh) = c
            /\ Reach(h) \ {EndOf(h)} \subseteq Reach(hh)
  <1> USE ClaimNumbers
  <1> DEFINE e == EndOf(h)
             hh == [h EXCEPT ![c] = c]
  <1>1. e \in Claims /\ h[e] = e /\ e \in Reach(h) /\ e # 0 /\ c # e /\ h[c] = e
    BY EndIs, EndHasNoLink, EndReached
  <1> HIDE DEF e
  <1>2. hh \in Hops /\ hh[c] = c /\ \A d \in Claims : d # c => hh[d] = h[d]
    BY DEF Hops
  <1> HIDE DEF hh
  <1>3. Simple(hh)
    BY <1>2 DEF Simple
  <1>4. Reach(h) \ {e} \subseteq Reach(hh)
    <2>1. ASSUME NEW S \in SUBSET Claims, Closed(hh, S) PROVE Closed(h, S \cup {e})
      BY <1>1, <1>2, <2>1 DEF Closed
    <2>2. \A S \in SUBSET Claims : Closed(hh, S) => S \cup {e} \in SUBSET Claims /\ Closed(h, S \cup {e})
      BY <1>1, <2>1
    <2> QED
      BY <2>2 DEF Reach
  <1>5. c \in Reach(h)
    <2> SUFFICES ASSUME c \notin Reach(h) PROVE FALSE
      OBVIOUS
    <2>2. \A x \in Reach(h) : x \in Claims /\ h[x] \in Reach(h)
      BY EndReached DEF Reach
    <2>3. 0 \in Reach(h) \ {e}
      BY <1>1, EndReached
    <2>4. \A x \in Reach(h) \ {e} : h[x] # e
      BY <1>1, <2>2 DEF Simple
    <2>5. Closed(h, Reach(h) \ {e})
      BY <2>2, <2>3, <2>4 DEF Closed
    <2>6. Reach(h) \ {e} \in SUBSET Claims
      BY DEF Reach
    <2>7. e \in Reach(h) \ {e}
      BY <1>1, <2>5, <2>6 DEF Reach
    <2> QED
      BY <2>7
  <1>6. EndOf(hh) = c
    BY <1>1, <1>2, <1>3, <1>4, <1>5, EndReached
  <1> QED
    BY <1>3, <1>4, <1>6 DEF e, hh

--------------------------------------------------------------------------------
(* Types                                                                     *)

\* stateInUse is a claim.
LEMMA InUseType ==
  ASSUME claim \in [Claims -> Claim] PROVE InUse \in Claims
  BY InUseIs, HopOfType, EndIs

\* The constant records have their types.
LEMMA RecordTypes ==
  /\ NoWriter \in Writer /\ NoClaim \in Claim /\ NoSts \in StatefulSet /\ NoPod \in Pod
  /\ NoJob \in Job /\ Idle \in Operation
  <1> USE MoveAssumption, ClaimNumbers
      DEF Uids, Memory, Torn, Exits, Phases, JobStates
  <1>1. NoWriter \in Writer
    BY DEF NoWriter, Writer
  <1>2. NoClaim \in Claim
    BY <1>1 DEF NoClaim, Claim
  <1>3. NoSts \in StatefulSet
    BY DEF NoSts, StatefulSet
  <1>4. NoPod \in Pod
    BY DEF NoPod, Pod
  <1>5. NoJob \in Job
    BY DEF NoJob, Job
  <1>6. Idle \in Operation
    BY DEF Idle, Operation
  <1> QED
    BY <1>1, <1>2, <1>3, <1>4, <1>5, <1>6

\* The initial state has its types.
LEMMA InitType == Init => TypeOK
  <1> SUFFICES ASSUME Init PROVE TypeOK
    OBVIOUS
  <1> USE RecordTypes, MoveAssumption, ClaimNumbers
  <1>1. ask \in Claims /\ held \in BOOLEAN /\ sts \in StatefulSet /\ pod \in Pod /\ op \in Operation
    BY DEF Init
  <1>2. claim \in [Claims -> Claim]
    BY DEF Init
  <1>3. job \in [MoveIds -> [JobSteps -> Job]]
    BY DEF Init
  <1>4. memory \in [Claims -> Memory]
    BY DEF Init, Memory, Torn
  <1>5. accepts \in BOOLEAN
    BY DEF Init
  <1>6. created \in Uids /\ latest \in Uids
    BY DEF Init, Uids
  <1>7. budget \in [asks: 0..MaxAsks, crashes: 0..MaxCrashes]
    BY DEF Init
  <1> QED
    BY <1>1, <1>2, <1>3, <1>4, <1>5, <1>6, <1>7 DEF TypeOK

--------------------------------------------------------------------------------
(* What the writes leave and change, field by field                          *)

SameThere == \A c \in Claims : claim'[c].there = claim[c].there
SameLinks == \A c \in Claims : claim'[c].movedTo = claim[c].movedTo
SamePhases == \A c \in Claims : claim'[c].phase = claim[c].phase
SameSources ==
  \A c \in Claims : claim'[c].source = claim[c].source /\ claim'[c].sourceWriter = claim[c].sourceWriter
SameDigests == \A c \in Claims : claim'[c].digest = claim[c].digest
SameMarks == \A c \in Claims : claim'[c].started = claim[c].started
SameWriters == \A c \in Claims : claim'[c].writer = claim[c].writer

SameClaims ==
  /\ SameThere /\ SameLinks /\ SamePhases /\ SameSources /\ SameDigests /\ SameMarks
  /\ SameWriters
PhaseSet(m, p) ==
  /\ SameThere /\ SameLinks /\ SameSources /\ SameDigests /\ SameMarks /\ SameWriters
  /\ \A c \in Claims : claim'[c].phase = IF c = m THEN p ELSE claim[c].phase
LinkSet(c, m) ==
  /\ SameThere /\ SamePhases /\ SameSources /\ SameDigests /\ SameMarks /\ SameWriters
  /\ \A d \in Claims : claim'[d].movedTo = IF d = c THEN m ELSE claim[d].movedTo
WriterSet(c, w) ==
  /\ SameThere /\ SameLinks /\ SamePhases /\ SameSources /\ SameDigests /\ SameMarks
  /\ \A d \in Claims : claim'[d].writer = IF d = c THEN w ELSE claim[d].writer
MarkSet(m, s) ==
  /\ SameThere /\ SameLinks /\ SamePhases /\ SameSources /\ SameDigests /\ SameWriters
  /\ \A c \in Claims :
       claim'[c].started = IF c = m THEN claim[c].started \cup {s} ELSE claim[c].started
CopiedSet(m, d) ==
  /\ SameThere /\ SameLinks /\ SameSources /\ SameMarks /\ SameWriters
  /\ \A c \in Claims : claim'[c].phase = IF c = m THEN "copied" ELSE claim[c].phase
  /\ \A c \in Claims : claim'[c].digest = IF c = m THEN d ELSE claim[c].digest
TargetMade(m, c) ==
  /\ \A d \in Claims : d # m => claim'[d] = claim[d]
  /\ claim'[m].there /\ claim'[m].movedTo = 0 /\ claim'[m].phase = "created"
  /\ claim'[m].source = c /\ claim'[m].sourceWriter = claim[c].writer
  /\ claim'[m].digest = 0 /\ claim'[m].started = {} /\ claim'[m].writer = NoWriter
OwnMade ==
  /\ SameLinks /\ SamePhases /\ SameSources /\ SameDigests /\ SameMarks /\ SameWriters
  /\ \A c \in Claims : claim'[c].there = (c = 0 \/ claim[c].there)
JobSet(m, s, j) ==
  \A n \in MoveIds, t \in JobSteps : job'[n][t] = IF n = m /\ t = s THEN j ELSE job[n][t]
OpAt(pc) ==
  /\ op'.pc = pc /\ op'.ask = op.ask /\ op'.held = op.held /\ op'.gone = op.gone
  /\ op'.claim = op.claim /\ op'.strict = op.strict /\ op'.hold = op.hold
  /\ op'.byName = op.byName
OpPlan(pc, c, hold) ==
  /\ op'.pc = pc /\ op'.ask = op.ask /\ op'.held = op.held /\ op'.gone = op.gone
  /\ op'.claim = c /\ op'.strict = (c # 0) /\ op'.hold = hold

\* Claims that are left as they are.
LEMMA ClaimsKept == UNCHANGED claim => SameClaims
  BY DEF SameClaims, SameThere, SameLinks, SamePhases, SameSources, SameDigests, SameMarks,
         SameWriters

\* The phase (SetPhase).
LEMMA PhaseWrite ==
  ASSUME claim \in [Claims -> Claim], NEW m \in Claims, NEW p \in Phases,
         claim' = [claim EXCEPT ![m].phase = p]
  PROVE  claim' \in [Claims -> Claim] /\ PhaseSet(m, p)
  <1>1. claim[m] \in Claim
    OBVIOUS
  <1>2. [claim[m] EXCEPT !.phase = p] \in Claim
    BY <1>1 DEF Claim
  <1>3. claim' \in [Claims -> Claim] /\ claim'[m] = [claim[m] EXCEPT !.phase = p]
        /\ \A c \in Claims : c # m => claim'[c] = claim[c]
    BY <1>2
  <1> QED
    BY <1>1, <1>3
    DEF PhaseSet, SameThere, SameLinks, SameSources, SameDigests, SameMarks, SameWriters, Claim

\* The link (switchMove, restoreSource).
LEMMA LinkWrite ==
  ASSUME claim \in [Claims -> Claim], NEW c \in Claims, NEW m \in Claims,
         claim' = [claim EXCEPT ![c].movedTo = m]
  PROVE  claim' \in [Claims -> Claim] /\ LinkSet(c, m)
  <1>1. claim[c] \in Claim
    OBVIOUS
  <1>2. [claim[c] EXCEPT !.movedTo = m] \in Claim
    BY <1>1 DEF Claim
  <1>3. claim' \in [Claims -> Claim] /\ claim'[c] = [claim[c] EXCEPT !.movedTo = m]
        /\ \A d \in Claims : d # c => claim'[d] = claim[d]
    BY <1>2
  <1> QED
    BY <1>1, <1>3
    DEF LinkSet, SameThere, SamePhases, SameSources, SameDigests, SameMarks, SameWriters, Claim

\* The writer (recordOn, by the fence).
LEMMA WriterWrite ==
  ASSUME claim \in [Claims -> Claim], NEW c \in Claims, NEW w \in Writer,
         claim' = [claim EXCEPT ![c].writer = w]
  PROVE  claim' \in [Claims -> Claim] /\ WriterSet(c, w)
  <1>1. claim[c] \in Claim
    OBVIOUS
  <1>2. [claim[c] EXCEPT !.writer = w] \in Claim
    BY <1>1 DEF Claim
  <1>3. claim' \in [Claims -> Claim] /\ claim'[c] = [claim[c] EXCEPT !.writer = w]
        /\ \A d \in Claims : d # c => claim'[d] = claim[d]
    BY <1>2
  <1> QED
    BY <1>1, <1>3
    DEF WriterSet, SameThere, SameLinks, SamePhases, SameSources, SameDigests, SameMarks, Claim

\* The mark of a Job (ensureMoveJob).
LEMMA MarkWrite ==
  ASSUME claim \in [Claims -> Claim], NEW m \in Claims, NEW s \in JobSteps,
         claim' = [claim EXCEPT ![m].started = @ \cup {s}]
  PROVE  claim' \in [Claims -> Claim] /\ MarkSet(m, s)
  <1>1. claim[m] \in Claim
    OBVIOUS
  <1>2. [claim[m] EXCEPT !.started = claim[m].started \cup {s}] \in Claim
    BY <1>1 DEF Claim
  <1>3. claim' \in [Claims -> Claim]
        /\ claim'[m] = [claim[m] EXCEPT !.started = claim[m].started \cup {s}]
        /\ \A c \in Claims : c # m => claim'[c] = claim[c]
    BY <1>2
  <1>4. ASSUME NEW c \in Claims
        PROVE  /\ claim'[c].there = claim[c].there /\ claim'[c].movedTo = claim[c].movedTo
               /\ claim'[c].phase = claim[c].phase /\ claim'[c].source = claim[c].source
               /\ claim'[c].sourceWriter = claim[c].sourceWriter
               /\ claim'[c].digest = claim[c].digest /\ claim'[c].writer = claim[c].writer
               /\ claim'[c].started = IF c = m THEN claim[c].started \cup {s} ELSE claim[c].started
    <2>1. CASE c = m
      BY <1>1, <1>3, <2>1 DEF Claim
    <2>2. CASE c # m
      BY <1>3, <2>2
    <2> QED
      BY <2>1, <2>2
  <1> QED
    BY <1>3, <1>4
    DEF MarkSet, SameThere, SameLinks, SamePhases, SameSources, SameDigests, SameWriters

\* The digest, with the phase (runCopy).
LEMMA CopiedWrite ==
  ASSUME claim \in [Claims -> Claim], NEW m \in Claims, NEW d \in Memory,
         claim' = [claim EXCEPT ![m].phase = "copied", ![m].digest = d]
  PROVE  claim' \in [Claims -> Claim] /\ CopiedSet(m, d)
  <1>1. claim[m] \in Claim
    OBVIOUS
  <1>2. [claim[m] EXCEPT !.phase = "copied", !.digest = d] \in Claim
    BY <1>1 DEF Claim, Phases
  <1>3. claim' \in [Claims -> Claim]
        /\ claim'[m] = [claim[m] EXCEPT !.phase = "copied", !.digest = d]
        /\ \A c \in Claims : c # m => claim'[c] = claim[c]
    BY <1>2
  <1> QED
    BY <1>1, <1>3
    DEF CopiedSet, SameThere, SameLinks, SameSources, SameMarks, SameWriters, Claim

\* The target, made with its records (beginMove).
LEMMA TargetWrite ==
  ASSUME claim \in [Claims -> Claim], NEW m \in Claims, NEW c \in Claims,
         claim' = [claim EXCEPT ![m] =
                      [NoClaim EXCEPT !.there = TRUE, !.phase = "created", !.source = c,
                                      !.sourceWriter = claim[c].writer]]
  PROVE  claim' \in [Claims -> Claim] /\ TargetMade(m, c)
  <1> DEFINE new == [NoClaim EXCEPT !.there = TRUE, !.phase = "created", !.source = c,
                                    !.sourceWriter = claim[c].writer]
  <1>1. claim[c].writer \in Writer /\ NoClaim \in Claim
    BY RecordTypes DEF Claim
  <1>2. new \in Claim
    BY <1>1 DEF Claim, Phases
  <1>3. new.there /\ new.movedTo = 0 /\ new.phase = "created" /\ new.source = c
        /\ new.sourceWriter = claim[c].writer /\ new.digest = 0 /\ new.started = {}
        /\ new.writer = NoWriter
    BY DEF NoClaim
  <1> HIDE DEF new
  <1>4. claim' = [claim EXCEPT ![m] = new]
    BY DEF new
  <1>5. claim' \in [Claims -> Claim] /\ claim'[m] = new
        /\ \A d \in Claims : d # m => claim'[d] = claim[d]
    BY <1>2, <1>4
  <1> QED
    BY <1>3, <1>5 DEF TargetMade

\* The own claim, made from the StatefulSet's template.
LEMMA OwnWrite ==
  ASSUME claim \in [Claims -> Claim], claim' = [claim EXCEPT ![0].there = TRUE]
  PROVE  claim' \in [Claims -> Claim] /\ OwnMade
  <1>1. 0 \in Claims /\ claim[0] \in Claim
    BY ClaimNumbers
  <1>2. [claim[0] EXCEPT !.there = TRUE] \in Claim
    BY <1>1 DEF Claim
  <1>3. claim' \in [Claims -> Claim] /\ claim'[0] = [claim[0] EXCEPT !.there = TRUE]
        /\ \A d \in Claims : d # 0 => claim'[d] = claim[d]
    BY <1>1, <1>2
  <1>4. \A c \in Claims : claim[c].there \in BOOLEAN
    BY DEF Claim
  <1>5. ASSUME NEW c \in Claims
        PROVE  /\ claim'[c].there = (c = 0 \/ claim[c].there) /\ claim'[c].movedTo = claim[c].movedTo
               /\ claim'[c].phase = claim[c].phase /\ claim'[c].source = claim[c].source
               /\ claim'[c].sourceWriter = claim[c].sourceWriter
               /\ claim'[c].digest = claim[c].digest /\ claim'[c].writer = claim[c].writer
               /\ claim'[c].started = claim[c].started
    <2>1. CASE c = 0
      BY <1>1, <1>3, <2>1 DEF Claim
    <2>2. CASE c # 0
      BY <1>3, <1>4, <2>2
    <2> QED
      BY <2>1, <2>2
  <1> QED
    BY <1>3, <1>5
    DEF OwnMade, SameLinks, SamePhases, SameSources, SameDigests, SameMarks, SameWriters

\* A Job.
LEMMA JobWrite ==
  ASSUME job \in [MoveIds -> [JobSteps -> Job]], NEW m \in MoveIds, NEW s \in JobSteps,
         NEW j \in Job, job' = [job EXCEPT ![m][s] = j]
  PROVE  job' \in [MoveIds -> [JobSteps -> Job]] /\ JobSet(m, s, j)
  <1>1. job[m] \in [JobSteps -> Job]
    OBVIOUS
  <1>2. [job[m] EXCEPT ![s] = j] \in [JobSteps -> Job]
    BY <1>1
  <1>3. job' \in [MoveIds -> [JobSteps -> Job]] /\ job'[m] = [job[m] EXCEPT ![s] = j]
        /\ \A n \in MoveIds : n # m => job'[n] = job[n]
    BY <1>2
  <1> QED
    BY <1>1, <1>3 DEF JobSet

\* A reconcile's next step, and its statePlan.
LEMMA OpWrite ==
  ASSUME op \in Operation, claim \in [Claims -> Claim], NEW hold \in BOOLEAN,
         NEW pc \in {"move", "createJob", "settle", "accept", "restore", "sts"}
  PROVE  /\ PlanInUse(pc, hold) => op' \in Operation /\ OpPlan(pc, InUse, hold)
         /\ \A c \in Claims : PlanFor(pc, c, hold) => op' \in Operation /\ OpPlan(pc, c, hold)
         /\ op' = [op EXCEPT !.pc = pc] => op' \in Operation /\ OpAt(pc)
  <1>1. InUse \in Claims
    BY InUseType
  <1>2. ASSUME NEW c \in Claims, NEW b \in BOOLEAN, NEW s \in BOOLEAN,
               op' = [op EXCEPT !.pc = pc, !.claim = c, !.byName = b, !.strict = s, !.hold = hold]
        PROVE  /\ op' \in Operation /\ op'.pc = pc /\ op'.ask = op.ask /\ op'.held = op.held
               /\ op'.gone = op.gone /\ op'.claim = c /\ op'.strict = s /\ op'.hold = hold
    BY <1>2 DEF Operation
  <1>3. PlanInUse(pc, hold) => op' \in Operation /\ OpPlan(pc, InUse, hold)
    BY <1>1, <1>2 DEF PlanInUse, OpPlan
  <1>4. \A c \in Claims : PlanFor(pc, c, hold) => op' \in Operation /\ OpPlan(pc, c, hold)
    BY <1>2 DEF PlanFor, OpPlan
  <1>5. op' = [op EXCEPT !.pc = pc] => op' \in Operation /\ OpAt(pc)
    BY DEF Operation, OpAt
  <1> QED
    BY <1>3, <1>4, <1>5

--------------------------------------------------------------------------------
(* What each action of the reconcile that writes a claim does                *)

\* The fence: the writer of a running Pod, of a stopped one that it releases, or nothing.
FenceNotes ==
  /\ pod.uid # 0 /\ ~pod.deleting /\ claim[pod.claim].there
  /\ WriterSet(pod.claim, [pod |-> pod.uid, state |-> "running", exit |-> "none"])
  /\ pod' = [pod EXCEPT !.noted = TRUE]
FenceReleases ==
  /\ pod.uid # 0 /\ pod.deleting /\ pod.run \in {"waiting", "exited"} /\ pod' = NoPod
  /\ \/ /\ claim[pod.claim].there
        /\ WriterSet(pod.claim, [pod |-> pod.uid, state |-> "stopped", exit |-> pod.exit])
     \/ ~claim[pod.claim].there /\ SameClaims
FenceLeaves == SameClaims /\ UNCHANGED pod

\* What the fence of a reconcile changes.
LEMMA FenceEffect ==
  ASSUME TypeOK, ReconcileFence
  PROVE  /\ claim' \in [Claims -> Claim] /\ pod' \in Pod /\ op' \in Operation
         /\ op.pc = "fence" /\ op'.pc = "move" /\ op'.ask = op.ask /\ op'.held = op.held
         /\ op'.gone = (pod.uid = 0) /\ op'.claim = op.claim /\ op'.strict = op.strict
         /\ op'.hold = op.hold
         /\ FenceNotes \/ FenceReleases \/ FenceLeaves
  <1>1. op \in Operation /\ pod \in Pod /\ claim \in [Claims -> Claim]
    BY DEF TypeOK
  <1>2. pod.claim \in Claims /\ pod.uid \in Uids /\ pod.exit \in Exits
    BY <1>1 DEF Pod
  <1>3. /\ op' \in Operation /\ op.pc = "fence" /\ op'.pc = "move" /\ op'.ask = op.ask
        /\ op'.held = op.held /\ op'.gone = (pod.uid = 0) /\ op'.claim = op.claim
        /\ op'.strict = op.strict /\ op'.hold = op.hold
    BY <1>1 DEF ReconcileFence, Operation, At
  <1>4. [pod |-> pod.uid, state |-> "running", exit |-> "none"] \in Writer
        /\ [pod |-> pod.uid, state |-> "stopped", exit |-> pod.exit] \in Writer
    BY <1>2 DEF Writer, Exits
  <1>5. CASE /\ pod.uid # 0 /\ ~pod.deleting /\ ~pod.noted /\ claim[pod.claim].there
             /\ claim' = [claim EXCEPT ![pod.claim].writer =
                            [pod |-> pod.uid, state |-> "running", exit |-> "none"]]
             /\ pod' = [pod EXCEPT !.noted = TRUE]
    <2>1. claim' \in [Claims -> Claim]
          /\ WriterSet(pod.claim, [pod |-> pod.uid, state |-> "running", exit |-> "none"])
      BY <1>1, <1>2, <1>4, <1>5, WriterWrite
    <2>2. pod' \in Pod
      BY <1>1, <1>5 DEF Pod
    <2> QED
      BY <1>3, <1>5, <2>1, <2>2 DEF FenceNotes
  <1>6. CASE /\ WriterStopped
             /\ claim' = IF claim[pod.claim].there
                         THEN [claim EXCEPT ![pod.claim].writer =
                                 [pod |-> pod.uid, state |-> "stopped", exit |-> pod.exit]]
                         ELSE claim
             /\ pod' = NoPod
    <2>1. CASE claim[pod.claim].there
      <3>1. claim' \in [Claims -> Claim]
            /\ WriterSet(pod.claim, [pod |-> pod.uid, state |-> "stopped", exit |-> pod.exit])
        BY <1>1, <1>2, <1>4, <1>6, <2>1, WriterWrite
      <3> QED
        BY <1>3, <1>6, <2>1, <3>1, RecordTypes DEF FenceReleases, WriterStopped
    <2>2. CASE ~claim[pod.claim].there
      BY <1>1, <1>3, <1>6, <2>2, RecordTypes, ClaimsKept DEF FenceReleases, WriterStopped
    <2> QED
      BY <2>1, <2>2
  <1>7. CASE UNCHANGED <<claim, pod>>
    BY <1>1, <1>3, <1>7, ClaimsKept DEF FenceLeaves
  <1> QED
    BY <1>5, <1>6, <1>7 DEF ReconcileFence

\* What a reconcile that is at the move read.
Deciding ==
  /\ op.pc = "move" /\ (InUse # 0 => claim[InUse].there) /\ op.ask \in MoveIds
AdvancingOf(phases) ==
  /\ Deciding /\ claim[op.ask].there /\ InUse # op.ask /\ claim[op.ask].phase \in phases

\* What advanceMove is about: a move whose target is in one of the phases and not in use.
LEMMA AdvancingIs ==
  ASSUME TypeOK, NEW phases, \E phase \in phases : Advancing(phase)
  PROVE  AdvancingOf(phases)
  BY ClaimNumbers DEF TypeOK, Operation, Advancing, AdvancingOf, Deciding, At, ChainBroken

\* What beginning a move changes.
LEMMA BeginEffect ==
  ASSUME TypeOK, BeginMove
  PROVE  /\ claim' \in [Claims -> Claim] /\ op' \in Operation
         /\ Deciding /\ ~claim[op.ask].there /\ OpPlan("sts", InUse, TRUE)
         /\ \/ SameClaims
            \/ /\ op.gone /\ claim[InUse].there /\ claim[InUse].writer.state = "stopped"
               /\ claim[InUse].writer.exit = "clean" /\ TargetMade(op.ask, InUse)
  <1>1. op \in Operation /\ claim \in [Claims -> Claim]
    BY DEF TypeOK
  <1>2. op.ask \in Claims /\ InUse \in Claims
    BY <1>1, InUseType DEF Operation
  <1>3. Deciding /\ ~claim[op.ask].there
    BY <1>2, ClaimNumbers DEF BeginMove, Deciding, At, ChainBroken
  <1>4. op' \in Operation /\ OpPlan("sts", InUse, TRUE)
    BY <1>1, OpWrite DEF BeginMove
  <1>5. CASE op.gone /\ claim[InUse].there /\ drainedCleanly(InUse)
    <2>1. claim' \in [Claims -> Claim] /\ TargetMade(op.ask, InUse)
      BY <1>1, <1>2, <1>5, TargetWrite DEF BeginMove
    <2> QED
      BY <1>3, <1>4, <1>5, <2>1 DEF drainedCleanly
  <1>6. CASE ~(op.gone /\ claim[InUse].there /\ drainedCleanly(InUse))
    BY <1>1, <1>3, <1>4, <1>6, ClaimsKept DEF BeginMove
  <1> QED
    BY <1>5, <1>6

\* A move that advances is refused, for its source or for its Job.
Refusing ==
  /\ AdvancingOf({"created", "copied", "verified"}) /\ op.gone
  /\ PhaseSet(op.ask, "refused") /\ OpPlan("sts", InUse, TRUE)

\* What the refusal of a changed source does: its target is marked.
LEMMA RefuseEffect ==
  ASSUME TypeOK, RefuseSourceChanged
  PROVE  claim' \in [Claims -> Claim] /\ op' \in Operation /\ Refusing
  <1>1. op \in Operation /\ claim \in [Claims -> Claim]
    BY DEF TypeOK
  <1>2. op.ask \in Claims
    BY <1>1 DEF Operation
  <1>3. op' \in Operation /\ OpPlan("sts", InUse, TRUE)
    BY <1>1, OpWrite DEF RefuseSourceChanged
  <1>4. claim' \in [Claims -> Claim] /\ PhaseSet(op.ask, "refused")
    BY <1>1, <1>2, PhaseWrite DEF RefuseSourceChanged, SetPhase, Phases
  <1> QED
    BY <1>3, <1>4, AdvancingIs DEF RefuseSourceChanged, Refusing

\* ensureMoveJob marks the target, refuses the move or waits.
Marking ==
  /\ op.gone /\ sourceUnchanged(op.ask) /\ OpPlan("createJob", InUse, TRUE)
  /\ \E phase \in {"created", "copied"} :
       /\ AdvancingOf({phase}) /\ ~job[op.ask][StepOf(phase)].seen
       /\ StepOf(phase) \notin claim[op.ask].started /\ MarkSet(op.ask, StepOf(phase))
Waiting == OpPlan("sts", InUse, TRUE) /\ UNCHANGED claim /\ Deciding /\ claim[op.ask].there

\* What ensureMoveJob changes: the mark on the target.
LEMMA EnsureEffect ==
  ASSUME TypeOK, EnsureMoveJob
  PROVE  claim' \in [Claims -> Claim] /\ op' \in Operation /\ (Marking \/ Refusing \/ Waiting)
  <1>1. op \in Operation /\ claim \in [Claims -> Claim]
    BY DEF TypeOK
  <1>2. op.ask \in Claims
    BY <1>1 DEF Operation
  <1>3. PICK phase \in {"created", "copied"} :
          /\ op.gone /\ Advancing(phase) /\ sourceUnchanged(op.ask)
          /\ \/ /\ ~job[op.ask][StepOf(phase)].seen
                /\ StepOf(phase) \notin claim[op.ask].started
                /\ claim' = [claim EXCEPT ![op.ask].started = @ \cup {StepOf(phase)}]
                /\ PlanInUse("createJob", TRUE)
             \/ SetPhase(op.ask, "refused") /\ PlanInUse("sts", TRUE)
             \/ UNCHANGED claim /\ PlanInUse("sts", TRUE)
    BY DEF EnsureMoveJob
  <1>4. AdvancingOf({phase})
    BY <1>3, AdvancingIs
  <1>5. StepOf(phase) \in JobSteps
    BY DEF StepOf, JobSteps
  <1>6. CASE /\ ~job[op.ask][StepOf(phase)].seen
             /\ StepOf(phase) \notin claim[op.ask].started
             /\ claim' = [claim EXCEPT ![op.ask].started = @ \cup {StepOf(phase)}]
             /\ PlanInUse("createJob", TRUE)
    <2>1. op' \in Operation /\ OpPlan("createJob", InUse, TRUE)
      BY <1>1, <1>6, OpWrite
    <2>2. claim' \in [Claims -> Claim] /\ MarkSet(op.ask, StepOf(phase))
      BY <1>1, <1>2, <1>5, <1>6, MarkWrite
    <2> QED
      BY <1>3, <1>4, <1>6, <2>1, <2>2 DEF Marking
  <1>7. CASE SetPhase(op.ask, "refused") /\ PlanInUse("sts", TRUE)
    <2>1. op' \in Operation /\ OpPlan("sts", InUse, TRUE)
      BY <1>1, <1>7, OpWrite
    <2>2. claim' \in [Claims -> Claim] /\ PhaseSet(op.ask, "refused")
      BY <1>1, <1>2, <1>7, PhaseWrite DEF SetPhase, Phases
    <2> QED
      BY <1>3, <1>4, <2>1, <2>2 DEF Refusing, AdvancingOf
  <1>8. CASE UNCHANGED claim /\ PlanInUse("sts", TRUE)
    <2>1. op' \in Operation /\ OpPlan("sts", InUse, TRUE)
      BY <1>1, <1>8, OpWrite
    <2> QED
      BY <1>1, <1>4, <1>8, <2>1, ClaimsKept DEF Waiting, AdvancingOf
  <1> QED
    BY <1>3, <1>6, <1>7, <1>8

\* runCopy records the copy, runVerify the comparison.
LEMMA CopiedEffect ==
  ASSUME TypeOK, RecordCopied
  PROVE  /\ claim' \in [Claims -> Claim] /\ op' \in Operation
         /\ AdvancingOf({"created"}) /\ op.gone /\ job[op.ask]["copy"].seen
         /\ job[op.ask]["copy"].state = "done" /\ OpPlan("sts", InUse, TRUE)
         /\ sourceUnchanged(op.ask)
         /\ CopiedSet(op.ask, job[op.ask]["copy"].source)
  <1>1. op \in Operation /\ claim \in [Claims -> Claim] /\ job \in [MoveIds -> [JobSteps -> Job]]
    BY DEF TypeOK
  <1>2. AdvancingOf({"created"})
    BY AdvancingIs DEF RecordCopied
  <1>3. op.ask \in MoveIds /\ op.ask \in Claims
    BY <1>2, ClaimNumbers DEF AdvancingOf, Deciding
  <1>4. job[op.ask]["copy"].source \in Memory
    <2>1. job[op.ask]["copy"] \in Job
      BY <1>1, <1>3 DEF JobSteps
    <2> QED
      BY <2>1 DEF Job
  <1>5. op' \in Operation /\ OpPlan("sts", InUse, TRUE)
    BY <1>1, OpWrite DEF RecordCopied
  <1>6. claim' \in [Claims -> Claim] /\ CopiedSet(op.ask, job[op.ask]["copy"].source)
    BY <1>1, <1>3, <1>4, CopiedWrite DEF RecordCopied
  <1> QED
    BY <1>2, <1>5, <1>6 DEF RecordCopied

\* What recording a verification changes.
LEMMA VerifiedEffect ==
  ASSUME TypeOK, RecordVerified
  PROVE  /\ claim' \in [Claims -> Claim] /\ op' \in Operation
         /\ AdvancingOf({"copied"}) /\ op.gone /\ sourceUnchanged(op.ask)
         /\ job[op.ask]["verify"].seen
         /\ job[op.ask]["verify"].state = "done" /\ OpPlan("sts", InUse, TRUE)
         /\ \/ DigestsMatch(op.ask) /\ PhaseSet(op.ask, "verified")
            \/ PhaseSet(op.ask, "refused")
  <1>1. op \in Operation /\ claim \in [Claims -> Claim]
    BY DEF TypeOK
  <1>2. AdvancingOf({"copied"})
    BY AdvancingIs DEF RecordVerified
  <1>3. op.ask \in Claims
    BY <1>1 DEF Operation
  <1>4. op' \in Operation /\ OpPlan("sts", InUse, TRUE)
    BY <1>1, OpWrite DEF RecordVerified
  <1>5. /\ claim' \in [Claims -> Claim]
        /\ PhaseSet(op.ask, IF DigestsMatch(op.ask) THEN "verified" ELSE "refused")
    BY <1>1, <1>3, PhaseWrite DEF RecordVerified, SetPhase, Phases
  <1>6. CASE DigestsMatch(op.ask)
    BY <1>2, <1>4, <1>5, <1>6 DEF RecordVerified
  <1>7. CASE ~DigestsMatch(op.ask)
    BY <1>2, <1>4, <1>5, <1>7 DEF RecordVerified
  <1> QED
    BY <1>6, <1>7

\* switchMove links, restoreSource takes the link off.
LEMMA SwitchEffect ==
  ASSUME TypeOK, SwitchMove
  PROVE  /\ claim' \in [Claims -> Claim] /\ op' \in Operation
         /\ AdvancingOf({"verified"}) /\ op.gone /\ sourceUnchanged(op.ask)
         /\ claim[op.ask].source \in Claims
         /\ OpPlan("settle", op.ask, FALSE) /\ LinkSet(claim[op.ask].source, op.ask)
  <1>1. op \in Operation /\ claim \in [Claims -> Claim]
    BY DEF TypeOK
  <1>2. AdvancingOf({"verified"})
    BY AdvancingIs DEF SwitchMove
  <1>3. op.ask \in Claims /\ claim[op.ask].source \in Claims
    BY <1>1 DEF Operation, Claim
  <1>4. op' \in Operation /\ OpPlan("settle", op.ask, FALSE)
    BY <1>1, <1>3, OpWrite DEF SwitchMove
  <1>5. claim' \in [Claims -> Claim] /\ LinkSet(claim[op.ask].source, op.ask)
    BY <1>1, <1>3, LinkWrite DEF SwitchMove
  <1> QED
    BY <1>2, <1>3, <1>4, <1>5 DEF SwitchMove

\* What taking the link back changes.
LEMMA RestoreEffect ==
  ASSUME TypeOK, RestoreSource
  PROVE  /\ claim' \in [Claims -> Claim] /\ op' \in Operation
         /\ op.pc = "restore" /\ claim[op.ask].source \in Claims
         /\ \/ /\ claim[claim[op.ask].source].there
               /\ OpPlan("sts", claim[op.ask].source, TRUE)
               /\ LinkSet(claim[op.ask].source, 0)
            \/ ~claim[claim[op.ask].source].there /\ op' = Idle /\ SameClaims
  <1>1. op \in Operation /\ claim \in [Claims -> Claim]
    BY DEF TypeOK
  <1>2. op.ask \in Claims /\ claim[op.ask].source \in Claims
    BY <1>1 DEF Operation, Claim
  <1>3. CASE claim[claim[op.ask].source].there
    <2>1. op' \in Operation /\ OpPlan("sts", claim[op.ask].source, TRUE)
      BY <1>1, <1>2, <1>3, OpWrite DEF RestoreSource
    <2>2. claim' \in [Claims -> Claim] /\ LinkSet(claim[op.ask].source, 0)
      BY <1>1, <1>2, <1>3, LinkWrite, ClaimNumbers DEF RestoreSource
    <2> QED
      BY <1>2, <1>3, <2>1, <2>2 DEF RestoreSource, At
  <1>4. CASE ~claim[claim[op.ask].source].there
    BY <1>1, <1>2, <1>4, ClaimsKept, RecordTypes DEF RestoreSource, At
  <1> QED
    BY <1>3, <1>4

\* settleMove records the switch, then what the Pod on the copy shows.
LEMMA SettleEffect ==
  ASSUME TypeOK, SettleMove
  PROVE  /\ claim' \in [Claims -> Claim] /\ op' \in Operation /\ op.pc = "settle"
         /\ \/ /\ claim[op.ask].phase \in {"verified", "switched"}
               /\ PhaseSet(op.ask, "switched") /\ OpAt("accept")
            \/ claim[op.ask].phase = "accepted" /\ SameClaims /\ OpAt("sts")
            \/ claim[op.ask].phase = "refused" /\ SameClaims /\ OpAt("restore")
  <1>1. op \in Operation /\ claim \in [Claims -> Claim]
    BY DEF TypeOK
  <1>2. op.ask \in Claims
    BY <1>1 DEF Operation
  <1>3. \A pc \in {"accept", "sts", "restore"} :
          op' = [op EXCEPT !.pc = pc] => op' \in Operation /\ OpAt(pc)
    BY <1>1, OpWrite
  <1>4. CASE /\ claim[op.ask].phase \in {"verified", "switched"}
             /\ SetPhase(op.ask, "switched") /\ op' = [op EXCEPT !.pc = "accept"]
    BY <1>1, <1>2, <1>3, <1>4, PhaseWrite DEF SettleMove, SetPhase, Phases, At
  <1>5. CASE /\ claim[op.ask].phase = "accepted"
             /\ op' = [op EXCEPT !.pc = "sts"] /\ UNCHANGED claim
    BY <1>1, <1>3, <1>5, ClaimsKept DEF SettleMove, At
  <1>6. CASE /\ claim[op.ask].phase = "refused"
             /\ op' = [op EXCEPT !.pc = "restore"] /\ UNCHANGED claim
    BY <1>1, <1>3, <1>6, ClaimsKept DEF SettleMove, At
  <1> QED
    BY <1>4, <1>5, <1>6 DEF SettleMove

\* What reading the first Pod on a copy changes.
LEMMA ReadEffect ==
  ASSUME TypeOK, ReadFirstPod
  PROVE  /\ claim' \in [Claims -> Claim] /\ op' \in Operation /\ op.pc = "accept"
         /\ \/ /\ pod.uid # 0 /\ pod.claim = op.ask /\ agentExitedNonZero
               /\ PhaseSet(op.ask, "refused") /\ OpAt("restore")
            \/ PhaseSet(op.ask, "accepted") /\ OpAt("sts")
            \/ UNCHANGED claim /\ OpAt("sts")
  <1>1. op \in Operation /\ claim \in [Claims -> Claim]
    BY DEF TypeOK
  <1>2. op.ask \in Claims
    BY <1>1 DEF Operation
  <1>3. \A pc \in {"accept", "sts", "restore"} :
          op' = [op EXCEPT !.pc = pc] => op' \in Operation /\ OpAt(pc)
    BY <1>1, OpWrite
  <1>4. CASE /\ pod.uid # 0 /\ pod.claim = op.ask /\ agentExitedNonZero
             /\ SetPhase(op.ask, "refused") /\ op' = [op EXCEPT !.pc = "restore"]
    BY <1>1, <1>2, <1>3, <1>4, PhaseWrite DEF ReadFirstPod, SetPhase, Phases, At
  <1>5. CASE SetPhase(op.ask, "accepted") /\ op' = [op EXCEPT !.pc = "sts"]
    BY <1>1, <1>2, <1>3, <1>5, PhaseWrite DEF ReadFirstPod, SetPhase, Phases, At
  <1>6. CASE UNCHANGED claim /\ op' = [op EXCEPT !.pc = "sts"]
    BY <1>1, <1>3, <1>6, ClaimsKept DEF ReadFirstPod, At
  <1> QED
    BY <1>4, <1>5, <1>6 DEF ReadFirstPod

--------------------------------------------------------------------------------
(* What the other actions do                                                 *)

\* What a step of a reconcile that only plans leaves.
Quiet == UNCHANGED <<ask, held, sts, pod, job>> /\ UNCHANGED clusterVars

\* A move that waits changes nothing but the plan.
LEMMA WaitsEffect ==
  ASSUME TypeOK, MoveWaits PROVE op' \in Operation /\ Waiting
  <1>1. op \in Operation /\ claim \in [Claims -> Claim]
    BY DEF TypeOK
  <1>2. op' \in Operation /\ OpPlan("sts", InUse, TRUE)
    BY <1>1, OpWrite DEF MoveWaits
  <1>3. Deciding /\ claim[op.ask].there
    <2>1. \E phase \in {"created", "copied", "verified", "refused", "switched", "accepted"} :
            Advancing(phase)
      BY DEF MoveWaits
    <2> QED
      BY <2>1, AdvancingIs DEF AdvancingOf
  <1> QED
    BY <1>2, <1>3, ClaimsKept DEF MoveWaits, Waiting

\* Without a move only the plan is made.
LEMMA NoMoveEffect ==
  ASSUME TypeOK, NoMove
  PROVE  /\ op' \in Operation /\ op.pc = "move" /\ op'.pc = "sts" /\ op'.ask = op.ask
         /\ op'.held = op.held /\ op'.gone = op.gone /\ UNCHANGED claim
         /\ \/ /\ InUse # 0 /\ ~claim[InUse].there /\ op'.hold
               /\ op'.claim = op.claim /\ op'.strict = op.strict
            \/ /\ InUse # 0 => claim[InUse].there
               /\ op.ask = 0 /\ OpPlan("sts", InUse, JobRunning)
  <1>1. op \in Operation /\ claim \in [Claims -> Claim]
    BY DEF TypeOK
  <1>2. CASE ChainBroken /\ op' = [op EXCEPT !.pc = "sts", !.hold = TRUE]
    BY <1>1, <1>2 DEF NoMove, ChainBroken, Operation, At
  <1>3. CASE ~ChainBroken /\ op.ask = 0 /\ PlanInUse("sts", JobRunning)
    <2>1. JobRunning \in BOOLEAN
      BY DEF JobRunning
    <2>2. op' \in Operation /\ OpPlan("sts", InUse, JobRunning)
      BY <1>1, <1>3, <2>1, OpWrite
    <2> QED
      BY <1>3, <2>2 DEF NoMove, ChainBroken, At, OpPlan
  <1> QED
    BY <1>2, <1>3 DEF NoMove

\* A switch found done changes nothing but the plan.
LEMMA FindEffect ==
  ASSUME TypeOK, FindSwitched
  PROVE  /\ op' \in Operation /\ Deciding /\ claim[op.ask].there /\ InUse = op.ask
         /\ OpPlan("settle", InUse, JobRunning) /\ UNCHANGED claim
  <1>1. op \in Operation /\ claim \in [Claims -> Claim] /\ JobRunning \in BOOLEAN
    BY DEF TypeOK, JobRunning
  <1>2. op' \in Operation /\ OpPlan("settle", InUse, JobRunning)
    BY <1>1, OpWrite DEF FindSwitched
  <1>3. Deciding
    BY <1>1, ClaimNumbers DEF FindSwitched, Deciding, At, ChainBroken, Operation
  <1> QED
    BY <1>2, <1>3 DEF FindSwitched

\* What the start of a reconcile changes.
LEMMA ReconcileEffect ==
  ASSUME TypeOK, Reconcile
  PROVE  /\ op' \in Operation /\ op.pc = "idle" /\ op'.pc = "fence" /\ op'.ask = ask
         /\ op'.held = held /\ op'.gone = FALSE /\ op'.claim = 0 /\ op'.strict = FALSE
         /\ op'.hold = FALSE
  BY RecordTypes DEF TypeOK, Reconcile, At, Operation, Idle

\* The Job of the step a reconcile marked.
NewJob == [NoJob EXCEPT !.state = "pending", !.seen = ("jobLag" \notin Happens)]

\* What making a Job changes.
LEMMA CreateJobEffect ==
  ASSUME TypeOK, CreateJob
  PROVE  /\ op' \in Operation /\ op.pc = "createJob" /\ OpAt("sts")
         /\ job' \in [MoveIds -> [JobSteps -> Job]] /\ NewJob \in Job
         /\ NewJob.state = "pending" /\ NewJob.source = 0 /\ NewJob.target = 0
         /\ NewJob.seen = ("jobLag" \notin Happens)
         /\ op.ask \in MoveIds => JobSet(op.ask, StepOf(claim[op.ask].phase), NewJob)
  <1> DEFINE s == StepOf(claim[op.ask].phase)
  <1>1. op \in Operation /\ claim \in [Claims -> Claim] /\ job \in [MoveIds -> [JobSteps -> Job]]
    BY DEF TypeOK
  <1>2. op' \in Operation /\ OpAt("sts")
    BY <1>1, OpWrite DEF CreateJob
  <1>3. /\ NewJob \in Job /\ NewJob.state = "pending" /\ NewJob.source = 0 /\ NewJob.target = 0
        /\ NewJob.seen = ("jobLag" \notin Happens)
    <2> DEFINE b == "jobLag" \notin Happens
               none == NoJob
    <2>1. b \in BOOLEAN
      OBVIOUS
    <2>2. none \in Job /\ none.source = 0 /\ none.target = 0
      BY RecordTypes DEF NoJob
    <2>3. NewJob = [none EXCEPT !.state = "pending", !.seen = b]
      BY DEF NewJob
    <2> HIDE DEF b, none, NewJob
    <2>4. NewJob \in Job /\ NewJob.state = "pending" /\ NewJob.source = 0 /\ NewJob.target = 0
          /\ NewJob.seen = b
      BY <2>1, <2>2, <2>3 DEF Job, JobStates
    <2> QED
      BY <2>4 DEF b
  <1>4. s \in JobSteps /\ job' = [job EXCEPT ![op.ask][s] = NewJob]
    BY DEF CreateJob, StepOf, JobSteps, NewJob
  <1> HIDE DEF s, NewJob
  <1>5. CASE op.ask \in MoveIds
    <2>1. job' \in [MoveIds -> [JobSteps -> Job]] /\ JobSet(op.ask, s, NewJob)
      BY <1>1, <1>3, <1>4, <1>5, JobWrite
    <2> QED
      BY <1>2, <1>3, <2>1 DEF CreateJob, At, s
  <1>6. CASE op.ask \notin MoveIds
    <2>1. job' = job
      BY <1>1, <1>4, <1>6
    <2> QED
      BY <1>1, <1>2, <1>3, <1>6, <2>1 DEF CreateJob, At
  <1> QED
    BY <1>5, <1>6

\* What the StatefulSet step changes.
LEMMA StsEffect ==
  ASSUME TypeOK, ReconcileStatefulSet
  PROVE  /\ op.pc = "sts" /\ op' = Idle /\ sts' \in StatefulSet
         /\ \/ ~sts'.there /\ sts'.replicas = 0 /\ sts'.claim = 0 /\ ~sts'.strict /\ sts.there
            \/ /\ sts'.there /\ sts'.claim = op.claim /\ sts'.strict = op.strict
               /\ sts'.replicas = (IF op.held \/ op.hold THEN 0 ELSE 1)
               /\ (sts'.template => ~op.byName)
  <1>1. op \in Operation /\ sts \in StatefulSet
    BY DEF TypeOK
  <1>2. CASE ReplacesTemplate
    BY <1>2, RecordTypes DEF ReconcileStatefulSet, At, NoSts, ReplacesTemplate
  <1>3. CASE ~ReplacesTemplate
    BY <1>1, <1>3 DEF ReconcileStatefulSet, At, StatefulSet, Operation, replicasFor
  <1> QED
    BY <1>2, <1>3

\* What the creation of a Pod changes.
LEMMA CreatePodEffect ==
  ASSUME TypeOK, CreatePod
  PROVE  /\ sts.there /\ sts.replicas = 1 /\ pod.uid = 0 /\ created' = created + 1
         /\ created' \in Uids
         /\ pod' \in Pod /\ pod'.uid = created + 1 /\ pod'.claim = sts.claim
         /\ pod'.strict = sts.strict /\ pod'.run = "waiting" /\ pod'.exit = "none"
         /\ pod'.last = "none" /\ ~pod'.noted /\ ~pod'.deleting
         /\ claim' \in [Claims -> Claim]
         /\ SameClaims \/ (sts.template /\ OwnMade)
  <1>1. pod \in Pod /\ sts \in StatefulSet /\ claim \in [Claims -> Claim] /\ created \in Uids
    BY DEF TypeOK
  <1>2. created + 1 \in Uids
    BY <1>1, MoveAssumption DEF CreatePod, Uids
  <1>3. /\ pod' \in Pod /\ pod'.uid = created + 1 /\ pod'.claim = sts.claim
        /\ pod'.strict = sts.strict /\ pod'.run = "waiting" /\ pod'.exit = "none"
        /\ pod'.last = "none" /\ ~pod'.noted /\ ~pod'.deleting
    BY <1>1, <1>2 DEF CreatePod, Pod, NoPod, StatefulSet, Exits
  <1>4. claim' \in [Claims -> Claim] /\ (SameClaims \/ (sts.template /\ OwnMade))
    <2>1. CASE sts.template
      BY <1>1, <2>1, OwnWrite DEF CreatePod
    <2>2. CASE ~sts.template
      BY <1>1, <2>2, ClaimsKept DEF CreatePod
    <2> QED
      BY <2>1, <2>2
  <1> QED
    BY <1>2, <1>3, <1>4 DEF CreatePod

\* The other actions of the Pod.
LEMMA PodEffect ==
  ASSUME TypeOK
  PROVE  /\ DeletePod => /\ pod' \in Pod /\ pod'.uid = pod.uid /\ pod'.claim = pod.claim
                         /\ pod'.strict = pod.strict /\ pod'.run = pod.run /\ pod'.exit = pod.exit
                         /\ pod'.last = pod.last /\ pod.uid # 0
         /\ StartAgent => /\ pod' \in Pod /\ pod'.uid = pod.uid /\ pod'.claim = pod.claim
                          /\ pod'.strict = pod.strict /\ pod'.run = "starting"
                          /\ pod'.exit = "none" /\ pod'.last = pod.exit /\ pod.uid # 0
                          /\ claim[pod.claim].there
         /\ Serve => /\ pod' \in Pod /\ pod'.uid = pod.uid /\ pod'.claim = pod.claim
                     /\ pod'.strict = pod.strict /\ pod'.run = "serving" /\ pod'.exit = pod.exit
                     /\ pod'.last = pod.last /\ pod.run = "starting"
                     /\ memory' \in [Claims -> Memory] /\ latest' = pod.uid
                     /\ \A c \in Claims : memory'[c] = IF c = pod.claim THEN pod.uid ELSE memory[c]
         /\ ExitAgent => /\ pod' \in Pod /\ pod'.uid = pod.uid /\ pod'.claim = pod.claim
                         /\ pod'.strict = pod.strict /\ pod'.run = "exited"
                         /\ pod'.exit \in {"clean", "failed"}
                         /\ pod'.last = pod.last /\ pod.run \in {"starting", "serving"}
  <1>1. pod \in Pod /\ memory \in [Claims -> Memory]
    BY DEF TypeOK
  <1>2. pod.uid \in Memory /\ pod.claim \in Claims
    BY <1>1, MoveAssumption DEF Pod, Uids, Memory, Torn
  <1>3. Serve => /\ memory' \in [Claims -> Memory] /\ latest' = pod.uid
                 /\ \A c \in Claims : memory'[c] = IF c = pod.claim THEN pod.uid ELSE memory[c]
    BY <1>1, <1>2 DEF Serve
  <1>4. Serve => /\ pod' \in Pod /\ pod'.uid = pod.uid /\ pod'.claim = pod.claim
                 /\ pod'.strict = pod.strict /\ pod'.run = "serving" /\ pod'.exit = pod.exit
                 /\ pod'.last = pod.last /\ pod.run = "starting"
    BY <1>1 DEF Serve, Pod
  <1>5. DeletePod => /\ pod' \in Pod /\ pod'.uid = pod.uid /\ pod'.claim = pod.claim
                     /\ pod'.strict = pod.strict /\ pod'.run = pod.run /\ pod'.exit = pod.exit
                     /\ pod'.last = pod.last /\ pod.uid # 0
    BY <1>1 DEF DeletePod, Pod
  <1>6. StartAgent => /\ pod' \in Pod /\ pod'.uid = pod.uid /\ pod'.claim = pod.claim
                      /\ pod'.strict = pod.strict /\ pod'.run = "starting"
                      /\ pod'.exit = "none" /\ pod'.last = pod.exit /\ pod.uid # 0
                      /\ claim[pod.claim].there
    BY <1>1 DEF StartAgent, Pod, Exits
  <1>7. ExitAgent => /\ pod' \in Pod /\ pod'.uid = pod.uid /\ pod'.claim = pod.claim
                     /\ pod'.strict = pod.strict /\ pod'.run = "exited"
                     /\ pod'.exit \in {"clean", "failed"}
                     /\ pod'.last = pod.last /\ pod.run \in {"starting", "serving"}
    BY <1>1 DEF ExitAgent, Pod, Exits
  <1> QED
    BY <1>3, <1>4, <1>5, <1>6, <1>7

\* The steps of a Job.
MemorySet(m, v) ==
  memory' \in [Claims -> Memory] /\ \A c \in Claims : memory'[c] = IF c = m THEN v ELSE memory[c]
JobKept == UNCHANGED <<ask, held, sts, pod, claim, op, accepts, created, latest, budget>>
JobTo(m, s, state, seen, source, target) ==
  /\ job' \in [MoveIds -> [JobSteps -> Job]]
  /\ \A n \in MoveIds, t \in JobSteps : n # m \/ t # s => job'[n][t] = job[n][t]
  /\ job'[m][s].state = state /\ job'[m][s].seen = seen
  /\ job'[m][s].source = source /\ job'[m][s].target = target

\* A write to a Job changes that Job alone.
LEMMA JobEffect ==
  ASSUME TypeOK, NEW m \in MoveIds, NEW s \in JobSteps, NEW j, SetJob(m, s, j), j \in Job
  PROVE  JobTo(m, s, j.state, j.seen, j.source, j.target) /\ JobKept
  <1>1. job' \in [MoveIds -> [JobSteps -> Job]] /\ JobSet(m, s, j)
    BY JobWrite DEF TypeOK, SetJob
  <1> QED
    BY <1>1 DEF JobSet, SetJob, JobKept, JobTo

\* The Jobs stay typed where one is written.
LEMMA JobTypes ==
  ASSUME TypeOK, NEW m \in MoveIds, NEW s \in JobSteps
  PROVE  /\ job[m][s] \in Job /\ job[m][s].state \in JobStates /\ job[m][s].seen \in BOOLEAN
         /\ job[m][s].source \in Memory /\ job[m][s].target \in Memory
  <1>1. job[m][s] \in Job
    BY DEF TypeOK
  <1> QED
    BY <1>1 DEF Job

\* The memory stays typed where a claim is written.
LEMMA MemoryTypes ==
  ASSUME TypeOK, NEW c \in Claims
  PROVE  memory[c] \in Memory /\ claim[c].source \in Claims /\ memory[claim[c].source] \in Memory
  <1>1. claim[c].source \in Claims
    BY DEF TypeOK, Claim
  <1> QED
    BY <1>1 DEF TypeOK

\* A Job that ends otherwise than done, is lost or is seen.
JobMoved(m, s, state, seen) ==
  JobTo(m, s, state, seen, job[m][s].source, job[m][s].target)

\* What the start of a copy changes.
LEMMA BeginCopyEffect ==
  ASSUME TypeOK, NEW m \in MoveIds, BeginCopy(m)
  PROVE  /\ JobKept /\ UNCHANGED memory /\ job[m]["copy"].state = "pending"
         /\ \/ JobMoved(m, "copy", "failed", job[m]["copy"].seen)
            \/ /\ JobTo(m, "copy", "reading", job[m]["copy"].seen, memory[claim[m].source],
                        job[m]["copy"].target)
               /\ memory[claim[m].source] # 0
  <1> DEFINE j == job[m]["copy"]
             v == memory[claim[m].source]
             refuses == v = 0 \/ (pod.run = "serving" /\ pod.claim = claim[m].source)
  <1>1. "copy" \in JobSteps /\ m \in Claims
    BY ClaimNumbers DEF JobSteps
  <1>2. j \in Job /\ v \in Memory
    BY <1>1, JobTypes, MemoryTypes
  <1>3. SetJob(m, "copy", IF refuses THEN [j EXCEPT !.state = "failed"]
                          ELSE [j EXCEPT !.state = "reading", !.source = v])
        /\ UNCHANGED memory /\ j.state = "pending"
    BY DEF BeginCopy
  <1> HIDE DEF j, v
  <1>4. CASE refuses
    <2> DEFINE k == [j EXCEPT !.state = "failed"]
    <2>1. /\ k \in Job /\ k.state = "failed" /\ k.seen = j.seen /\ k.source = j.source
          /\ k.target = j.target
      BY <1>2 DEF Job, JobStates
    <2>2. SetJob(m, "copy", k)
      BY <1>3, <1>4
    <2> HIDE DEF k
    <2>3. JobTo(m, "copy", k.state, k.seen, k.source, k.target) /\ JobKept
      BY <1>1, <2>1, <2>2, JobEffect
    <2> QED
      BY <1>3, <2>1, <2>3 DEF JobMoved, j
  <1>5. CASE ~refuses
    <2> DEFINE k == [j EXCEPT !.state = "reading", !.source = v]
    <2>1. /\ k \in Job /\ k.state = "reading" /\ k.seen = j.seen /\ k.source = v
          /\ k.target = j.target
      BY <1>2 DEF Job, JobStates
    <2>2. SetJob(m, "copy", k)
      BY <1>3, <1>5
    <2> HIDE DEF k
    <2>3. JobTo(m, "copy", k.state, k.seen, k.source, k.target) /\ JobKept
      BY <1>1, <2>1, <2>2, JobEffect
    <2> QED
      BY <1>3, <1>5, <2>1, <2>3 DEF j, v
  <1> QED
    BY <1>4, <1>5

\* What the end of a copy changes.
LEMMA EndCopyEffect ==
  ASSUME TypeOK, NEW m \in MoveIds, EndCopy(m)
  PROVE  /\ JobKept /\ job[m]["copy"].state = "reading"
         /\ JobMoved(m, "copy", "done", job[m]["copy"].seen)
         /\ MemorySet(m, IF memory[claim[m].source] = job[m]["copy"].source
                         THEN job[m]["copy"].source ELSE Torn)
  <1> DEFINE j == job[m]["copy"]
             k == [j EXCEPT !.state = "done"]
             v == IF memory[claim[m].source] = j.source THEN j.source ELSE Torn
  <1>1. "copy" \in JobSteps /\ m \in Claims
    BY ClaimNumbers DEF JobSteps
  <1>2. j \in Job /\ j.source \in Memory /\ Torn \in Memory /\ memory \in [Claims -> Memory]
    BY <1>1, JobTypes, MoveAssumption DEF Memory, Torn, TypeOK
  <1>3. j.state = "reading" /\ memory' = [memory EXCEPT ![m] = v] /\ SetJob(m, "copy", k)
    BY DEF EndCopy
  <1>4. v \in Memory
    BY <1>2
  <1> HIDE DEF j, v
  <1>5. MemorySet(m, v)
    BY <1>1, <1>2, <1>3, <1>4 DEF MemorySet
  <1>6. /\ k \in Job /\ k.state = "done" /\ k.seen = j.seen /\ k.source = j.source
        /\ k.target = j.target
    BY <1>2 DEF Job, JobStates
  <1> HIDE DEF k
  <1>7. JobTo(m, "copy", k.state, k.seen, k.source, k.target) /\ JobKept
    BY <1>1, <1>3, <1>6, JobEffect
  <1> QED
    BY <1>3, <1>5, <1>6, <1>7 DEF JobMoved, j, v

\* What a verification changes.
LEMMA VerifyEffect ==
  ASSUME TypeOK, NEW m \in MoveIds, VerifyCopy(m)
  PROVE  /\ JobKept /\ UNCHANGED memory /\ job[m]["verify"].state = "pending"
         /\ JobTo(m, "verify", "done", job[m]["verify"].seen, memory[claim[m].source], memory[m])
  <1> DEFINE j == job[m]["verify"]
             v == memory[claim[m].source]
             w == memory[m]
             k == [j EXCEPT !.state = "done", !.source = v, !.target = w]
  <1>1. "verify" \in JobSteps /\ m \in Claims
    BY ClaimNumbers DEF JobSteps
  <1>2. j \in Job /\ v \in Memory /\ w \in Memory
    BY <1>1, JobTypes, MemoryTypes
  <1>3. j.state = "pending" /\ UNCHANGED memory /\ SetJob(m, "verify", k)
    BY DEF VerifyCopy
  <1> HIDE DEF j, v, w
  <1>6. /\ k \in Job /\ k.state = "done" /\ k.seen = j.seen /\ k.source = v /\ k.target = w
    BY <1>2 DEF Job, JobStates
  <1> HIDE DEF k
  <1>7. JobTo(m, "verify", k.state, k.seen, k.source, k.target) /\ JobKept
    BY <1>1, <1>3, <1>6, JobEffect
  <1> QED
    BY <1>3, <1>6, <1>7 DEF j, v, w

\* What a failing Job changes.
LEMMA FailEffect ==
  ASSUME TypeOK, NEW m \in MoveIds, NEW s \in JobSteps, FailJob(m, s)
  PROVE  /\ JobKept /\ job[m][s].state \in {"pending", "reading"}
         /\ JobMoved(m, s, "failed", job[m][s].seen)
         /\ (s = "copy" /\ MemorySet(m, Torn)) \/ UNCHANGED memory
  <1> DEFINE j == job[m][s]
             k == [j EXCEPT !.state = "failed"]
  <1>1. m \in Claims /\ j \in Job /\ Torn \in Memory /\ memory \in [Claims -> Memory]
    BY ClaimNumbers, JobTypes, MoveAssumption DEF Memory, Torn, TypeOK
  <1>2. j.state \in {"pending", "reading"} /\ SetJob(m, s, k)
        /\ memory' = IF s = "copy" THEN [memory EXCEPT ![m] = Torn] ELSE memory
    BY DEF FailJob
  <1>3. (s = "copy" /\ MemorySet(m, Torn)) \/ UNCHANGED memory
    BY <1>1, <1>2 DEF MemorySet
  <1> HIDE DEF j
  <1>4. /\ k \in Job /\ k.state = "failed" /\ k.seen = j.seen /\ k.source = j.source
        /\ k.target = j.target
    BY <1>1 DEF Job, JobStates
  <1> HIDE DEF k
  <1>5. JobTo(m, s, k.state, k.seen, k.source, k.target) /\ JobKept
    BY <1>2, <1>4, JobEffect
  <1> QED
    BY <1>2, <1>3, <1>4, <1>5 DEF JobMoved, j

\* What the loss of a Job, or of the Pod of one that is done, changes.
JobCut(m, s) ==
  /\ job[m][s].state = "reading" /\ JobMoved(m, s, "gone", FALSE)
  /\ s = "copy" /\ MemorySet(m, Torn)
JobDropped(m, s) ==
  /\ job[m][s].state \notin {"none", "gone"} /\ UNCHANGED memory
  /\ \/ JobMoved(m, s, "gone", FALSE)
     \/ job[m][s].state = "done" /\ JobMoved(m, s, "unread", job[m][s].seen)
LEMMA LoseEffect ==
  ASSUME TypeOK, NEW m \in MoveIds, NEW s \in JobSteps, LoseJob(m, s)
  PROVE  JobKept /\ (JobCut(m, s) \/ JobDropped(m, s))
  <1> DEFINE j == job[m][s]
             k == [j EXCEPT !.state = "gone", !.seen = FALSE]
             l == [j EXCEPT !.state = "unread"]
  <1>1. j \in Job /\ m \in Claims /\ Torn \in Memory /\ memory \in [Claims -> Memory]
    BY ClaimNumbers, JobTypes, MoveAssumption DEF Memory, Torn, TypeOK
  <1>2. /\ k \in Job /\ k.state = "gone" /\ k.seen = FALSE /\ k.source = j.source
        /\ k.target = j.target
    BY <1>1 DEF Job, JobStates
  <1>3. /\ l \in Job /\ l.state = "unread" /\ l.seen = j.seen /\ l.source = j.source
        /\ l.target = j.target
    BY <1>1 DEF Job, JobStates
  <1>4. CASE /\ j.state \notin {"none", "gone"} /\ SetJob(m, s, k)
             /\ memory' = IF s = "copy" /\ j.state = "reading"
                          THEN [memory EXCEPT ![m] = Torn] ELSE memory
    <2>1. JobTo(m, s, k.state, k.seen, k.source, k.target) /\ JobKept
      BY <1>2, <1>4, JobEffect
    <2>2. JobMoved(m, s, "gone", FALSE)
      BY <1>2, <2>1 DEF JobMoved
    <2>3. CASE s = "copy" /\ j.state = "reading"
      <3>1. MemorySet(m, Torn)
        BY <1>1, <1>4, <2>3 DEF MemorySet
      <3> QED
        BY <2>1, <2>2, <2>3, <3>1 DEF JobCut
    <2>4. CASE ~(s = "copy" /\ j.state = "reading")
      BY <1>4, <2>1, <2>2, <2>4 DEF JobDropped
    <2> QED
      BY <2>3, <2>4
  <1>5. CASE j.state = "done" /\ SetJob(m, s, l) /\ UNCHANGED memory
    <2>1. JobTo(m, s, l.state, l.seen, l.source, l.target) /\ JobKept
      BY <1>3, <1>5, JobEffect
    <2> QED
      BY <1>3, <1>5, <2>1 DEF JobMoved, JobDropped
  <1> QED
    BY <1>4, <1>5 DEF LoseJob

\* What a cache that catches up with a Job changes.
LEMMA SeeEffect ==
  ASSUME TypeOK, NEW m \in MoveIds, NEW s \in JobSteps, SeeJob(m, s)
  PROVE  /\ JobKept /\ job[m][s].state \notin {"none", "gone"} /\ UNCHANGED memory
         /\ JobMoved(m, s, job[m][s].state, TRUE)
  <1> DEFINE j == job[m][s]
             k == [j EXCEPT !.seen = TRUE]
  <1>1. j \in Job
    BY JobTypes
  <1>2. j.state \notin {"none", "gone"} /\ SetJob(m, s, k) /\ UNCHANGED memory
    BY DEF SeeJob
  <1> HIDE DEF j
  <1>4. /\ k \in Job /\ k.state = j.state /\ k.seen = TRUE /\ k.source = j.source
        /\ k.target = j.target
    BY <1>1 DEF Job, JobStates
  <1> HIDE DEF k
  <1>5. JobTo(m, s, k.state, k.seen, k.source, k.target) /\ JobKept
    BY <1>2, <1>4, JobEffect
  <1> QED
    BY <1>2, <1>4, <1>5 DEF JobMoved, j

\* Every step keeps the types.
LEMMA StepType == TypeOK /\ [Next]_vars => TypeOK'
  <1> SUFFICES ASSUME TypeOK, [Next]_vars PROVE TypeOK'
    OBVIOUS
  <1>0. ASSUME claim' \in [Claims -> Claim], op' \in Operation, Quiet PROVE TypeOK'
    BY <1>0 DEF TypeOK, Quiet, clusterVars
  <1>1. CASE Reconcile
    BY <1>1, ReconcileEffect DEF Reconcile, TypeOK, clusterVars
  <1>2. CASE ReconcileFence
    BY <1>2, FenceEffect DEF ReconcileFence, TypeOK, clusterVars
  <1>3. CASE NoMove
    <2>1. claim' = claim /\ op' \in Operation /\ Quiet
      BY <1>3, NoMoveEffect DEF NoMove, Quiet
    <2> QED
      BY <2>1, <1>0 DEF TypeOK
  <1>4. CASE BeginMove
    BY <1>0, <1>4, BeginEffect DEF BeginMove, Quiet
  <1>5. CASE MoveWaits
    <2>1. claim' = claim /\ op' \in Operation /\ Quiet
      BY <1>5, WaitsEffect DEF MoveWaits, Quiet, Waiting
    <2> QED
      BY <2>1, <1>0 DEF TypeOK
  <1>6. CASE RefuseSourceChanged
    BY <1>0, <1>6, RefuseEffect DEF RefuseSourceChanged, Quiet
  <1>7. CASE EnsureMoveJob
    <2>1. Quiet
      BY <1>7 DEF EnsureMoveJob, Quiet
    <2> QED
      BY <1>0, <1>7, <2>1, EnsureEffect
  <1>8. CASE CreateJob
    BY <1>8, CreateJobEffect DEF CreateJob, TypeOK, clusterVars
  <1>9. CASE RecordCopied
    BY <1>0, <1>9, CopiedEffect DEF RecordCopied, Quiet
  <1>10. CASE RecordVerified
    BY <1>0, <1>10, VerifiedEffect DEF RecordVerified, Quiet
  <1>11. CASE SwitchMove
    BY <1>0, <1>11, SwitchEffect DEF SwitchMove, Quiet
  <1>12. CASE FindSwitched
    <2>1. claim' = claim /\ op' \in Operation /\ Quiet
      BY <1>12, FindEffect DEF FindSwitched, Quiet
    <2> QED
      BY <2>1, <1>0 DEF TypeOK
  <1>13. CASE SettleMove
    BY <1>0, <1>13, SettleEffect DEF SettleMove, Quiet
  <1>14. CASE ReadFirstPod
    BY <1>0, <1>14, ReadEffect DEF ReadFirstPod, Quiet
  <1>15. CASE RestoreSource
    BY <1>0, <1>15, RestoreEffect DEF RestoreSource, Quiet
  <1>16. CASE ReconcileStatefulSet
    BY <1>16, StsEffect, RecordTypes DEF ReconcileStatefulSet, TypeOK, clusterVars
  <1>17. CASE CutShort
    <2>1. budget' \in [asks: 0..MaxAsks, crashes: 0..MaxCrashes]
      BY <1>17, MoveAssumption DEF CutShort, TypeOK
    <2> QED
      BY <1>17, <2>1, RecordTypes DEF CutShort, TypeOK
  <1>18. CASE AskMove
    <2>1. budget' \in [asks: 0..MaxAsks, crashes: 0..MaxCrashes] /\ ask' \in Claims
      BY <1>18, MoveAssumption DEF AskMove, TypeOK
    <2> QED
      BY <1>18, <2>1 DEF AskMove, TypeOK
  <1>19. CASE ChangeHeld
    BY <1>19 DEF ChangeHeld, TypeOK, clusterVars
  <1>20. CASE ReleaseByHand
    BY <1>20, RecordTypes DEF ReleaseByHand, TypeOK, clusterVars
  <1>21. CASE DeleteSource
    <2>1. PICK c \in Claims : claim' = [claim EXCEPT ![c] = NoClaim]
                              /\ memory' = [memory EXCEPT ![c] = 0]
      BY <1>21 DEF DeleteSource
    <2>2. claim' \in [Claims -> Claim]
      BY <2>1, RecordTypes DEF TypeOK
    <2>3. memory' \in [Claims -> Memory]
      BY <2>1, MoveAssumption DEF TypeOK, Memory, Torn
    <2> QED
      BY <1>21, <2>2, <2>3 DEF DeleteSource, TypeOK
  <1>22. CASE CreatePod
    BY <1>22, CreatePodEffect DEF CreatePod, TypeOK
  <1>23. CASE DeletePod
    BY <1>23, PodEffect DEF DeletePod, TypeOK, clusterVars
  <1>24. CASE StartAgent
    BY <1>24, PodEffect DEF StartAgent, TypeOK, clusterVars
  <1>25. CASE Serve
    <2>1. latest' \in Uids
      BY <1>25, PodEffect DEF TypeOK, Pod
    <2> QED
      BY <1>25, <2>1, PodEffect DEF Serve, TypeOK
  <1>26. CASE ExitAgent
    BY <1>26, PodEffect DEF ExitAgent, TypeOK, clusterVars
  <1>27. CASE Jobs
    <2> SUFFICES ASSUME JobKept, job' \in [MoveIds -> [JobSteps -> Job]],
                        memory' \in [Claims -> Memory]
                 PROVE  TypeOK'
      <3>1. PICK m \in MoveIds :
              \/ BeginCopy(m) \/ EndCopy(m) \/ VerifyCopy(m)
              \/ \E s \in JobSteps : FailJob(m, s) \/ LoseJob(m, s) \/ SeeJob(m, s)
        BY <1>27 DEF Jobs
      <3>2. CASE BeginCopy(m)
        BY <3>2, BeginCopyEffect DEF JobMoved, JobTo, TypeOK
      <3>3. CASE EndCopy(m)
        BY <3>3, EndCopyEffect DEF JobMoved, JobTo, MemorySet
      <3>4. CASE VerifyCopy(m)
        BY <3>4, VerifyEffect DEF JobTo, TypeOK
      <3>5. ASSUME NEW s \in JobSteps, FailJob(m, s) \/ LoseJob(m, s) \/ SeeJob(m, s)
            PROVE  JobKept /\ job' \in [MoveIds -> [JobSteps -> Job]] /\ memory' \in [Claims -> Memory]
        <4>1. CASE FailJob(m, s)
          BY <4>1, FailEffect DEF JobMoved, JobTo, MemorySet, TypeOK
        <4>2. CASE LoseJob(m, s)
          <5>1. CASE JobCut(m, s)
            BY <4>2, <5>1, LoseEffect DEF JobCut, JobMoved, JobTo, MemorySet
          <5>2. CASE JobDropped(m, s)
            <6>1. UNCHANGED memory /\ job' \in [MoveIds -> [JobSteps -> Job]]
              BY <5>2 DEF JobDropped, JobMoved, JobTo
            <6> QED
              BY <4>2, <6>1, LoseEffect DEF TypeOK
          <5> QED
            BY <4>2, <5>1, <5>2, LoseEffect
        <4>3. CASE SeeJob(m, s)
          BY <4>3, SeeEffect DEF JobMoved, JobTo, TypeOK
        <4> QED
          BY <3>5, <4>1, <4>2, <4>3
      <3> QED
        BY <3>1, <3>2, <3>3, <3>4, <3>5
    <2> QED
      BY DEF JobKept, TypeOK
  <1>28. CASE UNCHANGED vars
    BY <1>28 DEF vars, TypeOK
  <1> QED
    BY <1>1, <1>2, <1>3, <1>4, <1>5, <1>6, <1>7, <1>8, <1>9, <1>10, <1>11, <1>12, <1>13, <1>14,
       <1>15, <1>16, <1>17, <1>18, <1>19, <1>20, <1>21, <1>22, <1>23, <1>24, <1>25, <1>26, <1>27,
       <1>28
    DEF Next, Controller, People, Workload

\* In every environment, with any number of moves, Pods, changes of the spec and
\* reconciles cut short, the objects and records a move keeps have their types.
THEOREM MoveTypes == Spec => []TypeOK
  BY InitType, StepType, PTL DEF Spec

--------------------------------------------------------------------------------
(* The kinds of step, by what they do to the records of the moves.  A person *)
(* keeps the claims the memory moved off.                                    *)

Kept == "sourceDeleted" \notin Happens
Early == {"created", "copied", "verified"}
Late == {"verified", "switched", "accepted", "refused"}

\* The records are left as they are: the fence notes a writer, the own claim is made.
Alone ==
  /\ SameLinks /\ SamePhases /\ SameSources /\ SameDigests /\ SameMarks
  /\ \A c \in Claims : claim'[c].there = (claim[c].there \/ (c = 0 /\ claim'[c].there))
  /\ \A c \in Claims : ~claim'[c].there => claim'[c].writer = claim[c].writer
OpStep ==
  \/ /\ op' = op
     /\ ask' = ask \/ ask' = 0 \/ ~claim[ask'].there \/ "resumed" \in Happens
  \/ /\ ask' = ask
     /\ \/ op'.pc = "idle"
        \/ op.pc = "idle" /\ op'.pc = "fence" /\ op'.ask = ask
        \/ op.pc # "idle" /\ op'.pc \in {"move", "sts"} /\ op'.ask = op.ask
        \/ /\ Deciding /\ claim[op.ask].there /\ InUse = op.ask
           /\ op'.pc = "settle" /\ op'.ask = op.ask
        \/ /\ op.pc = "settle" /\ claim[op.ask].phase = "refused"
           /\ op'.pc = "restore" /\ op'.ask = op.ask
Onto(pc) == op'.pc = pc /\ op'.ask = op.ask /\ ask' = ask

KindKeep == OpStep /\ UNCHANGED job /\ Alone
KindBegin ==
  /\ Deciding /\ ~claim[op.ask].there /\ claim[InUse].there
  /\ TargetMade(op.ask, InUse) /\ Onto("sts") /\ UNCHANGED job
KindRefuse ==
  AdvancingOf(Early) /\ PhaseSet(op.ask, "refused") /\ Onto("sts") /\ UNCHANGED job
KindMark ==
  /\ Onto("createJob") /\ UNCHANGED job
  /\ \E phase \in {"created", "copied"} :
       /\ AdvancingOf({phase}) /\ StepOf(phase) \notin claim[op.ask].started
       /\ MarkSet(op.ask, StepOf(phase))
KindCreate ==
  /\ op.pc = "createJob" /\ Onto("sts") /\ SameClaims
  /\ op.ask \in MoveIds => JobSet(op.ask, StepOf(claim[op.ask].phase), NewJob)
KindCopied ==
  /\ AdvancingOf({"created"}) /\ job[op.ask]["copy"].state = "done"
  /\ CopiedSet(op.ask, job[op.ask]["copy"].source) /\ Onto("sts") /\ UNCHANGED job
KindVerified ==
  /\ AdvancingOf({"copied"}) /\ job[op.ask]["verify"].state = "done" /\ DigestsMatch(op.ask)
  /\ PhaseSet(op.ask, "verified") /\ Onto("sts") /\ UNCHANGED job
KindSwitch ==
  /\ AdvancingOf({"verified"}) /\ claim[claim[op.ask].source].there
  /\ LinkSet(claim[op.ask].source, op.ask) /\ Onto("settle") /\ UNCHANGED job
KindSettle ==
  /\ op.pc = "settle" /\ claim[op.ask].phase \in {"verified", "switched"}
  /\ PhaseSet(op.ask, "switched") /\ Onto("accept") /\ UNCHANGED job
KindAccept ==
  op.pc = "accept" /\ PhaseSet(op.ask, "accepted") /\ Onto("sts") /\ UNCHANGED job
KindReject ==
  op.pc = "accept" /\ PhaseSet(op.ask, "refused") /\ Onto("restore") /\ UNCHANGED job
KindRestore ==
  op.pc = "restore" /\ LinkSet(claim[op.ask].source, 0) /\ Onto("sts") /\ UNCHANGED job
\* A Job that did its work, whether its Pod can still be read or it is there at all.
Over == {"done", "unread", "gone"}
JobStep(m, s) ==
  /\ \A n \in MoveIds, t \in JobSteps : n # m \/ t # s => job'[n][t] = job[n][t]
  /\ job[m][s].state \notin {"none", "gone"}
  /\ job'[m][s].state # "none"
  /\ job'[m][s].state = "pending" => job[m][s].state = "pending"
  /\ job[m][s].state \in Over =>
       /\ job'[m][s].state \in Over
       /\ job'[m][s].source = job[m][s].source /\ job'[m][s].target = job[m][s].target
KindJob == SameClaims /\ op' = op /\ ask' = ask /\ \E m \in MoveIds, s \in JobSteps : JobStep(m, s)

Kind ==
  \/ KindKeep \/ KindBegin \/ KindRefuse \/ KindMark \/ KindCreate \/ KindCopied \/ KindVerified
  \/ KindSwitch \/ KindSettle \/ KindAccept \/ KindReject \/ KindRestore \/ KindJob

\* Claims left alone.
LEMMA AloneWhen ==
  ASSUME TypeOK, TypeOK' PROVE SameClaims => Alone
  <1>1. \A c \in Claims : claim[c].there \in BOOLEAN /\ claim'[c].there \in BOOLEAN
    BY DEF TypeOK, Claim
  <1> QED
    BY <1>1 DEF SameClaims, Alone, SameThere, SameWriters

\* A step of a Job is of one of the kinds.
LEMMA KindsOfJob ==
  ASSUME TypeOK, Jobs PROVE KindJob
  <1>1. PICK m \in MoveIds :
          \/ BeginCopy(m) \/ EndCopy(m) \/ VerifyCopy(m)
          \/ \E s \in JobSteps : FailJob(m, s) \/ LoseJob(m, s) \/ SeeJob(m, s)
    BY DEF Jobs
  <1>2. ASSUME JobKept, NEW s \in JobSteps, JobStep(m, s) PROVE KindJob
    BY <1>2, ClaimsKept DEF JobKept, KindJob
  <1>3. "copy" \in JobSteps /\ "verify" \in JobSteps
    BY DEF JobSteps
  <1>4. CASE BeginCopy(m)
    <2>1. JobKept /\ JobStep(m, "copy")
      BY <1>4, BeginCopyEffect DEF JobStep, JobMoved, JobTo, Over
    <2> QED
      BY <1>2, <1>3, <2>1
  <1>5. CASE EndCopy(m)
    <2>1. JobKept /\ JobStep(m, "copy")
      BY <1>5, EndCopyEffect DEF JobStep, JobMoved, JobTo, Over
    <2> QED
      BY <1>2, <1>3, <2>1
  <1>6. CASE VerifyCopy(m)
    <2>1. JobKept /\ JobStep(m, "verify")
      BY <1>6, VerifyEffect DEF JobStep, JobTo, Over
    <2> QED
      BY <1>2, <1>3, <2>1
  <1>7. ASSUME NEW s \in JobSteps, FailJob(m, s) \/ LoseJob(m, s) \/ SeeJob(m, s) PROVE KindJob
    <2>1. CASE FailJob(m, s)
      <3>1. JobKept /\ JobStep(m, s)
        BY <2>1, FailEffect DEF JobStep, JobMoved, JobTo, Over
      <3> QED
        BY <1>2, <3>1
    <2>2. CASE LoseJob(m, s)
      <3>1. JobKept /\ (JobCut(m, s) \/ JobDropped(m, s))
        BY <2>2, LoseEffect
      <3>2. JobCut(m, s) => JobStep(m, s)
        BY DEF JobCut, JobStep, JobMoved, JobTo, Over
      <3>3. /\ job[m][s].state \notin {"none", "gone"} /\ JobMoved(m, s, "gone", FALSE)
            => JobStep(m, s)
        BY DEF JobStep, JobMoved, JobTo, Over
      <3>4. job[m][s].state = "done" /\ JobMoved(m, s, "unread", job[m][s].seen) => JobStep(m, s)
        BY DEF JobStep, JobMoved, JobTo, Over
      <3>5. JobDropped(m, s) => JobStep(m, s)
        BY <3>3, <3>4 DEF JobDropped
      <3> QED
        BY <1>2, <3>1, <3>2, <3>5
    <2>3. CASE SeeJob(m, s)
      <3>1. JobKept /\ JobStep(m, s)
        <4>1. /\ JobKept /\ job[m][s].state \notin {"none", "gone"}
              /\ JobMoved(m, s, job[m][s].state, TRUE)
          BY <2>3, SeeEffect
        <4> QED
          BY <4>1 DEF JobStep, JobMoved, JobTo, Over
      <3> QED
        BY <1>2, <3>1
    <2> QED
      BY <1>7, <2>1, <2>2, <2>3
  <1> QED
    BY <1>1, <1>4, <1>5, <1>6, <1>7

\* Every step is of one of the kinds.
LEMMA Kinds ==
  ASSUME TypeOK, Kept, [Next]_vars PROVE Kind /\ TypeOK'
  <1>0. TypeOK'
    BY StepType
  <1> SUFFICES Kind
    BY <1>0
  <1> DEFINE Same == UNCHANGED <<ask, job>>
  <1>k. ASSUME SameClaims, OpStep, job' = job PROVE Kind
    BY <1>0, <1>k, AloneWhen DEF Kind, KindKeep
  <1>1. CASE Reconcile
    <2>1. OpStep /\ SameClaims /\ job' = job
      BY <1>1, ReconcileEffect, ClaimsKept DEF Reconcile, OpStep
    <2> QED
      BY <1>k, <2>1
  <1>2. CASE ReconcileFence
    <2>1. OpStep /\ UNCHANGED job
      BY <1>2, FenceEffect DEF ReconcileFence, OpStep
    <2>2. \A c \in Claims : claim[c].there \in BOOLEAN
      BY DEF TypeOK, Claim
    <2>3. CASE FenceNotes
      <3>1. Alone
        BY <2>2, <2>3 DEF FenceNotes, WriterSet, Alone, SameThere
      <3> QED
        BY <2>1, <3>1 DEF Kind, KindKeep
    <2>4. CASE FenceReleases
      <3>1. Alone
        BY <1>0, <2>2, <2>4, AloneWhen DEF FenceReleases, WriterSet, Alone, SameThere
      <3> QED
        BY <2>1, <3>1 DEF Kind, KindKeep
    <2>5. CASE FenceLeaves
      BY <1>k, <2>1, <2>5 DEF FenceLeaves
    <2> QED
      BY <1>2, <2>3, <2>4, <2>5, FenceEffect
  <1>3. CASE NoMove
    <2>1. OpStep /\ SameClaims /\ job' = job
      BY <1>3, NoMoveEffect, ClaimsKept DEF NoMove, OpStep
    <2> QED
      BY <1>k, <2>1
  <1>4. CASE BeginMove
    <2>1. OpStep /\ UNCHANGED job /\ Onto("sts")
      BY <1>4, BeginEffect DEF BeginMove, OpStep, OpPlan, Deciding, Onto
    <2>2. CASE SameClaims
      BY <1>k, <2>1, <2>2
    <2>3. CASE ~SameClaims
      BY <1>4, <2>1, <2>3, BeginEffect DEF Kind, KindBegin
    <2> QED
      BY <2>2, <2>3
  <1>5. CASE MoveWaits
    <2>1. OpStep /\ SameClaims /\ job' = job
      BY <1>5, WaitsEffect, ClaimsKept DEF MoveWaits, OpStep, Waiting, OpPlan, Deciding
    <2> QED
      BY <1>k, <2>1
  <1>r. ASSUME Refusing, Same PROVE Kind
    BY <1>r DEF Refusing, Kind, KindRefuse, Early, Onto, OpPlan
  <1>6. CASE RefuseSourceChanged
    BY <1>6, <1>r, RefuseEffect DEF RefuseSourceChanged
  <1>7. CASE EnsureMoveJob
    <2>1. Same
      BY <1>7 DEF EnsureMoveJob
    <2>2. CASE Marking
      <3>1. KindMark
        BY <2>1, <2>2 DEF Marking, KindMark, Onto, OpPlan
      <3> QED
        BY <3>1 DEF Kind
    <2>3. CASE Waiting
      <3>1. OpStep /\ SameClaims
        BY <2>1, <2>3, ClaimsKept DEF OpStep, Waiting, OpPlan, Deciding
      <3> QED
        BY <1>k, <2>1, <3>1
    <2> QED
      BY <1>7, <1>r, <2>1, <2>2, <2>3, EnsureEffect
  <1>8. CASE CreateJob
    <2>1. KindCreate
      BY <1>8, CreateJobEffect, ClaimsKept DEF CreateJob, KindCreate, Onto, OpAt
    <2> QED
      BY <2>1 DEF Kind
  <1>9. CASE RecordCopied
    <2>1. KindCopied
      BY <1>9, CopiedEffect DEF RecordCopied, KindCopied, Onto, OpPlan
    <2> QED
      BY <2>1 DEF Kind
  <1>10. CASE RecordVerified
    <2>1. KindVerified \/ KindRefuse
      BY <1>10, VerifiedEffect
      DEF RecordVerified, KindVerified, KindRefuse, Onto, OpPlan, AdvancingOf, Early
    <2> QED
      BY <2>1 DEF Kind
  <1>11. CASE SwitchMove
    <2>1. KindSwitch
      BY <1>11, SwitchEffect DEF SwitchMove, KindSwitch, Onto, OpPlan, sourceUnchanged
    <2> QED
      BY <2>1 DEF Kind
  <1>12. CASE FindSwitched
    <2>1. OpStep /\ SameClaims /\ job' = job
      BY <1>12, FindEffect, ClaimsKept DEF FindSwitched, OpStep, OpPlan
    <2> QED
      BY <1>k, <2>1
  <1>13. CASE SettleMove
    <2>1. Same
      BY <1>13 DEF SettleMove
    <2>2. CASE claim[op.ask].phase \in {"verified", "switched"} /\ PhaseSet(op.ask, "switched")
               /\ OpAt("accept")
      <3>1. KindSettle
        BY <1>13, <2>1, <2>2, SettleEffect DEF KindSettle, Onto, OpAt
      <3> QED
        BY <3>1 DEF Kind
    <2>3. CASE claim[op.ask].phase = "accepted" /\ SameClaims /\ OpAt("sts")
      <3>1. OpStep
        BY <1>13, <2>1, <2>3, SettleEffect DEF OpStep, OpAt
      <3> QED
        BY <1>k, <2>1, <2>3, <3>1
    <2>4. CASE claim[op.ask].phase = "refused" /\ SameClaims /\ OpAt("restore")
      <3>1. OpStep
        BY <1>13, <2>1, <2>4, SettleEffect DEF OpStep, OpAt
      <3> QED
        BY <1>k, <2>1, <2>4, <3>1
    <2> QED
      BY <1>13, <2>2, <2>3, <2>4, SettleEffect
  <1>14. CASE ReadFirstPod
    <2>1. Same
      BY <1>14 DEF ReadFirstPod
    <2>2. CASE PhaseSet(op.ask, "refused") /\ OpAt("restore")
      <3>1. KindReject
        BY <1>14, <2>1, <2>2, ReadEffect DEF KindReject, Onto, OpAt
      <3> QED
        BY <3>1 DEF Kind
    <2>3. CASE PhaseSet(op.ask, "accepted") /\ OpAt("sts")
      <3>1. KindAccept
        BY <1>14, <2>1, <2>3, ReadEffect DEF KindAccept, Onto, OpAt
      <3> QED
        BY <3>1 DEF Kind
    <2>4. CASE UNCHANGED claim /\ OpAt("sts")
      <3>1. OpStep /\ SameClaims
        BY <1>14, <2>1, <2>4, ReadEffect, ClaimsKept DEF OpStep, OpAt
      <3> QED
        BY <1>k, <2>1, <2>4, <3>1
    <2> QED
      BY <1>14, <2>2, <2>3, <2>4, ReadEffect
  <1>15. CASE RestoreSource
    <2>1. Same
      BY <1>15 DEF RestoreSource
    <2>2. CASE OpPlan("sts", claim[op.ask].source, TRUE) /\ LinkSet(claim[op.ask].source, 0)
      <3>1. KindRestore
        BY <1>15, <2>1, <2>2, RestoreEffect DEF KindRestore, Onto, OpPlan
      <3> QED
        BY <3>1 DEF Kind
    <2>3. CASE op' = Idle /\ SameClaims
      <3>1. OpStep
        BY <2>1, <2>3 DEF OpStep, Idle
      <3> QED
        BY <1>k, <2>1, <2>3, <3>1
    <2> QED
      BY <1>15, <2>2, <2>3, RestoreEffect
  <1>16. CASE ReconcileStatefulSet
    <2>1. OpStep /\ SameClaims /\ job' = job
      BY <1>16, ClaimsKept DEF ReconcileStatefulSet, OpStep, Idle
    <2> QED
      BY <1>k, <2>1
  <1>17. CASE CutShort
    <2>1. OpStep /\ SameClaims /\ job' = job
      BY <1>17, ClaimsKept DEF CutShort, OpStep, Idle
    <2> QED
      BY <1>k, <2>1
  <1>18. CASE AskMove
    <2>1. OpStep /\ SameClaims /\ job' = job
      BY <1>18, ClaimsKept DEF AskMove, OpStep
    <2> QED
      BY <1>k, <2>1
  <1>19. CASE ChangeHeld \/ ReleaseByHand \/ DeletePod \/ StartAgent \/ Serve \/ ExitAgent
              \/ UNCHANGED vars
    <2>1. UNCHANGED <<ask, op, claim, job>>
      BY <1>19 DEF ChangeHeld, ReleaseByHand, DeletePod, StartAgent, Serve, ExitAgent, vars
    <2>2. OpStep /\ SameClaims /\ job' = job
      BY <2>1, ClaimsKept DEF OpStep
    <2> QED
      BY <1>k, <2>2
  <1>20. CASE DeleteSource
    BY <1>20 DEF DeleteSource, Kept
  <1>21. CASE CreatePod
    <2>1. OpStep /\ UNCHANGED job
      BY <1>21 DEF CreatePod, OpStep
    <2>2. CASE SameClaims
      BY <1>k, <2>1, <2>2
    <2>3. CASE OwnMade
      <3>1. \A c \in Claims : claim[c].there \in BOOLEAN
        BY DEF TypeOK, Claim
      <3>2. Alone
        BY <2>3, <3>1 DEF OwnMade, Alone, SameWriters
      <3> QED
        BY <2>1, <3>2 DEF Kind, KindKeep
    <2> QED
      BY <1>21, <2>2, <2>3, CreatePodEffect
  <1>22. CASE Jobs
    BY <1>22, KindsOfJob DEF Kind
  <1> QED
    BY <1>1, <1>2, <1>3, <1>4, <1>5, <1>6, <1>7, <1>8, <1>9, <1>10, <1>11, <1>12, <1>13, <1>14,
       <1>15, <1>16, <1>17, <1>18, <1>19, <1>20, <1>21, <1>22
    DEF Next, Controller, People, Workload

--------------------------------------------------------------------------------
(* The records of the moves                                                  *)

\* The move's source names its target.
Linked(m) == m # 0 /\ claim[claim[m].source].movedTo = m

\* A claim that is not there carries no record.
UnmadeBlank ==
  \A c \in Claims : ~claim[c].there =>
    claim[c].movedTo = 0 /\ claim[c].phase = "none" /\ claim[c].started = {} /\ claim[c].writer = NoWriter
\* A link is to a copy of the claim it is on, and the copy came through its verification.
LinksRecorded ==
  \A c \in Claims : claim[c].movedTo # 0 =>
    LET m == claim[c].movedTo
    IN claim[m].there /\ claim[m].source = c /\ claim[m].phase \in Late
\* The claim a target is copied from is there.
SourcesThere == \A m \in MoveIds : claim[m].there => claim[claim[m].source].there
\* A Job was marked before it was made, the verification's after the copy was recorded.
JobsMarked ==
  \A m \in MoveIds :
    /\ \A s \in JobSteps : s \notin claim[m].started => job[m][s].state = "none"
    /\ "verify" \in claim[m].started => claim[m].phase # "created"
\* The verification of a copy that passed it is over, and says what it said.
VerifiedOnce ==
  \A m \in MoveIds :
    claim[m].phase \in {"verified", "switched", "accepted"} \/ Linked(m) =>
      job[m]["verify"].state \in Over /\ DigestsMatch(m)
\* What the reconcile knows where it is.
StepsKnown ==
  /\ op.pc \in {"createJob", "settle", "accept", "restore"} =>
       op.ask \in MoveIds /\ claim[op.ask].there
  /\ op.pc = "createJob" =>
       LET s == StepOf(claim[op.ask].phase)
       IN /\ claim[op.ask].phase \in {"created", "copied"}
          /\ s \in claim[op.ask].started /\ job[op.ask][s].state = "none"
  /\ op.pc = "accept" => claim[op.ask].phase = "switched"
  /\ op.pc = "restore" => claim[op.ask].phase = "refused"
Records ==
  UnmadeBlank /\ LinksRecorded /\ SourcesThere /\ JobsMarked /\ VerifiedOnce /\ StepsKnown

\* The types of the fields the records are in.
LEMMA FieldTypes ==
  ASSUME TypeOK
  PROVE  /\ \A c \in Claims :
              /\ claim[c].there \in BOOLEAN /\ claim[c].movedTo \in Claims
              /\ claim[c].source \in Claims /\ claim[c].phase \in Phases
         /\ op.ask \in Claims /\ ask \in Claims
         /\ \A c \in Claims : claim[c].movedTo # 0 => claim[c].movedTo \in MoveIds
  <1>1. \A c \in Claims : claim[c] \in Claim
    BY DEF TypeOK
  <1>2. op \in Operation /\ ask \in Claims
    BY DEF TypeOK
  <1> QED
    BY <1>1, <1>2, ClaimNumbers DEF Claim, Operation

\* UnmadeBlank is kept.
LEMMA UnmadeStep ==
  ASSUME TypeOK, Records, Kind PROVE UnmadeBlank'
  <1> SUFFICES ASSUME NEW c \in Claims, ~claim'[c].there
               PROVE  /\ claim'[c].movedTo = 0 /\ claim'[c].phase = "none"
                      /\ claim'[c].started = {} /\ claim'[c].writer = NoWriter
    BY DEF UnmadeBlank
  <1> USE ClaimNumbers, FieldTypes DEF Records, UnmadeBlank, StepsKnown
  <1>1. CASE KindKeep
    BY <1>1 DEF KindKeep, Alone, SameLinks, SamePhases, SameMarks
  <1>2. CASE KindBegin
    BY <1>2 DEF KindBegin, TargetMade, Deciding
  <1>3. CASE KindRefuse
    BY <1>3 DEF KindRefuse, PhaseSet, AdvancingOf, Deciding, Early, SameThere, SameLinks, SameMarks, SameWriters
  <1>4. CASE KindMark
    <2>1. PICK phase \in {"created", "copied"} :
            AdvancingOf({phase}) /\ StepOf(phase) \notin claim[op.ask].started
            /\ MarkSet(op.ask, StepOf(phase))
      BY <1>4 DEF KindMark
    <2>2. claim[op.ask].there /\ c # op.ask
      BY <2>1 DEF AdvancingOf, MarkSet, SameThere
    <2>3. claim'[c].started = claim[c].started /\ ~claim[c].there
      BY <2>1, <2>2 DEF MarkSet, SameThere
    <2> QED
      BY <2>1, <2>3 DEF MarkSet, SameLinks, SamePhases, SameWriters
  <1>5. CASE KindCreate
    BY <1>5 DEF KindCreate, SameClaims, SameThere, SameLinks, SamePhases, SameMarks, SameWriters
  <1>6. CASE KindCopied
    BY <1>6 DEF KindCopied, CopiedSet, AdvancingOf, Deciding, SameThere, SameLinks, SameMarks, SameWriters
  <1>7. CASE KindVerified
    BY <1>7 DEF KindVerified, PhaseSet, AdvancingOf, Deciding, SameThere, SameLinks, SameMarks, SameWriters
  <1>8. CASE KindSwitch
    <2>1. claim[claim[op.ask].source].there /\ claim[c].there = claim'[c].there
      BY <1>8 DEF KindSwitch, LinkSet, SameThere
    <2> QED
      BY <1>8, <2>1 DEF KindSwitch, LinkSet, SamePhases, SameMarks, SameWriters
  <1>9. CASE KindSettle
    BY <1>9 DEF KindSettle, PhaseSet, SameThere, SameLinks, SameMarks, SameWriters
  <1>10. CASE KindAccept
    <2>1. op.ask \in MoveIds /\ claim[op.ask].there /\ c # op.ask
      BY <1>10 DEF KindAccept, PhaseSet, SameThere
    <2> QED
      BY <1>10, <2>1 DEF KindAccept, PhaseSet, SameThere, SameLinks, SameMarks, SameWriters
  <1>11. CASE KindReject
    <2>1. op.ask \in MoveIds /\ claim[op.ask].there /\ c # op.ask
      BY <1>11 DEF KindReject, PhaseSet, SameThere
    <2> QED
      BY <1>11, <2>1 DEF KindReject, PhaseSet, SameThere, SameLinks, SameMarks, SameWriters
  <1>12. CASE KindRestore
    BY <1>12 DEF KindRestore, LinkSet, SameThere, SamePhases, SameMarks, SameWriters
  <1>13. CASE KindJob
    BY <1>13 DEF KindJob, SameClaims, SameThere, SameLinks, SamePhases, SameMarks, SameWriters
  <1> QED
    BY <1>1, <1>2, <1>3, <1>4, <1>5, <1>6, <1>7, <1>8, <1>9, <1>10, <1>11, <1>12, <1>13 DEF Kind

\* LinksRecorded is kept.
LEMMA LinksStep ==
  ASSUME TypeOK, Records, Kind PROVE LinksRecorded'
  <1> SUFFICES ASSUME NEW c \in Claims, NEW m, m = claim'[c].movedTo, m # 0
               PROVE  claim'[m].there /\ claim'[m].source = c /\ claim'[m].phase \in Late
    BY DEF LinksRecorded
  <1>l. /\ claim[c].movedTo \in Claims
        /\ claim[c].movedTo # 0 =>
             /\ claim[claim[c].movedTo].there
             /\ claim[claim[c].movedTo].source = c
             /\ claim[claim[c].movedTo].phase \in Late
    BY ClaimNumbers, FieldTypes DEF Records, LinksRecorded
  \* A step that keeps the link, and what is recorded of the target.
  <1>k. ASSUME claim'[c].movedTo = claim[c].movedTo,
               claim[m].there => claim'[m].there,
               claim'[m].source = claim[m].source, claim[m].phase \in Late => claim'[m].phase \in Late
        PROVE  claim'[m].there /\ claim'[m].source = c /\ claim'[m].phase \in Late
    BY <1>l, <1>k
  <1>1. CASE KindKeep
    <2>1. claim'[c].movedTo = claim[c].movedTo /\ m \in Claims
      BY <1>1, <1>l DEF KindKeep, Alone, SameLinks
    <2>2. /\ (claim[m].there => claim'[m].there)
          /\ claim'[m].source = claim[m].source /\ claim'[m].phase = claim[m].phase
      BY <1>1, <2>1 DEF KindKeep, Alone, SamePhases, SameSources
    <2> QED
      BY <1>k, <2>1, <2>2
  <1>2. CASE KindBegin
    BY <1>2, ClaimNumbers, FieldTypes
    DEF KindBegin, TargetMade, Deciding, UnmadeBlank, Records, LinksRecorded, Late
  <1>3. CASE KindRefuse
    <2>1. claim'[c].movedTo = claim[c].movedTo /\ m \in Claims
      BY <1>3, <1>l DEF KindRefuse, PhaseSet, SameLinks
    <2>2. /\ claim'[m].there = claim[m].there /\ claim'[m].source = claim[m].source
          /\ claim'[m].phase \in {claim[m].phase, "refused"}
      BY <1>3, <2>1 DEF KindRefuse, PhaseSet, SameThere, SameSources
    <2> QED
      BY <1>k, <2>1, <2>2 DEF Late
  <1>4. CASE KindMark
    <2>1. claim'[c].movedTo = claim[c].movedTo /\ m \in Claims
      BY <1>4, <1>l DEF KindMark, MarkSet, SameLinks
    <2>2. /\ (claim[m].there => claim'[m].there)
          /\ claim'[m].source = claim[m].source /\ claim'[m].phase = claim[m].phase
      BY <1>4, <2>1 DEF KindMark, MarkSet, SameThere, SamePhases, SameSources
    <2> QED
      BY <1>k, <2>1, <2>2
  <1>5. CASE KindCreate
    <2>1. claim'[c].movedTo = claim[c].movedTo /\ m \in Claims
      BY <1>5, <1>l DEF KindCreate, SameClaims, SameLinks
    <2>2. /\ (claim[m].there => claim'[m].there)
          /\ claim'[m].source = claim[m].source /\ claim'[m].phase = claim[m].phase
      BY <1>5, <2>1 DEF KindCreate, SameClaims, SameThere, SamePhases, SameSources
    <2> QED
      BY <1>k, <2>1, <2>2
  <1>6. CASE KindCopied
    <2>1. claim'[c].movedTo = claim[c].movedTo /\ m \in Claims
      BY <1>6, <1>l DEF KindCopied, CopiedSet, SameLinks
    <2>2. m # op.ask
      BY <1>6, <1>l, <2>1 DEF KindCopied, AdvancingOf, Deciding, Late
    <2>3. /\ claim'[m].there = claim[m].there /\ claim'[m].source = claim[m].source
          /\ claim'[m].phase = claim[m].phase
      BY <1>6, <2>1, <2>2 DEF KindCopied, CopiedSet, SameThere, SameSources
    <2> QED
      BY <1>k, <2>1, <2>3
  <1>7. CASE KindVerified
    <2>1. claim'[c].movedTo = claim[c].movedTo /\ m \in Claims
      BY <1>7, <1>l DEF KindVerified, PhaseSet, SameLinks
    <2>2. /\ claim'[m].there = claim[m].there /\ claim'[m].source = claim[m].source
          /\ claim'[m].phase \in {claim[m].phase, "verified"}
      BY <1>7, <2>1 DEF KindVerified, PhaseSet, SameThere, SameSources
    <2> QED
      BY <1>k, <2>1, <2>2 DEF Late
  <1>8. CASE KindSwitch
    <2>1. op.ask \in MoveIds /\ claim[op.ask].there /\ claim[op.ask].phase = "verified"
      BY <1>8 DEF KindSwitch, AdvancingOf, Deciding
    <2>2. op.ask \in Claims
      BY <2>1, ClaimNumbers
    <2>3. CASE c = claim[op.ask].source
      <3>1. m = op.ask
        BY <1>8, <2>3 DEF KindSwitch, LinkSet
      <3> QED
        BY <1>8, <2>1, <2>2, <2>3, <3>1 DEF KindSwitch, LinkSet, SameThere, SamePhases, SameSources, Late
    <2>4. CASE c # claim[op.ask].source
      <3>1. claim'[c].movedTo = claim[c].movedTo /\ m \in Claims
        BY <1>8, <1>l, <2>4 DEF KindSwitch, LinkSet
      <3>2. /\ claim'[m].there = claim[m].there /\ claim'[m].source = claim[m].source
            /\ claim'[m].phase = claim[m].phase
        BY <1>8, <3>1 DEF KindSwitch, LinkSet, SameThere, SamePhases, SameSources
      <3> QED
        BY <1>k, <3>1, <3>2
    <2> QED
      BY <2>3, <2>4
  <1>9. CASE KindSettle
    <2>1. claim'[c].movedTo = claim[c].movedTo /\ m \in Claims
      BY <1>9, <1>l DEF KindSettle, PhaseSet, SameLinks
    <2>2. /\ claim'[m].there = claim[m].there /\ claim'[m].source = claim[m].source
          /\ claim'[m].phase \in {claim[m].phase, "switched"}
      BY <1>9, <2>1 DEF KindSettle, PhaseSet, SameThere, SameSources
    <2> QED
      BY <1>k, <2>1, <2>2 DEF Late
  <1>10. CASE KindAccept
    <2>1. claim'[c].movedTo = claim[c].movedTo /\ m \in Claims
      BY <1>10, <1>l DEF KindAccept, PhaseSet, SameLinks
    <2>2. /\ claim'[m].there = claim[m].there /\ claim'[m].source = claim[m].source
          /\ claim'[m].phase \in {claim[m].phase, "accepted"}
      BY <1>10, <2>1 DEF KindAccept, PhaseSet, SameThere, SameSources
    <2> QED
      BY <1>k, <2>1, <2>2 DEF Late
  <1>11. CASE KindReject
    <2>1. claim'[c].movedTo = claim[c].movedTo /\ m \in Claims
      BY <1>11, <1>l DEF KindReject, PhaseSet, SameLinks
    <2>2. /\ claim'[m].there = claim[m].there /\ claim'[m].source = claim[m].source
          /\ claim'[m].phase \in {claim[m].phase, "refused"}
      BY <1>11, <2>1 DEF KindReject, PhaseSet, SameThere, SameSources
    <2> QED
      BY <1>k, <2>1, <2>2 DEF Late
  <1>12. CASE KindRestore
    <2>1. claim'[c].movedTo = claim[c].movedTo /\ m \in Claims
      BY <1>12, <1>l DEF KindRestore, LinkSet
    <2>2. /\ claim'[m].there = claim[m].there /\ claim'[m].source = claim[m].source
          /\ claim'[m].phase = claim[m].phase
      BY <1>12, <2>1 DEF KindRestore, LinkSet, SameThere, SamePhases, SameSources
    <2> QED
      BY <1>k, <2>1, <2>2
  <1>13. CASE KindJob
    <2>1. claim'[c].movedTo = claim[c].movedTo /\ m \in Claims
      BY <1>13, <1>l DEF KindJob, SameClaims, SameLinks
    <2>2. /\ claim'[m].there = claim[m].there /\ claim'[m].source = claim[m].source
          /\ claim'[m].phase = claim[m].phase
      BY <1>13, <2>1 DEF KindJob, SameClaims, SameThere, SamePhases, SameSources
    <2> QED
      BY <1>k, <2>1, <2>2
  <1> QED
    BY <1>1, <1>2, <1>3, <1>4, <1>5, <1>6, <1>7, <1>8, <1>9, <1>10, <1>11, <1>12, <1>13 DEF Kind

\* SourcesThere is kept.
LEMMA SourcesStep ==
  ASSUME TypeOK, Records, Kind PROVE SourcesThere'
  <1> SUFFICES ASSUME NEW m \in MoveIds, claim'[m].there
               PROVE  claim'[claim'[m].source].there
    BY DEF SourcesThere
  <1> USE ClaimNumbers, FieldTypes DEF Records, SourcesThere
  <1>1. CASE KindKeep
    <2>1. m # 0 /\ claim[m].there /\ claim'[m].source = claim[m].source
      BY <1>1 DEF KindKeep, Alone, SameSources, MoveIds
    <2>2. claim[claim[m].source].there
      BY <2>1
    <2> QED
      BY <1>1, <2>1, <2>2 DEF KindKeep, Alone
  <1>2. CASE KindBegin
    <2>1. op.ask \in MoveIds /\ ~claim[op.ask].there /\ claim[InUse].there /\ InUse \in Claims
      BY <1>2, InUseType DEF KindBegin, Deciding, TypeOK
    <2>2. CASE m = op.ask
      BY <1>2, <2>1, <2>2 DEF KindBegin, TargetMade
    <2>3. CASE m # op.ask
      <3>1. claim'[m] = claim[m] /\ claim[claim[m].source].there
        BY <1>2, <2>3 DEF KindBegin, TargetMade
      <3> QED
        BY <1>2, <2>1, <3>1, SMTT(20) DEF KindBegin, TargetMade
    <2> QED
      BY <2>2, <2>3
  <1>3. CASE KindRefuse
    BY <1>3 DEF KindRefuse, PhaseSet, AdvancingOf, Deciding, Early, SameThere, SameSources
  <1>4. CASE KindMark
    BY <1>4 DEF KindMark, MarkSet, AdvancingOf, Deciding, SameThere, SameSources
  <1>5. CASE KindCreate
    BY <1>5 DEF KindCreate, SameClaims, SameThere, SameSources
  <1>6. CASE KindCopied
    BY <1>6 DEF KindCopied, CopiedSet, AdvancingOf, Deciding, SameThere, SameSources
  <1>7. CASE KindVerified
    BY <1>7 DEF KindVerified, PhaseSet, AdvancingOf, Deciding, SameThere, SameSources
  <1>8. CASE KindSwitch
    BY <1>8 DEF KindSwitch, LinkSet, AdvancingOf, Deciding, SameThere, SameSources
  <1>9. CASE KindSettle
    BY <1>9 DEF KindSettle, PhaseSet, SameThere, SameSources
  <1>10. CASE KindAccept
    BY <1>10 DEF KindAccept, PhaseSet, SameThere, SameSources
  <1>11. CASE KindReject
    BY <1>11 DEF KindReject, PhaseSet, SameThere, SameSources
  <1>12. CASE KindRestore
    BY <1>12 DEF KindRestore, LinkSet, SameThere, SameSources
  <1>13. CASE KindJob
    BY <1>13 DEF KindJob, SameClaims, SameThere, SameSources
  <1> QED
    BY <1>1, <1>2, <1>3, <1>4, <1>5, <1>6, <1>7, <1>8, <1>9, <1>10, <1>11, <1>12, <1>13 DEF Kind

\* JobsMarked is kept.
LEMMA JobsStep ==
  ASSUME TypeOK, Records, Kind PROVE JobsMarked'
  <1> SUFFICES ASSUME NEW m \in MoveIds
               PROVE  /\ \A s \in JobSteps : s \notin claim'[m].started => job'[m][s].state = "none"
                      /\ "verify" \in claim'[m].started => claim'[m].phase # "created"
    BY DEF JobsMarked
  <1> USE ClaimNumbers, FieldTypes DEF Records, JobsMarked
  <1>1. CASE KindKeep
    BY <1>1 DEF KindKeep, Alone, SamePhases, SameMarks
  <1>2. CASE KindBegin
    BY <1>2 DEF KindBegin, TargetMade, Deciding, UnmadeBlank
  <1>3. CASE KindRefuse
    BY <1>3 DEF KindRefuse, PhaseSet, AdvancingOf, Deciding, Early, SameMarks
  <1>4. CASE KindMark
    <2>1. PICK phase \in {"created", "copied"} :
            AdvancingOf({phase}) /\ StepOf(phase) \notin claim[op.ask].started
            /\ MarkSet(op.ask, StepOf(phase))
      BY <1>4 DEF KindMark
    <2>2. "verify" = StepOf(phase) => claim[op.ask].phase = "copied"
      BY <2>1 DEF AdvancingOf, StepOf
    <2>3. \A s \in JobSteps : s \notin claim'[m].started => s \notin claim[m].started
      BY <2>1 DEF MarkSet
    <2>4. "verify" \in claim'[m].started =>
            "verify" \in claim[m].started \/ (m = op.ask /\ "verify" = StepOf(phase))
      BY <2>1 DEF MarkSet
    <2>5. claim'[m].phase = claim[m].phase
      BY <2>1 DEF MarkSet, SamePhases
    <2> QED
      BY <1>4, <2>2, <2>3, <2>4, <2>5 DEF KindMark
  <1>5. CASE KindCreate
    BY <1>5 DEF KindCreate, SameClaims, SamePhases, SameMarks, StepsKnown, JobSet, StepOf, JobSteps
  <1>6. CASE KindCopied
    BY <1>6 DEF KindCopied, CopiedSet, AdvancingOf, Deciding, SameMarks
  <1>7. CASE KindVerified
    BY <1>7 DEF KindVerified, PhaseSet, AdvancingOf, Deciding, SameMarks
  <1>8. CASE KindSwitch
    BY <1>8 DEF KindSwitch, LinkSet, AdvancingOf, Deciding, SamePhases, SameMarks
  <1>9. CASE KindSettle
    BY <1>9 DEF KindSettle, PhaseSet, SameMarks
  <1>10. CASE KindAccept
    BY <1>10 DEF KindAccept, PhaseSet, SameMarks
  <1>11. CASE KindReject
    BY <1>11 DEF KindReject, PhaseSet, SameMarks
  <1>12. CASE KindRestore
    BY <1>12 DEF KindRestore, LinkSet, SamePhases, SameMarks
  <1>13. CASE KindJob
    BY <1>13 DEF KindJob, SameClaims, SamePhases, SameMarks, JobStep
  <1> QED
    BY <1>1, <1>2, <1>3, <1>4, <1>5, <1>6, <1>7, <1>8, <1>9, <1>10, <1>11, <1>12, <1>13 DEF Kind

\* VerifiedOnce is kept.
LEMMA VerifiedStep ==
  ASSUME TypeOK, Records, Kind PROVE VerifiedOnce'
  <1> DEFINE Passed == {"verified", "switched", "accepted"}
             Held(m) == claim[m].phase \in Passed \/ claim[claim[m].source].movedTo = m
  <1> SUFFICES ASSUME NEW m \in MoveIds,
                      \/ claim'[m].phase \in Passed
                      \/ claim'[claim'[m].source].movedTo = m
               PROVE  /\ job'[m]["verify"].state \in Over
                      /\ job'[m]["verify"].source = claim'[m].digest
                      /\ job'[m]["verify"].target = job'[m]["verify"].source
    BY DEF VerifiedOnce, Linked, DigestsMatch
  <1>t. /\ m \in Claims /\ m # 0 /\ claim[m].source \in Claims /\ op.ask \in Claims
        /\ op.ask # 0 => op.ask \in MoveIds
    BY ClaimNumbers, FieldTypes DEF MoveIds
  <1>v. \A n \in MoveIds : Held(n) =>
          /\ job[n]["verify"].state \in Over
          /\ job[n]["verify"].source = claim[n].digest
          /\ job[n]["verify"].target = job[n]["verify"].source
    <2>1. \A n \in MoveIds : n # 0
      BY DEF MoveIds
    <2> QED
      BY <2>1 DEF Records, VerifiedOnce, Linked, DigestsMatch
  \* A step that leaves the verification and what it is about, and passes no copy.
  <1>k. ASSUME job' = job, claim'[m].source = claim[m].source, claim'[m].digest = claim[m].digest,
               claim'[m].phase \in Passed => Held(m),
               claim'[claim[m].source].movedTo = m => Held(m)
        PROVE  /\ job'[m]["verify"].state \in Over
               /\ job'[m]["verify"].source = claim'[m].digest
               /\ job'[m]["verify"].target = job'[m]["verify"].source
    <2>1. Held(m)
      BY <1>k
    <2> QED
      BY <1>k, <1>v, <2>1
  <1>1. CASE KindKeep
    <2>1. /\ job' = job /\ claim'[m].source = claim[m].source /\ claim'[m].digest = claim[m].digest
          /\ claim'[m].phase = claim[m].phase
          /\ claim'[claim[m].source].movedTo = claim[claim[m].source].movedTo
      BY <1>1, <1>t DEF KindKeep, Alone, SameLinks, SamePhases, SameSources, SameDigests
    <2> QED
      BY <1>k, <2>1
  <1>2. CASE KindBegin
    <2>1. op.ask \in MoveIds /\ ~claim[op.ask].there /\ InUse \in Claims
      BY <1>2, InUseType DEF KindBegin, Deciding, TypeOK
    <2>2. \A d \in Claims : claim[d].movedTo # op.ask
      BY <2>1 DEF Records, LinksRecorded, MoveIds
    <2>3. \A d \in Claims : claim'[d].movedTo # op.ask
      BY <1>2, <2>1, <2>2, ClaimNumbers, FieldTypes DEF KindBegin, TargetMade, MoveIds
    <2>4. claim'[op.ask].phase = "created" /\ claim'[op.ask].source \in Claims
      BY <1>2, <2>1, ClaimNumbers DEF KindBegin, TargetMade
    <2>5. m # op.ask
      BY <2>3, <2>4
    <2>6. claim'[m] = claim[m] /\ claim'[claim[m].source].movedTo \in {0, claim[claim[m].source].movedTo}
      BY <1>2, <1>t, <2>5 DEF KindBegin, TargetMade
    <2>7. job' = job
      BY <1>2 DEF KindBegin
    <2> QED
      BY <1>k, <1>t, <2>6, <2>7
  <1>3. CASE KindRefuse
    <2>1. /\ job' = job /\ claim'[m].source = claim[m].source /\ claim'[m].digest = claim[m].digest
          /\ claim'[m].phase \in {"refused", claim[m].phase}
          /\ claim'[claim[m].source].movedTo = claim[claim[m].source].movedTo
      BY <1>3, <1>t DEF KindRefuse, PhaseSet, SameLinks, SameSources, SameDigests
    <2> QED
      BY <1>k, <2>1
  <1>4. CASE KindMark
    <2>1. /\ job' = job /\ claim'[m].source = claim[m].source /\ claim'[m].digest = claim[m].digest
          /\ claim'[m].phase = claim[m].phase
          /\ claim'[claim[m].source].movedTo = claim[claim[m].source].movedTo
      BY <1>4, <1>t DEF KindMark, MarkSet, SameLinks, SamePhases, SameSources, SameDigests
    <2> QED
      BY <1>k, <2>1
  <1>5. CASE KindCreate
    <2>1. /\ claim'[m].source = claim[m].source /\ claim'[m].digest = claim[m].digest
          /\ claim'[m].phase = claim[m].phase
          /\ claim'[claim[m].source].movedTo = claim[claim[m].source].movedTo
      BY <1>5, <1>t DEF KindCreate, SameClaims, SameLinks, SamePhases, SameSources, SameDigests
    <2>2. job[m]["verify"].state \in Over /\ Held(m)
      BY <1>v, <2>1
    <2>3. op.ask \in MoveIds /\ job[op.ask][StepOf(claim[op.ask].phase)].state = "none"
      BY <1>5 DEF KindCreate, Records, StepsKnown
    <2>4. ~(m = op.ask /\ "verify" = StepOf(claim[op.ask].phase))
      BY <2>2, <2>3 DEF Over
    <2>5. job'[m]["verify"] = job[m]["verify"]
      BY <1>5, <2>3, <2>4 DEF KindCreate, JobSet, JobSteps
    <2> QED
      BY <1>v, <2>1, <2>2, <2>5
  <1>6. CASE KindCopied
    <2>1. op.ask \in MoveIds /\ claim[op.ask].phase = "created"
      BY <1>6 DEF KindCopied, AdvancingOf, Deciding
    <2>2. claim[claim[op.ask].source].movedTo # op.ask
      <3>1. claim[op.ask].source \in Claims /\ op.ask # 0
        BY <2>1, ClaimNumbers, FieldTypes DEF MoveIds
      <3>2. claim[op.ask].phase \notin Late
        BY <2>1 DEF Late
      <3> QED
        BY <3>1, <3>2 DEF Records, LinksRecorded
    <2>3. /\ job' = job /\ claim'[m].source = claim[m].source
          /\ claim'[m].phase = IF m = op.ask THEN "copied" ELSE claim[m].phase
          /\ claim'[claim[m].source].movedTo = claim[claim[m].source].movedTo
      BY <1>6, <1>t DEF KindCopied, CopiedSet, SameLinks, SameSources
    <2>4. m # op.ask
      BY <2>2, <2>3
    <2>5. claim'[m].digest = claim[m].digest
      BY <1>6, <1>t, <2>4 DEF KindCopied, CopiedSet
    <2> QED
      BY <1>k, <2>3, <2>4, <2>5
  <1>7. CASE KindVerified
    <2>1. /\ job' = job /\ claim'[m].source = claim[m].source /\ claim'[m].digest = claim[m].digest
          /\ m # op.ask => claim'[m].phase = claim[m].phase
          /\ claim'[claim[m].source].movedTo = claim[claim[m].source].movedTo
      BY <1>7, <1>t DEF KindVerified, PhaseSet, SameLinks, SameSources, SameDigests
    <2>2. CASE m = op.ask
      BY <1>7, <2>1, <2>2 DEF KindVerified, DigestsMatch, Over
    <2>3. CASE m # op.ask
      BY <1>k, <2>1, <2>3
    <2> QED
      BY <2>2, <2>3
  <1>8. CASE KindSwitch
    <2>1. op.ask \in MoveIds /\ claim[op.ask].phase = "verified"
      BY <1>8 DEF KindSwitch, AdvancingOf, Deciding
    <2>2. /\ job' = job /\ claim'[m].source = claim[m].source /\ claim'[m].digest = claim[m].digest
          /\ claim'[m].phase = claim[m].phase
          /\ claim'[claim[m].source].movedTo \in {op.ask, claim[claim[m].source].movedTo}
      BY <1>8, <1>t DEF KindSwitch, LinkSet, SamePhases, SameSources, SameDigests
    <2> QED
      BY <1>k, <2>1, <2>2
  <1>9. CASE KindSettle
    <2>1. op.pc = "settle" /\ claim[op.ask].phase \in {"verified", "switched"}
      BY <1>9 DEF KindSettle
    <2>2. /\ job' = job /\ claim'[m].source = claim[m].source /\ claim'[m].digest = claim[m].digest
          /\ m # op.ask => claim'[m].phase = claim[m].phase
          /\ claim'[claim[m].source].movedTo = claim[claim[m].source].movedTo
      BY <1>9, <1>t DEF KindSettle, PhaseSet, SameLinks, SameSources, SameDigests
    <2> QED
      BY <1>k, <2>1, <2>2
  <1>10. CASE KindAccept
    <2>1. claim[op.ask].phase = "switched"
      BY <1>10 DEF KindAccept, Records, StepsKnown
    <2>2. /\ job' = job /\ claim'[m].source = claim[m].source /\ claim'[m].digest = claim[m].digest
          /\ m # op.ask => claim'[m].phase = claim[m].phase
          /\ claim'[claim[m].source].movedTo = claim[claim[m].source].movedTo
      BY <1>10, <1>t DEF KindAccept, PhaseSet, SameLinks, SameSources, SameDigests
    <2> QED
      BY <1>k, <2>1, <2>2
  <1>11. CASE KindReject
    <2>1. /\ job' = job /\ claim'[m].source = claim[m].source /\ claim'[m].digest = claim[m].digest
          /\ claim'[m].phase \in {"refused", claim[m].phase}
          /\ claim'[claim[m].source].movedTo = claim[claim[m].source].movedTo
      BY <1>11, <1>t DEF KindReject, PhaseSet, SameLinks, SameSources, SameDigests
    <2> QED
      BY <1>k, <2>1
  <1>12. CASE KindRestore
    <2>1. /\ job' = job /\ claim'[m].source = claim[m].source /\ claim'[m].digest = claim[m].digest
          /\ claim'[m].phase = claim[m].phase
          /\ claim'[claim[m].source].movedTo \in {0, claim[claim[m].source].movedTo}
      BY <1>12, <1>t DEF KindRestore, LinkSet, SamePhases, SameSources, SameDigests
    <2> QED
      BY <1>k, <1>t, <2>1
  <1>13. CASE KindJob
    <2>1. /\ claim'[m].source = claim[m].source /\ claim'[m].digest = claim[m].digest
          /\ claim'[m].phase = claim[m].phase
          /\ claim'[claim[m].source].movedTo = claim[claim[m].source].movedTo
      BY <1>13, <1>t DEF KindJob, SameClaims, SameLinks, SamePhases, SameSources, SameDigests
    <2>2. /\ job[m]["verify"].state \in Over
          /\ job[m]["verify"].source = claim[m].digest
          /\ job[m]["verify"].target = job[m]["verify"].source
      BY <1>v, <2>1
    <2>3. PICK n \in MoveIds, s \in JobSteps : JobStep(n, s)
      BY <1>13 DEF KindJob
    <2>4. /\ job'[m]["verify"].state \in Over
          /\ job'[m]["verify"].source = job[m]["verify"].source
          /\ job'[m]["verify"].target = job[m]["verify"].target
      BY <2>2, <2>3 DEF JobStep, JobSteps
    <2> QED
      BY <2>1, <2>2, <2>4
  <1> QED
    BY <1>1, <1>2, <1>3, <1>4, <1>5, <1>6, <1>7, <1>8, <1>9, <1>10, <1>11, <1>12, <1>13 DEF Kind

\* StepsKnown is kept.
LEMMA KnownStep ==
  ASSUME TypeOK, Records, Kind PROVE StepsKnown'
  <1> USE ClaimNumbers, FieldTypes DEF Records, StepsKnown
  <1>1. CASE KindKeep
    BY <1>1 DEF KindKeep, Alone, SamePhases, SameMarks, OpStep, Deciding
  <1>2. CASE KindBegin
    BY <1>2 DEF KindBegin, TargetMade, Deciding, Onto
  <1>3. CASE KindRefuse
    BY <1>3 DEF KindRefuse, PhaseSet, AdvancingOf, Deciding, Early, SameThere, SameMarks, Onto
  <1>4. CASE KindMark
    <2>1. PICK phase \in {"created", "copied"} :
            AdvancingOf({phase}) /\ StepOf(phase) \notin claim[op.ask].started
            /\ MarkSet(op.ask, StepOf(phase))
      BY <1>4 DEF KindMark
    <2>2. op.ask \in MoveIds /\ claim[op.ask].there /\ claim[op.ask].phase = phase /\ StepOf(phase) \in JobSteps
      BY <2>1 DEF AdvancingOf, Deciding, StepOf, JobSteps
    <2>3. job[op.ask][StepOf(phase)].state = "none"
      BY <2>1, <2>2 DEF JobsMarked
    <2>4. claim'[op.ask].there /\ claim'[op.ask].phase = phase /\ StepOf(phase) \in claim'[op.ask].started
      BY <2>1, <2>2 DEF MarkSet, SameThere, SamePhases
    <2> QED
      BY <1>4, <2>2, <2>3, <2>4 DEF KindMark, Onto
  <1>5. CASE KindCreate
    BY <1>5 DEF KindCreate, SameClaims, SameThere, SamePhases, SameMarks, Onto
  <1>6. CASE KindCopied
    BY <1>6 DEF KindCopied, CopiedSet, AdvancingOf, Deciding, SameThere, SameMarks, Onto
  <1>7. CASE KindVerified
    BY <1>7 DEF KindVerified, PhaseSet, AdvancingOf, Deciding, SameThere, SameMarks, Onto
  <1>8. CASE KindSwitch
    BY <1>8 DEF KindSwitch, LinkSet, AdvancingOf, Deciding, SameThere, SamePhases, SameMarks, Onto
  <1>9. CASE KindSettle
    BY <1>9 DEF KindSettle, PhaseSet, SameThere, SameMarks, Onto
  <1>10. CASE KindAccept
    BY <1>10 DEF KindAccept, PhaseSet, SameThere, SameMarks, Onto
  <1>11. CASE KindReject
    BY <1>11 DEF KindReject, PhaseSet, SameThere, SameMarks, Onto
  <1>12. CASE KindRestore
    BY <1>12 DEF KindRestore, LinkSet, SameThere, SamePhases, SameMarks, Onto
  <1>13. CASE KindJob
    BY <1>13 DEF KindJob, SameClaims, SameThere, SamePhases, SameMarks, JobStep, StepOf, JobSteps
  <1> QED
    BY <1>1, <1>2, <1>3, <1>4, <1>5, <1>6, <1>7, <1>8, <1>9, <1>10, <1>11, <1>12, <1>13 DEF Kind

\* The records hold at the start, and every step keeps them.
LEMMA RecordsInit == Init => Records
  <1> SUFFICES ASSUME Init PROVE Records
    OBVIOUS
  <1> USE ClaimNumbers
  <1>1. \A c \in Claims : ~claim[c].there /\ claim[c].movedTo = 0 /\ claim[c].phase = "none"
                          /\ claim[c].started = {} /\ claim[c].writer = NoWriter
    BY DEF Init, NoClaim
  <1>2. \A m \in MoveIds, s \in JobSteps : job[m][s].state = "none"
    BY DEF Init, NoJob
  <1>3. op.pc = "idle"
    BY DEF Init, Idle
  <1>4. \A m \in MoveIds : claim[m].source \in Claims
    BY DEF Init, NoClaim
  <1>5. UnmadeBlank /\ LinksRecorded /\ SourcesThere
    BY <1>1 DEF UnmadeBlank, LinksRecorded, SourcesThere
  <1>6. JobsMarked /\ VerifiedOnce
    BY <1>1, <1>2, <1>4 DEF JobsMarked, VerifiedOnce, Linked
  <1>7. StepsKnown
    BY <1>3 DEF StepsKnown
  <1> QED
    BY <1>5, <1>6, <1>7 DEF Records

\* Every step keeps the records.
LEMMA RecordsStep ==
  ASSUME Kept, TypeOK, Records, [Next]_vars PROVE TypeOK' /\ Records' /\ Kind
  <1>1. Kind /\ TypeOK'
    BY Kinds
  <1> QED
    BY <1>1, UnmadeStep, LinksStep, SourcesStep, JobsStep, VerifiedStep, KnownStep DEF Records

\* The records hold in every reachable state.
LEMMA RecordsHold == ASSUME Kept PROVE Spec => [](TypeOK /\ Records)
  <1>1. Init => TypeOK /\ Records
    BY InitType, RecordsInit
  <1>2. TypeOK /\ Records /\ [Next]_vars => (TypeOK /\ Records)'
    BY RecordsStep
  <1> QED
    BY <1>1, <1>2, PTL DEF Spec

\* Wherever a reconcile is cut short, whatever the Jobs, the agent and the cache do, and
\* whichever moves are asked for, given up and resumed: a claim names as the one the
\* memory moved to only a copy made from it that its one verification found equal
\* (switchMove after runVerify).  No person deletes a claim the memory moved off.
THEOREM LinkNamesVerifiedCopyHolds == ASSUME Kept PROVE Spec => []LinkNamesVerifiedCopy
  <1>1. TypeOK /\ Records => LinkNamesVerifiedCopy
    <2> SUFFICES ASSUME TypeOK, Records, NEW c \in Claims, claim[c].movedTo # 0
                 PROVE  LET m == claim[c].movedTo
                        IN claim[m].source = c /\ claim[m].phase \in Late /\ DigestsMatch(m)
      BY DEF LinkNamesVerifiedCopy, Late
    <2> DEFINE m == claim[c].movedTo
    <2>1. m \in MoveIds /\ claim[m].source = c /\ claim[m].phase \in Late
      BY FieldTypes DEF Records, LinksRecorded
    <2>2. Linked(m)
      BY <2>1 DEF Linked
    <2> QED
      BY <2>1, <2>2 DEF Records, VerifiedOnce
  <1> QED
    BY <1>1, RecordsHold, PTL

\* No step of a move is run twice: a Job is made only after its mark, which no earlier Job
\* of the step came without (ensureMoveJob), though the manager stops between the two, its
\* cache trails, the Job fails or is deleted, and the move is given up and resumed.
THEOREM JobRunsOnceHolds == ASSUME Kept PROVE Spec => JobRunsOnce
  <1> DEFINE Once(m, s) ==
        job[m][s].state # "none" => job'[m][s].state \notin {"none", "pending"}
                                    \/ job'[m][s].state = job[m][s].state
  <1>1. ASSUME TypeOK, Records, [Next]_vars
        PROVE  [\A m \in MoveIds, s \in JobSteps : Once(m, s)]_vars
    <2> SUFFICES ASSUME NEW m \in MoveIds, NEW s \in JobSteps PROVE Once(m, s)
      OBVIOUS
    <2>1. Kind
      BY <1>1, Kinds
    <2>2. CASE KindCreate
      <3>1. op.ask \in MoveIds /\ job[op.ask][StepOf(claim[op.ask].phase)].state = "none"
        BY <1>1, <2>2 DEF KindCreate, Records, StepsKnown
      <3> QED
        BY <2>2, <3>1 DEF KindCreate, JobSet
    <2>3. CASE KindJob
      BY <2>3 DEF KindJob, JobStep
    <2>4. CASE UNCHANGED job
      BY <2>4
    <2> QED
      BY <2>1, <2>2, <2>3, <2>4
      DEF Kind, KindKeep, KindBegin, KindRefuse, KindMark, KindCopied, KindVerified, KindSwitch,
          KindSettle, KindAccept, KindReject, KindRestore
  <1>2. TypeOK /\ Records /\ [Next]_vars => [\A m \in MoveIds, s \in JobSteps : Once(m, s)]_vars
    BY <1>1
  <1> QED
    BY <1>2, RecordsHold, PTL DEF Spec, JobRunsOnce

--------------------------------------------------------------------------------
(* The chain of links.  An id that has its target is not named again once    *)
(* the spec names another.                                                   *)

Unresumed == "resumed" \notin Happens

\* A copy the agent was put on, for a while at least.
Used(c) == c = 0 \/ Linked(c) \/ claim[c].phase \in {"switched", "accepted", "refused"}
\* A move that can still come to its switch, or is at it.
Live(m) ==
  /\ m = ask \/ (op.pc # "idle" /\ m = op.ask)
  /\ claim[m].there /\ claim[m].phase \in Early

\* Every link is on a claim the chain comes to.
LinksReached ==
  \A c \in Claims : claim[c].movedTo # 0 => c \in Reach(HopOf(claim)) /\ claim[c].movedTo # c
\* A move that can come to its switch copies the claim in use, and a switched one is it.
LiveFromInUse ==
  \A m \in MoveIds : Live(m) =>
    \/ ~Linked(m) /\ claim[m].source = InUse /\ InUse # m
    \/ Linked(m) /\ InUse = m
\* A reconcile under way for one id knows of no other move that has its target.
OneMove == op.pc # "idle" /\ op.ask # ask /\ ask # 0 => ~claim[ask].there
\* A reconcile that settles a move is at the claim in use.
SettlesInUse ==
  /\ op.pc \in {"settle", "accept", "restore"} => op.ask = InUse /\ Linked(op.ask)
  /\ op.pc = "createJob" => op.ask # InUse
\* A move copies a claim the agent was put on.
SourcesUsed == \A m \in MoveIds : claim[m].there => Used(claim[m].source)
OneChain == LinksReached /\ LiveFromInUse /\ OneMove /\ SettlesInUse /\ SourcesUsed

\* What the links are, as hops.
LEMMA HopIs ==
  ASSUME TypeOK, Records
  PROVE  /\ HopOf(claim) \in Hops /\ InUse = EndOf(HopOf(claim)) /\ InUse \in Claims
         /\ \A c \in Claims :
              HopOf(claim)[c] = IF claim[c].movedTo # 0 THEN claim[c].movedTo ELSE c
  <1>1. claim \in [Claims -> Claim]
    BY DEF TypeOK
  <1>2. HopOf(claim) \in Hops /\ InUse = EndOf(HopOf(claim)) /\ InUse \in Claims
    BY <1>1, HopOfType, InUseIs, InUseType
  <1> QED
    BY <1>2 DEF HopOf, Records, UnmadeBlank

\* The chain has one end, which has no link, and every claim on it but the own one is
\* the target of the link to it.
LEMMA ChainFacts ==
  ASSUME TypeOK, Records, LinksReached
  PROVE  /\ Simple(HopOf(claim)) /\ claim[InUse].movedTo = 0
         /\ InUse # 0 => Linked(InUse)
         /\ \A c \in Claims : claim[c].movedTo # 0 /\ c # 0 => Linked(c)
         /\ InUse = 0 => \A c \in Claims : claim[c].movedTo = 0
  <1> DEFINE h == HopOf(claim)
  <1>1. /\ h \in Hops /\ InUse = EndOf(h) /\ InUse \in Claims
        /\ \A c \in Claims : h[c] = IF claim[c].movedTo # 0 THEN claim[c].movedTo ELSE c
    BY HopIs
  <1>2. \A c \in Claims : claim[c].movedTo # 0 =>
          claim[claim[c].movedTo].source = c /\ c \in Reach(h) /\ claim[c].movedTo # c
    BY DEF Records, LinksRecorded, LinksReached
  <1> HIDE DEF h
  <1>3. Simple(h)
    BY <1>1, <1>2 DEF Simple
  <1>4. claim[InUse].movedTo = 0
    BY <1>1, <1>2, <1>3, EndHasNoLink
  <1>5. ASSUME NEW c \in Reach(h), c # 0 PROVE Linked(c)
    <2>1. PICK d \in Claims : h[d] = c /\ d # c
      BY <1>1, <1>5, ReachLinked
    <2>2. claim[d].movedTo = c
      BY <1>1, <2>1
    <2> QED
      BY <1>2, <1>5, <2>2 DEF Linked
  <1>6. InUse \in Reach(h)
    BY <1>1, <1>3, EndReached
  <1>7. InUse = 0 => \A c \in Claims : claim[c].movedTo = 0
    <2> SUFFICES ASSUME InUse = 0, NEW c \in Claims, claim[c].movedTo # 0 PROVE FALSE
      OBVIOUS
    <2>1. c = 0
      BY <1>1, <1>2, <1>3, ReachOwn
    <2> QED
      BY <1>4, <2>1
  <1> QED
    BY <1>2, <1>3, <1>4, <1>5, <1>6, <1>7 DEF h

\* Links that stay keep the claim in use.
LEMMA SameChain ==
  ASSUME TypeOK, TypeOK', Records, Records', SameLinks
  PROVE  HopOf(claim') = HopOf(claim) /\ InUse' = InUse
  <1>1. claim \in [Claims -> Claim] /\ claim' \in [Claims -> Claim]
    BY DEF TypeOK
  <1>2. \A c \in Claims : /\ ~claim[c].there => claim[c].movedTo = 0
                          /\ ~claim'[c].there => claim'[c].movedTo = 0
                          /\ claim'[c].movedTo = claim[c].movedTo
    BY DEF Records, UnmadeBlank, SameLinks
  <1>3. \A c \in Claims : HopOf(claim')[c] = HopOf(claim)[c]
    BY <1>2 DEF HopOf
  <1>4. HopOf(claim') \in Hops /\ HopOf(claim) \in Hops
    BY <1>1, HopOfType
  <1>5. HopOf(claim') = HopOf(claim)
    BY <1>3, <1>4 DEF Hops
  <1> QED
    BY <1>1, <1>5, InUseIs, InUseIsAfter

\* The kinds of step that leave the links, and with them the claim in use.
Leaving ==
  \/ KindKeep \/ KindBegin \/ KindRefuse \/ KindMark \/ KindCreate \/ KindCopied \/ KindVerified
  \/ KindSettle \/ KindAccept \/ KindReject \/ KindJob

\* A step that leaves the links leaves the chain.
LEMMA ChainLeft ==
  ASSUME TypeOK, TypeOK', Records, Records', Leaving
  PROVE  SameLinks /\ HopOf(claim') = HopOf(claim) /\ InUse' = InUse
  <1>1. CASE KindBegin
    <2>1. claim[op.ask].movedTo = 0 /\ op.ask \in Claims
      BY <1>1, ClaimNumbers DEF KindBegin, Deciding, Records, UnmadeBlank
    <2>2. SameLinks
      BY <1>1, <2>1 DEF KindBegin, TargetMade, SameLinks
    <2> QED
      BY <2>2, SameChain
  <1>2. CASE KindMark
    <2>1. SameLinks
      BY <1>2 DEF KindMark, MarkSet
    <2> QED
      BY <2>1, SameChain
  <1>3. CASE ~KindBegin /\ ~KindMark
    <2>1. SameLinks
      BY <1>3
      DEF Leaving, KindKeep, Alone, KindRefuse, KindCreate, KindCopied, KindVerified,
          KindSettle, KindAccept, KindReject, KindJob, PhaseSet, SameClaims, CopiedSet
    <2> QED
      BY <2>1, SameChain
  <1> QED
    BY <1>1, <1>2, <1>3

\* switchMove makes the target the claim in use.
LEMMA SwitchChain ==
  ASSUME TypeOK, TypeOK', Records, Records', OneChain, KindSwitch
  PROVE  /\ claim[op.ask].source = InUse /\ InUse # op.ask /\ ~Linked(op.ask)
         /\ InUse' = op.ask /\ LinksReached'
  <1> DEFINE h == HopOf(claim)
             m == op.ask
             hh == [h EXCEPT ![InUse] = m]
  <1>1. m \in MoveIds /\ m # 0 /\ m \in Claims /\ InUse # m /\ claim[m].there
        /\ claim[m].phase = "verified" /\ op.pc = "move"
    BY ClaimNumbers DEF KindSwitch, AdvancingOf, Deciding, MoveIds
  <1>2. claim[m].source = InUse /\ ~Linked(m)
    BY <1>1 DEF OneChain, LiveFromInUse, Live, Early
  <1>3. /\ h \in Hops /\ InUse = EndOf(h) /\ InUse \in Claims
        /\ \A c \in Claims : h[c] = IF claim[c].movedTo # 0 THEN claim[c].movedTo ELSE c
    BY HopIs
  <1>4. Simple(h) /\ claim[m].movedTo = 0 /\ claim[InUse].movedTo = 0
    BY <1>1, <1>2, ChainFacts DEF OneChain
  <1>5. \A c \in Claims : h[c] = m => c = m
    BY <1>1, <1>2, <1>3 DEF Linked, Records, LinksRecorded
  <1>6. h[m] = m
    BY <1>1, <1>3, <1>4
  <1>7. \A c \in Claims : claim'[c].movedTo = IF c = InUse THEN m ELSE claim[c].movedTo
    BY <1>2 DEF KindSwitch, LinkSet
  <1>8. claim' \in [Claims -> Claim]
    BY DEF TypeOK
  <1>9. HopOf(claim') = hh
    <2>1. \A c \in Claims : ~claim'[c].there => claim'[c].movedTo = 0
      BY DEF Records, UnmadeBlank
    <2>2. \A c \in Claims : HopOf(claim')[c] = hh[c]
      BY <1>1, <1>3, <1>7, <2>1 DEF HopOf, Hops
    <2>3. HopOf(claim') \in Hops /\ hh \in Hops
      BY <1>1, <1>3, <1>8, HopOfType DEF Hops
    <2> QED
      BY <2>2, <2>3 DEF Hops
  <1> HIDE DEF h
  <1>10. Simple(hh) /\ EndOf(hh) = m /\ Reach(h) \subseteq Reach(hh)
    BY <1>1, <1>3, <1>4, <1>5, <1>6, EndAfterLink
  <1>11. InUse \in Reach(h) /\ \A c \in Claims : claim[c].movedTo # 0 => c \in Reach(h)
    BY <1>3, <1>4, EndReached DEF OneChain, LinksReached, h
  <1> HIDE DEF hh
  <1>12. LinksReached'
    BY <1>1, <1>7, <1>9, <1>10, <1>11 DEF OneChain, LinksReached
  <1>13. InUse' = m
    BY <1>8, <1>9, <1>10, InUseIsAfter
  <1> QED
    BY <1>1, <1>2, <1>12, <1>13

\* restoreSource makes the source the claim in use.
LEMMA RestoreChain ==
  ASSUME TypeOK, TypeOK', Records, Records', OneChain, KindRestore
  PROVE  /\ op.ask = InUse /\ Linked(op.ask) /\ op.ask \in MoveIds
         /\ claim[op.ask].phase = "refused" /\ claim[op.ask].source # op.ask
         /\ InUse' = claim[op.ask].source /\ LinksReached'
  <1> DEFINE h == HopOf(claim)
             c == claim[op.ask].source
             hh == [h EXCEPT ![c] = c]
  <1>1. op.pc = "restore" /\ op.ask = InUse /\ Linked(op.ask) /\ op.ask \in MoveIds
        /\ claim[op.ask].phase = "refused"
    BY DEF KindRestore, OneChain, SettlesInUse, Records, StepsKnown
  <1>2. c \in Claims /\ claim[c].movedTo = InUse /\ InUse # 0
    BY <1>1, FieldTypes DEF Linked
  <1>3. /\ h \in Hops /\ InUse = EndOf(h) /\ InUse \in Claims
        /\ \A d \in Claims : h[d] = IF claim[d].movedTo # 0 THEN claim[d].movedTo ELSE d
    BY HopIs
  <1>4. Simple(h) /\ c # InUse
    BY <1>2, ChainFacts DEF OneChain, LinksReached
  <1>5. \A d \in Claims : claim'[d].movedTo = IF d = c THEN 0 ELSE claim[d].movedTo
    BY DEF KindRestore, LinkSet
  <1>6. claim' \in [Claims -> Claim]
    BY DEF TypeOK
  <1>7. HopOf(claim') = hh
    <2>1. \A d \in Claims : ~claim'[d].there => claim'[d].movedTo = 0
      BY DEF Records, UnmadeBlank
    <2>2. \A d \in Claims : HopOf(claim')[d] = hh[d]
      BY <1>2, <1>3, <1>5, <2>1 DEF HopOf, Hops
    <2>3. HopOf(claim') \in Hops /\ hh \in Hops
      BY <1>2, <1>3, <1>6, HopOfType DEF Hops
    <2> QED
      BY <2>2, <2>3 DEF Hops
  <1>8. \A d \in Claims : claim[d].movedTo # 0 => d \in Reach(h) /\ claim[d].movedTo # d
    BY DEF OneChain, LinksReached
  <1>a. claim[InUse].movedTo = 0
    BY ChainFacts DEF OneChain
  <1> HIDE DEF h, c
  <1>9. h[c] = InUse
    BY <1>2, <1>3
  <1>10. EndOf(hh) = c /\ Reach(h) \ {InUse} \subseteq Reach(hh)
    BY <1>2, <1>3, <1>4, <1>9, EndAfterUnlink
  <1> HIDE DEF hh
  <1>11. LinksReached'
    BY <1>a, <1>5, <1>7, <1>8, <1>10 DEF LinksReached
  <1>12. InUse' = c
    BY <1>6, <1>7, <1>10, InUseIsAfter
  <1> QED
    BY <1>1, <1>2, <1>4, <1>11, <1>12 DEF c

\* Links that stay are links of the same moves.
LEMMA LinkedLeft ==
  ASSUME TypeOK, TypeOK', Records, Records', Leaving
  PROVE  \A m \in Claims : Linked(m)' <=> Linked(m)
  <1> USE ClaimNumbers, FieldTypes
  <1> TAKE m \in Claims
  <1>1. SameLinks
    BY ChainLeft
  <1>2. CASE KindBegin /\ m = op.ask
    <2>1. ~claim[m].there /\ m \in MoveIds
      BY <1>2 DEF KindBegin, Deciding
    <2>2. \A c \in Claims : claim[c].movedTo # m
      BY <2>1 DEF Records, LinksRecorded, MoveIds
    <2>3. claim'[m].source \in Claims
      BY DEF TypeOK, Claim
    <2> QED
      BY <1>1, <2>2, <2>3 DEF Linked, SameLinks
  <1>3. CASE ~(KindBegin /\ m = op.ask)
    <2>1. claim'[m].source = claim[m].source
      <3>1. CASE KindBegin
        BY <1>3, <3>1 DEF KindBegin, TargetMade
      <3>2. CASE KindMark
        BY <3>2 DEF KindMark, MarkSet, SameSources
      <3> QED
        BY <3>1, <3>2
        DEF Leaving, KindKeep, Alone, KindRefuse, KindCreate, KindCopied, KindVerified, KindSettle,
            KindAccept, KindReject, KindJob, PhaseSet, SameClaims, CopiedSet, SameSources
    <2> QED
      BY <1>1, <2>1 DEF Linked, SameLinks
  <1> QED
    BY <1>2, <1>3

\* A copy the agent was put on is one for good.
LEMMA UsedStays ==
  ASSUME TypeOK, TypeOK', Records, Records', OneChain, Kind
  PROVE  \A c \in Claims : Used(c) => Used(c)'
  <1> USE ClaimNumbers, FieldTypes
  <1> DEFINE U == {"switched", "accepted", "refused"}
  <1> TAKE c \in Claims
  <1>1. claim[c].phase \in U => claim'[c].phase \in U
    <2>1. CASE KindBegin
      BY <2>1 DEF KindBegin, TargetMade, Deciding, Records, UnmadeBlank
    <2>2. CASE KindMark
      BY <2>2 DEF KindMark, MarkSet, SamePhases
    <2>3. CASE KindCopied \/ KindVerified
      BY <2>3 DEF KindCopied, KindVerified, AdvancingOf, CopiedSet, PhaseSet
    <2>4. CASE KindRefuse \/ KindSettle \/ KindAccept \/ KindReject
      BY <2>4 DEF KindRefuse, KindSettle, KindAccept, KindReject, PhaseSet
    <2>5. CASE KindKeep \/ KindCreate \/ KindSwitch \/ KindRestore \/ KindJob
      BY <2>5
      DEF KindKeep, Alone, KindCreate, KindSwitch, KindRestore, KindJob, LinkSet, SameClaims, SamePhases
    <2> QED
      BY <2>1, <2>2, <2>3, <2>4, <2>5 DEF Kind
  <1>2. Linked(c) => Used(c)'
    <2>1. CASE Leaving
      BY <2>1, LinkedLeft DEF Used
    <2>2. CASE KindSwitch
      <3>1. claim[op.ask].source = InUse /\ claim[InUse].movedTo = 0
        BY <2>2, SwitchChain, ChainFacts DEF OneChain
      <3>2. Linked(c) => Linked(c)'
        BY <2>2, <3>1 DEF KindSwitch, LinkSet, SameSources, Linked
      <3> QED
        BY <3>2 DEF Used
    <2>3. CASE KindRestore
      <3>1. Linked(op.ask) /\ claim[op.ask].phase = "refused"
        BY <2>3, RestoreChain
      <3>2. CASE c = op.ask
        BY <2>3, <3>1, <3>2 DEF KindRestore, LinkSet, SamePhases, Used
      <3>3. CASE c # op.ask
        <4>1. Linked(c) => Linked(c)'
          BY <2>3, <3>1, <3>3 DEF KindRestore, LinkSet, SameSources, Linked
        <4> QED
          BY <4>1 DEF Used
      <3> QED
        BY <3>2, <3>3
    <2> QED
      BY <2>1, <2>2, <2>3 DEF Kind, Leaving
  <1> QED
    BY <1>1, <1>2 DEF Used

\* SourcesUsed is kept.
LEMMA SourcesUsedStep ==
  ASSUME TypeOK, TypeOK', Records, Records', OneChain, Kind
  PROVE  SourcesUsed'
  <1> USE ClaimNumbers, FieldTypes
  <1> SUFFICES ASSUME NEW m \in MoveIds, claim'[m].there
               PROVE  \E c \in Claims : claim'[m].source = c /\ Used(c)'
    BY DEF SourcesUsed, Used, Linked
  <1>1. CASE KindBegin /\ m = op.ask
    <2>1. InUse = 0 \/ Linked(InUse)
      BY ChainFacts DEF OneChain
    <2>2. InUse \in Claims /\ Used(InUse)
      BY <2>1, HopIs DEF Used
    <2>3. claim'[m].source = InUse
      BY <1>1 DEF KindBegin, TargetMade
    <2>4. \A c \in Claims : Used(c) => Used(c)'
      BY UsedStays
    <2> QED
      BY <2>2, <2>3, <2>4
  <1>2. CASE ~(KindBegin /\ m = op.ask)
    <2>1. claim'[m].source = claim[m].source /\ claim[m].there
      <3>1. CASE KindBegin
        BY <1>2, <3>1 DEF KindBegin, TargetMade
      <3>2. CASE KindMark
        BY <3>2 DEF KindMark, MarkSet, SameSources, SameThere
      <3>3. CASE KindKeep
        BY <3>3 DEF KindKeep, Alone, SameSources, MoveIds
      <3> QED
        BY <3>1, <3>2, <3>3
        DEF Kind, KindRefuse, KindCreate, KindCopied, KindVerified, KindSettle, KindSwitch,
            KindRestore, LinkSet, KindAccept, KindReject, KindJob, PhaseSet, SameClaims, CopiedSet,
            SameSources, SameThere
    <2>2. claim[m].source \in Claims /\ Used(claim[m].source)
      BY <2>1 DEF OneChain, SourcesUsed
    <2>3. \A d \in Claims : Used(d) => Used(d)'
      BY UsedStays
    <2> QED
      BY <2>1, <2>2, <2>3
  <1> QED
    BY <1>1, <1>2

\* LiveFromInUse is kept.
LEMMA LiveStep ==
  ASSUME Unresumed, TypeOK, TypeOK', Records, Records', OneChain, Kind
  PROVE  LiveFromInUse'
  <1> USE ClaimNumbers, FieldTypes
  <1> SUFFICES ASSUME NEW m \in MoveIds, Live(m)'
               PROVE  \/ ~Linked(m)' /\ claim'[m].source = InUse' /\ InUse' # m
                      \/ Linked(m)' /\ InUse' = m
    BY DEF LiveFromInUse
  <1>0. m # 0 /\ (m = ask' \/ (op'.pc # "idle" /\ m = op'.ask)) /\ claim'[m].there
        /\ claim'[m].phase \in Early
    BY DEF Live, MoveIds
  \* A step that leaves the move's own records leaves the rest of what is asked of it.
  <1>1. ASSUME Live(m), claim'[m].source = claim[m].source, Leaving
        PROVE  \/ ~Linked(m)' /\ claim'[m].source = InUse' /\ InUse' # m
               \/ Linked(m)' /\ InUse' = m
    <2>1. InUse' = InUse /\ (Linked(m)' <=> Linked(m))
      BY <1>1, ChainLeft, LinkedLeft
    <2> QED
      BY <1>1, <2>1 DEF OneChain, LiveFromInUse
  <1>2. CASE KindKeep
    <2>1. claim[m].there /\ claim[m].phase \in Early /\ claim'[m].source = claim[m].source
      BY <1>0, <1>2 DEF KindKeep, Alone, SamePhases, SameSources
    <2>2. m = ask \/ (op.pc # "idle" /\ m = op.ask)
      BY <1>0, <1>2, <2>1 DEF KindKeep, OpStep, Unresumed, Deciding
    <2> QED
      BY <1>1, <1>2, <2>1, <2>2 DEF Live, Leaving
  <1>3. CASE KindBegin
    <2>1. op.pc = "move" /\ op.ask \in MoveIds /\ claim[InUse].there /\ ~claim[op.ask].there
          /\ op'.ask = op.ask /\ ask' = ask
      BY <1>3 DEF KindBegin, Deciding, Onto
    <2>2. CASE m = op.ask
      <3>1. ~Linked(m) /\ InUse' = InUse /\ (Linked(m)' <=> Linked(m))
        BY <1>3, <2>1, <2>2, ChainLeft, LinkedLeft DEF Leaving, Linked, Records, LinksRecorded
      <3>2. claim'[m].source = InUse /\ InUse # m
        BY <1>3, <2>1, <2>2 DEF KindBegin, TargetMade
      <3> QED
        BY <3>1, <3>2
    <2>3. CASE m # op.ask
      <3>1. claim'[m] = claim[m]
        BY <1>3, <2>3 DEF KindBegin, TargetMade
      <3>2. m = ask
        BY <1>0, <2>1, <2>3
      <3> QED
        BY <1>0, <1>1, <1>3, <3>1, <3>2 DEF Live, Leaving
    <2> QED
      BY <2>2, <2>3
  <1>4. CASE KindSwitch
    <2>1. /\ claim[op.ask].source = InUse /\ InUse # op.ask /\ InUse' = op.ask
          /\ op.pc = "move" /\ op'.ask = op.ask /\ ask' = ask
      BY <1>4, SwitchChain DEF KindSwitch, AdvancingOf, Deciding, Onto
    <2>2. m = op.ask
      BY <1>0, <1>4, <2>1 DEF OneChain, OneMove, KindSwitch, LinkSet, SameThere
    <2>3. Linked(m)'
      BY <1>0, <1>4, <2>1, <2>2 DEF KindSwitch, LinkSet, SameSources, Linked
    <2> QED
      BY <2>1, <2>2, <2>3
  <1>5. CASE KindRestore
    <2>1. claim[op.ask].phase = "refused" /\ op.pc = "restore" /\ op'.ask = op.ask /\ ask' = ask
      BY <1>5, RestoreChain DEF KindRestore, Onto
    <2>2. m = op.ask
      BY <1>0, <1>5, <2>1 DEF OneChain, OneMove, KindRestore, LinkSet, SameThere
    <2> QED
      BY <1>0, <1>5, <2>1, <2>2 DEF KindRestore, LinkSet, SamePhases, Early
  <1>6. CASE KindJob
    <2>1. Live(m) /\ claim'[m].source = claim[m].source
      BY <1>0, <1>6 DEF KindJob, SameClaims, SameThere, SamePhases, SameSources, Live
    <2> QED
      BY <1>1, <1>6, <2>1 DEF Leaving
  <1>7. CASE KindMark
    <2>1. Live(m) /\ claim'[m].source = claim[m].source
      <3>1. op.pc # "idle" /\ SameThere /\ SamePhases /\ SameSources /\ Onto("createJob")
        BY <1>7 DEF KindMark, AdvancingOf, Deciding, MarkSet
      <3> QED
        BY <1>0, <3>1 DEF Onto, SameThere, SamePhases, SameSources, Live
    <2> QED
      BY <1>1, <1>7, <2>1 DEF Leaving
  <1>8. CASE KindRefuse \/ KindSettle \/ KindAccept \/ KindReject
    <2>1. op.pc # "idle" /\ op'.ask = op.ask /\ ask' = ask /\ SameThere /\ SameSources
          /\ \E p \in {"refused", "switched", "accepted"} : PhaseSet(op.ask, p)
      BY <1>8
      DEF KindRefuse, KindSettle, KindAccept, KindReject, PhaseSet, AdvancingOf, Deciding, Onto
    <2>2. m # op.ask /\ claim'[m].phase = claim[m].phase
      BY <1>0, <2>1 DEF PhaseSet, Early
    <2>3. Live(m) /\ claim'[m].source = claim[m].source
      BY <1>0, <2>1, <2>2 DEF SameThere, SameSources, Live
    <2> QED
      BY <1>1, <1>8, <2>3 DEF Leaving
  <1>9. CASE KindCopied \/ KindVerified
    <2>1. /\ op.pc # "idle" /\ op'.ask = op.ask /\ ask' = ask /\ SameThere /\ SameSources
          /\ claim[op.ask].phase \in Early
          /\ \A c \in Claims : c # op.ask => claim'[c].phase = claim[c].phase
      BY <1>9 DEF KindCopied, KindVerified, PhaseSet, CopiedSet, AdvancingOf, Deciding, Onto, Early
    <2>2. Live(m) /\ claim'[m].source = claim[m].source
      BY <1>0, <2>1 DEF SameThere, SameSources, Live
    <2> QED
      BY <1>1, <1>9, <2>2 DEF Leaving
  <1>10. CASE KindCreate
    <2>1. Live(m) /\ claim'[m].source = claim[m].source
      BY <1>0, <1>10 DEF KindCreate, SameClaims, SameThere, SamePhases, SameSources, Live, Onto
    <2> QED
      BY <1>1, <1>10, <2>1 DEF Leaving
  <1> QED
    BY <1>2, <1>3, <1>4, <1>5, <1>6, <1>7, <1>8, <1>9, <1>10 DEF Kind

\* OneMove is kept.
LEMMA OneMoveStep ==
  ASSUME Unresumed, TypeOK, TypeOK', Records, OneChain, Kind
  PROVE  OneMove'
  <1> USE ClaimNumbers, FieldTypes DEF OneChain, OneMove
  <1> SUFFICES ASSUME op'.pc # "idle", op'.ask # ask', ask' # 0 PROVE ~claim'[ask'].there
    BY DEF OneMove
  <1>1. CASE KindKeep
    <2>0. ask' \in Claims
      BY DEF TypeOK
    <2>1. ~claim[ask'].there
      <3>1. CASE op' = op
        BY <1>1, <3>1 DEF KindKeep, OpStep, Unresumed
      <3>2. CASE op' # op
        BY <1>1, <3>2 DEF KindKeep, OpStep, Deciding
      <3> QED
        BY <3>1, <3>2
    <2> QED
      BY <1>1, <2>0, <2>1 DEF KindKeep, Alone
  <1>2. CASE KindBegin
    BY <1>2 DEF KindBegin, TargetMade, Deciding, Onto
  <1>3. CASE KindMark
    BY <1>3 DEF KindMark, MarkSet, AdvancingOf, Deciding, Onto, SameThere
  <1>4. CASE KindJob
    BY <1>4 DEF KindJob, SameClaims, SameThere
  <1>5. CASE KindCreate
    BY <1>5 DEF KindCreate, SameClaims, SameThere, Onto
  <1>6. CASE KindRefuse \/ KindCopied \/ KindVerified \/ KindSwitch
    BY <1>6
    DEF KindRefuse, KindCopied, KindVerified, KindSwitch, AdvancingOf, Deciding, Onto, PhaseSet,
        CopiedSet, LinkSet, SameThere
  <1>7. CASE KindSettle \/ KindAccept \/ KindReject \/ KindRestore
    BY <1>7
    DEF KindSettle, KindAccept, KindReject, KindRestore, Onto, PhaseSet, LinkSet, SameThere
  <1> QED
    BY <1>1, <1>2, <1>3, <1>4, <1>5, <1>6, <1>7 DEF Kind

\* SettlesInUse is kept.
LEMMA SettlesStep ==
  ASSUME Unresumed, TypeOK, TypeOK', Records, Records', OneChain, Kind
  PROVE  SettlesInUse'
  <1> USE ClaimNumbers, FieldTypes
  <1>0. Leaving => InUse' = InUse /\ \A m \in Claims : Linked(m)' <=> Linked(m)
    BY ChainLeft, LinkedLeft
  <1>a. op.ask \in Claims
    OBVIOUS
  \* A reconcile that is not at these steps says nothing, one that goes on to the next of
  \* them keeps what it knew.
  <1>b. ASSUME Leaving, op'.ask = op.ask, op.pc \in {"settle", "accept", "restore"},
               op'.pc # "createJob"
        PROVE  SettlesInUse'
    <2>1. op'.ask = InUse' /\ Linked(op.ask)'
      BY <1>0, <1>a, <1>b DEF OneChain, SettlesInUse
    <2> QED
      BY <1>b, <2>1 DEF SettlesInUse, Linked
  <1>1. CASE KindKeep
    <2>1. CASE op' = op
      <3>1. Leaving
        BY <1>1 DEF Leaving
      <3>2. CASE op.pc \in {"settle", "accept", "restore"}
        BY <1>b, <2>1, <3>1, <3>2
      <3>3. CASE op.pc \notin {"settle", "accept", "restore"}
        BY <1>0, <2>1, <3>1, <3>3 DEF OneChain, SettlesInUse
      <3> QED
        BY <3>2, <3>3
    <2>2. CASE op'.pc \in {"idle", "fence", "move", "sts"}
      BY <2>2 DEF SettlesInUse
    <2>3. CASE Deciding /\ InUse = op.ask /\ op'.pc = "settle" /\ op'.ask = op.ask
      <3>1. Linked(op.ask) /\ op.ask \in Claims
        BY <2>3, ChainFacts DEF Deciding, OneChain, MoveIds
      <3>2. op'.ask = InUse' /\ Linked(op.ask)'
        BY <1>0, <1>1, <2>3, <3>1 DEF Leaving
      <3> QED
        BY <2>3, <3>2 DEF SettlesInUse, Linked
    <2>4. CASE op.pc = "settle" /\ op'.pc = "restore" /\ op'.ask = op.ask
      BY <1>b, <1>1, <2>4 DEF Leaving
    <2> QED
      BY <1>1, <2>1, <2>2, <2>3, <2>4 DEF KindKeep, OpStep
  <1>2. CASE KindMark
    <2>1. op'.pc = "createJob" /\ op'.ask = op.ask /\ op.ask # InUse
      BY <1>2 DEF KindMark, Onto, AdvancingOf
    <2> QED
      BY <1>0, <1>2, <2>1 DEF SettlesInUse, Leaving
  <1>3. CASE KindSwitch
    <2>1. /\ claim[op.ask].source = InUse /\ InUse' = op.ask /\ op'.pc = "settle" /\ op'.ask = op.ask
          /\ op.ask # 0
      BY <1>3, SwitchChain DEF KindSwitch, Onto, AdvancingOf, Deciding, MoveIds
    <2>2. Linked(op.ask)'
      BY <1>3, <2>1 DEF KindSwitch, LinkSet, SameSources, Linked
    <2> QED
      BY <2>1, <2>2 DEF SettlesInUse, Linked
  <1>4. CASE KindSettle \/ KindReject
    BY <1>b, <1>4 DEF KindSettle, KindReject, Onto, Leaving
  <1>5. CASE KindJob
    <2>1. op' = op /\ Leaving
      BY <1>5 DEF KindJob, Leaving
    <2>2. CASE op.pc \in {"settle", "accept", "restore"}
      BY <1>b, <2>1, <2>2
    <2>3. CASE op.pc \notin {"settle", "accept", "restore"}
      BY <1>0, <2>1, <2>3 DEF OneChain, SettlesInUse
    <2> QED
      BY <2>2, <2>3
  <1>6. CASE op'.pc = "sts"
    BY <1>6 DEF SettlesInUse
  <1> QED
    BY <1>1, <1>2, <1>3, <1>4, <1>5, <1>6
    DEF Kind, KindBegin, KindRefuse, KindCreate, KindCopied, KindVerified, KindAccept, KindRestore, Onto

\* The chain holds at the start, and every step keeps it.
LEMMA ChainInit == Init => OneChain
  <1> SUFFICES ASSUME Init PROVE OneChain
    OBVIOUS
  <1>1. \A c \in Claims : ~claim[c].there /\ claim[c].movedTo = 0
    BY DEF Init, NoClaim
  <1>2. op.pc = "idle" /\ MoveIds \subseteq Claims
    BY ClaimNumbers DEF Init, Idle
  <1> QED
    BY <1>1, <1>2
    DEF OneChain, LinksReached, LiveFromInUse, Live, OneMove, SettlesInUse, SourcesUsed

\* Every step keeps one chain.
LEMMA ChainStep ==
  ASSUME Unresumed, TypeOK, TypeOK', Records, Records', OneChain, Kind
  PROVE  OneChain'
  <1>1. LinksReached'
    <2>1. CASE Leaving
      <3>1. SameLinks /\ HopOf(claim') = HopOf(claim)
        BY <2>1, ChainLeft
      <3> QED
        BY <3>1 DEF OneChain, LinksReached, SameLinks
    <2> QED
      BY <2>1, SwitchChain, RestoreChain DEF Kind, Leaving
  <1> QED
    BY <1>1, LiveStep, OneMoveStep, SettlesStep, SourcesUsedStep DEF OneChain

\* There is one chain in every reachable state.
LEMMA ChainHolds ==
  ASSUME Kept, Unresumed PROVE Spec => [](TypeOK /\ Records /\ OneChain)
  <1>1. Init => TypeOK /\ Records /\ OneChain
    BY InitType, RecordsInit, ChainInit
  <1>2. TypeOK /\ Records /\ OneChain /\ [Next]_vars => (TypeOK /\ Records /\ OneChain)'
    BY RecordsStep, ChainStep
  <1> QED
    BY <1>1, <1>2, PTL DEF Spec

\* No step takes back the acceptance of a copy: settleMove judges only one not accepted yet.
LEMMA AcceptedKept ==
  ASSUME TypeOK, Records, Kind, NEW m \in Claims, claim[m].phase = "accepted"
  PROVE  claim'[m].phase = "accepted"
  <1>1. CASE KindKeep
    BY <1>1 DEF KindKeep, Alone, SamePhases
  <1>2. CASE KindBegin
    <2>1. m # op.ask
      BY <1>2 DEF KindBegin, Records, UnmadeBlank
    <2> QED
      BY <1>2, <2>1 DEF KindBegin, TargetMade
  <1>3. CASE KindRefuse \/ KindVerified
    BY <1>3 DEF KindRefuse, KindVerified, AdvancingOf, Early, PhaseSet
  <1>4. CASE KindMark \/ KindSwitch \/ KindRestore
    BY <1>4 DEF KindMark, KindSwitch, KindRestore, MarkSet, LinkSet, SamePhases
  <1>5. CASE KindCreate \/ KindJob
    BY <1>5 DEF KindCreate, KindJob, SameClaims, SamePhases
  <1>6. CASE KindCopied
    BY <1>6 DEF KindCopied, AdvancingOf, CopiedSet
  <1>7. CASE KindSettle
    BY <1>7 DEF KindSettle, PhaseSet
  <1>8. CASE KindAccept \/ KindReject
    <2>1. m # op.ask
      BY <1>8 DEF KindAccept, KindReject, Records, StepsKnown
    <2> QED
      BY <1>8, <2>1 DEF KindAccept, KindReject, PhaseSet
  <1> QED
    BY <1>1, <1>2, <1>3, <1>4, <1>5, <1>6, <1>7, <1>8 DEF Kind

\* As long as no id is named again after the spec named another, and no person deletes a
\* claim the memory moved off, an accepted copy stays accepted and no later step, refusal or
\* move takes the memory off it but by a move of that copy: settleMove judges a copy only
\* until it is accepted, restoreSource takes off only the link of the move it refuses, and
\* switchMove writes only on the claim at the end of the chain.
THEOREM AcceptedLinkStaysHolds ==
  ASSUME Kept, Unresumed PROVE Spec => AcceptedLinkStays
  <1> DEFINE Stays(c) ==
        LET m == claim[c].movedTo
        IN m # 0 /\ claim[m].phase = "accepted" =>
             /\ claim'[c].there => claim'[c].movedTo = m
             /\ claim'[m].there => claim'[m].phase = "accepted"
  <1>1. ASSUME TypeOK, Records, OneChain, [Next]_vars
        PROVE  [\A c \in Claims : Stays(c)]_vars
    <2> SUFFICES ASSUME NEW c \in Claims PROVE Stays(c)
      OBVIOUS
    <2>1. TypeOK' /\ Records' /\ Kind
      BY <1>1, RecordsStep
    <2>a. claim[c].movedTo \in Claims
      BY <1>1, FieldTypes
    <2>b. claim[claim[c].movedTo].phase = "accepted" => claim'[claim[c].movedTo].phase = "accepted"
      BY <1>1, <2>1, <2>a, AcceptedKept
    <2> DEFINE Remains == claim[c].movedTo # 0 /\ claim[claim[c].movedTo].phase = "accepted"
                            => claim'[c].movedTo = claim[c].movedTo
    <2>2. CASE Leaving
      <3>1. Remains
        BY <1>1, <2>1, <2>2, ChainLeft DEF SameLinks
      <3> QED
        BY <2>b, <3>1
    <2>3. CASE KindSwitch
      <3>1. claim[op.ask].source = InUse /\ claim[InUse].movedTo = 0
        BY <1>1, <2>1, <2>3, SwitchChain, ChainFacts DEF OneChain
      <3>2. Remains
        BY <2>3, <3>1 DEF KindSwitch, LinkSet
      <3> QED
        BY <2>b, <3>2
    <2>4. CASE KindRestore
      <3>1. Linked(op.ask) /\ claim[op.ask].phase = "refused"
        BY <1>1, <2>1, <2>4, RestoreChain
      <3>2. Remains
        BY <2>4, <3>1 DEF KindRestore, LinkSet, Linked
      <3> QED
        BY <2>b, <3>2
    <2> QED
      BY <2>1, <2>2, <2>3, <2>4 DEF Kind, Leaving
  <1>2. TypeOK /\ Records /\ OneChain /\ [Next]_vars => [\A c \in Claims : Stays(c)]_vars
    BY <1>1
  <1> QED
    BY <1>2, ChainHolds, PTL DEF Spec, AcceptedLinkStays

--------------------------------------------------------------------------------
(* The acts, by what they do to all of the state.  A careful environment: an *)
(* agent exits other than cleanly only where it may not open its store, no   *)
(* person takes a finalizer off, deletes a claim the memory moved off or     *)
(* names again an id that has its target, and fewer than five reconciles are *)
(* cut short.                                                                *)

Careful ==
  /\ Happens \cap {"agentFails", "killed", "hand", "sourceDeleted", "resumed"} = {}
  /\ MaxCrashes < 5

PodOn(c) == pod.uid # 0 /\ pod.claim = c
StsOn(c) == sts.there /\ sts.replicas = 1 /\ sts.claim = c

\* A reconcile's own writes leave the workload, the memory and the counters.
Rest == UNCHANGED <<ask, sts, pod, memory, latest, created, accepts, budget>>

ActPlan ==
  /\ Rest /\ UNCHANGED job /\ UNCHANGED claim
  /\ \/ /\ op.pc = "idle" /\ op'.pc = "fence" /\ op'.ask = ask /\ op'.claim = 0 /\ ~op'.strict
     \/ op.pc = "move" /\ OpPlan("sts", InUse, TRUE)
     \/ op.pc = "move" /\ op.ask = 0 /\ OpPlan("sts", InUse, JobRunning)
     \/ Deciding /\ InUse = op.ask /\ OpPlan("settle", InUse, JobRunning)
     \/ op.pc \in {"settle", "accept"} /\ OpAt("sts")
     \/ op.pc = "settle" /\ OpAt("restore")
ActBegin ==
  /\ Rest /\ KindBegin /\ op.gone /\ OpPlan("sts", InUse, TRUE)
  /\ claim[InUse].writer.state = "stopped" /\ claim[InUse].writer.exit = "clean"
ActRefuse == Rest /\ KindRefuse /\ op.gone /\ OpPlan("sts", InUse, TRUE)
ActMark == Rest /\ KindMark /\ op.gone /\ sourceUnchanged(op.ask) /\ OpPlan("createJob", InUse, TRUE)
ActCreate == Rest /\ KindCreate /\ OpAt("sts")
ActCopied == Rest /\ KindCopied /\ OpPlan("sts", InUse, TRUE)
ActVerified == Rest /\ KindVerified /\ OpPlan("sts", InUse, TRUE)
ActSwitch ==
  Rest /\ KindSwitch /\ op.gone /\ sourceUnchanged(op.ask) /\ OpPlan("settle", op.ask, FALSE)
ActSettle == Rest /\ KindSettle /\ OpAt("accept")
ActAccept == Rest /\ KindAccept /\ OpAt("sts")
ActReject == Rest /\ KindReject /\ PodOn(op.ask) /\ agentExitedNonZero /\ OpAt("restore")
ActRestore ==
  /\ Rest /\ KindRestore /\ claim[claim[op.ask].source].there
  /\ OpPlan("sts", claim[op.ask].source, TRUE)
ActFence ==
  /\ UNCHANGED <<ask, sts, job, memory, latest, created, accepts, budget>>
  /\ op.pc = "fence" /\ op'.pc = "move" /\ op'.ask = op.ask /\ op'.gone = (pod.uid = 0)
  /\ op'.claim = op.claim /\ op'.strict = op.strict /\ op'.hold = op.hold
  /\ FenceNotes \/ FenceReleases \/ FenceLeaves
ActSts ==
  /\ UNCHANGED <<ask, pod, claim, job, memory, latest, created, accepts, budget>>
  /\ op.pc = "sts" /\ op' = Idle
  /\ \/ ~sts'.there /\ sts'.claim = 0 /\ ~sts'.strict
     \/ /\ sts'.there /\ sts'.claim = op.claim /\ sts'.strict = op.strict
        /\ sts'.replicas = (IF op.held \/ op.hold THEN 0 ELSE 1)
ActCut ==
  /\ UNCHANGED <<ask, sts, pod, claim, job, memory, latest, created, accepts>>
  /\ op' = Idle /\ budget'.crashes = budget.crashes + 1
ActPeople ==
  /\ UNCHANGED <<sts, pod, claim, job, op, memory, latest, created, accepts>>
  /\ budget'.crashes = budget.crashes
  /\ ask' = ask \/ ask' = 0 \/ ~claim[ask'].there
ActCreatePod ==
  /\ UNCHANGED <<ask, sts, job, op, memory, latest, accepts, budget>>
  /\ sts.there /\ sts.replicas = 1 /\ pod.uid = 0 /\ created' = created + 1
  /\ pod'.uid = created + 1 /\ pod'.claim = sts.claim /\ pod'.strict = sts.strict
  /\ pod'.run = "waiting" /\ pod'.exit = "none" /\ pod'.last = "none"
  /\ SameClaims \/ OwnMade
ActPod ==
  /\ UNCHANGED <<ask, sts, claim, job, op, memory, latest, created, accepts, budget>>
  /\ pod.uid # 0 \/ pod.run \in {"starting", "serving"}
  /\ pod'.uid = pod.uid /\ pod'.claim = pod.claim /\ pod'.strict = pod.strict
  /\ \/ pod'.run = pod.run /\ pod'.exit = pod.exit /\ pod'.last = pod.last
     \/ /\ pod'.run = "starting" /\ pod'.exit = "none" /\ pod'.last = pod.exit
        /\ claim[pod.claim].there
     \/ /\ pod'.run = "exited" /\ pod'.last = pod.last
        /\ pod'.exit = "clean" \/ (pod'.exit = "failed" /\ ~OpensStore)
ActServe ==
  /\ UNCHANGED <<ask, sts, claim, job, op, created, accepts, budget>>
  /\ pod.run = "starting" /\ OpensStore
  /\ pod'.uid = pod.uid /\ pod'.claim = pod.claim /\ pod'.strict = pod.strict
  /\ pod'.run = "serving" /\ pod'.exit = pod.exit /\ pod'.last = pod.last
  /\ MemorySet(pod.claim, pod.uid) /\ latest' = pod.uid
JobBegins(m) ==
  /\ job[m]["copy"].state = "pending" /\ UNCHANGED memory /\ memory[claim[m].source] # 0
  /\ JobTo(m, "copy", "reading", job[m]["copy"].seen, memory[claim[m].source],
           job[m]["copy"].target)
JobCopies(m) ==
  /\ job[m]["copy"].state = "reading" /\ JobMoved(m, "copy", "done", job[m]["copy"].seen)
  /\ MemorySet(m, IF memory[claim[m].source] = job[m]["copy"].source
                  THEN job[m]["copy"].source ELSE Torn)
JobVerifies(m) ==
  /\ job[m]["verify"].state = "pending" /\ UNCHANGED memory
  /\ JobTo(m, "verify", "done", job[m]["verify"].seen, memory[claim[m].source], memory[m])
\* A Job that fails, or is lost before it is done.
JobFails(m, s) ==
  /\ job[m][s].state \in {"pending", "reading"}
  /\ JobMoved(m, s, "failed", job[m][s].seen) \/ JobMoved(m, s, "gone", FALSE)
  /\ (s = "copy" /\ MemorySet(m, Torn)) \/ UNCHANGED memory
JobGoes(m, s) ==
  /\ job[m][s].state \notin {"none", "gone"} /\ UNCHANGED memory
  /\ \/ JobMoved(m, s, "gone", FALSE) \/ JobMoved(m, s, job[m][s].state, TRUE)
     \/ job[m][s].state = "done" /\ JobMoved(m, s, "unread", job[m][s].seen)
ActJob ==
  /\ JobKept
  /\ \E m \in MoveIds :
       \/ JobBegins(m) \/ JobCopies(m) \/ JobVerifies(m)
       \/ \E s \in JobSteps : JobFails(m, s) \/ JobGoes(m, s)

\* The acts of a reconcile, and those of the rest.
ActMove ==
  \/ ActPlan \/ ActBegin \/ ActRefuse \/ ActMark \/ ActCreate \/ ActCopied \/ ActVerified
  \/ ActSwitch \/ ActSettle \/ ActAccept \/ ActReject \/ ActRestore
ActWorld ==
  ActFence \/ ActSts \/ ActCut \/ ActPeople \/ ActCreatePod \/ ActPod \/ ActServe \/ ActJob
Act == ActMove \/ ActWorld

\* A careful environment keeps sources and resumes no move.
LEMMA CarefulIs == Careful => Kept /\ Unresumed
  BY DEF Careful, Kept, Unresumed

\* A step of a Job is an act.
LEMMA JobActs ==
  ASSUME TypeOK, Jobs PROVE ActJob
  <1>1. PICK m \in MoveIds :
          \/ BeginCopy(m) \/ EndCopy(m) \/ VerifyCopy(m)
          \/ \E s \in JobSteps : FailJob(m, s) \/ LoseJob(m, s) \/ SeeJob(m, s)
    BY DEF Jobs
  <1>2. "copy" \in JobSteps /\ "verify" \in JobSteps
    BY DEF JobSteps
  <1>3. CASE BeginCopy(m)
    <2>1. CASE JobMoved(m, "copy", "failed", job[m]["copy"].seen)
      <3>1. JobKept /\ JobFails(m, "copy")
        BY <1>3, <2>1, BeginCopyEffect DEF JobFails
      <3> QED
        BY <1>2, <3>1 DEF ActJob
    <2>2. CASE ~JobMoved(m, "copy", "failed", job[m]["copy"].seen)
      <3>1. JobKept /\ JobBegins(m)
        BY <1>3, <2>2, BeginCopyEffect DEF JobBegins
      <3> QED
        BY <3>1 DEF ActJob
    <2> QED
      BY <2>1, <2>2
  <1>4. CASE EndCopy(m)
    <2>1. JobKept /\ JobCopies(m)
      BY <1>4, EndCopyEffect DEF JobCopies
    <2> QED
      BY <2>1 DEF ActJob
  <1>5. CASE VerifyCopy(m)
    <2>1. JobKept /\ JobVerifies(m)
      BY <1>5, VerifyEffect DEF JobVerifies
    <2> QED
      BY <2>1 DEF ActJob
  <1>6. ASSUME NEW s \in JobSteps, FailJob(m, s) \/ LoseJob(m, s) \/ SeeJob(m, s) PROVE ActJob
    <2>1. CASE FailJob(m, s)
      <3>1. JobKept /\ JobFails(m, s)
        BY <2>1, FailEffect DEF JobFails
      <3> QED
        BY <3>1 DEF ActJob
    <2>2. CASE LoseJob(m, s)
      <3>1. JobKept /\ (JobFails(m, s) \/ JobGoes(m, s))
        BY <2>2, LoseEffect DEF JobCut, JobDropped, JobFails, JobGoes
      <3> QED
        BY <3>1 DEF ActJob
    <2>3. CASE SeeJob(m, s)
      <3>1. JobKept /\ JobGoes(m, s)
        BY <2>3, SeeEffect DEF JobGoes
      <3> QED
        BY <3>1 DEF ActJob
    <2> QED
      BY <1>6, <2>1, <2>2, <2>3
  <1> QED
    BY <1>1, <1>3, <1>4, <1>5, <1>6

\* Every step of a careful environment is one of the acts.
LEMMA Acts ==
  ASSUME Careful, TypeOK, Records, OneChain, [Next]_vars PROVE Act
  <1> DEFINE Base == UNCHANGED <<ask, held, sts, pod, job>> /\ UNCHANGED clusterVars
  <1>0. Base => Rest /\ UNCHANGED job
    BY DEF clusterVars, Rest
  <1>a. InUse # 0 => claim[InUse].there
    <2>1. InUse # 0 => Linked(InUse) /\ claim[InUse].source \in Claims
      BY ChainFacts, HopIs, FieldTypes DEF OneChain
    <2> QED
      BY <2>1 DEF Linked, Records, LinksRecorded
  <1> HIDE DEF Base
  <1>1. CASE Reconcile
    <2>1. ActPlan
      BY <1>0, <1>1, ReconcileEffect DEF Reconcile, ActPlan, Base
    <2> QED
      BY <2>1 DEF Act, ActMove
  <1>2. CASE ReconcileFence
    <2>1. ActFence
      BY <1>2, FenceEffect DEF ReconcileFence, ActFence, clusterVars
    <2> QED
      BY <2>1 DEF Act, ActWorld
  <1>3. CASE NoMove
    <2>1. ActPlan
      BY <1>0, <1>a, <1>3, NoMoveEffect DEF NoMove, ActPlan, Base
    <2> QED
      BY <2>1 DEF Act, ActMove
  <1>4. CASE BeginMove
    <2>1. Base /\ OpPlan("sts", InUse, TRUE) /\ Deciding
      BY <1>4, BeginEffect DEF BeginMove, Base
    <2>2. CASE UNCHANGED claim
      <3>1. ActPlan
        BY <1>0, <2>1, <2>2 DEF ActPlan, Deciding
      <3> QED
        BY <3>1 DEF Act, ActMove
    <2>3. CASE op.gone /\ claim[InUse].there /\ drainedCleanly(InUse)
      <3>1. claim \in [Claims -> Claim] /\ op.ask \in Claims /\ InUse \in Claims
        BY InUseType, FieldTypes DEF TypeOK
      <3>2. TargetMade(op.ask, InUse)
        BY <1>4, <2>3, <3>1, TargetWrite DEF BeginMove
      <3>3. ActBegin
        BY <1>0, <1>4, <2>1, <2>3, <3>2, BeginEffect
        DEF ActBegin, KindBegin, drainedCleanly, Onto, OpPlan, Rest
      <3> QED
        BY <3>3 DEF Act, ActMove
    <2> QED
      BY <1>4, <2>2, <2>3 DEF BeginMove
  <1>5. CASE MoveWaits
    <2>1. ActPlan
      BY <1>0, <1>5, WaitsEffect DEF MoveWaits, ActPlan, Base, Waiting, Deciding
    <2> QED
      BY <2>1 DEF Act, ActMove
  <1>r. ASSUME Refusing, Base PROVE Act
    <2>1. ActRefuse
      BY <1>0, <1>r DEF Refusing, ActRefuse, KindRefuse, Early, Onto, OpPlan, Rest
    <2> QED
      BY <2>1 DEF Act, ActMove
  <1>6. CASE RefuseSourceChanged
    BY <1>6, <1>r, RefuseEffect DEF RefuseSourceChanged, Base
  <1>7. CASE EnsureMoveJob
    <2>1. Base
      BY <1>7 DEF EnsureMoveJob, Base
    <2>2. CASE Marking
      <3>1. KindMark
        BY <1>0, <2>1, <2>2 DEF Marking, KindMark, Onto, OpPlan, Rest
      <3>2. ActMark
        BY <1>0, <2>1, <2>2, <3>1 DEF Marking, ActMark
      <3> QED
        BY <3>2 DEF Act, ActMove
    <2>3. CASE Waiting
      <3>1. ActPlan
        BY <1>0, <2>1, <2>3 DEF ActPlan, Waiting, Deciding
      <3> QED
        BY <3>1 DEF Act, ActMove
    <2> QED
      BY <1>7, <1>r, <2>1, <2>2, <2>3, EnsureEffect
  <1>8. CASE CreateJob
    <2>1. ActCreate
      BY <1>8, CreateJobEffect, ClaimsKept
      DEF CreateJob, ActCreate, KindCreate, Onto, OpAt, Rest, clusterVars
    <2> QED
      BY <2>1 DEF Act, ActMove
  <1>9. CASE RecordCopied
    <2>1. ActCopied
      BY <1>0, <1>9, CopiedEffect DEF RecordCopied, ActCopied, KindCopied, Onto, OpPlan, Base, Rest
    <2> QED
      BY <2>1 DEF Act, ActMove
  <1>10. CASE RecordVerified
    <2>1. Base /\ op.gone
      BY <1>10 DEF RecordVerified, Base
    <2>2. CASE DigestsMatch(op.ask) /\ PhaseSet(op.ask, "verified")
      <3>1. ActVerified
        BY <1>0, <1>10, <2>1, <2>2, VerifiedEffect DEF ActVerified, KindVerified, Onto, OpPlan, Rest
      <3> QED
        BY <3>1 DEF Act, ActMove
    <2>3. CASE PhaseSet(op.ask, "refused")
      <3>1. ActRefuse
        BY <1>0, <1>10, <2>1, <2>3, VerifiedEffect
        DEF ActRefuse, KindRefuse, Onto, OpPlan, Rest, AdvancingOf, Early
      <3> QED
        BY <3>1 DEF Act, ActMove
    <2> QED
      BY <1>10, <2>2, <2>3, VerifiedEffect
  <1>11. CASE SwitchMove
    <2>1. ActSwitch
      BY <1>0, <1>11, SwitchEffect
      DEF SwitchMove, ActSwitch, KindSwitch, Onto, OpPlan, sourceUnchanged, Base, Rest
    <2> QED
      BY <2>1 DEF Act, ActMove
  <1>12. CASE FindSwitched
    <2>1. ActPlan
      BY <1>0, <1>12, FindEffect DEF FindSwitched, ActPlan, Base
    <2> QED
      BY <2>1 DEF Act, ActMove
  <1>13. CASE SettleMove
    <2>1. Base /\ op.pc = "settle"
      BY <1>13 DEF SettleMove, Base, At
    <2>2. CASE claim[op.ask].phase \in {"verified", "switched"}
      <3>1. PhaseSet(op.ask, "switched") /\ OpAt("accept")
        BY <1>13, <2>2, SettleEffect
      <3>2. ActSettle
        BY <1>0, <2>1, <2>2, <3>1 DEF ActSettle, KindSettle, Onto, OpAt, Rest
      <3> QED
        BY <3>2 DEF Act, ActMove
    <2>3. CASE claim[op.ask].phase \notin {"verified", "switched"}
      <3>1. UNCHANGED claim
        BY <1>13, <2>3 DEF SettleMove
      <3>2. OpAt("sts") \/ OpAt("restore")
        BY <1>13, <2>3, SettleEffect
      <3>3. ActPlan
        BY <1>0, <2>1, <3>1, <3>2 DEF ActPlan
      <3> QED
        BY <3>3 DEF Act, ActMove
    <2> QED
      BY <2>2, <2>3
  <1>14. CASE ReadFirstPod
    <2>1. Base /\ op.pc = "accept"
      BY <1>14 DEF ReadFirstPod, Base, At
    <2>2. CASE PodOn(op.ask) /\ agentExitedNonZero /\ PhaseSet(op.ask, "refused") /\ OpAt("restore")
      <3>1. ActReject
        BY <1>0, <2>1, <2>2 DEF ActReject, KindReject, Onto, OpAt, Rest
      <3> QED
        BY <3>1 DEF Act, ActMove
    <2>3. CASE PhaseSet(op.ask, "accepted") /\ OpAt("sts")
      <3>1. ActAccept
        BY <1>0, <2>1, <2>3 DEF ActAccept, KindAccept, Onto, OpAt, Rest
      <3> QED
        BY <3>1 DEF Act, ActMove
    <2>4. CASE UNCHANGED claim /\ OpAt("sts")
      <3>1. ActPlan
        BY <1>0, <2>1, <2>4 DEF ActPlan
      <3> QED
        BY <3>1 DEF Act, ActMove
    <2> QED
      BY <1>14, <2>2, <2>3, <2>4, ReadEffect DEF PodOn
  <1>15. CASE RestoreSource
    <2>1. Base /\ op.pc = "restore"
      BY <1>15 DEF RestoreSource, Base, At
    <2>2. claim[claim[op.ask].source].there
      BY <2>1 DEF Records, StepsKnown, SourcesThere
    <2>3. ActRestore
      BY <1>0, <1>15, <2>1, <2>2, RestoreEffect DEF ActRestore, KindRestore, Onto, OpPlan, Rest
    <2> QED
      BY <2>3 DEF Act, ActMove
  <1>16. CASE ReconcileStatefulSet
    <2>1. ActSts
      BY <1>16, StsEffect DEF ReconcileStatefulSet, ActSts, clusterVars
    <2> QED
      BY <2>1 DEF Act, ActWorld
  <1>17. CASE CutShort
    <2>1. budget'.crashes = budget.crashes + 1
      BY <1>17 DEF CutShort, TypeOK
    <2>2. ActCut
      BY <1>17, <2>1 DEF CutShort, ActCut
    <2> QED
      BY <2>2 DEF Act, ActWorld
  <1>18. CASE AskMove
    <2>1. budget'.crashes = budget.crashes
      BY <1>18 DEF AskMove, TypeOK
    <2>2. ActPeople
      BY <1>18, <2>1 DEF AskMove, ActPeople, Careful
    <2> QED
      BY <2>2 DEF Act, ActWorld
  <1>19. CASE ChangeHeld \/ UNCHANGED vars
    <2>1. ActPeople
      BY <1>19 DEF ChangeHeld, ActPeople, vars, clusterVars
    <2> QED
      BY <2>1 DEF Act, ActWorld
  <1>20. CASE ReleaseByHand \/ DeleteSource
    BY <1>20 DEF ReleaseByHand, DeleteSource, Careful
  <1>21. CASE CreatePod
    <2>1. ActCreatePod
      BY <1>21, CreatePodEffect DEF CreatePod, ActCreatePod
    <2> QED
      BY <2>1 DEF Act, ActWorld
  <1>22. CASE DeletePod \/ StartAgent
    <2>1. ActPod
      BY <1>22, PodEffect DEF DeletePod, StartAgent, ActPod, clusterVars
    <2> QED
      BY <2>1 DEF Act, ActWorld
  <1>23. CASE Serve
    <2>1. ActServe
      BY <1>23, PodEffect DEF Serve, ActServe, MemorySet
    <2> QED
      BY <2>1 DEF Act, ActWorld
  <1>24. CASE ExitAgent
    <2>1. PICK code \in {"clean", "failed"} :
            /\ \/ pod.deleting /\ (code = "failed" => "killed" \in Happens)
               \/ code = "failed" /\ pod.run = "starting" /\ ~OpensStore
               \/ code = "failed" /\ "agentFails" \in Happens
            /\ pod' = [pod EXCEPT !.run = "exited", !.exit = code]
      BY <1>24 DEF ExitAgent
    <2>2. pod'.exit = code
      BY <2>1 DEF TypeOK, Pod
    <2>3. pod'.exit = "clean" \/ (pod'.exit = "failed" /\ ~OpensStore)
      BY <2>1, <2>2 DEF Careful
    <2>4. ActPod
      BY <1>24, <2>3, PodEffect DEF ExitAgent, ActPod, clusterVars
    <2> QED
      BY <2>4 DEF Act, ActWorld
  <1>25. CASE Jobs
    BY <1>25, JobActs DEF Act, ActWorld
  <1> QED
    BY <1>1, <1>2, <1>3, <1>4, <1>5, <1>6, <1>7, <1>8, <1>9, <1>10, <1>11, <1>12, <1>13, <1>14,
       <1>15, <1>16, <1>17, <1>18, <1>19, <1>20, <1>21, <1>22, <1>23, <1>24, <1>25
    DEF Next, Controller, People, Workload

--------------------------------------------------------------------------------
(* Where the memory is.                                                      *)

\* A move that can still come to its switch.
Pending(m) == Live(m) /\ ~Linked(m)

\* Pods are numbered as they are made, and a move's source had no Pod yet to come.
UidsInOrder ==
  /\ latest <= created /\ pod.uid \in {0, created}
  /\ \A c \in Claims :
       /\ claim[c].writer.pod <= created /\ claim[c].sourceWriter.pod <= created
       /\ pod.uid # 0 /\ claim[c].writer.pod = pod.uid => claim[c].writer.state = "running"
  /\ \A m \in MoveIds : claim[m].there /\ pod.uid # 0 => claim[m].sourceWriter.pod < pod.uid
\* A copy was made of a store, and was over before anything came of it.
Copied == {"copied", "verified", "switched", "accepted"}
CopyFirst ==
  \A m \in MoveIds :
    /\ claim[m].phase \in Copied \/ Linked(m) \/ "verify" \in claim[m].started =>
         job[m]["copy"].state \in {"done", "unread", "gone"}
    /\ job[m]["copy"].state \in {"reading", "done"} => job[m]["copy"].source # 0
    /\ claim[m].phase \in Copied \/ Linked(m) => claim[m].digest # 0
\* An agent on a copy must find a store there, and there is one.
Required(c, strict) == Used(c) /\ (c # 0 => strict) /\ (strict => memory[c] # 0)
StoresFound ==
  /\ Required(pod.claim, pod.strict) /\ Required(sts.claim, sts.strict)
  /\ Required(op.claim, op.strict)
  /\ \A m \in MoveIds : /\ Linked(m) => memory[m] # 0
                        /\ claim[m].writer.state # "none" => Used(m)
\* A Pod that can open its store is on the claim in use; one that is not is an old
\* agent's, which refuses it.
InPlace(c, strict) == c = InUse \/ (~accepts /\ strict)
PodInPlace ==
  /\ pod.uid = 0 => pod.run = "waiting" /\ pod.exit = "none" /\ pod.last = "none"
  /\ pod.uid # 0 => InPlace(pod.claim, pod.strict)
  /\ pod.run = "serving" /\ pod.strict => accepts
  /\ pod.run \in {"starting", "serving"} => claim[pod.claim].there
  /\ "failed" \in {pod.exit, pod.last} => ~accepts /\ pod.strict
PlansInPlace ==
  /\ sts.there /\ sts.replicas = 1 => InPlace(sts.claim, sts.strict)
  /\ op.pc \in {"createJob", "settle", "accept", "sts"} /\ ~op.hold => op.claim = InUse
\* A move takes five reconciles, and one that comes to its end leaves the StatefulSet
\* without a replica: where it has one on the source, a reconcile for each step the move
\* has come was cut short.
StepsTaken(m) ==
  IF claim[m].phase = "created" THEN IF "copy" \in claim[m].started THEN 2 ELSE 1
  ELSE IF claim[m].phase = "copied" THEN IF "verify" \in claim[m].started THEN 4 ELSE 3
  ELSE 5
Ending == IF op.pc \in {"createJob", "sts"} THEN 1 ELSE 0
StopsCounted ==
  /\ \A m \in MoveIds : Pending(m) =>
       /\ StsOn(InUse) => budget.crashes + Ending >= StepsTaken(m)
       /\ op.pc \in {"createJob", "sts"} /\ op.ask = m => op.hold
  /\ op.pc = "move" /\ op.gone /\ pod.uid # 0 => StsOn(pod.claim)
\* As long as no Pod came to the source, it is what the move began on and what the
\* verification read.
Touched(m) == claim[InUse].writer.pod > claim[m].sourceWriter.pod \/ PodOn(InUse)
Compared(m) == job[m]["verify"].state = "done" \/ claim[m].phase = "verified"
CopyFaithful ==
  \A m \in MoveIds : Pending(m) =>
    /\ \/ claim[InUse].writer = claim[m].sourceWriter
       \/ claim[InUse].writer.pod > claim[m].sourceWriter.pod
    /\ claim[m].sourceWriter.state = "stopped" /\ claim[m].sourceWriter.exit = "clean"
    /\ ~Touched(m) => /\ memory[InUse] <= claim[m].sourceWriter.pod
                      /\ Compared(m) => job[m]["verify"].source = memory[InUse]
    /\ Compared(m) => job[m]["verify"].target = memory[m]
\* The claim in use holds what the agent last wrote; where an old agent refused a copy,
\* so does the claim it was made from.
HomeKept ==
  /\ memory[InUse] = latest /\ (latest # 0 => claim[InUse].there)
  /\ claim[InUse].writer.state # "none" /\ ~PodOn(InUse) => latest <= claim[InUse].writer.pod
  /\ \A m \in MoveIds : Linked(m) /\ claim[m].phase = "refused" => ~accepts
  /\ ~accepts => \A c \in Claims : claim[c].movedTo # 0 =>
                   memory[claim[c].movedTo] = memory[c] /\ latest <= claim[c].writer.pod
\* A copy that was put in use is of a drained source.
CopiesDrained ==
  \A m \in MoveIds :
    Linked(m) \/ claim[m].phase \in {"switched", "accepted"} =>
      /\ claim[m].sourceWriter.exit = "clean"
      /\ claim[m].digest <= claim[m].sourceWriter.pod
MemoryKept ==
  /\ UidsInOrder /\ CopyFirst /\ StoresFound /\ PodInPlace /\ PlansInPlace /\ StopsCounted
  /\ CopyFaithful /\ HomeKept /\ CopiesDrained

\* The layers below.
Below == TypeOK /\ Records /\ OneChain

\* The layers below hold after a step, which is of one kind and one act.
LEMMA BelowStep ==
  ASSUME Careful, Below, [Next]_vars PROVE Below' /\ Kind /\ Act
  <1>1. Kept /\ Unresumed
    BY CarefulIs
  <1>2. TypeOK' /\ Records' /\ Kind
    BY <1>1, RecordsStep DEF Below
  <1> QED
    BY <1>1, <1>2, ChainStep, Acts DEF Below

\* A move that can come to its switch could before, but for the one that begins.
LEMMA PendingWas ==
  ASSUME Unresumed, Below, Below', Kind, NEW m \in MoveIds, Pending(m)'
  PROVE  /\ Leaving /\ InUse' = InUse /\ claim'[m].source = InUse /\ InUse # m
         /\ \/ KindBegin /\ m = op.ask
            \/ /\ Pending(m) /\ claim[m].source = InUse
               /\ claim'[m].sourceWriter = claim[m].sourceWriter
  <1> USE ClaimNumbers, FieldTypes DEF Below
  <1>0. m # 0 /\ (m = ask' \/ (op'.pc # "idle" /\ m = op'.ask)) /\ claim'[m].there
        /\ claim'[m].phase \in Early /\ ~Linked(m)'
    BY DEF Pending, Live, MoveIds
  <1>1. claim'[m].source = InUse' /\ InUse' # m
    BY DEF OneChain, LiveFromInUse, Pending
  <1>2. ASSUME Live(m), SameSources, Leaving
        PROVE  /\ Leaving /\ InUse' = InUse /\ claim'[m].source = InUse /\ InUse # m
               /\ Pending(m) /\ claim[m].source = InUse
               /\ claim'[m].sourceWriter = claim[m].sourceWriter
    <2>1. InUse' = InUse /\ (Linked(m)' <=> Linked(m))
      BY <1>2, ChainLeft, LinkedLeft
    <2> QED
      BY <1>0, <1>1, <1>2, <2>1 DEF Pending, SameSources
  <1>3. CASE KindKeep
    <2>1. claim[m].there /\ claim[m].phase \in Early /\ SameSources
      BY <1>0, <1>3 DEF KindKeep, Alone, SamePhases
    <2>2. m = ask \/ (op.pc # "idle" /\ m = op.ask)
      BY <1>0, <1>3, <2>1 DEF KindKeep, OpStep, Unresumed, Deciding
    <2> QED
      BY <1>2, <1>3, <2>1, <2>2 DEF Live, Leaving
  <1>4. CASE KindBegin
    <2>1. op.pc = "move" /\ op'.ask = op.ask /\ ask' = ask /\ Leaving
      BY <1>4 DEF KindBegin, Deciding, Onto, Leaving
    <2>2. InUse' = InUse
      BY <2>1, ChainLeft
    <2>3. CASE m = op.ask
      BY <1>1, <1>4, <2>1, <2>2, <2>3
    <2>4. CASE m # op.ask
      <3>1. claim'[m] = claim[m] /\ m = ask
        BY <1>0, <1>4, <2>1, <2>4 DEF KindBegin, TargetMade
      <3>2. Live(m) /\ (Linked(m)' <=> Linked(m))
        BY <1>0, <2>1, <3>1, LinkedLeft DEF Live
      <3> QED
        BY <1>0, <1>1, <2>1, <2>2, <3>1, <3>2 DEF Pending
    <2> QED
      BY <2>3, <2>4
  <1>5. CASE KindSwitch
    <2>1. /\ claim[op.ask].source = InUse /\ InUse' = op.ask
          /\ op.pc = "move" /\ op'.ask = op.ask /\ ask' = ask
      BY <1>5, SwitchChain DEF KindSwitch, AdvancingOf, Deciding, Onto
    <2>2. m = op.ask
      BY <1>0, <1>5, <2>1 DEF OneChain, OneMove, KindSwitch, LinkSet, SameThere
    <2> QED
      BY <1>1, <2>1, <2>2
  <1>6. CASE KindRestore
    <2>1. claim[op.ask].phase = "refused" /\ op.pc = "restore" /\ op'.ask = op.ask /\ ask' = ask
      BY <1>6, RestoreChain DEF KindRestore, Onto
    <2>2. m = op.ask
      BY <1>0, <1>6, <2>1 DEF OneChain, OneMove, KindRestore, LinkSet, SameThere
    <2> QED
      BY <1>0, <1>6, <2>1, <2>2 DEF KindRestore, LinkSet, SamePhases, Early
  <1>7. CASE KindJob
    <2>1. Live(m) /\ SameSources
      BY <1>0, <1>7 DEF KindJob, SameClaims, SameThere, SamePhases, Live
    <2> QED
      BY <1>2, <1>7, <2>1 DEF Leaving
  <1>8. CASE KindMark
    <2>1. op.pc # "idle" /\ SameThere /\ SamePhases /\ SameSources /\ Onto("createJob")
      BY <1>8 DEF KindMark, AdvancingOf, Deciding, MarkSet
    <2>2. Live(m)
      BY <1>0, <2>1 DEF Onto, SameThere, SamePhases, Live
    <2> QED
      BY <1>2, <1>8, <2>1, <2>2 DEF Leaving
  <1>9. CASE KindRefuse \/ KindSettle \/ KindAccept \/ KindReject
    <2>1. op.pc # "idle" /\ op'.ask = op.ask /\ ask' = ask /\ SameThere /\ SameSources
          /\ \E p \in {"refused", "switched", "accepted"} : PhaseSet(op.ask, p)
      BY <1>9
      DEF KindRefuse, KindSettle, KindAccept, KindReject, PhaseSet, AdvancingOf, Deciding, Onto
    <2>2. m # op.ask /\ claim'[m].phase = claim[m].phase
      BY <1>0, <2>1 DEF PhaseSet, Early
    <2>3. Live(m)
      BY <1>0, <2>1, <2>2 DEF SameThere, Live
    <2> QED
      BY <1>2, <1>9, <2>1, <2>3 DEF Leaving
  <1>10. CASE KindCopied \/ KindVerified
    <2>1. /\ op.pc # "idle" /\ op'.ask = op.ask /\ ask' = ask /\ SameThere /\ SameSources
          /\ claim[op.ask].phase \in Early
          /\ \A c \in Claims : c # op.ask => claim'[c].phase = claim[c].phase
      BY <1>10 DEF KindCopied, KindVerified, PhaseSet, CopiedSet, AdvancingOf, Deciding, Onto, Early
    <2>2. Live(m)
      BY <1>0, <2>1 DEF SameThere, Live
    <2> QED
      BY <1>2, <1>10, <2>1, <2>2 DEF Leaving
  <1>11. CASE KindCreate
    <2>1. Live(m) /\ SameSources
      BY <1>0, <1>11 DEF KindCreate, SameClaims, SameThere, SamePhases, Live, Onto
    <2> QED
      BY <1>2, <1>11, <2>1 DEF Leaving
  <1> QED
    BY <1>3, <1>4, <1>5, <1>6, <1>7, <1>8, <1>9, <1>10, <1>11 DEF Kind

--------------------------------------------------------------------------------
(* What the acts leave                                                       *)

\* The types the memory's part of the argument rests on.
Typed ==
  /\ pod.uid \in Nat /\ pod.claim \in Claims /\ pod.strict \in BOOLEAN
  /\ sts.claim \in Claims /\ sts.strict \in BOOLEAN
  /\ op.claim \in Claims /\ op.strict \in BOOLEAN /\ op.hold \in BOOLEAN
  /\ created \in Nat /\ latest \in Nat /\ budget.crashes \in 0..MaxCrashes /\ accepts \in BOOLEAN
  /\ \A c \in Claims :
       /\ memory[c] \in Nat /\ claim[c].digest \in Nat
       /\ claim[c].writer.pod \in Nat /\ claim[c].sourceWriter.pod \in Nat
  /\ InUse \in Claims

\* The fields are typed.
LEMMA TypedWhen == TypeOK => Typed
  <1> SUFFICES ASSUME TypeOK PROVE Typed
    OBVIOUS
  <1>1. pod.uid \in Nat /\ pod.claim \in Claims /\ pod.strict \in BOOLEAN
    BY MoveAssumption DEF TypeOK, Pod, Uids
  <1>2. sts.claim \in Claims /\ sts.strict \in BOOLEAN
    BY DEF TypeOK, StatefulSet
  <1>3. op.claim \in Claims /\ op.strict \in BOOLEAN /\ op.hold \in BOOLEAN
    BY DEF TypeOK, Operation
  <1>4. created \in Nat /\ latest \in Nat /\ budget.crashes \in 0..MaxCrashes /\ accepts \in BOOLEAN
    BY MoveAssumption DEF TypeOK, Uids
  <1>5. ASSUME NEW c \in Claims
        PROVE  /\ memory[c] \in Nat /\ claim[c].digest \in Nat
               /\ claim[c].writer.pod \in Nat /\ claim[c].sourceWriter.pod \in Nat
    <2>1. memory[c] \in Memory /\ claim[c] \in Claim
      BY DEF TypeOK
    <2>2. claim[c].digest \in Memory /\ claim[c].writer \in Writer /\ claim[c].sourceWriter \in Writer
      BY <2>1 DEF Claim
    <2> QED
      BY <2>1, <2>2, MoveAssumption DEF Writer, Memory, Torn, Uids
  <1>6. InUse \in Claims
    BY InUseType DEF TypeOK
  <1> QED
    BY <1>1, <1>2, <1>3, <1>4, <1>5, <1>6 DEF Typed

\* The fields are typed after a step.
LEMMA TypedAfter == TypeOK' => Typed'
  BY TypedWhen, PTL

\* The acts of a reconcile leave the rest.
LEMMA MoveRests == ActMove => Rest
  BY DEF ActMove, ActPlan, ActBegin, ActRefuse, ActMark, ActCreate, ActCopied, ActVerified,
         ActSwitch, ActSettle, ActAccept, ActReject, ActRestore

\* What each kind of act leaves alone.
LEMMA Frames ==
  ASSUME Act
  PROVE  /\ ActFence \/ ActCreatePod \/ ActPod \/ ActServe \/ UNCHANGED pod
         /\ ActServe \/ ActJob \/ UNCHANGED memory
         /\ ActServe \/ UNCHANGED latest
         /\ ActCreatePod \/ UNCHANGED created
         /\ ActSts \/ UNCHANGED sts
         /\ ActCut \/ budget'.crashes = budget.crashes
         /\ UNCHANGED accepts
  BY MoveRests
  DEF Act, ActWorld, Rest, ActFence, ActSts, ActCut, ActPeople, ActCreatePod, ActPod, ActServe,
      ActJob, JobKept

\* The records, and the acts that write them.
SameRecords ==
  /\ SameLinks /\ SamePhases /\ SameSources /\ SameDigests /\ SameMarks
  /\ \A m \in MoveIds : claim'[m].there = claim[m].there
Writes ==
  \/ ActBegin \/ ActRefuse \/ ActMark \/ ActCopied \/ ActVerified \/ ActSwitch \/ ActSettle
  \/ ActAccept \/ ActReject \/ ActRestore

\* Which acts write the records, the writers, the Jobs, the claims and the sources.
LEMMA RecordsLeft ==
  ASSUME TypeOK, Act
  PROVE  /\ Writes \/ SameRecords
         /\ ActBegin \/ ActFence \/ SameWriters
         /\ Writes \/ ActCreate \/ ActJob \/ UNCHANGED job
         /\ ActBegin \/ ActCreatePod \/ SameThere
         /\ ActBegin \/ SameSources
  <1> USE ClaimNumbers
  <1>1. SameClaims => SameRecords /\ SameWriters /\ SameSources /\ SameThere
    BY DEF SameClaims, SameRecords, SameThere
  <1>2. UNCHANGED claim => SameClaims
    BY ClaimsKept
  <1>3. CASE ActPlan \/ ActSts \/ ActCut \/ ActPeople \/ ActPod \/ ActServe
    BY <1>1, <1>2, <1>3 DEF ActPlan, ActSts, ActCut, ActPeople, ActPod, ActServe
  <1>4. CASE ActCreate \/ ActJob
    BY <1>1, <1>2, <1>4 DEF ActCreate, KindCreate, ActJob, JobKept
  <1>5. CASE ActFence
    <2>1. SameRecords /\ SameSources /\ SameThere
      BY <1>1, <1>5 DEF ActFence, FenceNotes, FenceReleases, FenceLeaves, WriterSet, SameRecords,
                        SameThere
    <2> QED
      BY <1>5, <2>1 DEF ActFence
  <1>6. CASE ActCreatePod
    <2>1. \A m \in MoveIds : m # 0
      BY DEF MoveIds
    <2>2. OwnMade => SameRecords /\ SameSources /\ SameWriters
      <3>1. \A c \in Claims : claim[c].there \in BOOLEAN
        BY FieldTypes
      <3> QED
        BY <2>1, <3>1 DEF OwnMade, SameRecords
    <2> QED
      BY <1>1, <1>6, <2>2 DEF ActCreatePod
  <1>7. CASE ActRefuse \/ ActMark \/ ActCopied \/ ActVerified \/ ActSwitch \/ ActSettle
             \/ ActAccept \/ ActReject \/ ActRestore
    <2>1. ActMark => SameWriters /\ SameThere /\ SameSources
      BY DEF ActMark, KindMark, MarkSet
    <2>2. ~ActMark => SameWriters /\ SameThere /\ SameSources
      BY <1>7
      DEF ActRefuse, ActCopied, ActVerified, ActSwitch, ActSettle, ActAccept, ActReject,
          ActRestore, KindRefuse, KindCopied, KindVerified, KindSwitch, KindSettle, KindAccept,
          KindReject, KindRestore, PhaseSet, CopiedSet, LinkSet
    <2> QED
      BY <1>7, <2>1, <2>2 DEF Writes
  <1>8. CASE ActBegin
    BY <1>8 DEF Writes
  <1> QED
    BY <1>3, <1>4, <1>5, <1>6, <1>7, <1>8 DEF Act, ActMove, ActWorld

\* A step of the careful environment, from a state where the memory is kept.
Stepping == Careful /\ Below /\ Below' /\ Kind /\ Act /\ MemoryKept

\* A step from a state where everything holds, spelled out.
LEMMA SteppingIs ==
  Stepping => /\ Careful /\ TypeOK /\ TypeOK' /\ Records /\ Records' /\ OneChain /\ OneChain'
              /\ Typed /\ Typed' /\ Below /\ Below' /\ Kind /\ Act /\ MemoryKept
  BY TypedWhen, TypedAfter DEF Stepping, Below

\* Only switchMove and restoreSource change the links.
LEMMA LinksLeft ==
  ASSUME Stepping, ~ActSwitch, ~ActRestore
  PROVE  /\ SameLinks /\ InUse' = InUse
         /\ \A m \in Claims : Linked(m)' <=> Linked(m)
  <1>1. TypeOK /\ TypeOK' /\ Records /\ Records' /\ Act
    BY SteppingIs
  <1>2. CASE SameRecords
    <2>1. SameLinks /\ InUse' = InUse
      BY <1>1, <1>2, SameChain DEF SameRecords
    <2>2. SameSources
      BY <1>2 DEF SameRecords
    <2>3. \A m \in Claims : claim[m].source \in Claims
      BY <1>1, FieldTypes
    <2> QED
      BY <2>1, <2>2, <2>3 DEF Linked, SameLinks, SameSources
  <1>3. CASE Writes
    <2>1. Leaving
      BY <1>3
      DEF Writes, Leaving, ActBegin, ActRefuse, ActMark, ActCopied, ActVerified, ActSettle,
          ActAccept, ActReject
    <2> QED
      BY <1>1, <2>1, ChainLeft, LinkedLeft
  <1> QED
    BY <1>1, <1>2, <1>3, RecordsLeft

\* The copy into the claim in use, and into any claim a link names, is over.
LEMMA JobsApart ==
  ASSUME Stepping, ActJob
  PROVE  /\ \A c \in Claims : c = 0 \/ Linked(c) \/ c = InUse => memory'[c] = memory[c]
         /\ \A m \in MoveIds : job[m]["copy"].state \in {"done", "unread", "gone"} => memory'[m] = memory[m]
  <1> USE SteppingIs
  <1>1. PICK n \in MoveIds :
          \/ JobBegins(n) \/ JobCopies(n) \/ JobVerifies(n)
          \/ \E s \in JobSteps : JobFails(n, s) \/ JobGoes(n, s)
    BY DEF ActJob
  <1>2. UNCHANGED memory
        \/ (/\ job[n]["copy"].state \in {"pending", "reading"}
            /\ \A c \in Claims : c # n => memory'[c] = memory[c])
    BY <1>1 DEF JobBegins, JobCopies, JobVerifies, JobFails, JobGoes, MemorySet
  <1>3. job[n]["copy"].state \in {"pending", "reading"} => ~Linked(n) /\ n # InUse /\ n # 0
    <2>1. Linked(n) => job[n]["copy"].state \in {"done", "unread", "gone"}
      BY DEF MemoryKept, CopyFirst
    <2>2. InUse # 0 => Linked(InUse)
      BY ChainFacts DEF OneChain
    <2> QED
      BY <2>1, <2>2, ClaimNumbers DEF MoveIds
  <1> QED
    BY <1>2, <1>3, ClaimNumbers

\* A store is never taken away.
LEMMA MemoryGrows ==
  ASSUME Stepping PROVE \A c \in Claims : memory[c] # 0 => memory'[c] # 0
  <1> USE SteppingIs
  <1>1. CASE UNCHANGED memory
    BY <1>1
  <1>2. CASE ActServe
    <2>1. pod.uid # 0
      BY <1>2 DEF ActServe, MemoryKept, PodInPlace
    <2> QED
      BY <1>2, <2>1 DEF ActServe, MemorySet
  <1>3. CASE ActJob
    <2>1. PICK n \in MoveIds :
            \/ JobBegins(n) \/ JobCopies(n) \/ JobVerifies(n)
            \/ \E s \in JobSteps : JobFails(n, s) \/ JobGoes(n, s)
      BY <1>3 DEF ActJob
    <2>2. Torn # 0
      BY MoveAssumption DEF Torn
    <2>3. job[n]["copy"].state = "reading" => job[n]["copy"].source # 0
      BY DEF MemoryKept, CopyFirst
    <2> QED
      BY <2>1, <2>2, <2>3 DEF JobBegins, JobCopies, JobVerifies, JobFails, JobGoes, MemorySet
  <1> QED
    BY <1>1, <1>2, <1>3, Frames

\* switchMove comes to a copy of what the agent last wrote.
LEMMA SwitchFacts ==
  ASSUME Stepping, ActSwitch
  PROVE  /\ op.ask \in MoveIds /\ claim[op.ask].source = InUse /\ InUse # op.ask
         /\ InUse' = op.ask /\ ~Linked(op.ask) /\ ~Used(op.ask) /\ claim[op.ask].there
         /\ LinkSet(InUse, op.ask) /\ ~StsOn(InUse) /\ ~PodOn(InUse)
         /\ memory[op.ask] = latest /\ memory[InUse] = latest
         /\ claim[op.ask].digest = latest /\ latest # 0
         /\ claim[InUse].writer = claim[op.ask].sourceWriter
         /\ latest <= claim[op.ask].sourceWriter.pod /\ claim[op.ask].sourceWriter.exit = "clean"
  <1> USE SteppingIs
  <1> DEFINE m == op.ask
  <1>1. /\ m \in MoveIds /\ op.pc = "move" /\ op.gone /\ claim[m].phase = "verified"
        /\ claim[m].there /\ sourceUnchanged(m) /\ KindSwitch
    BY DEF ActSwitch, KindSwitch, AdvancingOf, Deciding
  <1>2. claim[m].source = InUse /\ InUse # m /\ ~Linked(m) /\ InUse' = m
    BY <1>1, SwitchChain
  <1>3. Pending(m) /\ m # 0
    BY <1>1, <1>2 DEF Pending, Live, Early, MoveIds
  <1>4. ~StsOn(InUse)
    <2>1. Ending = 0 /\ StepsTaken(m) = 5 /\ budget.crashes < 5
      BY <1>1, MoveAssumption DEF Ending, StepsTaken, Careful, Typed
    <2> QED
      BY <1>1, <1>3, <2>1, MoveAssumption DEF MemoryKept, StopsCounted, Typed
  <1>5. ~PodOn(InUse)
    BY <1>1, <1>4 DEF PodOn, MemoryKept, StopsCounted
  <1>6. claim[InUse].writer = claim[m].sourceWriter
    BY <1>1, <1>2 DEF sourceUnchanged
  <1>7. ~Touched(m) /\ Compared(m)
    BY <1>1, <1>2, <1>5, <1>6, ClaimNumbers, SMTT(20) DEF Touched, Compared, Typed
  <1>8. /\ memory[InUse] <= claim[m].sourceWriter.pod /\ job[m]["verify"].source = memory[InUse]
        /\ job[m]["verify"].target = memory[m] /\ claim[m].sourceWriter.exit = "clean"
    BY <1>1, <1>3, <1>7 DEF MemoryKept, CopyFaithful
  <1>9. DigestsMatch(m) /\ claim[m].digest # 0
    BY <1>1 DEF Records, VerifiedOnce, MemoryKept, CopyFirst, Copied
  <1>10. memory[InUse] = latest
    BY DEF MemoryKept, HomeKept
  <1> QED
    BY <1>1, <1>2, <1>3, <1>4, <1>5, <1>6, <1>8, <1>9, <1>10 DEF DigestsMatch, Used, KindSwitch

\* restoreSource goes back to a claim that holds what the agent last wrote.
LEMMA RestoreFacts ==
  ASSUME Stepping, ActRestore
  PROVE  /\ op.ask \in MoveIds /\ op.ask = InUse /\ Linked(op.ask)
         /\ claim[op.ask].source \in Claims /\ claim[op.ask].source # op.ask
         /\ InUse' = claim[op.ask].source /\ claim[claim[op.ask].source].there
         /\ Used(claim[op.ask].source) /\ LinkSet(claim[op.ask].source, 0)
         /\ ~accepts /\ memory[claim[op.ask].source] = latest /\ latest # 0
         /\ latest <= claim[claim[op.ask].source].writer.pod
  <1> USE SteppingIs
  <1> DEFINE c == claim[op.ask].source
  <1>1. /\ op.ask = InUse /\ Linked(op.ask) /\ op.ask \in MoveIds
        /\ claim[op.ask].phase = "refused" /\ c # op.ask /\ InUse' = c /\ KindRestore
        /\ claim[c].there /\ LinkSet(c, 0)
    BY RestoreChain DEF ActRestore, KindRestore
  <1>2. c \in Claims /\ claim[op.ask].there /\ claim[c].movedTo = op.ask /\ op.ask # 0
    BY <1>1, FieldTypes, ClaimNumbers DEF Linked, Records, LinksRecorded
  <1>3. ~accepts
    BY <1>1 DEF MemoryKept, HomeKept
  <1>4. memory[op.ask] = memory[c] /\ latest <= claim[c].writer.pod /\ memory[InUse] = latest
    BY <1>2, <1>3 DEF MemoryKept, HomeKept
  <1>5. memory[op.ask] # 0
    BY <1>1 DEF MemoryKept, StoresFound
  <1>6. Used(c)
    BY <1>1, <1>2 DEF OneChain, SourcesUsed
  <1> QED
    BY <1>1, <1>2, <1>3, <1>4, <1>5, <1>6

--------------------------------------------------------------------------------
(* Each part of MemoryKept is kept                                           *)

\* Every step keeps Pods numbered in order.
LEMMA UidsStep == ASSUME Stepping PROVE UidsInOrder'
  <1> DEFINE Was(c) ==
               /\ claim[c].writer.pod <= created /\ claim[c].sourceWriter.pod <= created
               /\ pod.uid # 0 /\ claim[c].writer.pod = pod.uid => claim[c].writer.state = "running"
               /\ c \in MoveIds /\ claim[c].there /\ pod.uid # 0 =>
                    claim[c].sourceWriter.pod < pod.uid
             Is(c) ==
               /\ claim'[c].writer.pod <= created' /\ claim'[c].sourceWriter.pod <= created'
               /\ pod'.uid # 0 /\ claim'[c].writer.pod = pod'.uid =>
                    claim'[c].writer.state = "running"
               /\ c \in MoveIds /\ claim'[c].there /\ pod'.uid # 0 =>
                    claim'[c].sourceWriter.pod < pod'.uid
  <1>0. TypeOK /\ Act /\ MemoryKept
    BY SteppingIs
  <1>t. /\ latest \in Nat /\ created \in Nat /\ pod.uid \in Nat /\ InUse \in Claims
        /\ \A c \in Claims : claim[c].writer.pod \in Nat /\ claim[c].sourceWriter.pod \in Nat
    BY SteppingIs DEF Typed
  <1>1. latest <= created /\ pod.uid \in {0, created} /\ \A c \in Claims : Was(c)
    BY <1>0, ClaimNumbers DEF MemoryKept, UidsInOrder
  <1>s. /\ latest' <= created' /\ pod'.uid \in {0, created'} /\ (\A c \in Claims : Is(c))
        => UidsInOrder'
    BY ClaimNumbers DEF UidsInOrder
  <1> SUFFICES /\ latest' <= created' /\ pod'.uid \in {0, created'}
               /\ \A c \in Claims : Is(c)
    BY <1>s
  <1>2. CASE ActBegin
    <2>1. /\ UNCHANGED <<pod, latest, created>> /\ op.ask \in MoveIds /\ InUse # op.ask
          /\ TargetMade(op.ask, InUse) /\ claim[InUse].writer.state = "stopped"
      BY <1>0, <1>t, <1>2 DEF ActBegin, KindBegin, Rest, Deciding
    <2>2. Was(InUse)
      BY <1>0, <1>t, <1>1
    <2>3. pod.uid # 0 => claim[InUse].writer.pod < pod.uid
      BY <1>0, <1>t, <1>1, <2>1, <2>2
    <2>4. ASSUME NEW c \in Claims PROVE Is(c)
      <3>1. CASE c = op.ask
        BY <1>0, <1>t, <1>1, <2>1, <2>2, <2>3, <3>1 DEF TargetMade, NoWriter
      <3>2. CASE c # op.ask
        <4>1. Was(c)
          BY <1>0, <1>t, <1>1
        <4> QED
          BY <1>0, <1>t, <2>1, <3>2, <4>1 DEF TargetMade
      <3> QED
        BY <1>0, <1>t, <3>1, <3>2
    <2> QED
      BY <1>0, <1>t, <1>1, <2>1, <2>4
  <1>3. CASE ActFence
    <2>1. SameSources /\ SameThere /\ UNCHANGED <<latest, created>>
      BY <1>0, <1>t, <1>3, RecordsLeft
      DEF ActFence, ActBegin, ActCreatePod, KindBegin, Deciding, FenceNotes, FenceReleases,
          FenceLeaves, WriterSet, SameClaims
    <2>2. CASE FenceNotes
      <3>1. pod'.uid = pod.uid /\ pod.uid = created
        BY <1>0, <1>t, <1>1, <2>2 DEF FenceNotes, TypeOK, Pod
      <3>2. ASSUME NEW c \in Claims PROVE Is(c)
        <4>1. Was(c)
          BY <1>0, <1>t, <1>1
        <4>2. claim'[c].sourceWriter = claim[c].sourceWriter /\ claim'[c].there = claim[c].there
          BY <1>0, <1>t, <2>1 DEF SameSources, SameThere
        <4>3. \/ claim'[c].writer = claim[c].writer
              \/ claim'[c].writer.pod = pod.uid /\ claim'[c].writer.state = "running"
          BY <1>0, <1>t, <2>2 DEF FenceNotes, WriterSet
        <4> QED
          BY <1>0, <1>t, <2>1, <3>1, <4>1, <4>2, <4>3
      <3> QED
        BY <1>0, <1>t, <1>1, <2>1, <3>1, <3>2
    <2>3. CASE FenceReleases
      <3>1. pod'.uid = 0
        BY <1>0, <1>t, <2>3 DEF FenceReleases, NoPod
      <3>2. ASSUME NEW c \in Claims PROVE Is(c)
        <4>1. Was(c)
          BY <1>0, <1>t, <1>1
        <4>2. claim'[c].sourceWriter = claim[c].sourceWriter
          BY <1>0, <1>t, <2>1 DEF SameSources
        <4>3. claim'[c].writer.pod = claim[c].writer.pod \/ claim'[c].writer.pod = pod.uid
          <5>1. CASE SameClaims
            BY <1>0, <1>t, <5>1 DEF SameClaims, SameWriters
          <5>2. CASE WriterSet(pod.claim, [pod |-> pod.uid, state |-> "stopped", exit |-> pod.exit])
            BY <1>0, <1>t, <5>2 DEF WriterSet
          <5> QED
            BY <1>0, <1>t, <2>3, <5>1, <5>2 DEF FenceReleases
        <4> QED
          BY <1>0, <1>t, <1>1, <2>1, <3>1, <4>1, <4>2, <4>3
      <3> QED
        BY <1>0, <1>t, <1>1, <2>1, <3>1, <3>2
    <2>4. CASE FenceLeaves
      <3>1. ASSUME NEW c \in Claims PROVE Is(c)
        <4>1. Was(c)
          BY <1>0, <1>t, <1>1
        <4> QED
          BY <1>0, <1>t, <2>1, <2>4, <4>1 DEF FenceLeaves, SameClaims, SameSources, SameThere, SameWriters
      <3> QED
        BY <1>0, <1>t, <1>1, <2>1, <2>4, <3>1 DEF FenceLeaves
    <2> QED
      BY <1>0, <1>t, <1>3, <2>2, <2>3, <2>4 DEF ActFence
  <1>4. CASE ActCreatePod
    <2>1. SameSources /\ SameWriters /\ UNCHANGED latest /\ created' = created + 1
          /\ pod'.uid = created + 1
      BY <1>0, <1>t, <1>4 DEF ActCreatePod, SameClaims, OwnMade
    <2>2. ASSUME NEW c \in Claims PROVE Is(c)
      <3>1. Was(c)
        BY <1>0, <1>t, <1>1
      <3>2. /\ claim'[c].writer = claim[c].writer /\ claim'[c].sourceWriter = claim[c].sourceWriter
            /\ claim[c].writer.pod \in Nat /\ claim[c].sourceWriter.pod \in Nat /\ created \in Nat
        BY <1>0, <1>t, <2>1 DEF SameSources, SameWriters
      <3>3. claim[c].writer.pod < created + 1 /\ claim[c].sourceWriter.pod < created + 1
        BY <1>0, <1>t, <3>1, <3>2
      <3> QED
        BY <1>0, <1>t, <2>1, <3>2, <3>3
    <2> QED
      BY <1>0, <1>t, <1>1, <2>1, <2>2
  <1>5. CASE ~ActBegin /\ ~ActFence /\ ~ActCreatePod
    <2>1. SameSources /\ SameThere /\ SameWriters /\ UNCHANGED created
      BY <1>0, <1>t, <1>5, RecordsLeft, Frames
    <2>2. pod'.uid = pod.uid /\ latest' \in {latest, pod.uid}
      BY <1>0, <1>t, <1>5, Frames DEF ActPod, ActServe
    <2>3. ASSUME NEW c \in Claims PROVE Is(c)
      <3>1. Was(c)
        BY <1>0, <1>t, <1>1
      <3> QED
        BY <1>0, <1>t, <2>1, <2>2, <3>1 DEF SameSources, SameThere, SameWriters
    <2> QED
      BY <1>0, <1>t, <1>1, <2>1, <2>2, <2>3
  <1> QED
    BY <1>2, <1>3, <1>4, <1>5

\* Every step keeps copies first.
LEMMA CopyFirstStep == ASSUME Stepping PROVE CopyFirst'
  <1> USE SteppingIs, ClaimNumbers
  <1> SUFFICES ASSUME NEW m \in MoveIds
      PROVE  /\ claim'[m].phase \in Copied \/ Linked(m)' \/ "verify" \in claim'[m].started =>
                  job'[m]["copy"].state \in {"done", "unread", "gone"}
             /\ job'[m]["copy"].state \in {"reading", "done"} => job'[m]["copy"].source # 0
             /\ claim'[m].phase \in Copied \/ Linked(m)' => claim'[m].digest # 0
    BY DEF CopyFirst
  <1>0. /\ claim[m].phase \in Copied \/ Linked(m) \/ "verify" \in claim[m].started =>
             job[m]["copy"].state \in {"done", "unread", "gone"}
        /\ job[m]["copy"].state \in {"reading", "done"} => job[m]["copy"].source # 0
        /\ claim[m].phase \in Copied \/ Linked(m) => claim[m].digest # 0
        /\ m \in Claims /\ "copy" \in JobSteps /\ "verify" \in JobSteps
    BY DEF MemoryKept, CopyFirst, JobSteps
  <1>1. ~ActSwitch /\ ~ActRestore => (Linked(m)' <=> Linked(m))
    BY <1>0, LinksLeft
  <1>2. CASE ~Writes /\ ~ActCreate /\ ~ActJob
    <2>1. SameRecords /\ UNCHANGED job /\ ~ActSwitch /\ ~ActRestore
      BY <1>2, RecordsLeft DEF Writes
    <2> QED
      BY <1>0, <1>1, <2>1 DEF SameRecords, SamePhases, SameMarks, SameDigests
  <1>3. CASE ActCreate
    <2>1. /\ SameClaims /\ op.pc = "createJob" /\ (Linked(m)' <=> Linked(m))
          /\ op.ask \in MoveIds => JobSet(op.ask, StepOf(claim[op.ask].phase), NewJob)
      <3>1. ~ActSwitch /\ ~ActRestore
        BY <1>3 DEF ActCreate, ActSwitch, ActRestore, KindCreate, KindSwitch, KindRestore,
                    AdvancingOf, Deciding
      <3> QED
        BY <1>1, <1>3, <3>1 DEF ActCreate, KindCreate
    <2>2. /\ op.ask \in MoveIds /\ claim[op.ask].phase \in {"created", "copied"}
          /\ StepOf(claim[op.ask].phase) \in JobSteps
      BY <2>1 DEF Records, StepsKnown, StepOf, JobSteps
    <2>3. CASE m = op.ask /\ claim[m].phase = "created"
      <3>1. ~Linked(m) /\ "verify" \notin claim[m].started
        <4>1. claim[m].source \in Claims
          BY <1>0, FieldTypes
        <4>2. "created" \notin Late
          BY DEF Late
        <4> QED
          BY <2>3, <4>1, <4>2 DEF Records, LinksRecorded, Linked, JobsMarked
      <3>2. job'[m]["copy"].state = "pending"
        BY <1>0, <2>1, <2>2, <2>3 DEF JobSet, NewJob, NoJob, StepOf
      <3> QED
        BY <2>1, <2>3, <3>1, <3>2 DEF SameClaims, SamePhases, SameMarks, Copied
    <2>4. CASE ~(m = op.ask /\ claim[m].phase = "created")
      <3>1. job'[m]["copy"] = job[m]["copy"]
        BY <1>0, <2>1, <2>2, <2>4 DEF JobSet, StepOf
      <3> QED
        BY <1>0, <2>1, <3>1 DEF SameClaims, SamePhases, SameMarks, SameDigests
    <2> QED
      BY <2>3, <2>4
  <1>4. CASE ActJob
    <2>1. PICK n \in MoveIds :
            \/ JobBegins(n) \/ JobCopies(n) \/ JobVerifies(n)
            \/ \E s \in JobSteps : JobFails(n, s) \/ JobGoes(n, s)
      BY <1>4 DEF ActJob
    <2>2. UNCHANGED claim /\ (Linked(m)' <=> Linked(m))
      BY <1>4 DEF ActJob, JobKept, Linked
    <2>3. /\ job[m]["copy"].state \in {"done", "unread", "gone"} => job'[m]["copy"].state \in {"done", "unread", "gone"}
          /\ job'[m]["copy"].state \in {"reading", "done"} => job'[m]["copy"].source # 0
      <3>1. CASE JobBegins(n)
        BY <1>0, <2>1, <3>1 DEF JobBegins, JobTo
      <3>2. CASE JobCopies(n)
        BY <1>0, <2>1, <3>2 DEF JobCopies, JobMoved, JobTo
      <3>3. CASE JobVerifies(n)
        BY <1>0, <2>1, <3>3 DEF JobVerifies, JobTo
      <3>4. ASSUME NEW s \in JobSteps, JobFails(n, s) \/ JobGoes(n, s)
            PROVE  /\ job[m]["copy"].state \in {"done", "unread", "gone"} =>
                        job'[m]["copy"].state \in {"done", "unread", "gone"}
                   /\ job'[m]["copy"].state \in {"reading", "done"} => job'[m]["copy"].source # 0
        <4>1. CASE n = m /\ s = "copy"
          BY <1>0, <3>4, <4>1 DEF JobFails, JobGoes, JobMoved, JobTo
        <4>2. CASE ~(n = m /\ s = "copy")
          <5>1. job'[m]["copy"] = job[m]["copy"]
            BY <1>0, <3>4, <4>2 DEF JobFails, JobGoes, JobMoved, JobTo
          <5> QED
            BY <1>0, <5>1
        <4> QED
          BY <4>1, <4>2
      <3> QED
        BY <2>1, <3>1, <3>2, <3>3, <3>4
    <2> QED
      BY <1>0, <2>2, <2>3
  <1>5. CASE ActBegin
    <2>1. /\ op.ask \in MoveIds /\ ~claim[op.ask].there /\ TargetMade(op.ask, InUse)
          /\ UNCHANGED job /\ (Linked(m)' <=> Linked(m))
      <3>1. ~ActSwitch /\ ~ActRestore
        BY <1>5 DEF ActBegin, ActSwitch, ActRestore, KindBegin, KindSwitch, KindRestore,
                    AdvancingOf, Deciding
      <3> QED
        BY <1>1, <1>5, <3>1 DEF ActBegin, KindBegin, Deciding
    <2>2. CASE m = op.ask
      <3>1. claim[m].started = {} /\ job[m]["copy"].state = "none"
        BY <1>0, <2>1, <2>2 DEF Records, UnmadeBlank, JobsMarked
      <3>2. ~Linked(m)
        <4>1. claim[m].source \in Claims
          BY <1>0, FieldTypes
        <4> QED
          BY <2>1, <2>2, <4>1 DEF Linked, Records, LinksRecorded
      <3> QED
        BY <2>1, <2>2, <3>1, <3>2 DEF TargetMade, Copied
    <2>3. CASE m # op.ask
      BY <1>0, <2>1, <2>3 DEF TargetMade
    <2> QED
      BY <2>2, <2>3
  <1>6. CASE ActMark
    <2>1. PICK phase \in {"created", "copied"} :
            AdvancingOf({phase}) /\ MarkSet(op.ask, StepOf(phase))
      BY <1>6 DEF ActMark, KindMark
    <2>2. UNCHANGED job /\ ~ActSwitch /\ ~ActRestore
      BY <1>6 DEF ActMark, KindMark, ActSwitch, ActRestore, KindSwitch, KindRestore, Onto
    <2>3. "verify" \in claim'[m].started => "verify" \in claim[m].started \/ claim[m].phase = "copied"
      <3>1. CASE m = op.ask
        <4>1. claim[m].phase = phase /\ claim'[m].started = claim[m].started \cup {StepOf(phase)}
          BY <1>0, <2>1, <3>1 DEF MarkSet, AdvancingOf
        <4>2. phase = "created" => StepOf(phase) = "copy"
          BY DEF StepOf
        <4> QED
          BY <2>1, <4>1, <4>2
      <3>2. CASE m # op.ask
        BY <1>0, <2>1, <3>2 DEF MarkSet
      <3> QED
        BY <3>1, <3>2
    <2> QED
      BY <1>0, <1>1, <2>1, <2>2, <2>3 DEF MarkSet, SamePhases, SameDigests, Copied
  <1>7. CASE ActRefuse \/ ActVerified \/ ActSettle \/ ActAccept \/ ActReject
    <2>1. /\ UNCHANGED job /\ SameDigests /\ SameMarks
          /\ \A c \in Claims : \/ claim'[c].phase = claim[c].phase
                               \/ claim'[c].phase = "refused"
                               \/ c = op.ask /\ claim[c].phase \in Copied
      BY <1>7
      DEF ActRefuse, ActVerified, ActSettle, ActAccept, ActReject, KindRefuse, KindVerified,
          KindSettle, KindAccept, KindReject, PhaseSet, AdvancingOf, Records, StepsKnown, Copied
    <2>2. ~ActSwitch /\ ~ActRestore
      BY <1>7
      DEF ActRefuse, ActVerified, ActSettle, ActAccept, ActReject, KindRefuse, KindVerified,
          KindSettle, KindAccept, KindReject, AdvancingOf, Deciding, ActSwitch, ActRestore,
          KindSwitch, KindRestore, Onto
    <2>3. "refused" \notin Copied
      BY DEF Copied
    <2> QED
      BY <1>0, <1>1, <2>1, <2>2, <2>3 DEF SameDigests, SameMarks
  <1>8. CASE ActCopied
    <2>1. /\ UNCHANGED job /\ CopiedSet(op.ask, job[op.ask]["copy"].source)
          /\ job[op.ask]["copy"].state = "done" /\ ~ActSwitch /\ ~ActRestore
      BY <1>8 DEF ActCopied, KindCopied, ActSwitch, ActRestore, KindSwitch, KindRestore, Onto,
                  AdvancingOf, Deciding
    <2> QED
      BY <1>0, <1>1, <2>1 DEF CopiedSet, SameMarks
  <1>9. CASE ActSwitch
    <2>1. claim[op.ask].phase = "verified" /\ op.ask \in MoveIds /\ UNCHANGED job
          /\ LinkSet(InUse, op.ask)
      BY <1>9, SwitchFacts DEF ActSwitch, KindSwitch, AdvancingOf
    <2>2. Linked(m)' => Linked(m) \/ m = op.ask
      BY <1>0, <2>1, FieldTypes DEF Linked, LinkSet, SameSources
    <2> QED
      BY <1>0, <2>1, <2>2 DEF LinkSet, SamePhases, SameDigests, SameMarks, Copied
  <1>10. CASE ActRestore
    <2>1. UNCHANGED job /\ LinkSet(claim[op.ask].source, 0)
      BY <1>10 DEF ActRestore, KindRestore
    <2>2. Linked(m)' => Linked(m)
      BY <1>0, <2>1, FieldTypes DEF Linked, LinkSet, SameSources
    <2> QED
      BY <1>0, <2>1, <2>2 DEF LinkSet, SamePhases, SameDigests, SameMarks
  <1> QED
    BY <1>2, <1>3, <1>4, <1>5, <1>6, <1>7, <1>8, <1>9, <1>10 DEF Writes

\* The claim a reconcile plans for.
LEMMA PlansOf ==
  ASSUME TypeOK, Act
  PROVE  \/ op'.claim = op.claim /\ op'.strict = op.strict
         \/ op'.claim = 0 /\ op'.strict = FALSE
         \/ op'.claim = InUse /\ op'.strict = (InUse # 0)
         \/ ActSwitch \/ ActRestore
  <1>1. CASE ActMove
    BY <1>1
    DEF ActMove, ActPlan, ActBegin, ActRefuse, ActMark, ActCreate, ActCopied, ActVerified,
        ActSettle, ActAccept, ActReject, OpPlan, OpAt
  <1>2. CASE ActWorld
    BY <1>2
    DEF ActWorld, ActFence, ActSts, ActCut, ActPeople, ActCreatePod, ActPod, ActServe, ActJob,
        JobKept, Idle
  <1> QED
    BY <1>1, <1>2 DEF Act

\* Every step keeps a store where one is required.
LEMMA StoresStep == ASSUME Stepping PROVE StoresFound'
  <1>0. TypeOK /\ Records /\ OneChain /\ Act /\ MemoryKept /\ Kind /\ TypeOK' /\ Records'
    BY SteppingIs
  <1>t. /\ pod.claim \in Claims /\ sts.claim \in Claims /\ op.claim \in Claims /\ InUse \in Claims
        /\ pod.strict \in BOOLEAN /\ sts.strict \in BOOLEAN /\ op.strict \in BOOLEAN /\ 0 \in Claims
    BY SteppingIs, ClaimNumbers DEF Typed
  <1>1. \A c \in Claims : (Used(c) => Used(c)') /\ (memory[c] # 0 => memory'[c] # 0)
    BY <1>0, UsedStays, MemoryGrows
  <1>2. \A c \in Claims, s \in BOOLEAN : Required(c, s) => Required(c, s)'
    BY <1>1 DEF Required
  <1>3. Required(0, FALSE) /\ Required(InUse, InUse # 0)
    <2>1. InUse # 0 => Linked(InUse) /\ InUse \in MoveIds
      BY <1>0, <1>t, ChainFacts, ClaimNumbers DEF OneChain
    <2>2. InUse # 0 => memory[InUse] # 0
      BY <1>0, <2>1 DEF MemoryKept, StoresFound
    <2> QED
      BY <2>1, <2>2 DEF Required, Used
  <1>4. Required(pod.claim, pod.strict) /\ Required(sts.claim, sts.strict)
        /\ Required(op.claim, op.strict)
    BY <1>0 DEF MemoryKept, StoresFound
  <1>5. Required(pod.claim, pod.strict)'
    <2>1. \E c \in Claims, s \in BOOLEAN : pod'.claim = c /\ pod'.strict = s /\ Required(c, s)
      <3>1. \/ pod'.claim = pod.claim /\ pod'.strict = pod.strict
            \/ pod'.claim = sts.claim /\ pod'.strict = sts.strict
            \/ pod'.claim = 0 /\ pod'.strict = FALSE
        <4>1. FenceNotes => pod'.claim = pod.claim /\ pod'.strict = pod.strict
          BY <1>0 DEF FenceNotes, TypeOK, Pod
        <4> QED
          BY <1>0, <4>1, Frames
          DEF ActFence, ActCreatePod, ActPod, ActServe, FenceReleases, FenceLeaves, NoPod
      <3> QED
        BY <1>t, <1>3, <1>4, <3>1
    <2>2. PICK c \in Claims, s \in BOOLEAN : pod'.claim = c /\ pod'.strict = s /\ Required(c, s)
      BY <2>1
    <2>3. Required(c, s)'
      BY <1>2, <2>2
    <2> QED
      BY <2>2, <2>3 DEF Required, Used, Linked
  <1>6. Required(sts.claim, sts.strict)'
    <2>1. \E c \in Claims, s \in BOOLEAN : sts'.claim = c /\ sts'.strict = s /\ Required(c, s)
      <3>1. \/ sts'.claim = sts.claim /\ sts'.strict = sts.strict
            \/ sts'.claim = op.claim /\ sts'.strict = op.strict
            \/ sts'.claim = 0 /\ sts'.strict = FALSE
        <4>1. sts'.strict \in BOOLEAN
          BY <1>0 DEF TypeOK, StatefulSet
        <4> QED
          BY <1>0, <4>1, Frames DEF ActSts
      <3> QED
        BY <1>t, <1>3, <1>4, <3>1
    <2>2. PICK c \in Claims, s \in BOOLEAN : sts'.claim = c /\ sts'.strict = s /\ Required(c, s)
      BY <2>1
    <2>3. Required(c, s)'
      BY <1>2, <2>2
    <2> QED
      BY <2>2, <2>3 DEF Required, Used, Linked
  <1>7. Required(op.claim, op.strict)'
    <2>1. CASE ActSwitch
      <3>1. /\ op.ask \in MoveIds /\ op.ask # 0 /\ memory[op.ask] # 0 /\ InUse \in Claims
            /\ LinkSet(InUse, op.ask) /\ claim[op.ask].source = InUse
        BY <2>1, <1>t, SwitchFacts, ClaimNumbers DEF MoveIds
      <3>2. op'.claim = op.ask /\ op'.strict = TRUE /\ UNCHANGED memory
        BY <2>1, <3>1 DEF ActSwitch, OpPlan, Rest
      <3>3. claim'[claim'[op.ask].source].movedTo = op.ask
        BY <3>1, ClaimNumbers DEF LinkSet, SameSources
      <3> QED
        BY <3>1, <3>2, <3>3 DEF Required, Used, Linked
    <2>2. CASE ActRestore
      <3>1. /\ claim[op.ask].source \in Claims /\ Used(claim[op.ask].source)
            /\ memory[claim[op.ask].source] # 0
        BY <2>2, RestoreFacts
      <3>2. PICK c \in Claims : c = claim[op.ask].source /\ Used(c) /\ memory[c] # 0
        BY <3>1
      <3>3. op'.claim = c /\ op'.strict = (c # 0)
        BY <2>2, <3>2 DEF ActRestore, OpPlan
      <3>4. Used(c)' /\ memory'[c] # 0
        BY <1>1, <3>2
      <3> QED
        BY <3>3, <3>4 DEF Required, Used, Linked
    <2>3. CASE ~ActSwitch /\ ~ActRestore
      <3>1. \E c \in Claims, s \in BOOLEAN : op'.claim = c /\ op'.strict = s /\ Required(c, s)
        BY <1>0, <1>t, <1>3, <1>4, <2>3, PlansOf
      <3>2. PICK c \in Claims, s \in BOOLEAN : op'.claim = c /\ op'.strict = s /\ Required(c, s)
        BY <3>1
      <3>3. Required(c, s)'
        BY <1>2, <3>2
      <3> QED
        BY <3>2, <3>3 DEF Required, Used, Linked
    <2> QED
      BY <2>1, <2>2, <2>3
  <1>8. ASSUME NEW m \in MoveIds
        PROVE  (Linked(m)' => memory'[m] # 0) /\ (claim'[m].writer.state # "none" => Used(m)')
    <2>0. /\ m \in Claims /\ m # 0 /\ (Linked(m) => memory[m] # 0)
          /\ claim[m].writer.state # "none" => Used(m)
      BY <1>0, ClaimNumbers DEF MemoryKept, StoresFound, MoveIds
    <2>1. Linked(m)' => memory'[m] # 0
      <3>1. CASE ActSwitch
        <4>1. Linked(m)' => Linked(m) \/ m = op.ask
          BY <1>0, <1>t, <2>0, <3>1, SwitchFacts, FieldTypes DEF Linked, LinkSet, SameSources
        <4> QED
          BY <1>1, <2>0, <3>1, <4>1, SwitchFacts
      <3>2. CASE ActRestore
        <4>1. Linked(m)' => Linked(m)
          BY <1>0, <2>0, <3>2, FieldTypes DEF ActRestore, KindRestore, Linked, LinkSet, SameSources
        <4> QED
          BY <1>1, <2>0, <4>1
      <3>3. CASE ~ActSwitch /\ ~ActRestore
        BY <1>1, <2>0, <3>3, LinksLeft
      <3> QED
        BY <3>1, <3>2, <3>3
    <2>2. claim'[m].writer.state # "none" => Used(m)'
      <3>1. CASE ActBegin
        BY <1>1, <2>0, <3>1 DEF ActBegin, KindBegin, TargetMade, NoWriter
      <3>2. CASE ActFence
        <4>1. claim'[m].writer = claim[m].writer \/ m = pod.claim
          BY <2>0, <3>2
          DEF ActFence, FenceNotes, FenceReleases, FenceLeaves, WriterSet, SameClaims, SameWriters
        <4> QED
          BY <1>1, <1>4, <2>0, <4>1 DEF Required
      <3>3. CASE ~ActBegin /\ ~ActFence
        BY <1>0, <1>1, <2>0, <3>3, RecordsLeft DEF SameWriters
      <3> QED
        BY <3>1, <3>2, <3>3
    <2> QED
      BY <2>1, <2>2
  <1> QED
    BY <1>5, <1>6, <1>7, <1>8 DEF StoresFound

\* A Pod or a StatefulSet that is in place stays so: no other is on the claim that
\* switchMove leaves, and only an old agent's is on the one that restoreSource leaves.
LEMMA PlaceKept ==
  ASSUME Stepping, NEW c \in Claims, NEW s \in BOOLEAN, Required(c, s), InPlace(c, s),
         ActSwitch => c # InUse
  PROVE  InPlace(c, s)'
  <1>0. UNCHANGED accepts
    BY SteppingIs, Frames
  <1>1. CASE ActSwitch
    BY <1>0, <1>1 DEF InPlace
  <1>2. CASE ActRestore
    <2>1. ~accepts /\ (c = InUse => c # 0)
      BY <1>2, RestoreFacts, ClaimNumbers DEF MoveIds
    <2>2. ~accepts /\ s
      BY <2>1 DEF InPlace, Required
    <2> QED
      BY <1>0, <2>2 DEF InPlace
  <1>3. CASE ~ActSwitch /\ ~ActRestore
    BY <1>0, <1>3, LinksLeft DEF InPlace
  <1> QED
    BY <1>1, <1>2, <1>3

\* Every step keeps the Pod in place.
LEMMA PodStep == ASSUME Stepping PROVE PodInPlace'
  <1>0. TypeOK /\ Act /\ MemoryKept /\ TypeOK' /\ PodInPlace
    BY SteppingIs DEF MemoryKept
  <1>t. /\ pod.claim \in Claims /\ sts.claim \in Claims /\ created \in Nat
        /\ pod.strict \in BOOLEAN /\ sts.strict \in BOOLEAN
    BY SteppingIs, ClaimNumbers DEF Typed
  <1>1. Required(pod.claim, pod.strict) /\ Required(sts.claim, sts.strict) /\ UNCHANGED accepts
    BY <1>0, Frames DEF MemoryKept, StoresFound
  <1>n. FenceNotes => /\ pod'.uid = pod.uid /\ pod'.claim = pod.claim /\ pod'.strict = pod.strict
                      /\ pod'.run = pod.run /\ pod'.exit = pod.exit /\ pod'.last = pod.last
    BY <1>0 DEF FenceNotes, TypeOK, Pod
  <1>2. pod'.uid = 0 => pod'.run = "waiting" /\ pod'.exit = "none" /\ pod'.last = "none"
    BY <1>0, <1>t, <1>n, Frames
    DEF ActFence, ActCreatePod, ActPod, ActServe, FenceReleases, FenceLeaves, NoPod, PodInPlace
  <1>3. pod'.uid # 0 => InPlace(pod.claim, pod.strict)'
    <2> SUFFICES ASSUME pod'.uid # 0 PROVE InPlace(pod.claim, pod.strict)'
      OBVIOUS
    <2>1. CASE ActCreatePod
      <3>1. InPlace(sts.claim, sts.strict) /\ pod'.claim = sts.claim /\ pod'.strict = sts.strict
        BY <1>0, <2>1 DEF ActCreatePod, MemoryKept, PlansInPlace
      <3>2. PICK c \in Claims, s \in BOOLEAN :
              c = sts.claim /\ s = sts.strict /\ InPlace(c, s) /\ Required(c, s)
        BY <1>t, <1>1, <3>1
      <3>3. ~ActSwitch
        BY <2>1 DEF ActSwitch, ActCreatePod, OpPlan, KindSwitch, AdvancingOf, Deciding
      <3>4. InPlace(c, s)'
        BY <3>2, <3>3, PlaceKept
      <3> QED
        BY <3>1, <3>2, <3>4 DEF InPlace
    <2>2. CASE ~ActCreatePod
      <3>1. pod'.claim = pod.claim /\ pod'.strict = pod.strict /\ pod.uid # 0
        BY <1>0, <1>n, <2>2, Frames
        DEF ActFence, ActPod, ActServe, FenceReleases, FenceLeaves, NoPod
      <3>2. InPlace(pod.claim, pod.strict)
        BY <1>0, <3>1 DEF PodInPlace
      <3>3. PICK c \in Claims, s \in BOOLEAN :
              c = pod.claim /\ s = pod.strict /\ InPlace(c, s) /\ Required(c, s)
        BY <1>t, <1>1, <3>2
      <3>4. ActSwitch => c # InUse
        BY <3>1, <3>3, SwitchFacts DEF PodOn
      <3>5. InPlace(c, s)'
        BY <3>3, <3>4, PlaceKept
      <3> QED
        BY <3>1, <3>3, <3>5 DEF InPlace
    <2> QED
      BY <2>1, <2>2
  <1>4. pod'.run = "serving" /\ pod'.strict => accepts
    <2>1. CASE ActServe
      BY <1>t, <2>1 DEF ActServe, OpensStore
    <2>2. CASE ~ActServe
      <3>1. pod'.run = "serving" => pod.run = "serving" /\ pod'.strict = pod.strict
        BY <1>0, <1>n, <2>2, Frames
        DEF ActFence, ActCreatePod, ActPod, FenceReleases, FenceLeaves, NoPod
      <3> QED
        BY <1>0, <3>1 DEF PodInPlace
    <2> QED
      BY <2>1, <2>2
  <1>5. pod'.run \in {"starting", "serving"} => claim'[pod'.claim].there
    <2>1. \A c \in Claims : claim[c].there => claim'[c].there
      <3>1. ActBegin => \A c \in Claims : claim[c].there => claim'[c].there
        BY DEF ActBegin, KindBegin, TargetMade
      <3>2. ActCreatePod => \A c \in Claims : claim[c].there => claim'[c].there
        BY DEF ActCreatePod, SameClaims, SameThere, OwnMade
      <3> QED
        BY <1>0, <3>1, <3>2, RecordsLeft DEF SameThere
    <2>2. pod'.run \in {"starting", "serving"} => pod'.claim = pod.claim /\ claim[pod.claim].there
      BY <1>0, <1>n, Frames
      DEF ActFence, ActCreatePod, ActPod, ActServe, FenceReleases, FenceLeaves, NoPod, PodInPlace
    <2> QED
      BY <1>t, <2>1, <2>2
  <1>6. "failed" \in {pod'.exit, pod'.last} => ~accepts /\ pod'.strict
    BY <1>0, <1>t, <1>1, <1>n, Frames
    DEF ActFence, ActCreatePod, ActPod, ActServe, FenceReleases, FenceLeaves, NoPod, PodInPlace,
        OpensStore, Required
  <1> QED
    BY <1>1, <1>2, <1>3, <1>4, <1>5, <1>6 DEF PodInPlace

\* Every step keeps the plans in place.
LEMMA PlansStep == ASSUME Stepping PROVE PlansInPlace'
  <1>0. TypeOK /\ Act /\ MemoryKept /\ TypeOK' /\ PlansInPlace
    BY SteppingIs DEF MemoryKept
  <1>t. sts.claim \in Claims /\ sts.strict \in BOOLEAN /\ op.hold \in BOOLEAN
    BY SteppingIs DEF Typed
  <1>1. Required(sts.claim, sts.strict)
    BY <1>0 DEF MemoryKept, StoresFound
  <1>2. sts'.there /\ sts'.replicas = 1 => InPlace(sts.claim, sts.strict)'
    <2> SUFFICES ASSUME sts'.there, sts'.replicas = 1 PROVE InPlace(sts.claim, sts.strict)'
      OBVIOUS
    <2>1. CASE ActSts
      <3>1. op.pc = "sts" /\ ~op.hold /\ sts'.claim = op.claim
        BY <2>1 DEF ActSts
      <3>2. InUse' = InUse
        <4>1. ~ActSwitch /\ ~ActRestore
          BY <3>1 DEF ActSwitch, ActRestore, KindSwitch, KindRestore, AdvancingOf, Deciding
        <4> QED
          BY <4>1, LinksLeft
      <3> QED
        BY <1>0, <3>1, <3>2 DEF PlansInPlace, InPlace
    <2>2. CASE ~ActSts
      <3>1. UNCHANGED sts
        BY <1>0, <2>2, Frames
      <3>2. PICK c \in Claims, s \in BOOLEAN :
              c = sts.claim /\ s = sts.strict /\ InPlace(c, s) /\ Required(c, s)
        BY <1>0, <1>t, <1>1, <3>1 DEF PlansInPlace
      <3>3. ActSwitch => c # InUse
        BY <3>1, <3>2, SwitchFacts DEF StsOn
      <3>4. InPlace(c, s)'
        BY <3>2, <3>3, PlaceKept
      <3> QED
        BY <3>1, <3>2, <3>4 DEF InPlace
    <2> QED
      BY <2>1, <2>2
  <1>3. op'.pc \in {"createJob", "settle", "accept", "sts"} /\ ~op'.hold => op'.claim = InUse'
    <2>1. CASE ActSwitch
      BY <2>1, SwitchFacts DEF ActSwitch, OpPlan
    <2>2. CASE ActRestore
      BY <2>2 DEF ActRestore, OpPlan
    <2>3. CASE ~ActSwitch /\ ~ActRestore
      <3>1. InUse' = InUse
        BY <2>3, LinksLeft
      <3>2. CASE ActMove
        BY <1>0, <2>3, <3>1, <3>2
        DEF ActMove, ActPlan, ActBegin, ActRefuse, ActMark, ActCreate, ActCopied, ActVerified,
            ActSettle, ActAccept, ActReject, KindCreate, KindSettle, KindAccept, OpPlan, OpAt,
            PlansInPlace
      <3>3. CASE ActWorld
        BY <1>0, <3>1, <3>3
        DEF ActWorld, ActFence, ActSts, ActCut, ActPeople, ActCreatePod, ActPod, ActServe, ActJob,
            JobKept, Idle, PlansInPlace
      <3> QED
        BY <1>0, <3>2, <3>3 DEF Act
    <2> QED
      BY <2>1, <2>2, <2>3
  <1> QED
    BY <1>2, <1>3 DEF PlansInPlace

\* A move that can come to its switch could before, but for the one that begins.
LEMMA PendingCame ==
  ASSUME Stepping, NEW m \in MoveIds, Pending(m)'
  PROVE  /\ InUse' = InUse /\ InUse # m /\ ~ActSwitch /\ ~ActRestore
         /\ claim'[m].there /\ claim'[m].phase \in Early /\ ~Linked(m)' /\ claim'[m].source = InUse
         /\ \/ ActBegin /\ m = op.ask
            \/ /\ Pending(m) /\ claim[m].source = InUse /\ ~(ActBegin /\ m = op.ask)
               /\ claim'[m].sourceWriter = claim[m].sourceWriter
  <1>0. Careful /\ TypeOK /\ Records /\ OneChain /\ Act /\ Kind /\ Below /\ Below' /\ m \in Claims
    BY SteppingIs, ClaimNumbers
  <1>1. /\ Leaving /\ InUse' = InUse /\ claim'[m].source = InUse /\ InUse # m
        /\ \/ KindBegin /\ m = op.ask
           \/ /\ Pending(m) /\ claim[m].source = InUse
              /\ claim'[m].sourceWriter = claim[m].sourceWriter
    BY <1>0, CarefulIs, PendingWas
  <1>2. claim'[m].there /\ claim'[m].phase \in Early /\ ~Linked(m)'
    BY DEF Pending, Live
  <1>3. ~ActSwitch /\ ~ActRestore
    <2>1. ~ActSwitch
      BY <1>0, <1>1, SwitchFacts, ClaimNumbers
    <2>2. ~ActRestore
      <3>1. ActRestore => InUse' # InUse
        BY RestoreFacts
      <3> QED
        BY <1>1, <3>1
    <2> QED
      BY <2>1, <2>2
  <1>4. KindBegin /\ m = op.ask => ActBegin
    <2>1. KindBegin /\ m = op.ask => ~claim[m].there /\ claim'[m].there
      BY <1>2 DEF KindBegin
    <2>2. SameThere => claim'[m].there = claim[m].there
      BY <1>0 DEF SameThere
    <2>3. ActCreatePod => claim'[m].there = claim[m].there
      <3>1. m # 0 /\ claim[m].there \in BOOLEAN
        BY <1>0, FieldTypes DEF MoveIds
      <3> QED
        BY <1>0, <3>1 DEF ActCreatePod, SameClaims, SameThere, OwnMade
    <2> QED
      BY <1>0, <2>1, <2>2, <2>3, RecordsLeft
  <1>5. ActBegin /\ m = op.ask => ~claim[m].there
    BY DEF ActBegin, KindBegin
  <1>6. Pending(m) => claim[m].there
    BY DEF Pending, Live
  <1> QED
    BY <1>1, <1>2, <1>3, <1>4, <1>5, <1>6

\* Every step keeps the count of reconciles cut short.
LEMMA StopsStep == ASSUME Stepping PROVE StopsCounted'
  <1>0. TypeOK /\ Records /\ OneChain /\ Act /\ MemoryKept /\ StopsCounted /\ TypeOK'
    BY SteppingIs DEF MemoryKept
  <1>t. budget.crashes \in Nat /\ Ending \in {0, 1} /\ Ending' \in {0, 1} /\ budget'.crashes \in Nat
    BY SteppingIs, MoveAssumption DEF Typed, Ending
  <1>1. ASSUME NEW m \in MoveIds, Pending(m)'
        PROVE  /\ StsOn(InUse)' => budget'.crashes + Ending' >= StepsTaken(m)'
               /\ op'.pc \in {"createJob", "sts"} /\ op'.ask = m => op'.hold
    <2>0. /\ InUse' = InUse /\ ~ActSwitch /\ ~ActRestore /\ m \in Claims /\ m # 0
          /\ claim'[m].phase \in Early
      BY <1>1, PendingCame, ClaimNumbers DEF MoveIds
    <2>1. CASE ActBegin /\ m = op.ask
      <3>1. op'.pc = "sts" /\ op'.hold /\ claim'[m].phase = "created" /\ claim'[m].started = {}
        BY <2>1 DEF ActBegin, KindBegin, OpPlan, TargetMade
      <3>2. Ending' = 1 /\ StepsTaken(m)' = 1
        BY <3>1 DEF Ending, StepsTaken
      <3> QED
        BY <1>t, <3>1, <3>2
    <2>2. CASE Pending(m) /\ ~(ActBegin /\ m = op.ask)
      <3>0. /\ StsOn(InUse) => budget.crashes + Ending >= StepsTaken(m)
            /\ op.pc \in {"createJob", "sts"} /\ op.ask = m => op.hold
            /\ ~Linked(m) /\ claim[m].there /\ claim[m].phase \in Early
            /\ m = ask \/ (op.pc # "idle" /\ m = op.ask)
        BY <1>0, <2>2 DEF StopsCounted, Pending, Live
      <3>n. StepsTaken(m) \in Nat
        BY DEF StepsTaken
      <3>s. UNCHANGED sts => (StsOn(InUse)' <=> StsOn(InUse))
        BY <2>0 DEF StsOn
      <3>p. claim'[m].phase = claim[m].phase /\ claim'[m].started = claim[m].started
            => StepsTaken(m)' = StepsTaken(m)
        BY DEF StepsTaken
      \* The reconcile's step is one of another move, or leaves this one as it is.
      <3>1. CASE ~Writes
        <4>1. StepsTaken(m)' = StepsTaken(m)
          BY <1>0, <2>0, <3>1, <3>p, RecordsLeft DEF SameRecords, SamePhases, SameMarks
        <4>2. CASE ActPlan
          <5>1. UNCHANGED sts /\ budget'.crashes = budget.crashes
            BY <4>2 DEF ActPlan, Rest
          <5>2. Ending = 0
            BY <4>2 DEF ActPlan, Ending, Deciding
          <5>3. op'.pc \in {"createJob", "sts"} /\ op'.ask = m => op'.hold
            <6>1. op.pc \in {"settle", "accept"} => op.ask # m
              BY <1>0, <3>0 DEF OneChain, SettlesInUse
            <6> QED
              BY <2>0, <4>2, <6>1 DEF ActPlan, OpPlan, OpAt
          <5> QED
            BY <1>t, <3>0, <3>n, <3>s, <4>1, <5>1, <5>2, <5>3
        <4>3. CASE ActCreate
          <5>1. UNCHANGED sts /\ budget'.crashes = budget.crashes /\ op.pc = "createJob"
                /\ op'.pc = "sts" /\ op'.ask = op.ask /\ op'.hold = op.hold
            BY <4>3 DEF ActCreate, Rest, KindCreate, OpAt
          <5>2. Ending = 1 /\ Ending' = 1
            BY <5>1 DEF Ending
          <5> QED
            BY <3>0, <3>s, <4>1, <5>1, <5>2
        <4>4. CASE ActFence
          <5>1. UNCHANGED sts /\ budget'.crashes = budget.crashes /\ op.pc = "fence" /\ op'.pc = "move"
            BY <4>4 DEF ActFence
          <5>2. Ending = 0 /\ Ending' = 0
            BY <5>1 DEF Ending
          <5> QED
            BY <3>0, <3>s, <4>1, <5>1, <5>2
        <4>5. CASE ActSts
          <5>1. op.ask = m /\ op.pc = "sts"
            BY <1>0, <2>0, <3>0, <4>5 DEF ActSts, OneChain, OneMove
          <5>2. op.hold /\ op'.pc = "idle"
            BY <3>0, <4>5, <5>1 DEF ActSts, Idle
          <5>3. ~StsOn(InUse)'
            BY <4>5, <5>2 DEF ActSts, StsOn
          <5> QED
            BY <5>2, <5>3
        <4>6. CASE ActCut
          <5>1. UNCHANGED sts /\ budget'.crashes = budget.crashes + 1 /\ op'.pc = "idle"
            BY <4>6 DEF ActCut, Idle
          <5> QED
            BY <1>t, <3>0, <3>n, <3>s, <4>1, <5>1
        <4>7. CASE ActPeople \/ ActCreatePod \/ ActPod \/ ActServe \/ ActJob
          <5>1. UNCHANGED <<sts, op>> /\ budget'.crashes = budget.crashes
            BY <4>7 DEF ActPeople, ActCreatePod, ActPod, ActServe, ActJob, JobKept
          <5>2. Ending' = Ending
            BY <5>1 DEF Ending
          <5> QED
            BY <3>0, <3>s, <4>1, <5>1, <5>2
        <4> QED
          BY <1>0, <3>1, <4>2, <4>3, <4>4, <4>5, <4>6, <4>7 DEF Act, ActMove, ActWorld, Writes
      <3>2. CASE Writes
        <4>1. UNCHANGED sts /\ budget'.crashes = budget.crashes
          BY <3>2
          DEF Writes, ActBegin, ActRefuse, ActMark, ActCopied, ActVerified, ActSwitch, ActSettle,
              ActAccept, ActReject, ActRestore, Rest
        <4>2. CASE ActBegin \/ ActRefuse \/ ActMark \/ ActCopied \/ ActVerified
          <5>1. /\ op.pc = "move" /\ op'.pc \in {"createJob", "sts"} /\ op'.hold
                /\ op.ask \in MoveIds
            BY <4>2
            DEF ActBegin, ActRefuse, ActMark, ActCopied, ActVerified, KindBegin, KindRefuse,
                KindMark, KindCopied, KindVerified, AdvancingOf, Deciding, OpPlan
          <5>2. Ending = 0 /\ Ending' = 1
            BY <5>1 DEF Ending
          <5>3. StepsTaken(m)' <= StepsTaken(m) + 1
            <6>1. CASE m # op.ask
              <7>1. claim'[m].phase = claim[m].phase /\ claim'[m].started = claim[m].started
                BY <2>0, <4>2, <6>1
                DEF ActBegin, ActRefuse, ActMark, ActCopied, ActVerified, KindBegin, KindRefuse,
                    KindMark, KindCopied, KindVerified, TargetMade, PhaseSet, MarkSet, CopiedSet,
                    SamePhases, SameMarks
              <7> QED
                BY <3>n, <3>p, <7>1
            <6>2. CASE m = op.ask /\ ActRefuse
              BY <2>0, <6>2 DEF ActRefuse, KindRefuse, PhaseSet, Early
            <6>3. CASE m = op.ask /\ ActMark
              <7>1. PICK phase \in {"created", "copied"} :
                      claim[m].phase = phase /\ MarkSet(m, StepOf(phase))
                BY <6>3 DEF ActMark, KindMark, AdvancingOf
              <7>2. claim'[m].phase = phase
                    /\ claim'[m].started = claim[m].started \cup {StepOf(phase)}
                BY <2>0, <7>1 DEF MarkSet, SamePhases
              <7>3. CASE phase = "created"
                BY <7>1, <7>2, <7>3 DEF StepsTaken
              <7>4. CASE phase = "copied"
                BY <7>1, <7>2, <7>4 DEF StepsTaken
              <7> QED
                BY <7>3, <7>4
            <6>4. CASE m = op.ask /\ ActCopied
              <7>1. /\ claim[m].phase = "created" /\ claim'[m].phase = "copied"
                    /\ claim'[m].started = claim[m].started /\ job[m]["copy"].state = "done"
                BY <2>0, <6>4 DEF ActCopied, KindCopied, AdvancingOf, CopiedSet, SameMarks
              <7>2. "copy" \in claim[m].started /\ "verify" \notin claim[m].started
                BY <1>0, <7>1 DEF Records, JobsMarked, JobSteps
              <7> QED
                BY <7>1, <7>2 DEF StepsTaken
            <6>5. CASE m = op.ask /\ ActVerified
              <7>1. /\ claim[m].phase = "copied" /\ claim'[m].phase = "verified"
                    /\ job[m]["verify"].state = "done"
                BY <2>0, <6>5 DEF ActVerified, KindVerified, AdvancingOf, PhaseSet
              <7>2. "verify" \in claim[m].started
                BY <1>0, <7>1 DEF Records, JobsMarked, JobSteps
              <7> QED
                BY <7>1, <7>2 DEF StepsTaken
            <6> QED
              BY <2>2, <4>2, <6>1, <6>2, <6>3, <6>4, <6>5
          <5>4. StepsTaken(m)' \in Nat
            BY DEF StepsTaken
          <5> QED
            BY <1>t, <3>0, <3>n, <3>s, <4>1, <5>1, <5>2, <5>3, <5>4
        <4>3. CASE ActSettle \/ ActAccept \/ ActReject
          <5>1. /\ op.pc \in {"settle", "accept"} /\ op'.ask = op.ask /\ SameMarks
                /\ \A c \in Claims : c # op.ask => claim'[c].phase = claim[c].phase
            BY <4>3
            DEF ActSettle, ActAccept, ActReject, KindSettle, KindAccept, KindReject, PhaseSet, Onto
          <5>2. op.ask # m
            BY <1>0, <3>0, <5>1 DEF OneChain, SettlesInUse
          <5>3. StepsTaken(m)' = StepsTaken(m)
            BY <2>0, <3>p, <5>1, <5>2 DEF SameMarks
          <5>4. Ending = 0
            BY <5>1 DEF Ending
          <5> QED
            BY <1>t, <3>0, <3>n, <3>s, <4>1, <5>1, <5>2, <5>3, <5>4
        <4> QED
          BY <2>0, <3>2, <4>2, <4>3 DEF Writes
      <3> QED
        BY <3>1, <3>2
    <2> QED
      BY <1>1, <2>1, <2>2, PendingCame
  <1>2. op'.pc = "move" /\ op'.gone /\ pod'.uid # 0 => StsOn(pod.claim)'
    <2> SUFFICES ASSUME op'.pc = "move", op'.gone, pod'.uid # 0 PROVE StsOn(pod.claim)'
      OBVIOUS
    <2>1. CASE ActFence
      <3>1. pod.uid = 0
        BY <2>1 DEF ActFence
      <3> QED
        BY <2>1, <3>1 DEF ActFence, FenceNotes, FenceReleases, FenceLeaves
    <2>2. CASE ActCreatePod
      BY <2>2 DEF ActCreatePod, StsOn
    <2>3. CASE ~ActFence /\ ~ActCreatePod
      <3>1. CASE ActMove
        BY <3>1
        DEF ActMove, ActPlan, ActBegin, ActRefuse, ActMark, ActCreate, ActCopied, ActVerified,
            ActSwitch, ActSettle, ActAccept, ActReject, ActRestore, OpPlan, OpAt
      <3>2. CASE ActSts \/ ActCut
        BY <3>2 DEF ActSts, ActCut, Idle
      <3>3. CASE ActPeople \/ ActPod \/ ActServe \/ ActJob
        <4>1. UNCHANGED <<sts, op>> /\ pod'.uid = pod.uid /\ pod'.claim = pod.claim
          BY <3>3 DEF ActPeople, ActPod, ActServe, ActJob, JobKept
        <4> QED
          BY <1>0, <4>1 DEF StopsCounted, StsOn
      <3> QED
        BY <1>0, <2>3, <3>1, <3>2, <3>3 DEF Act, ActWorld
    <2> QED
      BY <2>1, <2>2, <2>3
  <1> QED
    BY <1>1, <1>2 DEF StopsCounted

\* Every step keeps a pending copy faithful.
LEMMA FaithfulStep == ASSUME Stepping PROVE CopyFaithful'
  <1>0. TypeOK /\ Records /\ OneChain /\ Act /\ MemoryKept
    BY SteppingIs
  <1>t. /\ pod.uid \in Nat /\ pod.claim \in Claims /\ InUse \in Claims /\ latest \in Nat
        /\ \A c \in Claims : /\ claim[c].writer.pod \in Nat /\ claim[c].sourceWriter.pod \in Nat
                             /\ memory[c] \in Nat
    BY SteppingIs DEF Typed
  <1> SUFFICES ASSUME NEW m \in MoveIds, Pending(m)'
      PROVE  /\ \/ claim'[InUse'].writer = claim'[m].sourceWriter
                \/ claim'[InUse'].writer.pod > claim'[m].sourceWriter.pod
             /\ claim'[m].sourceWriter.state = "stopped" /\ claim'[m].sourceWriter.exit = "clean"
             /\ ~Touched(m)' => /\ memory'[InUse'] <= claim'[m].sourceWriter.pod
                                /\ Compared(m)' => job'[m]["verify"].source = memory'[InUse']
             /\ Compared(m)' => job'[m]["verify"].target = memory'[m]
    BY DEF CopyFaithful
  <1>1. /\ InUse' = InUse /\ InUse # m /\ ~ActSwitch /\ ~ActRestore /\ m \in Claims /\ m # 0
        /\ "verify" \in JobSteps /\ "copy" \in JobSteps
    BY PendingCame, ClaimNumbers DEF MoveIds, JobSteps
  <1>2. CASE ActBegin /\ m = op.ask
    <2>1. /\ UNCHANGED <<pod, memory, job>> /\ TargetMade(m, InUse) /\ ~claim[m].there
          /\ claim[InUse].writer.state = "stopped" /\ claim[InUse].writer.exit = "clean"
      BY <1>2 DEF ActBegin, KindBegin, Rest
    <2>2. claim'[m].sourceWriter = claim[InUse].writer /\ claim'[InUse].writer = claim[InUse].writer
          /\ claim'[m].phase = "created"
      BY <1>1, <1>t, <2>1 DEF TargetMade
    <2>3. ~Compared(m)'
      <3>1. job[m]["verify"].state = "none"
        BY <1>0, <1>1, <2>1 DEF Records, UnmadeBlank, JobsMarked
      <3> QED
        BY <2>1, <2>2, <3>1 DEF Compared
    <2>4. ~Touched(m)' => memory'[InUse] <= claim'[m].sourceWriter.pod
      <3>1. PodOn(InUse)' <=> PodOn(InUse)
        BY <1>1, <2>1 DEF PodOn
      <3>2. memory[InUse] = latest /\ (~PodOn(InUse) => latest <= claim[InUse].writer.pod)
        BY <1>0, <2>1 DEF MemoryKept, HomeKept
      <3> QED
        BY <2>1, <2>2, <3>1, <3>2 DEF Touched
    <2> QED
      BY <1>1, <2>1, <2>2, <2>3, <2>4
  <1>3. CASE Pending(m) /\ ~(ActBegin /\ m = op.ask)
    <2>0. /\ \/ claim[InUse].writer = claim[m].sourceWriter
             \/ claim[InUse].writer.pod > claim[m].sourceWriter.pod
          /\ claim[m].sourceWriter.state = "stopped" /\ claim[m].sourceWriter.exit = "clean"
          /\ ~Touched(m) => /\ memory[InUse] <= claim[m].sourceWriter.pod
                            /\ Compared(m) => job[m]["verify"].source = memory[InUse]
          /\ Compared(m) => job[m]["verify"].target = memory[m]
      BY <1>0, <1>3 DEF MemoryKept, CopyFaithful
    <2>1. claim'[m].sourceWriter = claim[m].sourceWriter /\ claim[m].source = InUse
      BY <1>3, PendingCame
    <2>2. /\ claim[m].there /\ claim[m].phase \in Early /\ ~Linked(m) /\ claim[InUse].there
          /\ ~Used(m) /\ (pod.uid # 0 => pod.uid > claim[m].sourceWriter.pod)
      <3>1. claim[m].there /\ claim[m].phase \in Early /\ ~Linked(m)
        BY <1>3 DEF Pending, Live
      <3>2. claim[InUse].there
        BY <1>0, <2>1, <3>1 DEF Records, SourcesThere
      <3>3. pod.uid # 0 => claim[m].sourceWriter.pod < pod.uid
        BY <1>0, <3>1 DEF MemoryKept, UidsInOrder
      <3> QED
        BY <1>1, <1>t, <3>1, <3>2, <3>3 DEF Used, Early
    \* A Pod that came to the source leaves its trace there.
    <2>3. \/ claim'[InUse].writer = claim[InUse].writer
          \/ claim'[InUse].writer.pod > claim[m].sourceWriter.pod
      <3>1. CASE ActFence
        <4>1. claim'[InUse].writer = claim[InUse].writer
              \/ (pod.uid # 0 /\ claim'[InUse].writer.pod = pod.uid)
          <5>1. CASE SameClaims
            BY <1>t, <5>1 DEF SameClaims, SameWriters
          <5>2. CASE FenceNotes
            BY <1>t, <5>2 DEF FenceNotes, WriterSet
          <5>3. CASE FenceReleases /\ ~SameClaims
            BY <1>t, <5>3 DEF FenceReleases, WriterSet
          <5> QED
            BY <3>1, <5>1, <5>2, <5>3 DEF ActFence, FenceLeaves
        <4> QED
          BY <2>2, <4>1
      <3>2. CASE ActBegin
        <4>1. claim'[InUse] = claim[InUse]
          BY <1>t, <2>2, <3>2 DEF ActBegin, KindBegin, TargetMade
        <4> QED
          BY <4>1
      <3>3. CASE ~ActFence /\ ~ActBegin
        BY <1>0, <1>t, <3>3, RecordsLeft DEF SameWriters
      <3> QED
        BY <3>1, <3>2, <3>3
    <2>4. ~Touched(m)' => ~Touched(m)
      <3>1. claim[InUse].writer.pod > claim[m].sourceWriter.pod =>
              claim'[InUse].writer.pod > claim[m].sourceWriter.pod
        BY <2>3
      <3>2. PodOn(InUse) => PodOn(InUse)' \/ claim'[InUse].writer.pod > claim[m].sourceWriter.pod
        <4> SUFFICES ASSUME PodOn(InUse)
                     PROVE  PodOn(InUse)' \/ claim'[InUse].writer.pod > claim[m].sourceWriter.pod
          OBVIOUS
        <4>1. pod.uid # 0 /\ pod.claim = InUse
          BY DEF PodOn
        <4>2. CASE FenceReleases
          <5>1. WriterSet(pod.claim, [pod |-> pod.uid, state |-> "stopped", exit |-> pod.exit])
            BY <2>2, <4>1, <4>2 DEF FenceReleases
          <5>2. claim'[InUse].writer.pod = pod.uid
            BY <1>t, <4>1, <5>1 DEF WriterSet
          <5> QED
            BY <2>2, <4>1, <5>2
        <4>3. CASE ~FenceReleases
          <5>1. FenceNotes => pod'.uid = pod.uid /\ pod'.claim = pod.claim
            BY <1>0 DEF FenceNotes, TypeOK, Pod
          <5>2. pod'.uid = pod.uid /\ pod'.claim = pod.claim
            BY <1>0, <4>1, <4>3, <5>1, Frames
            DEF ActFence, ActCreatePod, ActPod, ActServe, FenceLeaves
          <5> QED
            BY <1>1, <4>1, <5>2 DEF PodOn
        <4> QED
          BY <4>2, <4>3
      <3> QED
        BY <1>1, <2>1, <3>1, <3>2 DEF Touched
    <2>5. ~Touched(m) => memory'[InUse] = memory[InUse]
      <3>1. ActServe /\ ~Touched(m) => pod.claim # InUse
        BY <1>0 DEF ActServe, Touched, PodOn, MemoryKept, PodInPlace
      <3> QED
        BY <1>0, <1>t, <3>1, Frames, JobsApart DEF ActServe, MemorySet
    <2>6. Compared(m) => /\ memory'[m] = memory[m]
                         /\ job'[m]["verify"].source = job[m]["verify"].source
                         /\ job'[m]["verify"].target = job[m]["verify"].target
      <3> SUFFICES ASSUME Compared(m)
                   PROVE  /\ memory'[m] = memory[m]
                          /\ job'[m]["verify"].source = job[m]["verify"].source
                          /\ job'[m]["verify"].target = job[m]["verify"].target
        OBVIOUS
      <3>1. job[m]["verify"].state \in {"done", "unread", "gone"}
        BY <1>0 DEF Compared, Records, VerifiedOnce, Over
      <3>2. job[m]["copy"].state \in {"done", "unread", "gone"}
        <4>1. "verify" \in claim[m].started
          BY <1>0, <1>1, <3>1 DEF Records, JobsMarked
        <4> QED
          BY <1>0, <4>1 DEF MemoryKept, CopyFirst
      <3>3. ActServe => pod.claim # m
        BY <1>0, <2>2 DEF MemoryKept, StoresFound, Required
      <3>4. memory'[m] = memory[m]
        BY <1>0, <1>1, <3>2, <3>3, Frames, JobsApart DEF ActServe, MemorySet
      <3>5. CASE ActCreate
        <4>1. /\ op.ask \in MoveIds => JobSet(op.ask, StepOf(claim[op.ask].phase), NewJob)
              /\ op.ask \in MoveIds /\ job[op.ask][StepOf(claim[op.ask].phase)].state = "none"
          BY <1>0, <3>5 DEF ActCreate, KindCreate, Records, StepsKnown
        <4>2. job'[m]["verify"] = job[m]["verify"]
          BY <1>1, <3>1, <4>1 DEF JobSet
        <4> QED
          BY <3>4, <4>2
      <3>6. CASE ActJob
        <4>1. PICK n \in MoveIds :
                \/ JobBegins(n) \/ JobCopies(n) \/ JobVerifies(n)
                \/ \E s \in JobSteps : JobFails(n, s) \/ JobGoes(n, s)
          BY <3>6 DEF ActJob
        <4>2. CASE JobBegins(n) \/ JobCopies(n) \/ JobVerifies(n)
          BY <1>1, <3>1, <3>4, <4>2 DEF JobBegins, JobCopies, JobVerifies, JobMoved, JobTo
        <4>3. ASSUME NEW s \in JobSteps, JobFails(n, s) \/ JobGoes(n, s)
              PROVE  /\ job'[m]["verify"].source = job[m]["verify"].source
                     /\ job'[m]["verify"].target = job[m]["verify"].target
          <5>1. CASE n = m /\ s = "verify"
            BY <4>3, <5>1 DEF JobFails, JobGoes, JobMoved, JobTo
          <5>2. CASE ~(n = m /\ s = "verify")
            BY <1>1, <4>3, <5>2 DEF JobFails, JobGoes, JobMoved, JobTo
          <5> QED
            BY <5>1, <5>2
        <4> QED
          BY <3>4, <4>1, <4>2, <4>3
      <3>7. CASE ~ActCreate /\ ~ActJob
        <4>1. UNCHANGED job
          <5>1. Writes => UNCHANGED job
            BY DEF Writes, ActBegin, ActRefuse, ActMark, ActCopied, ActVerified, ActSwitch,
                   ActSettle, ActAccept, ActReject, ActRestore, KindBegin, KindRefuse, KindMark,
                   KindCopied, KindVerified, KindSwitch, KindSettle, KindAccept, KindReject,
                   KindRestore
          <5> QED
            BY <1>0, <3>7, <5>1, RecordsLeft
        <4> QED
          BY <3>4, <4>1
      <3> QED
        BY <3>5, <3>6, <3>7
    \* The verification reads both claims as they are.
    <2>7. Compared(m)' /\ ~Compared(m) =>
            /\ UNCHANGED memory /\ job'[m]["verify"].source = memory[InUse]
            /\ job'[m]["verify"].target = memory[m]
      <3> SUFFICES ASSUME Compared(m)', ~Compared(m)
                   PROVE  JobVerifies(m)
        BY <2>1 DEF JobVerifies, JobTo
      <3>1. CASE ActJob
        <4>1. PICK n \in MoveIds :
                \/ JobBegins(n) \/ JobCopies(n) \/ JobVerifies(n)
                \/ \E s \in JobSteps : JobFails(n, s) \/ JobGoes(n, s)
          BY <3>1 DEF ActJob
        <4>2. UNCHANGED claim
          BY <3>1 DEF ActJob, JobKept
        <4>3. job'[m]["verify"].state = "done" /\ job[m]["verify"].state # "done"
          BY <4>2 DEF Compared
        <4>4. CASE JobBegins(n) \/ JobCopies(n)
          BY <1>1, <4>3, <4>4 DEF JobBegins, JobCopies, JobMoved, JobTo
        <4>5. CASE JobVerifies(n)
          BY <1>1, <4>3, <4>5 DEF JobVerifies, JobTo
        <4>6. ASSUME NEW s \in JobSteps, JobFails(n, s) \/ JobGoes(n, s) PROVE FALSE
          <5>1. CASE n = m /\ s = "verify"
            BY <4>3, <4>6, <5>1 DEF JobFails, JobGoes, JobMoved, JobTo
          <5>2. CASE ~(n = m /\ s = "verify")
            BY <1>1, <4>3, <4>6, <5>2 DEF JobFails, JobGoes, JobMoved, JobTo
          <5> QED
            BY <5>1, <5>2
        <4> QED
          BY <4>1, <4>4, <4>5, <4>6
      <3>2. CASE ActCreate
        <4>1. /\ op.ask \in MoveIds => JobSet(op.ask, StepOf(claim[op.ask].phase), NewJob)
              /\ op.ask \in MoveIds /\ SameClaims
          BY <1>0, <3>2 DEF ActCreate, KindCreate, Records, StepsKnown
        <4>2. job'[m]["verify"].state \in {job[m]["verify"].state, "pending"}
          BY <1>1, <4>1 DEF JobSet, NewJob, NoJob
        <4>3. claim'[m].phase = claim[m].phase
          BY <1>1, <4>1 DEF SameClaims, SamePhases
        <4> QED
          BY <4>2, <4>3 DEF Compared
      <3>3. CASE Writes
        <4>1. UNCHANGED job
          BY <3>3
          DEF Writes, ActBegin, ActRefuse, ActMark, ActCopied, ActVerified, ActSwitch, ActSettle,
              ActAccept, ActReject, ActRestore, KindBegin, KindRefuse, KindMark, KindCopied,
              KindVerified, KindSwitch, KindSettle, KindAccept, KindReject, KindRestore
        <4>2. claim'[m].phase = "verified" /\ claim[m].phase # "verified"
              /\ job[m]["verify"].state # "done"
          BY <4>1 DEF Compared
        <4>3. ActMark => claim'[m].phase = claim[m].phase
          BY <1>1 DEF ActMark, KindMark, MarkSet, SamePhases
        <4>4. CASE ~ActMark /\ ~ActBegin /\ ~ActSwitch /\ ~ActRestore
          BY <1>1, <3>3, <4>2, <4>4
          DEF Writes, ActRefuse, ActCopied, ActVerified, ActSettle, ActAccept, ActReject,
              KindRefuse, KindCopied, KindVerified, KindSettle, KindAccept, KindReject, PhaseSet,
              CopiedSet
        <4>5. CASE ActBegin
          BY <1>1, <1>3, <4>2, <4>5 DEF ActBegin, KindBegin, TargetMade
        <4> QED
          BY <1>1, <4>2, <4>3, <4>4, <4>5
      <3>4. CASE ~ActJob /\ ~ActCreate /\ ~Writes
        <4>1. UNCHANGED job /\ SamePhases
          BY <1>0, <3>4, RecordsLeft DEF SameRecords
        <4> QED
          BY <1>1, <4>1 DEF Compared, SamePhases
      <3> QED
        BY <3>1, <3>2, <3>3, <3>4
    <2>8. \/ claim'[InUse'].writer = claim'[m].sourceWriter
          \/ claim'[InUse'].writer.pod > claim'[m].sourceWriter.pod
      BY <1>1, <2>0, <2>1, <2>3
    <2>9. ~Touched(m)' => /\ memory'[InUse'] <= claim'[m].sourceWriter.pod
                          /\ Compared(m)' => job'[m]["verify"].source = memory'[InUse']
      BY <1>1, <2>0, <2>1, <2>4, <2>5, <2>6, <2>7
    <2>10. Compared(m)' => job'[m]["verify"].target = memory'[m]
      BY <2>0, <2>6, <2>7
    <2> QED
      BY <2>0, <2>1, <2>8, <2>9, <2>10
  <1> QED
    BY <1>2, <1>3, PendingCame

\* Who serves is on the claim in use; an old agent serves only on the own one.
LEMMA ServeFacts ==
  ASSUME Stepping, ActServe
  PROVE  /\ pod.uid # 0 /\ pod.claim = InUse /\ claim[InUse].there
         /\ ~accepts => \A c \in Claims : claim[c].movedTo = 0
  <1>0. TypeOK /\ Records /\ OneChain /\ MemoryKept
    BY SteppingIs
  <1>1. pod.run = "starting" /\ (~pod.strict \/ accepts)
    BY DEF ActServe, OpensStore
  <1>2. pod.uid # 0 /\ InPlace(pod.claim, pod.strict) /\ claim[pod.claim].there
    BY <1>0, <1>1 DEF MemoryKept, PodInPlace
  <1>3. pod.claim = InUse
    BY <1>1, <1>2 DEF InPlace
  <1>4. ~accepts => InUse = 0
    BY <1>0, <1>1, <1>3 DEF MemoryKept, StoresFound, Required
  <1> QED
    BY <1>0, <1>2, <1>3, <1>4, ChainFacts DEF OneChain

\* Every step keeps the memory at the end of the chain.
LEMMA HomeStep == ASSUME Stepping PROVE HomeKept'
  <1>0. TypeOK /\ Records /\ Records' /\ OneChain /\ Act /\ MemoryKept /\ HomeKept /\ TypeOK'
    BY SteppingIs DEF MemoryKept
  <1>t. /\ pod.uid \in Nat /\ created \in Nat /\ latest \in Nat /\ pod.claim \in Claims
        /\ InUse \in Claims /\ InUse' \in Claims
        /\ \A c \in Claims : claim[c].writer.pod \in Nat
    BY SteppingIs DEF Typed
  <1>a. UNCHANGED accepts
    BY <1>0, Frames
  <1>p. latest <= created /\ pod.uid \in {0, created}
    BY <1>0 DEF MemoryKept, UidsInOrder
  <1>h. /\ \A c \in Claims : claim[c].there => claim'[c].there
        /\ ActBegin => \A c \in Claims : claim[c].there => claim'[c].writer = claim[c].writer
    <2>1. ActBegin => \A c \in Claims : claim[c].there => claim'[c] = claim[c]
      BY DEF ActBegin, KindBegin, TargetMade
    <2>2. ActCreatePod => \A c \in Claims : claim[c].there => claim'[c].there
      BY DEF ActCreatePod, SameClaims, SameThere, OwnMade
    <2> QED
      BY <1>0, <2>1, <2>2, RecordsLeft DEF SameThere
  \* The fence writes the writer of the Pod that is there, which is the newest.
  <1>f. ASSUME ActFence, NEW c \in Claims
        PROVE  \/ claim'[c].writer = claim[c].writer /\ (PodOn(c) => PodOn(c)' \/ ~claim[c].there)
               \/ claim'[c].writer.pod = created
    <2>1. CASE FenceLeaves
      BY <2>1 DEF FenceLeaves, SameClaims, SameWriters, PodOn
    <2>2. CASE FenceNotes
      <3>1. pod'.uid = pod.uid /\ pod'.claim = pod.claim
        BY <1>0, <2>2 DEF FenceNotes, TypeOK, Pod
      <3> QED
        BY <1>p, <2>2, <3>1 DEF FenceNotes, WriterSet, PodOn
    <2>3. CASE FenceReleases
      <3>1. CASE c = pod.claim
        <4>1. CASE claim[c].there
          <5>1. WriterSet(pod.claim, [pod |-> pod.uid, state |-> "stopped", exit |-> pod.exit])
            BY <2>3, <3>1, <4>1 DEF FenceReleases
          <5> QED
            BY <1>p, <2>3, <3>1, <5>1 DEF FenceReleases, WriterSet
        <4>2. CASE ~claim[c].there
          BY <2>3, <3>1, <4>2 DEF FenceReleases, SameClaims, SameWriters
        <4> QED
          BY <4>1, <4>2
      <3>2. CASE c # pod.claim
        <4>1. claim'[c].writer = claim[c].writer
          BY <2>3, <3>2 DEF FenceReleases, WriterSet, SameClaims, SameWriters
        <4> QED
          BY <3>2, <4>1 DEF PodOn
      <3> QED
        BY <3>1, <3>2
    <2> QED
      BY <1>f, <2>1, <2>2, <2>3 DEF ActFence
  <1>1. memory'[InUse'] = latest' /\ (latest' # 0 => claim'[InUse'].there)
    <2>0. memory[InUse] = latest /\ (latest # 0 => claim[InUse].there)
      BY <1>0 DEF HomeKept
    <2>1. CASE ActSwitch
      <3>1. UNCHANGED <<memory, latest>>
        BY <2>1 DEF ActSwitch, Rest
      <3> QED
        BY <1>h, <2>1, <3>1, SwitchFacts, ClaimNumbers
    <2>2. CASE ActRestore
      <3>1. UNCHANGED <<memory, latest>>
        BY <2>2 DEF ActRestore, Rest
      <3> QED
        BY <1>h, <2>2, <3>1, RestoreFacts
    <2>3. CASE ActServe
      <3>1. InUse' = InUse /\ UNCHANGED claim
        <4>1. UNCHANGED <<claim, op>> /\ ~ActSwitch /\ ~ActRestore
          BY <2>3 DEF ActServe, ActSwitch, ActRestore, KindSwitch, KindRestore, OpPlan, AdvancingOf,
                      Deciding
        <4> QED
          BY <4>1, LinksLeft
      <3> QED
        BY <1>t, <2>3, <3>1, ServeFacts DEF ActServe, MemorySet
    <2>4. CASE ~ActSwitch /\ ~ActRestore /\ ~ActServe
      <3>1. InUse' = InUse /\ UNCHANGED latest
        BY <1>0, <2>4, LinksLeft, Frames
      <3>2. memory'[InUse] = memory[InUse]
        BY <1>0, <1>t, <2>4, Frames, JobsApart
      <3> QED
        BY <1>h, <1>t, <2>0, <3>1, <3>2
    <2> QED
      BY <2>1, <2>2, <2>3, <2>4
  <1>2. claim'[InUse'].writer.state # "none" /\ ~PodOn(InUse)' => latest' <= claim'[InUse'].writer.pod
    <2>1. CASE ActSwitch
      <3>1. claim[op.ask].writer.state = "none" /\ InUse' = op.ask /\ SameWriters /\ op.ask \in Claims
        BY <1>0, <2>1, SwitchFacts, ClaimNumbers DEF MemoryKept, StoresFound, LinkSet
      <3> QED
        BY <3>1 DEF SameWriters
    <2>2. CASE ActRestore
      <3>1. UNCHANGED latest /\ SameWriters
        BY <2>2, RestoreFacts DEF ActRestore, Rest, LinkSet
      <3> QED
        BY <2>2, <3>1, RestoreFacts DEF SameWriters
    <2>3. CASE ~ActSwitch /\ ~ActRestore
      <3>0. InUse' = InUse
        BY <2>3, LinksLeft
      <3>1. claim[InUse].writer.state # "none" /\ ~PodOn(InUse) => latest <= claim[InUse].writer.pod
        BY <1>0 DEF HomeKept
      <3>u. claim[InUse].writer.state # "none" => claim[InUse].there
        BY <1>0, <1>t DEF Records, UnmadeBlank, NoWriter
      <3>2. CASE ActServe
        <4>1. PodOn(InUse)'
          BY <3>0, <3>2, ServeFacts DEF ActServe, PodOn
        <4> QED
          BY <4>1
      <3>3. CASE ActFence
        <4>1. UNCHANGED latest
          BY <3>3 DEF ActFence
        <4>2. PodOn(InUse)' <=> (pod'.uid # 0 /\ pod'.claim = InUse)
          BY <3>0 DEF PodOn
        <4>3. \/ /\ claim'[InUse].writer = claim[InUse].writer
                 /\ PodOn(InUse) => PodOn(InUse)' \/ ~claim[InUse].there
              \/ claim'[InUse].writer.pod = created
          <5>1. PICK c \in Claims : c = InUse
            BY <1>t
          <5>2. \/ claim'[c].writer = claim[c].writer /\ (PodOn(c) => PodOn(c)' \/ ~claim[c].there)
                \/ claim'[c].writer.pod = created
            BY <1>f, <3>3
          <5>3. PodOn(c)' <=> PodOn(InUse)'
            BY <4>2, <5>1 DEF PodOn
          <5> QED
            BY <5>1, <5>2, <5>3
        <4> QED
          BY <1>p, <3>0, <3>1, <3>u, <4>1, <4>3
      <3>4. CASE ActBegin
        <4>1. /\ UNCHANGED <<pod, latest>> /\ claim[InUse].there
          BY <3>4 DEF ActBegin, KindBegin, Rest
        <4>2. claim'[InUse].writer = claim[InUse].writer /\ (PodOn(InUse)' <=> PodOn(InUse))
          BY <1>h, <1>t, <3>0, <3>4, <4>1 DEF PodOn
        <4> QED
          BY <3>0, <3>1, <4>1, <4>2
      <3>5. CASE ~ActServe /\ ~ActFence /\ ~ActBegin
        <4>1. UNCHANGED latest /\ claim'[InUse].writer = claim[InUse].writer
          BY <1>0, <1>t, <3>5, Frames, RecordsLeft DEF SameWriters
        <4>2. PodOn(InUse) => PodOn(InUse)'
          BY <1>0, <3>0, <3>5, Frames DEF ActCreatePod, ActPod, PodOn
        <4> QED
          BY <3>0, <3>1, <4>1, <4>2
      <3> QED
        BY <3>2, <3>3, <3>4, <3>5
    <2> QED
      BY <2>1, <2>2, <2>3
  <1>3. ASSUME NEW m \in MoveIds, Linked(m)', claim'[m].phase = "refused" PROVE ~accepts
    <2>0. m \in Claims /\ (Linked(m) /\ claim[m].phase = "refused" => ~accepts)
          /\ claim[m].source \in Claims
      BY <1>0, ClaimNumbers, FieldTypes DEF HomeKept
    <2>1. CASE ActSwitch
      <3>1. LinkSet(InUse, op.ask) /\ claim[op.ask].phase = "verified"
        BY <2>1, SwitchFacts DEF ActSwitch, KindSwitch, AdvancingOf
      <3>2. m # op.ask => Linked(m)
        BY <1>3, <2>0, <3>1 DEF Linked, LinkSet, SameSources
      <3> QED
        BY <1>3, <2>0, <3>1, <3>2 DEF LinkSet, SamePhases
    <2>2. CASE ActRestore
      BY <2>2, RestoreFacts
    <2>3. CASE ~ActSwitch /\ ~ActRestore
      <3>0. Linked(m)
        BY <1>3, <2>0, <2>3, LinksLeft
      <3>1. CASE claim[m].phase = "refused"
        BY <2>0, <3>0, <3>1
      <3>2. CASE claim[m].phase # "refused"
        <4>1. Writes
          BY <1>0, <1>3, <2>0, <3>2, RecordsLeft DEF SameRecords, SamePhases
        <4>2. ~ActMark /\ ~ActBegin /\ ~ActCopied
          BY <1>3, <2>0, <3>2
          DEF ActMark, KindMark, MarkSet, SamePhases, ActBegin, KindBegin, TargetMade, ActCopied,
              KindCopied, CopiedSet
        <4>3. (ActRefuse \/ ActReject) /\ m = op.ask
          BY <1>3, <2>0, <2>3, <3>2, <4>1, <4>2
          DEF Writes, ActRefuse, ActVerified, ActSettle, ActAccept, ActReject, KindRefuse,
              KindVerified, KindSettle, KindAccept, KindReject, PhaseSet
        <4>4. CASE ActRefuse
          <5>1. Live(m) /\ InUse # m
            BY <4>3, <4>4 DEF ActRefuse, KindRefuse, AdvancingOf, Deciding, Live
          <5> QED
            BY <1>0, <3>0, <5>1 DEF OneChain, LiveFromInUse
        <4>5. CASE ActReject
          BY <1>0, <4>5 DEF ActReject, agentExitedNonZero, MemoryKept, PodInPlace
        <4> QED
          BY <4>3, <4>4, <4>5
      <3> QED
        BY <3>1, <3>2
    <2> QED
      BY <2>1, <2>2, <2>3
  <1>4. ASSUME ~accepts, NEW c \in Claims, claim'[c].movedTo # 0
        PROVE  memory'[claim'[c].movedTo] = memory'[c] /\ latest' <= claim'[c].writer.pod
    <2>0. /\ claim[c].movedTo # 0 =>
               memory[claim[c].movedTo] = memory[c] /\ latest <= claim[c].writer.pod
          /\ claim[c].movedTo \in Claims
      BY <1>0, <1>4, FieldTypes DEF HomeKept
    <2>1. CASE ActSwitch
      <3>1. /\ LinkSet(InUse, op.ask) /\ UNCHANGED <<memory, latest>>
            /\ memory[op.ask] = memory[InUse] /\ latest <= claim[InUse].writer.pod
        BY <2>1, SwitchFacts DEF ActSwitch, Rest
      <3>2. CASE c = InUse
        BY <1>4, <3>1, <3>2 DEF LinkSet, SameWriters
      <3>3. CASE c # InUse
        BY <1>4, <2>0, <3>1, <3>3 DEF LinkSet, SameWriters
      <3> QED
        BY <3>2, <3>3
    <2>2. CASE ActRestore
      <3>1. LinkSet(claim[op.ask].source, 0) /\ UNCHANGED <<memory, latest>>
        BY <2>2, RestoreFacts DEF ActRestore, Rest
      <3> QED
        BY <1>4, <2>0, <3>1 DEF LinkSet, SameWriters
    <2>3. CASE ~ActSwitch /\ ~ActRestore
      <3>0. claim'[c].movedTo = claim[c].movedTo
        BY <2>3, LinksLeft DEF SameLinks
      <3>1. ~ActServe
        BY <1>4, <3>0, ServeFacts
      <3>2. UNCHANGED latest
        BY <1>0, <3>1, Frames
      <3>3. memory'[claim[c].movedTo] = memory[claim[c].movedTo] /\ memory'[c] = memory[c]
        <4>1. Linked(claim[c].movedTo) /\ (c = 0 \/ Linked(c))
          <5>1. claim[claim[c].movedTo].source = c
            BY <1>0, <1>4, <3>0 DEF Records, LinksRecorded
          <5> QED
            BY <1>0, <1>4, <3>0, <5>1, ChainFacts DEF Linked, OneChain
        <4> QED
          BY <1>0, <2>0, <3>1, <4>1, Frames, JobsApart
      <3>4. latest <= claim'[c].writer.pod
        <4>1. CASE ActFence
          BY <1>4, <1>f, <1>p, <2>0, <3>0, <4>1
        <4>2. CASE ActBegin
          <5>1. claim[c].there
            BY <1>0, <1>4, <3>0 DEF Records, UnmadeBlank
          <5> QED
            BY <1>4, <1>h, <2>0, <3>0, <4>2, <5>1
        <4>3. CASE ~ActFence /\ ~ActBegin
          BY <1>0, <1>4, <2>0, <3>0, <4>3, RecordsLeft DEF SameWriters
        <4> QED
          BY <4>1, <4>2, <4>3
      <3> QED
        BY <1>4, <2>0, <3>0, <3>2, <3>3, <3>4
    <2> QED
      BY <2>1, <2>2, <2>3
  <1> QED
    BY <1>a, <1>1, <1>2, <1>3, <1>4 DEF HomeKept

\* Every step keeps the copies in use drained ones.
LEMMA DrainedStep == ASSUME Stepping PROVE CopiesDrained'
  <1>0. TypeOK /\ Records /\ OneChain /\ Act /\ MemoryKept
    BY SteppingIs
  <1> SUFFICES ASSUME NEW m \in MoveIds, Linked(m)' \/ claim'[m].phase \in {"switched", "accepted"}
      PROVE  claim'[m].sourceWriter.exit = "clean" /\ claim'[m].digest <= claim'[m].sourceWriter.pod
    BY DEF CopiesDrained
  <1> DEFINE Put(n) == Linked(n) \/ claim[n].phase \in {"switched", "accepted"}
  <1>1. /\ m \in Claims /\ claim[m].source \in Claims
        /\ Put(m) => claim[m].sourceWriter.exit = "clean" /\ claim[m].digest <= claim[m].sourceWriter.pod
    BY <1>0, ClaimNumbers, FieldTypes DEF MemoryKept, CopiesDrained
  <1>2. ASSUME Put(m), SameSources, claim'[m].digest = claim[m].digest
        PROVE  claim'[m].sourceWriter.exit = "clean" /\ claim'[m].digest <= claim'[m].sourceWriter.pod
    BY <1>1, <1>2 DEF SameSources
  <1>3. CASE ActSwitch
    <2>1. LinkSet(InUse, op.ask)
      BY <1>3, SwitchFacts
    <2>2. Put(m) \/ m = op.ask
      BY <1>1, <2>1 DEF LinkSet, SameSources, SamePhases, Linked
    <2>3. SameSources /\ claim'[m].digest = claim[m].digest
      BY <1>1, <2>1 DEF LinkSet, SameDigests
    <2> QED
      BY <1>1, <1>2, <1>3, <2>2, <2>3, SwitchFacts DEF SameSources
  <1>4. CASE ActRestore
    <2>1. LinkSet(claim[op.ask].source, 0)
      BY <1>4, RestoreFacts
    <2>2. Put(m) /\ SameSources /\ claim'[m].digest = claim[m].digest
      BY <1>1, <2>1, ClaimNumbers DEF LinkSet, SameSources, SamePhases, SameDigests, Linked
    <2> QED
      BY <1>2, <2>2
  <1>5. CASE ~ActSwitch /\ ~ActRestore
    <2>0. Linked(m)' <=> Linked(m)
      BY <1>1, <1>5, LinksLeft
    <2>1. CASE ActBegin
      <3>1. m # op.ask
        <4>1. ActBegin /\ m = op.ask => ~claim[m].there /\ claim'[m].phase = "created"
          BY DEF ActBegin, KindBegin, TargetMade
        <4>2. ~claim[m].there => ~Linked(m)
          BY <1>0, <1>1 DEF Linked, Records, LinksRecorded
        <4> QED
          BY <2>0, <2>1, <4>1, <4>2
      <3>2. claim'[m] = claim[m]
        BY <1>1, <2>1, <3>1 DEF ActBegin, KindBegin, TargetMade
      <3> QED
        BY <1>1, <2>0, <3>2
    <2>2. CASE ~ActBegin
      <3>1. SameSources
        BY <1>0, <2>2, RecordsLeft
      <3>2. Put(m) /\ claim'[m].digest = claim[m].digest
        <4>1. CASE ~Writes
          BY <1>0, <1>1, <2>0, <4>1, RecordsLeft DEF SameRecords, SamePhases, SameDigests
        <4>2. CASE ActMark
          BY <1>1, <2>0, <4>2 DEF ActMark, KindMark, MarkSet, SamePhases, SameDigests
        <4>3. CASE ActCopied
          <5>1. claim[op.ask].phase = "created" /\ CopiedSet(op.ask, job[op.ask]["copy"].source)
            BY <4>3 DEF ActCopied, KindCopied, AdvancingOf
          <5>2. m # op.ask
            <6>1. claim[m].phase = "created" => ~Linked(m)
              BY <1>0, <1>1 DEF Linked, Records, LinksRecorded, Late
            <6> QED
              BY <1>1, <2>0, <5>1, <6>1 DEF CopiedSet
          <5> QED
            BY <1>1, <2>0, <5>1, <5>2 DEF CopiedSet
        <4>4. CASE ActRefuse \/ ActVerified \/ ActReject
          BY <1>1, <2>0, <4>4
          DEF ActRefuse, ActVerified, ActReject, KindRefuse, KindVerified, KindReject, PhaseSet,
              SameDigests
        <4>5. CASE ActSettle \/ ActAccept
          <5>1. /\ op.pc \in {"settle", "accept"} /\ SameDigests
                /\ \A c \in Claims : c # op.ask => claim'[c].phase = claim[c].phase
            BY <4>5 DEF ActSettle, ActAccept, KindSettle, KindAccept, PhaseSet
          <5>2. Linked(op.ask)
            BY <1>0, <5>1 DEF OneChain, SettlesInUse
          <5> QED
            BY <1>1, <2>0, <5>1, <5>2 DEF SameDigests
        <4> QED
          BY <1>5, <2>2, <4>1, <4>2, <4>3, <4>4, <4>5 DEF Writes
      <3> QED
        BY <1>2, <3>1, <3>2
    <2> QED
      BY <2>1, <2>2
  <1> QED
    BY <1>3, <1>4, <1>5

\* The initial state keeps the memory.
LEMMA MemoryInit == ASSUME Init PROVE MemoryKept
  <1> USE DEF Init
  <1>0. TypeOK /\ Records /\ OneChain
    BY InitType, RecordsInit, ChainInit
  <1>1. /\ \A c \in Claims : /\ claim[c] = NoClaim /\ claim[c].movedTo = 0 /\ ~claim[c].there
                             /\ claim[c].writer = NoWriter /\ claim[c].sourceWriter = NoWriter
                             /\ claim[c].phase = "none" /\ claim[c].started = {}
                             /\ claim[c].source = 0 /\ memory[c] = 0
        /\ \A m \in MoveIds, s \in JobSteps : job[m][s] = NoJob
    BY DEF NoClaim
  <1>2. InUse \in Claims /\ 0 \in Claims /\ \A m \in MoveIds : m # 0 /\ m \in Claims
    BY <1>0, InUseType, ClaimNumbers DEF TypeOK, MoveIds
  <1>3. \A m \in MoveIds : ~Linked(m) /\ ~Live(m) /\ ~Pending(m)
    BY <1>1, <1>2 DEF Linked, Live, Pending
  <1>u. Used(0) /\ pod.uid = 0 /\ pod.claim = 0 /\ ~pod.strict /\ sts.claim = 0 /\ ~sts.strict
        /\ ~sts.there /\ op.claim = 0 /\ ~op.strict /\ op.pc = "idle"
    BY DEF Used, NoPod, NoSts, Idle
  <1>4. UidsInOrder
    BY <1>1, <1>2, <1>u DEF UidsInOrder, NoWriter
  <1>5. CopyFirst
    <2>1. \A m \in MoveIds : job[m]["copy"].state = "none"
      BY <1>1 DEF NoJob, JobSteps
    <2> QED
      BY <1>1, <1>2, <1>3, <2>1 DEF CopyFirst, Copied
  <1>6. StoresFound
    BY <1>1, <1>2, <1>3, <1>u DEF StoresFound, Required, NoWriter
  <1>7. PodInPlace
    BY <1>u DEF PodInPlace, NoPod
  <1>8. PlansInPlace /\ StopsCounted /\ CopyFaithful
    BY <1>3, <1>u DEF PlansInPlace, StopsCounted, CopyFaithful
  <1>9. HomeKept
    BY <1>1, <1>2, <1>3 DEF HomeKept, NoWriter
  <1>10. CopiesDrained
    BY <1>1, <1>2, <1>3 DEF CopiesDrained
  <1> QED
    BY <1>4, <1>5, <1>6, <1>7, <1>8, <1>9, <1>10 DEF MemoryKept

\* Every step keeps all of it.
LEMMA KeptStep == ASSUME Stepping PROVE MemoryKept'
  BY UidsStep, CopyFirstStep, StoresStep, PodStep, PlansStep, StopsStep, FaithfulStep, HomeStep,
     DrainedStep DEF MemoryKept

\* A step from a state where the layers hold is one the lemmas are about.
LEMMA MemoryStep ==
  ASSUME Careful, Below, MemoryKept, [Next]_vars PROVE Stepping
  BY BelowStep DEF Stepping

\* The memory is kept in every reachable state.
LEMMA MemoryHolds == ASSUME Careful PROVE Spec => [](Below /\ MemoryKept)
  <1>1. Init => Below /\ MemoryKept
    BY InitType, RecordsInit, ChainInit, MemoryInit DEF Below
  <1>2. ASSUME Below, MemoryKept, [Next]_vars PROVE Below' /\ MemoryKept'
    BY <1>2, MemoryStep, KeptStep DEF Stepping
  <1>3. Below /\ MemoryKept /\ [Next]_vars => (Below /\ MemoryKept)'
    BY <1>2
  <1> QED
    BY <1>1, <1>3, PTL DEF Spec

\* Between Pods the chain of claims leads to the claim that holds what the agent last wrote,
\* whatever moves are asked for and given up, whatever their Jobs do and the cache shows of
\* them, and whether or not the image takes --require-store: in an environment that is
\* Careful, and with any number of moves, Pods and asks.
THEOREM MemoryHomeHolds == ASSUME Careful PROVE Spec => []MemoryHome
  <1>1. Below /\ MemoryKept => MemoryHome
    BY DEF MemoryKept, HomeKept, MemoryHome
  <1> QED
    BY <1>1, MemoryHolds, PTL

\* An agent that comes to serve opens the memory it last wrote: never an empty store, the
\* claim a move left or a copy that was not put in use (OpensStore, agentExitedNonZero).
THEOREM ServesLatestHolds == ASSUME Careful PROVE Spec => ServesLatest
  <1> DEFINE Opens == pod.run = "starting" /\ pod'.run = "serving" => memory[pod.claim] = latest
  <1>1. ASSUME Below, MemoryKept, [Next]_vars PROVE [Opens]_vars
    <2> SUFFICES ASSUME pod.run = "starting", pod'.run = "serving" PROVE memory[pod.claim] = latest
      OBVIOUS
    <2>1. Stepping /\ Act /\ TypeOK
      BY <1>1, MemoryStep, SteppingIs
    <2>2. ActServe
      <3>1. FenceNotes => pod'.run = pod.run
        BY <2>1 DEF FenceNotes, TypeOK, Pod
      <3> QED
        BY <2>1, <3>1, Frames
        DEF ActFence, ActCreatePod, ActPod, FenceReleases, FenceLeaves, NoPod
    <2> QED
      BY <1>1, <2>1, <2>2, ServeFacts DEF MemoryKept, HomeKept
  <1>2. Below /\ MemoryKept /\ [Next]_vars => [Opens]_vars
    BY <1>1
  <1> QED
    BY <1>2, MemoryHolds, PTL DEF Spec, ServesLatest

\* A copy put in use is of what the source held when its last writer was seen to exit cleanly
\* (beginMove's drainedCleanly, sourceUnchanged at every later step, the three digests).
THEOREM CopyOfDrainedHolds == ASSUME Careful PROVE Spec => []CopyOfDrained
  <1>1. Below /\ MemoryKept => CopyOfDrained
    <2> SUFFICES ASSUME Below, MemoryKept, NEW m \in MoveIds,
                        claim[m].phase \in {"switched", "accepted"}
                 PROVE  /\ claim[m].sourceWriter.exit = "clean"
                        /\ claim[m].digest \in 1..claim[m].sourceWriter.pod
      BY DEF CopyOfDrained
    <2>1. claim[m].digest \in Nat /\ claim[m].sourceWriter.pod \in Nat
      BY TypedWhen, ClaimNumbers DEF Below, Typed
    <2>2. claim[m].sourceWriter.exit = "clean" /\ claim[m].digest <= claim[m].sourceWriter.pod
      BY DEF MemoryKept, CopiesDrained
    <2>3. claim[m].digest # 0
      BY DEF MemoryKept, CopyFirst, Copied
    <2> QED
      BY <2>1, <2>2, <2>3
  <1> QED
    BY <1>1, MemoryHolds, PTL

--------------------------------------------------------------------------------
(* Nothing serves under a Job, where the cache shows Jobs as they are made   *)

Prompt == "jobLag" \notin Happens

Active == {"pending", "reading"}
\* The move has a Job that runs, or the reconcile is about to make one.
Reading(m) ==
  (\E s \in JobSteps : job[m][s].state \in Active) \/ (op.pc = "createJob" /\ op.ask = m)
\* Its Jobs are seen, no Pod is or can come on the claim it reads, and no reconcile plans one.
Apart(m) ==
  /\ \A s \in JobSteps : job[m][s].state \in Active => job[m][s].seen
  /\ ~PodOn(claim[m].source) /\ ~StsOn(claim[m].source)
  /\ op.pc \in {"createJob", "settle", "accept", "sts"} /\ op.claim = claim[m].source => op.hold
JobsAlone == \A m \in MoveIds : budget.crashes = 0 /\ Reading(m) => Apart(m)

\* A move that has a Job has its target.
LEMMA ReadingThere ==
  ASSUME TypeOK, Records, NEW m \in MoveIds, Reading(m) PROVE claim[m].there
  <1>1. CASE op.pc = "createJob" /\ op.ask = m
    BY <1>1 DEF Records, StepsKnown
  <1>2. ASSUME NEW s \in JobSteps, job[m][s].state \in Active PROVE claim[m].there
    BY <1>2, ClaimNumbers DEF Records, JobsMarked, UnmadeBlank, Active
  <1> QED
    BY <1>1, <1>2 DEF Reading

\* A move reads on where it read before, but for the one that is marked.
LEMMA ReadingWas ==
  ASSUME Stepping, NEW m \in MoveIds, Reading(m)'
  PROVE  Reading(m) \/ (ActMark /\ m = op.ask)
  <1>0. TypeOK /\ Records /\ Act
    BY SteppingIs
  <1>1. CASE op'.pc = "createJob" /\ op'.ask = m /\ ~(op.pc = "createJob" /\ op.ask = m)
    <2>1. CASE ActMove
      BY <1>1, <2>1
      DEF ActMove, ActPlan, ActBegin, ActRefuse, ActMark, ActCreate, ActCopied, ActVerified,
          ActSwitch, ActSettle, ActAccept, ActReject, ActRestore, OpPlan, OpAt
    <2>2. CASE ActWorld
      BY <1>1, <2>2
      DEF ActWorld, ActFence, ActSts, ActCut, ActPeople, ActCreatePod, ActPod, ActServe, ActJob,
          JobKept, Idle
    <2> QED
      BY <1>0, <2>1, <2>2 DEF Act
  <1>2. CASE op.pc = "createJob" /\ op.ask = m
    BY <1>2 DEF Reading
  <1>3. ASSUME NEW s \in JobSteps, job'[m][s].state \in Active PROVE Reading(m)
    <2>1. CASE ActCreate
      <3>1. op.pc = "createJob" /\ op.ask \in MoveIds
            /\ JobSet(op.ask, StepOf(claim[op.ask].phase), NewJob)
        BY <1>0, <2>1 DEF ActCreate, KindCreate, Records, StepsKnown
      <3>2. op.ask = m \/ job'[m][s] = job[m][s]
        BY <3>1 DEF JobSet
      <3> QED
        BY <1>3, <3>1, <3>2 DEF Reading
    <2>2. CASE ActJob
      <3>1. PICK n \in MoveIds :
              \/ JobBegins(n) \/ JobCopies(n) \/ JobVerifies(n)
              \/ \E t \in JobSteps : JobFails(n, t) \/ JobGoes(n, t)
        BY <2>2 DEF ActJob
      <3>2. PICK t \in JobSteps :
              /\ \A k \in MoveIds, u \in JobSteps : k # n \/ u # t => job'[k][u] = job[k][u]
              /\ job'[n][t].state \in Active => job[n][t].state \in Active
        <4>1. "copy" \in JobSteps /\ "verify" \in JobSteps
          BY DEF JobSteps
        <4>2. CASE JobBegins(n) \/ JobCopies(n)
          BY <4>1, <4>2 DEF JobBegins, JobCopies, JobMoved, JobTo, Active
        <4>3. CASE JobVerifies(n)
          BY <4>1, <4>3 DEF JobVerifies, JobTo, Active
        <4>4. ASSUME NEW t \in JobSteps, JobFails(n, t) \/ JobGoes(n, t)
              PROVE  /\ \A k \in MoveIds, u \in JobSteps : k # n \/ u # t => job'[k][u] = job[k][u]
                     /\ job'[n][t].state \in Active => job[n][t].state \in Active
          BY <4>4 DEF JobFails, JobGoes, JobMoved, JobTo, Active
        <4> QED
          BY <3>1, <4>2, <4>3, <4>4
      <3>3. job[m][s].state \in Active
        BY <1>3, <3>2
      <3> QED
        BY <3>3 DEF Reading
    <2>3. CASE ~ActCreate /\ ~ActJob
      <3>1. Writes => UNCHANGED job
        BY DEF Writes, ActBegin, ActRefuse, ActMark, ActCopied, ActVerified, ActSwitch, ActSettle,
               ActAccept, ActReject, ActRestore, KindBegin, KindRefuse, KindMark, KindCopied,
               KindVerified, KindSwitch, KindSettle, KindAccept, KindReject, KindRestore
      <3>2. UNCHANGED job
        BY <1>0, <2>3, <3>1, RecordsLeft
      <3> QED
        BY <1>3, <3>2 DEF Reading
    <2> QED
      BY <2>1, <2>2, <2>3
  <1> QED
    BY <1>1, <1>2, <1>3 DEF Reading

\* A Job that runs stays seen.
LEMMA SeenStays ==
  ASSUME Stepping, Prompt, NEW m \in MoveIds, NEW s \in JobSteps, job'[m][s].state \in Active,
         job[m][s].state \in Active => job[m][s].seen
  PROVE  job'[m][s].seen
  <1>0. TypeOK /\ Records /\ Act
    BY SteppingIs
  <1>1. CASE ActCreate
    <2>1. op.ask \in MoveIds /\ JobSet(op.ask, StepOf(claim[op.ask].phase), NewJob)
      BY <1>0, <1>1 DEF ActCreate, KindCreate, Records, StepsKnown
    <2>2. NewJob.seen
      BY DEF NewJob, NoJob, Prompt
    <2> QED
      BY <2>1, <2>2 DEF JobSet
  <1>2. CASE ActJob
    <2>1. PICK n \in MoveIds :
            \/ JobBegins(n) \/ JobCopies(n) \/ JobVerifies(n)
            \/ \E t \in JobSteps : JobFails(n, t) \/ JobGoes(n, t)
      BY <1>2 DEF ActJob
    <2>2. "copy" \in JobSteps /\ "verify" \in JobSteps
      BY DEF JobSteps
    <2>3. CASE JobBegins(n) \/ JobCopies(n)
      BY <2>2, <2>3 DEF JobBegins, JobCopies, JobMoved, JobTo, Active
    <2>4. CASE JobVerifies(n)
      BY <2>2, <2>4 DEF JobVerifies, JobTo, Active
    <2>5. ASSUME NEW t \in JobSteps, JobFails(n, t) \/ JobGoes(n, t) PROVE job'[m][s].seen
      BY <2>5 DEF JobFails, JobGoes, JobMoved, JobTo, Active
    <2> QED
      BY <2>1, <2>3, <2>4, <2>5
  <1>3. CASE ~ActCreate /\ ~ActJob
    <2>1. Writes => UNCHANGED job
      BY DEF Writes, ActBegin, ActRefuse, ActMark, ActCopied, ActVerified, ActSwitch, ActSettle,
             ActAccept, ActReject, ActRestore, KindBegin, KindRefuse, KindMark, KindCopied,
             KindVerified, KindSwitch, KindSettle, KindAccept, KindReject, KindRestore
    <2> QED
      BY <1>0, <1>3, <2>1, RecordsLeft
  <1> QED
    BY <1>1, <1>2, <1>3

\* Every step leaves the running Jobs alone with their sources.
LEMMA AloneStep == ASSUME Stepping, Prompt, JobsAlone PROVE JobsAlone'
  <1>0. TypeOK /\ Records /\ OneChain /\ Act /\ MemoryKept /\ TypeOK'
    BY SteppingIs
  <1>t. budget.crashes \in Nat /\ InUse \in Claims /\ op.hold \in BOOLEAN
    BY SteppingIs, MoveAssumption DEF Typed
  <1> SUFFICES ASSUME NEW m \in MoveIds, budget'.crashes = 0, Reading(m)' PROVE Apart(m)'
    BY DEF JobsAlone
  <1>1. budget.crashes = 0 /\ ~ActCut
    BY <1>0, <1>t, Frames DEF ActCut
  <1>2. m \in Claims /\ claim[m].source \in Claims /\ op.ask \in Claims
    BY <1>0, ClaimNumbers, FieldTypes
  \* The move the reconcile marks: it found no Pod, and where one could come before the
  \* move comes to its end a reconcile was cut short.
  <1>3. ASSUME ActMark, m = op.ask
        PROVE  /\ claim[m].there /\ ~PodOn(claim[m].source) /\ ~StsOn(claim[m].source)
               /\ \A s \in JobSteps : job[m][s].state \in Active => job[m][s].seen
    <2>1. /\ op.pc = "move" /\ op.gone /\ claim[m].there /\ InUse # m
          /\ claim[m].phase \in {"created", "copied"}
      BY <1>3 DEF ActMark, KindMark, AdvancingOf, Deciding
    <2>2. Live(m)
      BY <1>3, <2>1 DEF Live, Early
    <2>3. Pending(m) /\ claim[m].source = InUse
      BY <1>0, <2>1, <2>2 DEF OneChain, LiveFromInUse, Pending
    <2>4. Ending = 0 /\ StepsTaken(m) \in Nat \ {0}
      BY <2>1 DEF Ending, StepsTaken
    <2>5. ~StsOn(InUse)
      BY <1>0, <1>1, <2>3, <2>4 DEF MemoryKept, StopsCounted
    <2>6. ~PodOn(InUse)
      BY <1>0, <2>1, <2>5 DEF MemoryKept, StopsCounted, PodOn
    <2>7. \A s \in JobSteps : job[m][s].state \in Active => job[m][s].seen
      BY <1>1 DEF JobsAlone, Reading, Apart
    <2> QED
      BY <2>1, <2>3, <2>5, <2>6, <2>7
  <1>4. ASSUME Reading(m) PROVE Apart(m) /\ claim[m].there
    BY <1>0, <1>1, <1>4, ReadingThere DEF JobsAlone
  <1>5. /\ claim[m].there /\ ~PodOn(claim[m].source) /\ ~StsOn(claim[m].source)
        /\ \A s \in JobSteps : job[m][s].state \in Active => job[m][s].seen
    BY <1>3, <1>4, ReadingWas DEF Apart
  <1>6. claim'[m].source = claim[m].source
    <2>1. ActBegin => claim'[m].source = claim[m].source
      BY <1>2, <1>5 DEF ActBegin, KindBegin, TargetMade
    <2> QED
      BY <1>0, <1>2, <2>1, RecordsLeft DEF SameSources
  <1>7. \A s \in JobSteps : job'[m][s].state \in Active => job'[m][s].seen
    BY <1>5, SeenStays
  <1>8. ~(pod'.uid # 0 /\ pod'.claim = claim[m].source)
    <2>1. FenceNotes => pod'.uid = pod.uid /\ pod'.claim = pod.claim
      BY <1>0 DEF FenceNotes, TypeOK, Pod
    <2> QED
      BY <1>0, <1>5, <2>1, Frames
      DEF ActFence, ActCreatePod, ActPod, ActServe, FenceReleases, FenceLeaves, NoPod, PodOn, StsOn
  <1>9. ~(sts'.there /\ sts'.replicas = 1 /\ sts'.claim = claim[m].source)
    <2>1. CASE ActSts
      <3>1. op.pc = "sts" /\ ~(ActMark /\ m = op.ask)
        BY <2>1 DEF ActSts, ActMark, KindMark, AdvancingOf, Deciding
      <3>2. op.claim = claim[m].source => op.hold
        BY <1>4, <3>1, ReadingWas DEF Apart
      <3> QED
        BY <2>1, <3>2 DEF ActSts
    <2>2. CASE ~ActSts
      BY <1>0, <1>5, <2>2, Frames DEF StsOn
    <2> QED
      BY <2>1, <2>2
  <1>10. op'.pc \in {"createJob", "settle", "accept", "sts"} /\ op'.claim = claim[m].source => op'.hold
    <2>1. CASE ActMark \/ ActBegin \/ ActRefuse \/ ActCopied \/ ActVerified \/ ActRestore
      BY <2>1 DEF ActMark, ActBegin, ActRefuse, ActCopied, ActVerified, ActRestore, OpPlan
    <2>2. CASE ActSwitch
      <3>1. op'.claim = op.ask /\ ~Used(op.ask)
        BY <2>2, SwitchFacts DEF ActSwitch, OpPlan
      <3>2. Used(claim[m].source)
        BY <1>0, <1>5 DEF OneChain, SourcesUsed
      <3> QED
        BY <3>1, <3>2
    <2>3. CASE ~ActMark /\ ~ActBegin /\ ~ActRefuse /\ ~ActCopied /\ ~ActVerified /\ ~ActRestore
               /\ ~ActSwitch
      <3>0. Reading(m)
        BY <2>3, ReadingWas
      <3>1. op.pc \in {"createJob", "settle", "accept", "sts"} /\ op.claim = claim[m].source => op.hold
        BY <1>4, <3>0 DEF Apart
      <3>2. op.pc # "createJob" => JobRunning
        BY <1>5, <3>0 DEF Reading, JobRunning, NotEnded, Active
      <3>3. CASE ActPlan
        BY <1>t, <3>1, <3>2, <3>3 DEF ActPlan, OpPlan, OpAt, Deciding
      <3>4. CASE ActCreate \/ ActSettle \/ ActAccept \/ ActReject
        BY <3>1, <3>4
        DEF ActCreate, ActSettle, ActAccept, ActReject, KindCreate, KindSettle, KindAccept, OpAt
      <3>5. CASE ActWorld
        BY <3>1, <3>5
        DEF ActWorld, ActFence, ActSts, ActCut, ActPeople, ActCreatePod, ActPod, ActServe, ActJob,
            JobKept, Idle
      <3> QED
        BY <1>0, <2>3, <3>3, <3>4, <3>5 DEF Act, ActMove
    <2> QED
      BY <2>1, <2>2, <2>3
  <1> QED
    BY <1>6, <1>7, <1>8, <1>9, <1>10 DEF Apart, PodOn, StsOn

\* As long as no reconcile was cut short, and where the manager's cache shows a Job as soon as
\* it is made, no Pod is on the claim a Job of any move reads, that of a move given up too
\* (moveJobRunning, and the hold of every step of a move).
THEOREM NoWriterUnderJobHolds == ASSUME Careful, Prompt PROVE Spec => []NoWriterUnderJob
  <1>1. Init => JobsAlone
    <2> SUFFICES ASSUME Init, NEW m \in MoveIds PROVE ~Reading(m)
      BY DEF JobsAlone
    <2> QED
      BY DEF Init, Reading, Idle, NoJob, Active
  <1>2. Below /\ MemoryKept /\ JobsAlone /\ [Next]_vars => JobsAlone'
    BY MemoryStep, AloneStep
  <1>3. JobsAlone => NoWriterUnderJob
    <2> SUFFICES ASSUME JobsAlone, NEW m \in MoveIds, NEW s \in JobSteps, budget.crashes = 0,
                        job[m][s].state \in {"pending", "reading"}
                 PROVE  ~(pod.uid # 0 /\ pod.run = "serving" /\ pod.claim = claim[m].source)
      BY DEF NoWriterUnderJob
    <2>1. Apart(m)
      BY DEF JobsAlone, Reading, Active
    <2> QED
      BY <2>1 DEF Apart, PodOn
  <1> QED
    BY <1>1, <1>2, <1>3, MemoryHolds, PTL DEF Spec
================================================================================
