------------------------- MODULE RedisCtrlTypes_proofs -------------------------
(***************************************************************************)
(* The cluster controller, for any number of controllers, clusters and     *)
(* servers, and whatever fails in whatever order (Events and MaxEvents are *)
(* arbitrary): what a pass decides to write, who may write, and what types *)
(* the state has.  RedisCtrl_proofs says what the writes come to.          *)
(*                                                                         *)
(* A walk over a map (ForEach) is a recursive function of the set of keys  *)
(* that are left.  What is true of all walks follows by induction over     *)
(* finite sets of numbers, in the form of MinInduction: as a statement     *)
(* about a set of sets, which WFMin of the library gives for the strict    *)
(* subsets of a finite set.                                                *)
(*                                                                         *)
(* The lock excludes.  OneController is not inductive by itself: a         *)
(* controller that still had something to write after it has given back    *)
(* the lock would break it, so LockInv adds that an idle controller has    *)
(* not, and that there is a state for every controller.                    *)
(***************************************************************************)
EXTENDS RedisCtrl, FiniteSetTheorems, SequenceTheorems, WellFoundedInduction, TLAPS

-----------------------------------------------------------------------------
(* Numbers.                                                                *)

LEMMA MinIsLeast ==
  ASSUME NEW S \in SUBSET Nat, S # {}
  PROVE  Min(S) \in S /\ \A y \in S : Min(S) <= y
<1>1. PICK m \in S : \A y \in S : <<y, m>> \notin OpToRel(<, Nat)
  BY WFMin, NatLessThanWellFounded, Zenon
<1>2. \A y \in S : ~ (y < m)
  BY <1>1, Zenon DEF OpToRel
<1>3. m \in S /\ \A y \in S : m <= y
  BY <1>2
<1> QED BY <1>3, Zenon DEF Min

LEMMA MaxIsGreatest ==
  ASSUME NEW n \in Nat, NEW S \in SUBSET (1 .. n), S # {}
  PROVE  Max(S) \in S /\ \A y \in S : Max(S) >= y
<1> DEFINE U == {u \in Nat : \A y \in S : y <= u}
<1>1. n \in U
  OBVIOUS
<1>2. U \subseteq Nat /\ U # {}
  BY <1>1
<1> DEFINE m == Min(U)
<1>3. m \in U /\ \A u \in U : m <= u
  BY <1>2, MinIsLeast
<1> HIDE DEF m
<1>4. m \in S
  <2> SUFFICES ASSUME m \notin S PROVE FALSE
    OBVIOUS
  <2>1. m \in Nat /\ \A y \in S : y <= m /\ y # m /\ y \in Nat /\ y >= 1
    BY <1>3
  <2>2. PICK y \in S : TRUE
    OBVIOUS
  <2>3. m >= 1
    BY <2>1, <2>2
  <2>4. m - 1 \in U
    BY <2>1, <2>3
  <2> QED BY <1>3, <2>1, <2>4
<1>5. \A y \in S : m >= y
  BY <1>3
<1> HIDE DEF U
<1> QED BY <1>4, <1>5, Zenon DEF Max

(* Induction over a finite set of numbers, the least of which is taken     *)
(* first.                                                                  *)
LEMMA MinInduction ==
  ASSUME NEW D \in SUBSET Nat, IsFiniteSet(D), NEW G, {} \in G,
         \A T \in SUBSET D : T # {} /\ T \ {Min(T)} \in G => T \in G
  PROVE  D \in G
<1> SUFFICES ASSUME D \notin G PROVE FALSE
  OBVIOUS
<1> DEFINE B == {T \in SUBSET D : T \notin G}
<1>1. IsWellFoundedOn(StrictSubsetOrdering(D), SUBSET D)
  <2>1. FiniteSubsetsOf(D) = SUBSET D
    BY FS_FiniteSubsetsOfFinite
  <2>2. IsWellFoundedOn(StrictSubsetOrdering(D), FiniteSubsetsOf(D))
    BY FS_StrictSubsetOrderingWellFounded
  <2> QED BY <2>1, <2>2, Zenon
<1>2. B \subseteq SUBSET D /\ B # {}
  OBVIOUS
<1> HIDE DEF B
<1>3. PICK T \in B : \A U \in B : <<U, T>> \notin StrictSubsetOrdering(D)
  BY <1>1, <1>2, WFMin, Zenon
<1>4. T \subseteq D /\ T \notin G /\ T # {}
  BY DEF B
<1> DEFINE m == Min(T)
           U == T \ {m}
<1>5. m \in T
  BY <1>4, MinIsLeast
<1> HIDE DEF m
<1>6. U \subseteq D /\ U \subseteq T /\ U # T
  BY <1>4, <1>5
<1> HIDE DEF U
<1>7. <<U, T>> \in StrictSubsetOrdering(D)
  BY <1>4, <1>6 DEF StrictSubsetOrdering
<1>8. U \in G
  BY <1>3, <1>6, <1>7 DEF B
<1>9. T \in G
  BY <1>4, <1>8 DEF U, m
<1> QED BY <1>4, <1>9
-----------------------------------------------------------------------------
(* How often an element occurs in a sequence.                              *)

Places(s, x) == {i \in DOMAIN s : s[i] = x}
Occurs(s, x) == Cardinality(Places(s, x))

LEMMA PlacesFinite ==
  ASSUME NEW S, NEW s \in Seq(S), NEW x
  PROVE  /\ IsFiniteSet(Places(s, x)) /\ Occurs(s, x) \in Nat
         /\ Places(s, x) \in SUBSET (1 .. Len(s))
         /\ Occurs(s, x) = 0 <=> x \notin Range(s)
<1>1. Len(s) \in Nat /\ DOMAIN s = 1 .. Len(s)
  BY LenProperties
<1>2. IsFiniteSet(1 .. Len(s))
  BY <1>1, FS_Interval
<1>3. Places(s, x) \in SUBSET (1 .. Len(s))
  BY <1>1 DEF Places
<1>4. IsFiniteSet(Places(s, x))
  BY <1>2, <1>3, FS_Subset
<1>5. Occurs(s, x) \in Nat
  BY <1>4, FS_CardinalityType DEF Occurs
<1>6. Occurs(s, x) = 0 <=> Places(s, x) = {}
  BY <1>4, FS_EmptySet DEF Occurs
<1>7. Places(s, x) = {} <=> x \notin Range(s)
  BY DEF Places, Range
<1> QED BY <1>3, <1>4, <1>5, <1>6, <1>7

LEMMA ShiftedCardinality ==
  ASSUME NEW B \in SUBSET Nat, IsFiniteSet(B), NEW n \in Nat
  PROVE  LET C == {n + i : i \in B} IN IsFiniteSet(C) /\ Cardinality(C) = Cardinality(B)
<1> DEFINE C == {n + i : i \in B}
           f == [i \in B |-> n + i]
<1>1. f \in [B -> C] /\ \A i \in B : f[i] = n + i
  OBVIOUS
<1>2. \A c \in C : \E i \in B : f[i] = c
  OBVIOUS
<1>3. \A i, j \in B : f[i] = f[j] => i = j
  OBVIOUS
<1> HIDE DEF f, C
<1>4. f \in Surjection(B, C)
  BY <1>1, <1>2 DEF Surjection
<1>5. f \in Injection(B, C)
  BY <1>1, <1>3 DEF Injection, IsInjective
<1>6. IsFiniteSet(C) /\ Cardinality(C) = Cardinality(B)
  BY <1>4, <1>5, FS_Surjection
<1> QED BY <1>6 DEF C

LEMMA OccursConcat ==
  ASSUME NEW S, NEW s \in Seq(S), NEW t \in Seq(S), NEW x
  PROVE  Occurs(s \o t, x) = Occurs(s, x) + Occurs(t, x)
<1> DEFINE A == Places(s, x)
           B == Places(t, x)
           C == {Len(s) + i : i \in B}
<1>1. /\ Len(s) \in Nat /\ DOMAIN s = 1 .. Len(s)
      /\ Len(t) \in Nat /\ DOMAIN t = 1 .. Len(t)
  BY LenProperties
<1>2. /\ s \o t \in Seq(S) /\ Len(s \o t) = Len(s) + Len(t)
      /\ \A i \in 1 .. Len(s) + Len(t) :
           (s \o t)[i] = IF i <= Len(s) THEN s[i] ELSE t[i - Len(s)]
  BY ConcatProperties
<1>3. DOMAIN (s \o t) = 1 .. Len(s) + Len(t)
  BY <1>2, LenProperties
<1>4. /\ IsFiniteSet(A) /\ A \subseteq 1 .. Len(s)
      /\ IsFiniteSet(B) /\ B \subseteq 1 .. Len(t)
  BY PlacesFinite
<1>5. IsFiniteSet(C) /\ Cardinality(C) = Cardinality(B)
  <2>1. B \in SUBSET Nat
    BY <1>1, <1>4
  <2> HIDE DEF B
  <2> QED BY <1>1, <1>4, <2>1, ShiftedCardinality
<1>6. A \cap C = {}
  BY <1>1, <1>4
<1>7. Places(s \o t, x) = A \cup C
  <2>1. ASSUME NEW i \in Places(s \o t, x)
        PROVE  i \in A \cup C
    <3>1. i \in 1 .. Len(s) + Len(t) /\ (s \o t)[i] = x
      BY <1>3 DEF Places
    <3>2. CASE i <= Len(s)
      BY <1>1, <1>2, <3>1, <3>2 DEF Places
    <3>3. CASE ~ (i <= Len(s))
      <4>1. i - Len(s) \in 1 .. Len(t) /\ i = Len(s) + (i - Len(s))
        BY <1>1, <3>1, <3>3
      <4>2. i - Len(s) \in B
        BY <1>1, <1>2, <3>1, <3>3, <4>1 DEF Places
      <4> QED BY <4>1, <4>2
    <3> QED BY <3>2, <3>3
  <2>2. ASSUME NEW i \in A
        PROVE  i \in Places(s \o t, x)
    <3>1. i \in 1 .. Len(s) + Len(t) /\ i <= Len(s) /\ s[i] = x
      BY <1>1, <1>4 DEF Places
    <3> QED BY <1>2, <1>3, <3>1 DEF Places
  <2>3. ASSUME NEW i \in B
        PROVE  Len(s) + i \in Places(s \o t, x)
    <3>1. /\ Len(s) + i \in 1 .. Len(s) + Len(t) /\ ~ (Len(s) + i <= Len(s))
          /\ Len(s) + i - Len(s) = i /\ t[i] = x
      BY <1>1, <1>4 DEF Places
    <3> QED BY <1>2, <1>3, <3>1 DEF Places
  <2> QED BY <2>1, <2>2, <2>3
<1> HIDE DEF A, B, C
<1>8. Cardinality(A \cap C) = 0
  BY <1>6, FS_EmptySet
<1>9. Cardinality(A \cup C) = Cardinality(A) + Cardinality(C) - Cardinality(A \cap C)
  BY <1>4, <1>5, FS_Union
<1>10. Cardinality(A) \in Nat /\ Cardinality(C) \in Nat
  BY <1>4, <1>5, FS_CardinalityType
<1>11. Cardinality(A \cup C) = Cardinality(A) + Cardinality(B)
  BY <1>5, <1>8, <1>9, <1>10
<1> QED BY <1>7, <1>11 DEF Occurs, A, B

(* In a sequence of one or two elements, and in none.                      *)
LEMMA OccursFew ==
  ASSUME NEW x, NEW y, NEW z
  PROVE  /\ Occurs(<<>>, x) = 0
         /\ Occurs(<<y>>, x) = IF x = y THEN 1 ELSE 0
         /\ y # z => Occurs(<<y, z>>, x) = IF x \in {y, z} THEN 1 ELSE 0
<1>1. Places(<<>>, x) = {}
  BY DEF Places
<1>2. Places(<<y>>, x) = IF x = y THEN {1} ELSE {}
  BY DEF Places
<1>3. y # z => Places(<<y, z>>, x) = IF x = y THEN {1} ELSE IF x = z THEN {2} ELSE {}
  BY DEF Places
<1>4. Cardinality({}) = 0 /\ Cardinality({1}) = 1 /\ Cardinality({2}) = 1
  BY FS_EmptySet, FS_Singleton
<1> QED BY <1>1, <1>2, <1>3, <1>4 DEF Occurs

LEMMA OccursHead ==
  ASSUME NEW S, NEW s \in Seq(S), s # <<>>
  PROVE  /\ Head(s) \in S /\ Tail(s) \in Seq(S) /\ s = <<Head(s)>> \o Tail(s)
         /\ \A x : Occurs(s, x) = (IF x = Head(s) THEN 1 ELSE 0) + Occurs(Tail(s), x)
<1>1. Head(s) \in S /\ Tail(s) \in Seq(S)
  BY HeadTailProperties
<1>2. Len(s) \in Nat \ {0} /\ Head(s) = s[1]
  BY EmptySeq
<1>3. s = <<Head(s)>> \o Tail(s)
  <2>1. 1 \in 1 .. Len(s) /\ Len(s) \in 1 .. Len(s)
    BY <1>2
  <2>2. SubSeq(s, 1, Len(s)) = <<s[1]>> \o SubSeq(s, 1 + 1, Len(s))
    BY <2>1, SubSeqRecursiveFirst
  <2>3. SubSeq(s, 1, Len(s)) = s
    BY SubSeqFull
  <2>4. Tail(s) = SubSeq(s, 2, Len(s))
    BY TailIsSubSeq
  <2> QED BY <1>2, <2>2, <2>3, <2>4
<1>4. ASSUME NEW x
      PROVE  Occurs(s, x) = (IF x = Head(s) THEN 1 ELSE 0) + Occurs(Tail(s), x)
  <2>1. <<Head(s)>> \in Seq(S)
    BY <1>1
  <2>2. Occurs(<<Head(s)>> \o Tail(s), x) = Occurs(<<Head(s)>>, x) + Occurs(Tail(s), x)
    BY <1>1, <2>1, OccursConcat
  <2>3. Occurs(<<Head(s)>>, x) = IF x = Head(s) THEN 1 ELSE 0
    BY OccursFew
  <2> QED BY <1>3, <2>2, <2>3
<1> QED BY <1>1, <1>3, <1>4

LEMMA OccursAppend ==
  ASSUME NEW S, NEW s \in Seq(S), NEW e \in S, NEW x
  PROVE  Occurs(Append(s, e), x) = Occurs(s, x) + (IF x = e THEN 1 ELSE 0)
<1>1. Append(s, e) = s \o <<e>>
  BY AppendIsConcat
<1>2. <<e>> \in Seq(S)
  OBVIOUS
<1>3. Occurs(s \o <<e>>, x) = Occurs(s, x) + Occurs(<<e>>, x)
  BY <1>2, OccursConcat
<1> QED BY <1>1, <1>3, OccursFew

(* Of the nodes with one address the youngest goes.  The oldest node of    *)
(* all stays, unless it is the only one with that address.                 *)
LEMMA NewestRemoved ==
  ASSUME NEW S, NEW s \in Seq(S), NEW a \in Range(s)
  PROVE  /\ RemoveNewest(s, a) \in Seq(S)
         /\ \A x : Occurs(RemoveNewest(s, a), x) = Occurs(s, x) - (IF x = a THEN 1 ELSE 0)
         /\ Head(s) # a \/ Occurs(s, a) > 1 =>
              RemoveNewest(s, a) # <<>> /\ Head(RemoveNewest(s, a)) = Head(s)
<1> DEFINE P == Places(s, a)
           i == Max(P)
           u == SubSeq(s, 1, i - 1)
           v == SubSeq(s, i + 1, Len(s))
<1>1. Len(s) \in Nat /\ DOMAIN s = 1 .. Len(s) /\ \A j \in 1 .. Len(s) : s[j] \in S
  BY LenProperties
<1>2. P \in SUBSET (1 .. Len(s)) /\ P # {}
  BY PlacesFinite DEF Places, Range
<1>3. i \in P /\ \A j \in P : i >= j
  <2> HIDE DEF P
  <2> QED BY <1>1, <1>2, MaxIsGreatest
<1>4. RemoveNewest(s, a) = u \o v
  BY Zenon DEF RemoveNewest, RemoveAt, Places
<1> HIDE DEF i
<1>5. i \in 1 .. Len(s) /\ s[i] = a
  BY <1>2, <1>3 DEF Places
<1> HIDE DEF P
<1>6. u \in Seq(S) /\ Len(u) = i - 1 /\ \A j \in 1 .. i - 1 : u[j] = s[j]
  <2>1. \A j \in 1 .. i - 1 : s[j] \in S
    BY <1>1, <1>5
  <2>2. 1 \in Int /\ i - 1 \in Int
    BY <1>5
  <2>3. /\ u \in Seq(S) /\ Len(u) = IF 1 <= i - 1 THEN i - 1 - 1 + 1 ELSE 0
        /\ \A j \in 1 .. i - 1 - 1 + 1 : u[j] = s[1 + j - 1]
    BY <2>1, <2>2, SubSeqProperties
  <2> HIDE DEF u
  <2> QED BY <1>5, <2>3
<1>7. v \in Seq(S)
  <2>1. \A j \in i + 1 .. Len(s) : s[j] \in S
    BY <1>1, <1>5
  <2>2. i + 1 \in Int /\ Len(s) \in Int
    BY <1>1, <1>5
  <2> QED BY <2>1, <2>2, SubSeqProperties
<1>8. s = u \o (<<a>> \o v)
  <2>1. SubSeq(s, 1, i - 1) \o SubSeq(s, i - 1 + 1, Len(s)) = SubSeq(s, 1, Len(s))
    <3>1. 1 \in 1 .. Len(s) + 1 /\ i - 1 \in 1 - 1 .. Len(s) /\ Len(s) \in i - 1 .. Len(s)
      BY <1>1, <1>5
    <3> QED BY <3>1, ConcatAdjacentSubSeq
  <2>2. SubSeq(s, 1, Len(s)) = s
    BY SubSeqFull
  <2>3. SubSeq(s, i, Len(s)) = <<s[i]>> \o SubSeq(s, i + 1, Len(s))
    <3>1. Len(s) \in i .. Len(s)
      BY <1>1, <1>5
    <3> QED BY <1>5, <3>1, SubSeqRecursiveFirst
  <2>4. i - 1 + 1 = i
    BY <1>5
  <2> QED BY <1>5, <2>1, <2>2, <2>3, <2>4
<1> HIDE DEF u, v
<1>9. <<a>> \in Seq(S) /\ <<a>> \o v \in Seq(S) /\ u \o v \in Seq(S)
  <2>1. <<a>> \in Seq(S)
    BY <1>1, <1>5
  <2> QED BY <1>6, <1>7, <2>1, ConcatProperties
<1>10. ASSUME NEW x
       PROVE  Occurs(RemoveNewest(s, a), x) = Occurs(s, x) - (IF x = a THEN 1 ELSE 0)
  <2>1. Occurs(s, x) = Occurs(u, x) + Occurs(<<a>> \o v, x)
    BY <1>6, <1>8, <1>9, OccursConcat
  <2>2. Occurs(<<a>> \o v, x) = Occurs(<<a>>, x) + Occurs(v, x)
    BY <1>7, <1>9, OccursConcat
  <2>3. Occurs(u \o v, x) = Occurs(u, x) + Occurs(v, x)
    BY <1>6, <1>7, OccursConcat
  <2>4. Occurs(<<a>>, x) = IF x = a THEN 1 ELSE 0
    BY OccursFew
  <2>5. Occurs(u, x) \in Nat /\ Occurs(v, x) \in Nat
    BY <1>6, <1>7, PlacesFinite
  <2> QED BY <1>4, <2>1, <2>2, <2>3, <2>4, <2>5
<1>11. ASSUME Head(s) # a \/ Occurs(s, a) > 1
       PROVE  RemoveNewest(s, a) # <<>> /\ Head(RemoveNewest(s, a)) = Head(s)
  <2>1. i # 1
    <3> SUFFICES ASSUME i = 1 PROVE FALSE
      OBVIOUS
    <3>1. Head(s) = a
      BY <1>1, <1>5
    <3>2. P = {1}
      <4>1. \A j \in P : j \in 1 .. Len(s) /\ i >= j
        BY <1>2, <1>3
      <4>2. \A j \in P : j = 1
        BY <1>1, <4>1
      <4> QED BY <1>3, <4>2
    <3>3. Occurs(s, a) = 1
      BY <3>2, FS_Singleton DEF Occurs, P
    <3> QED BY <1>11, <3>1, <3>3
  <2>2. /\ u \o v \in Seq(S) /\ Len(u \o v) = Len(u) + Len(v)
        /\ \A j \in 1 .. Len(u) + Len(v) : (u \o v)[j] = IF j <= Len(u) THEN u[j] ELSE v[j - Len(u)]
    BY <1>6, <1>7, ConcatProperties
  <2>3. Len(v) \in Nat /\ Len(u) >= 1
    BY <1>5, <1>6, <1>7, <2>1
  <2>4. Len(u \o v) >= 1 /\ (u \o v)[1] = s[1]
    BY <1>5, <1>6, <2>1, <2>2, <2>3
  <2>5. u \o v # <<>> /\ Head(u \o v) = s[1]
    BY <2>2, <2>4
  <2> QED BY <1>1, <1>4, <1>5, <2>5
<1> QED BY <1>4, <1>9, <1>10, <1>11
-----------------------------------------------------------------------------
(* Walks.                                                                  *)

LEMMA MinIs ==
  ASSUME NEW S \in SUBSET Nat, NEW m \in S, \A y \in S : m <= y
  PROVE  Min(S) = m
<1>1. Min(S) \in S /\ \A y \in S : Min(S) <= y
  BY MinIsLeast
<1> DEFINE n == Min(S)
<1> HIDE DEF n
<1>2. n \in S /\ n <= m /\ m <= n
  BY <1>1 DEF n
<1>3. n \in Nat /\ m \in Nat
  BY <1>2
<1> QED BY <1>2, <1>3 DEF n

(* w says, for each set of keys in T, what a walk over them writes.        *)
Walks(w, T, f) ==
  w = [X \in SUBSET T |-> IF X = {} THEN <<>> ELSE f[Min(X)] \o w[X \ {Min(X)}]]

(* There is such a w for one key more, when there is one for the others.   *)
LEMMA WalkLonger ==
  ASSUME NEW f, NEW T \in SUBSET Nat, T # {}, NEW w, Walks(w, T \ {Min(T)}, f)
  PROVE  \E v : Walks(v, T, f)
<1> DEFINE m == Min(T)
           U == T \ {m}
           v == [X \in SUBSET T |-> IF m \in X THEN f[m] \o w[X \ {m}] ELSE w[X]]
<1>1. m \in T /\ \A y \in T : m <= y
  BY MinIsLeast
<1>2. Walks(w, U, f)
  OBVIOUS
<1> HIDE DEF m
<1>3. DOMAIN w = SUBSET U
  BY <1>2 DEF Walks
<1>4. \A X \in SUBSET U : w[X] = IF X = {} THEN <<>> ELSE f[Min(X)] \o w[X \ {Min(X)}]
  BY <1>2, Zenon DEF Walks
<1>5. ASSUME NEW X \in SUBSET T
      PROVE  v[X] = IF X = {} THEN <<>> ELSE f[Min(X)] \o v[X \ {Min(X)}]
  <2>1. CASE m \in X
    <3>1. Min(X) = m
      <4>1. X \in SUBSET Nat /\ \A y \in X : m <= y
        BY <1>1
      <4> QED BY <2>1, <4>1, MinIs
    <3>2. X \ {m} \in SUBSET T /\ m \notin X \ {m}
      OBVIOUS
    <3>3. v[X \ {m}] = w[X \ {m}]
      BY <3>2, Zenon
    <3>4. v[X] = f[m] \o w[X \ {m}]
      BY <2>1, Zenon
    <3> HIDE DEF v
    <3> QED BY <2>1, <3>1, <3>3, <3>4, Zenon
  <2>2. CASE m \notin X /\ X # {}
    <3>1. X \in SUBSET U
      BY <2>2
    <3>2. X \in SUBSET T /\ X \ {Min(X)} \in SUBSET T /\ m \notin X \ {Min(X)}
      BY <2>2
    <3>3. v[X \ {Min(X)}] = w[X \ {Min(X)}] /\ v[X] = w[X]
      BY <2>2, <3>2, Zenon
    <3>4. w[X] = f[Min(X)] \o w[X \ {Min(X)}]
      BY <1>4, <2>2, <3>1, Zenon
    <3> HIDE DEF v
    <3> QED BY <2>2, <3>3, <3>4, Zenon
  <2>3. CASE X = {}
    <3>1. X \in SUBSET U /\ m \notin X
      BY <2>3
    <3>2. v[X] = w[X]
      BY <3>1, Zenon
    <3> HIDE DEF v
    <3> QED BY <1>4, <2>3, <3>1, <3>2, Zenon
  <2> QED BY <2>1, <2>2, <2>3
<1>6. v = [X \in SUBSET T |-> v[X]]
  OBVIOUS
<1> HIDE DEF v
<1>7. [X \in SUBSET T |-> v[X]] =
        [X \in SUBSET T |-> IF X = {} THEN <<>> ELSE f[Min(X)] \o v[X \ {Min(X)}]]
  BY <1>5, Zenon
<1>8. Walks(v, T, f)
  BY <1>6, <1>7, Zenon DEF Walks
<1> QED BY <1>8

LEMMA WalkIs ==
  ASSUME NEW D \in SUBSET Nat, IsFiniteSet(D), NEW f, DOMAIN f = D
  PROVE  \E w : Walks(w, D, f) /\ ForEach(f) = w[D]
<1> DEFINE G == {T \in SUBSET D : \E w : Walks(w, T, f)}
<1>1. {} \in G
  <2> DEFINE w == [X \in SUBSET {} |-> <<>>]
  <2>1. w = [X \in SUBSET {} |-> IF X = {} THEN <<>> ELSE f[Min(X)] \o w[X \ {Min(X)}]]
    OBVIOUS
  <2> HIDE DEF w
  <2>2. Walks(w, {}, f)
    BY <2>1, Zenon DEF Walks
  <2> QED BY <2>2
<1>2. ASSUME NEW T \in SUBSET D, T # {}, T \ {Min(T)} \in G
      PROVE  T \in G
  <2>1. PICK w : Walks(w, T \ {Min(T)}, f)
    BY <1>2
  <2>2. T \in SUBSET Nat
    OBVIOUS
  <2>3. \E v : Walks(v, T, f)
    BY <1>2, <2>1, <2>2, WalkLonger, Zenon
  <2> QED BY <2>3
<1>3. D \in G
  <2> HIDE DEF G
  <2> QED BY <1>1, <1>2, MinInduction
<1>4. \E w : Walks(w, D, f)
  BY <1>3
<1> DEFINE walk == CHOOSE w : Walks(w, D, f)
<1>5. Walks(walk, D, f)
  BY <1>4, Zenon
<1>6. ForEach(f) = walk[D]
  BY Zenon DEF ForEach, Walks
<1> HIDE DEF walk
<1> QED BY <1>5, <1>6

(* A walk writes what there is to do for the keys.                         *)
LEMMA WalkRange ==
  ASSUME NEW D \in SUBSET Nat, IsFiniteSet(D), NEW S, NEW f \in [D -> Seq(S)]
  PROVE  /\ ForEach(f) \in Seq(S)
         /\ \A x \in Range(ForEach(f)) : \E j \in D : x \in Range(f[j])
<1>1. PICK w : Walks(w, D, f) /\ ForEach(f) = w[D]
  BY WalkIs
<1>2. \A T \in SUBSET D : w[T] = IF T = {} THEN <<>> ELSE f[Min(T)] \o w[T \ {Min(T)}]
  BY <1>1, Zenon DEF Walks
<1> DEFINE G == {T \in SUBSET D : /\ w[T] \in Seq(S)
                                  /\ \A x \in Range(w[T]) : \E j \in T : x \in Range(f[j])}
<1>3. {} \in G
  <2>1. w[{}] = <<>>
    BY <1>2
  <2>2. <<>> \in Seq(S) /\ Range(<<>>) = {}
    BY DEF Range
  <2> QED BY <2>1, <2>2
<1>4. ASSUME NEW T \in SUBSET D, T # {}, T \ {Min(T)} \in G
      PROVE  T \in G
  <2> DEFINE m == Min(T)
             U == T \ {m}
  <2>1. m \in T
    BY <1>4, MinIsLeast
  <2>2. w[T] = f[m] \o w[U]
    BY <1>2, <1>4, Zenon
  <2>3. w[U] \in Seq(S) /\ \A x \in Range(w[U]) : \E j \in U : x \in Range(f[j])
    BY <1>4
  <2> HIDE DEF m
  <2>4. f[m] \in Seq(S)
    BY <2>1
  <2>5. f[m] \o w[U] \in Seq(S) /\ Range(f[m] \o w[U]) = Range(f[m]) \cup Range(w[U])
    <3> DEFINE p == f[m]
               q == w[U]
    <3>1. p \in Seq(S) /\ q \in Seq(S)
      BY <2>3, <2>4
    <3> HIDE DEF p, q
    <3>2. p \o q \in Seq(S) /\ Range(p \o q) = Range(p) \cup Range(q)
      BY <3>1, ConcatProperties, RangeConcatenation
    <3> QED BY <3>2 DEF p, q
  <2>6. w[T] \in Seq(S) /\ Range(w[T]) = Range(f[m]) \cup Range(w[U])
    BY <2>2, <2>5
  <2> QED BY <2>1, <2>3, <2>6
<1>5. D \in G
  <2> HIDE DEF G
  <2> QED BY <1>3, <1>4, MinInduction
<1> QED BY <1>1, <1>5

(* What there is to do for a key is written in one go.                     *)
InOneGo(D, S, f, k) ==
  \E u, v \in Seq(S) :
    /\ ForEach(f) = u \o (f[k] \o v)
    /\ \A x \in Range(u) \cup Range(v) : \E j \in D \ {k} : x \in Range(f[j])

LEMMA WalkSplit ==
  ASSUME NEW D \in SUBSET Nat, IsFiniteSet(D), NEW S, NEW f \in [D -> Seq(S)], NEW k \in D
  PROVE  InOneGo(D, S, f, k)
<1>1. PICK w : Walks(w, D, f) /\ ForEach(f) = w[D]
  BY WalkIs
<1>2. \A T \in SUBSET D : w[T] = IF T = {} THEN <<>> ELSE f[Min(T)] \o w[T \ {Min(T)}]
  BY <1>1, Zenon DEF Walks
<1> DEFINE Split(T) == \E u, v \in Seq(S) :
                         /\ w[T] = u \o (f[k] \o v)
                         /\ \A x \in Range(u) \cup Range(v) : \E j \in T \ {k} : x \in Range(f[j])
           Apart(T) == w[T] \in Seq(S) /\ \A x \in Range(w[T]) : \E j \in T : x \in Range(f[j])
           G == {T \in SUBSET D : IF k \in T THEN Split(T) ELSE Apart(T)}
<1>3. {} \in G
  <2>1. w[{}] = <<>>
    BY <1>2
  <2>2. Apart({})
    BY <2>1 DEF Range
  <2> HIDE DEF Apart
  <2> QED BY <2>2
<1>4. ASSUME NEW T \in SUBSET D, T # {}, T \ {Min(T)} \in G
      PROVE  T \in G
  <2> DEFINE m == Min(T)
             U == T \ {m}
  <2>1. m \in T
    BY <1>4, MinIsLeast
  <2>2. w[T] = f[m] \o w[U]
    BY <1>2, <1>4, Zenon
  <2>3. IF k \in U THEN Split(U) ELSE Apart(U)
    BY <1>4, Zenon
  <2> HIDE DEF m
  <2>4. f[m] \in Seq(S) /\ f[k] \in Seq(S)
    BY <2>1
  <2>5. CASE k \in U
    <3>1. PICK u \in Seq(S), v \in Seq(S) :
                 /\ w[U] = u \o (f[k] \o v)
                 /\ \A x \in Range(u) \cup Range(v) : \E j \in U \ {k} : x \in Range(f[j])
      BY <2>3, <2>5, Zenon
    <3>2. f[k] \o v \in Seq(S) /\ f[m] \o u \in Seq(S)
      BY <2>4, ConcatProperties
    <3>7. (f[m] \o u) \o (f[k] \o v) = f[m] \o (u \o (f[k] \o v))
      <4> DEFINE p == f[m]
                 q == f[k] \o v
      <4>1. p \in Seq(S) /\ q \in Seq(S)
        BY <2>4, <3>2
      <4> HIDE DEF p, q
      <4>2. (p \o u) \o q = p \o (u \o q)
        BY <4>1
      <4> QED BY <4>2 DEF p, q
    <3>3. w[T] = (f[m] \o u) \o (f[k] \o v)
      BY <2>2, <3>1, <3>7
    <3>4. Range(f[m] \o u) = Range(f[m]) \cup Range(u)
      BY <2>4, RangeConcatenation
    <3>5. ASSUME NEW x \in Range(f[m] \o u) \cup Range(v)
          PROVE  \E j \in T \ {k} : x \in Range(f[j])
      BY <2>1, <2>5, <3>1, <3>4
    <3>6. Split(T)
      BY <3>2, <3>3, <3>5
    <3> HIDE DEF Split, Apart
    <3> QED BY <2>5, <3>6
  <2>6. CASE k = m
    <3>1. Apart(U)
      BY <2>3, <2>6
    <3>2. <<>> \in Seq(S) /\ Range(<<>>) = {}
      BY DEF Range
    <3>3. f[m] \o w[U] \in Seq(S)
      BY <2>4, <3>1, ConcatProperties
    <3>4. w[T] = <<>> \o (f[k] \o w[U])
      BY <2>2, <2>6, <3>3, ConcatEmptySeq
    <3>5. ASSUME NEW x \in Range(<<>>) \cup Range(w[U])
          PROVE  \E j \in T \ {k} : x \in Range(f[j])
      BY <2>6, <3>1, <3>2
    <3>6. Split(T)
      BY <3>1, <3>2, <3>4, <3>5
    <3> HIDE DEF Split, Apart
    <3> QED BY <2>1, <2>6, <3>6
  <2>7. CASE k \notin T
    <3>1. Apart(U)
      BY <2>3, <2>7
    <3>4. f[m] \o w[U] \in Seq(S) /\ Range(f[m] \o w[U]) = Range(f[m]) \cup Range(w[U])
      <4> DEFINE p == f[m]
                 q == w[U]
      <4>1. p \in Seq(S) /\ q \in Seq(S)
        BY <2>4, <3>1
      <4> HIDE DEF p, q
      <4>2. p \o q \in Seq(S) /\ Range(p \o q) = Range(p) \cup Range(q)
        BY <4>1, ConcatProperties, RangeConcatenation
      <4> QED BY <4>2 DEF p, q
    <3>2. w[T] \in Seq(S) /\ Range(w[T]) = Range(f[m]) \cup Range(w[U])
      BY <2>2, <3>4
    <3>3. Apart(T)
      BY <2>1, <3>1, <3>2
    <3> HIDE DEF Split, Apart
    <3> QED BY <2>7, <3>3
  <2> HIDE DEF G
  <2> QED BY <2>1, <2>5, <2>6, <2>7
<1>5. D \in G
  <2> HIDE DEF G
  <2> QED BY <1>3, <1>4, MinInduction
<1> HIDE DEF Split, Apart
<1>6. Split(D)
  BY <1>5
<1> QED BY <1>1, <1>6 DEF Split, InOneGo

(* s does each thing in O once, and nothing else.                          *)
Does(s, O) == \A x : Occurs(s, x) = IF x \in O THEN 1 ELSE 0

LEMMA DoesFew ==
  ASSUME NEW y, NEW z, y # z
  PROVE  Does(<<>>, {}) /\ Does(<<y>>, {y}) /\ Does(<<y, z>>, {y, z})
  BY OccursFew DEF Does

LEMMA DoesConcat ==
  ASSUME NEW S, NEW s \in Seq(S), NEW t \in Seq(S), NEW O, NEW P,
         Does(s, O), Does(t, P), O \cap P = {}
  PROVE  Does(s \o t, O \cup P)
<1> SUFFICES ASSUME NEW x
             PROVE  Occurs(s \o t, x) = IF x \in O \cup P THEN 1 ELSE 0
  BY DEF Does
<1>1. Occurs(s \o t, x) = Occurs(s, x) + Occurs(t, x)
  BY OccursConcat
<1> QED BY <1>1 DEF Does

(* A walk that has different things to do for each key does them all.      *)
All(O, D) == UNION {O[k] : k \in D}

LEMMA WalkDoes ==
  ASSUME NEW D \in SUBSET Nat, IsFiniteSet(D), NEW S, NEW f \in [D -> Seq(S)], NEW O,
         \A k \in D : Does(f[k], O[k]),
         \A j, k \in D : j # k => O[j] \cap O[k] = {}
  PROVE  Does(ForEach(f), All(O, D))
<1> SUFFICES ASSUME NEW x
             PROVE  Occurs(ForEach(f), x) = IF x \in All(O, D) THEN 1 ELSE 0
  BY DEF Does
<1>0. \A k \in D : x \in Range(f[k]) <=> x \in O[k]
  <2> TAKE k \in D
  <2>1. Occurs(f[k], x) = 0 <=> x \notin Range(f[k])
    BY PlacesFinite
  <2> QED BY <2>1 DEF Does
<1>1. CASE x \in All(O, D)
  <2>1. PICK k \in D : x \in O[k]
    BY <1>1 DEF All
  <2>8. InOneGo(D, S, f, k)
    BY WalkSplit
  <2>2. PICK u \in Seq(S), v \in Seq(S) :
               /\ ForEach(f) = u \o (f[k] \o v)
               /\ \A y \in Range(u) \cup Range(v) : \E j \in D \ {k} : y \in Range(f[j])
    BY <2>8, Zenon DEF InOneGo
  <2>3. x \notin Range(u) /\ x \notin Range(v)
    BY <1>0, <2>1, <2>2
  <2>4. Occurs(u, x) = 0 /\ Occurs(v, x) = 0
    BY <2>3, PlacesFinite
  <2>5. f[k] \o v \in Seq(S) /\ Occurs(f[k] \o v, x) = Occurs(f[k], x) + Occurs(v, x)
    BY ConcatProperties, OccursConcat
  <2>9. Occurs(u \o (f[k] \o v), x) = Occurs(u, x) + Occurs(f[k] \o v, x)
    <3> DEFINE q == f[k] \o v
    <3>1. q \in Seq(S)
      BY <2>5
    <3> HIDE DEF q
    <3>2. Occurs(u \o q, x) = Occurs(u, x) + Occurs(q, x)
      BY <3>1, OccursConcat
    <3> QED BY <3>2 DEF q
  <2>6. Occurs(ForEach(f), x) = Occurs(u, x) + Occurs(f[k] \o v, x)
    BY <2>2, <2>9
  <2>7. Occurs(f[k], x) = 1
    BY <2>1 DEF Does
  <2> QED BY <1>1, <2>4, <2>5, <2>6, <2>7
<1>2. CASE x \notin All(O, D)
  <2>1. ForEach(f) \in Seq(S) /\ \A y \in Range(ForEach(f)) : \E j \in D : y \in Range(f[j])
    BY WalkRange
  <2>2. x \notin Range(ForEach(f))
    BY <1>0, <1>2, <2>1 DEF All
  <2>3. Occurs(ForEach(f), x) = 0
    BY <2>1, <2>2, PlacesFinite
  <2> QED BY <1>2, <2>3
<1> QED BY <1>1, <1>2
-----------------------------------------------------------------------------
(* What the phases of check() decide to write.                             *)

LEMMA OpFields ==
  \A dir, k, a :
    /\ Create(dir, k, a).act = "create" /\ Create(dir, k, a).dir = dir
    /\ Create(dir, k, a).k = k /\ Create(dir, k, a).a = a
    /\ Delete(dir, k, a).act = "delete" /\ Delete(dir, k, a).dir = dir
    /\ Delete(dir, k, a).k = k /\ Delete(dir, k, a).a = a
  BY DEF Create, Delete

LEMMA OpType ==
  ASSUME NEW dir \in {"error", "check"}, NEW k \in Cluster, NEW a \in {NULL} \cup Addr
  PROVE  Create(dir, k, a) \in Op /\ Delete(dir, k, a) \in Op
  BY DEF Op, Create, Delete

(* A walk over servers that has something of its own to do for each.       *)
LEMMA ServerWalk ==
  ASSUME NEW A \in SUBSET Addr, NEW f \in [A -> Seq(Op)], NEW O,
         \A a \in A : Does(f[a], O[a]) /\ \A o \in O[a] : o.a = a
  PROVE  ForEach(f) \in Seq(Op) /\ Does(ForEach(f), All(O, A))
<1>1. A \in SUBSET Nat /\ IsFiniteSet(A)
  BY RedisCtrlAssumption, FS_Subset DEF RedisCtrlAssumption
<1>2. \A a, b \in A : a # b => O[a] \cap O[b] = {}
  OBVIOUS
<1>3. ForEach(f) \in Seq(Op)
  BY <1>1, WalkRange
<1>4. Does(ForEach(f), All(O, A))
  BY <1>1, <1>2, WalkDoes
<1> QED BY <1>3, <1>4

(* And one over clusters.                                                  *)
LEMMA ClusterWalk ==
  ASSUME NEW D \in SUBSET Cluster, NEW f \in [D -> Seq(Op)], NEW O,
         \A k \in D : Does(f[k], O[k]) /\ \A o \in O[k] : o.k = k
  PROVE  ForEach(f) \in Seq(Op) /\ Does(ForEach(f), All(O, D))
<1>1. D \in SUBSET Nat /\ IsFiniteSet(D)
  BY RedisCtrlAssumption, FS_Subset DEF RedisCtrlAssumption
<1>2. \A j, k \in D : j # k => O[j] \cap O[k] = {}
  OBVIOUS
<1>3. ForEach(f) \in Seq(Op)
  BY <1>1, WalkRange
<1>4. Does(ForEach(f), All(O, D))
  BY <1>1, <1>2, WalkDoes
<1> QED BY <1>3, <1>4

(* One write for each server of A.                                         *)
LEMMA ServerDeletes ==
  ASSUME NEW A \in SUBSET Addr, NEW dir \in {"error", "check"}, NEW k \in Cluster
  PROVE  LET s == ForEach([a \in A |-> <<Delete(dir, k, a)>>])
         IN s \in Seq(Op) /\ Does(s, {Delete(dir, k, a) : a \in A})
<1> DEFINE f == [a \in A |-> <<Delete(dir, k, a)>>]
           O == [a \in A |-> {Delete(dir, k, a)}]
<1>1. \A a \in A : Delete(dir, k, a) \in Op
  BY OpType
<1>2. \A a \in A : f[a] = <<Delete(dir, k, a)>> /\ O[a] = {Delete(dir, k, a)}
  OBVIOUS
<1>3. f \in [A -> Seq(Op)]
  BY <1>1
<1>4. \A a \in A : Does(f[a], O[a]) /\ \A o \in O[a] : o.a = a
  <2> TAKE a \in A
  <2>1. Does(<<Delete(dir, k, a)>>, {Delete(dir, k, a)})
    BY OccursFew DEF Does
  <2> QED BY <1>2, <2>1, OpFields
<1>5. All(O, A) = {Delete(dir, k, a) : a \in A}
  BY <1>2 DEF All
<1> HIDE DEF f, O
<1>6. ForEach(f) \in Seq(Op) /\ Does(ForEach(f), All(O, A))
  BY <1>3, <1>4, ServerWalk
<1> QED BY <1>5, <1>6 DEF f

LEMMA ServerCreates ==
  ASSUME NEW A \in SUBSET Addr, NEW dir \in {"error", "check"}, NEW k \in Cluster
  PROVE  LET s == ForEach([a \in A |-> <<Create(dir, k, a)>>])
         IN s \in Seq(Op) /\ Does(s, {Create(dir, k, a) : a \in A})
<1> DEFINE f == [a \in A |-> <<Create(dir, k, a)>>]
           O == [a \in A |-> {Create(dir, k, a)}]
<1>1. \A a \in A : Create(dir, k, a) \in Op
  BY OpType
<1>2. \A a \in A : f[a] = <<Create(dir, k, a)>> /\ O[a] = {Create(dir, k, a)}
  OBVIOUS
<1>3. f \in [A -> Seq(Op)]
  BY <1>1
<1>4. \A a \in A : Does(f[a], O[a]) /\ \A o \in O[a] : o.a = a
  <2> TAKE a \in A
  <2>1. Does(<<Create(dir, k, a)>>, {Create(dir, k, a)})
    BY OccursFew DEF Does
  <2> QED BY <1>2, <2>1, OpFields
<1>5. All(O, A) = {Create(dir, k, a) : a \in A}
  BY <1>2 DEF All
<1> HIDE DEF f, O
<1>6. ForEach(f) \in Seq(Op) /\ Does(ForEach(f), All(O, A))
  BY <1>3, <1>4, ServerWalk
<1> QED BY <1>5, <1>6 DEF f

LEMMA GetCheckCounts ==
  ASSUME IsDir(check, Seq(Addr))
  PROVE  /\ GetCheck \in Seq(Op)
         /\ \A dir, k, a :
              /\ Occurs(GetCheck, Create(dir, k, a)) = 0
              /\ Occurs(GetCheck, Delete(dir, k, a)) =
                   IF dir = "check" /\ k \in DOMAIN check /\ a \in Twice(check[k]) THEN 1 ELSE 0
<1> DEFINE D == DOMAIN check
           g(k) == ForEach([a \in Twice(check[k]) |-> <<Delete("check", k, a)>>])
           f == [k \in D |-> g(k)]
           O == [k \in D |-> {Delete("check", k, a) : a \in Twice(check[k])}]
           U == All(O, D)
<1>1. \A k \in D : g(k) \in Seq(Op) /\ Does(g(k), O[k])
  <2> TAKE k \in D
  <2>1. k \in Cluster /\ Twice(check[k]) \in SUBSET Addr
    BY RangeOfSeq DEF IsDir, Twice
  <2>2. g(k) \in Seq(Op) /\ Does(g(k), {Delete("check", k, a) : a \in Twice(check[k])})
    BY <2>1, ServerDeletes
  <2> QED BY <2>2
<1>2. \A k \in D : \A o \in O[k] : o.k = k
  BY OpFields
<1> HIDE DEF g
<1>3. f \in [D -> Seq(Op)] /\ \A k \in D : f[k] = g(k)
  BY <1>1
<1>4. GetCheck = ForEach(f)
  BY DEF GetCheck, g
<1>5. D \in SUBSET Cluster
  BY DEF IsDir
<1> HIDE DEF f
<1>6. GetCheck \in Seq(Op) /\ Does(GetCheck, U)
  <2> HIDE DEF O, D
  <2> QED BY <1>1, <1>2, <1>3, <1>4, <1>5, ClusterWalk
<1>7. \A dir, k, a : Create(dir, k, a) \notin U
  BY OpFields DEF All
<1>8. \A dir, k, a : Delete(dir, k, a) \in U <=>
                       dir = "check" /\ k \in D /\ a \in Twice(check[k])
  BY OpFields DEF All
<1> HIDE DEF U
<1> QED BY <1>6, <1>7, <1>8 DEF Does

LEMMA MakeDirDoes ==
  ASSUME NEW d, NEW dir \in {"error", "check"}, NEW k \in Cluster
  PROVE  /\ MakeDir(d, dir, k) \in Seq(Op)
         /\ Does(MakeDir(d, dir, k), IF k \in DOMAIN d THEN {} ELSE {Create(dir, k, NULL)})
<1>1. Create(dir, k, NULL) \in Op
  BY OpType
<1>2. CASE k \in DOMAIN d
  <2>1. MakeDir(d, dir, k) = <<>>
    BY <1>2 DEF MakeDir
  <2>2. Does(<<>>, {})
    BY OccursFew DEF Does
  <2> QED BY <1>2, <2>1, <2>2
<1>3. CASE k \notin DOMAIN d
  <2>1. MakeDir(d, dir, k) = <<Create(dir, k, NULL)>>
    BY <1>3 DEF MakeDir
  <2>2. Does(<<Create(dir, k, NULL)>>, {Create(dir, k, NULL)})
    BY OccursFew DEF Does
  <2>3. <<Create(dir, k, NULL)>> \in Seq(Op)
    BY <1>1
  <2> QED BY <1>3, <2>1, <2>2, <2>3
<1> QED BY <1>2, <1>3

LEMMA LogicCheckAddCounts ==
  ASSUME IsDir(check, Seq(Addr)), IsDir(error, Seq(Addr)), NEW cfgs, IsDir(cfgs, SUBSET Addr)
  PROVE  /\ LogicCheckAdd(cfgs) \in Seq(Op)
         /\ \A dir, k :
              Occurs(LogicCheckAdd(cfgs), Create(dir, k, NULL)) =
                IF /\ k \in DOMAIN cfgs
                   /\ \/ dir = "error" /\ k \notin DOMAIN error
                      \/ dir = "check" /\ k \notin DOMAIN check
                THEN 1 ELSE 0
         /\ \A dir, k : \A a \in Addr :
              Occurs(LogicCheckAdd(cfgs), Create(dir, k, a)) =
                IF /\ dir = "check" /\ k \in DOMAIN cfgs
                   /\ a \in cfgs[k] \ (Children(check, k) \cup Children(error, k))
                THEN 1 ELSE 0
         /\ \A dir, k, a : Occurs(LogicCheckAdd(cfgs), Delete(dir, k, a)) = 0
<1> DEFINE D == DOMAIN cfgs
           A(k) == cfgs[k] \ (Children(check, k) \cup Children(error, k))
           w(k) == ForEach([a \in A(k) |-> <<Create("check", k, a)>>])
           g(k) == MakeDir(error, "error", k) \o MakeDir(check, "check", k) \o w(k)
           E(k) == IF k \in DOMAIN error THEN {} ELSE {Create("error", k, NULL)}
           C(k) == IF k \in DOMAIN check THEN {} ELSE {Create("check", k, NULL)}
           W(k) == {Create("check", k, a) : a \in A(k)}
           f == [k \in D |-> g(k)]
           O == [k \in D |-> E(k) \cup C(k) \cup W(k)]
           U == All(O, D)
<1>0. NULL \notin Addr
  BY RedisCtrlAssumption DEF RedisCtrlAssumption
<1>1. \A k \in D : g(k) \in Seq(Op) /\ Does(g(k), O[k])
  <2> TAKE k \in D
  <2>1. k \in Cluster /\ A(k) \in SUBSET Addr
    BY DEF IsDir
  <2>2. w(k) \in Seq(Op) /\ Does(w(k), W(k))
    <3> HIDE DEF A
    <3> QED BY <2>1, ServerCreates
  <2>3. MakeDir(error, "error", k) \in Seq(Op) /\ Does(MakeDir(error, "error", k), E(k))
    BY <2>1, MakeDirDoes
  <2>4. MakeDir(check, "check", k) \in Seq(Op) /\ Does(MakeDir(check, "check", k), C(k))
    BY <2>1, MakeDirDoes
  <2>5. E(k) \cap C(k) = {} /\ (E(k) \cup C(k)) \cap W(k) = {}
    <3>1. \A a \in A(k) : a # NULL
      BY <1>0, <2>1
    <3> HIDE DEF A
    <3> QED BY <3>1, OpFields
  <2> HIDE DEF w, E, C, W
  <2>6. /\ MakeDir(error, "error", k) \o MakeDir(check, "check", k) \in Seq(Op)
        /\ Does(MakeDir(error, "error", k) \o MakeDir(check, "check", k), E(k) \cup C(k))
    BY <2>3, <2>4, <2>5, DoesConcat, ConcatProperties
  <2>7. g(k) \in Seq(Op) /\ Does(g(k), E(k) \cup C(k) \cup W(k))
    BY <2>2, <2>5, <2>6, DoesConcat, ConcatProperties
  <2> QED BY <2>7
<1>2. \A k \in D : \A o \in O[k] : o.k = k
  BY OpFields
<1>3. LogicCheckAdd(cfgs) = ForEach(f)
  BY DEF LogicCheckAdd
<1>4. f \in [D -> Seq(Op)] /\ \A k \in D : f[k] = g(k)
  <2> HIDE DEF g
  <2> QED BY <1>1
<1>5. D \in SUBSET Cluster
  BY DEF IsDir
<1> HIDE DEF g, f
<1>6. LogicCheckAdd(cfgs) \in Seq(Op) /\ Does(LogicCheckAdd(cfgs), U)
  <2> HIDE DEF O, D
  <2> QED BY <1>1, <1>2, <1>3, <1>4, <1>5, ClusterWalk
<1>7. \A dir, k, a : Delete(dir, k, a) \notin U
  BY OpFields DEF All
<1>8. \A k : \A a \in A(k) : k \in D => a \in Addr
  BY DEF IsDir
<1>9. \A dir, k : Create(dir, k, NULL) \in U <=>
         /\ k \in D
         /\ \/ dir = "error" /\ k \notin DOMAIN error
            \/ dir = "check" /\ k \notin DOMAIN check
  <2> HIDE DEF A
  <2> QED BY <1>0, <1>8, OpFields DEF All
<1>10. \A dir, k : \A a \in Addr :
          Create(dir, k, a) \in U <=> dir = "check" /\ k \in D /\ a \in A(k)
  <2> HIDE DEF A
  <2> QED BY <1>0, OpFields DEF All
<1> HIDE DEF U
<1> QED BY <1>6, <1>7, <1>9, <1>10 DEF Does

LEMMA LogicRmCounts ==
  ASSUME NEW d, IsDir(d, Seq(Addr)), NEW cfgs, IsDir(cfgs, SUBSET Addr),
         NEW dir \in {"error", "check"}
  PROVE  /\ LogicRm(cfgs, d, dir) \in Seq(Op)
         /\ \A k : Occurs(LogicRm(cfgs, d, dir), Delete(dir, k, NULL)) =
                     IF k \in DOMAIN d \ DOMAIN cfgs THEN 1 ELSE 0
         /\ \A k : \A a \in Addr :
              Occurs(LogicRm(cfgs, d, dir), Delete(dir, k, a)) =
                IF a \in Children(d, k) \ Servers(cfgs, k) THEN 1 ELSE 0
         /\ \A e, k, a : e # dir => Occurs(LogicRm(cfgs, d, dir), Delete(e, k, a)) = 0
         /\ \A e, k, a : Occurs(LogicRm(cfgs, d, dir), Create(e, k, a)) = 0
<1> DEFINE D == DOMAIN d
           A(k) == Children(d, k) \ Servers(cfgs, k)
           w(k) == ForEach([a \in A(k) |-> <<Delete(dir, k, a)>>])
           r(k) == IF k \in DOMAIN cfgs THEN <<>> ELSE <<Delete(dir, k, NULL)>>
           g(k) == w(k) \o r(k)
           W(k) == {Delete(dir, k, a) : a \in A(k)}
           R(k) == IF k \in DOMAIN cfgs THEN {} ELSE {Delete(dir, k, NULL)}
           f == [k \in D |-> g(k)]
           O == [k \in D |-> W(k) \cup R(k)]
           U == All(O, D)
<1>0. NULL \notin Addr
  BY RedisCtrlAssumption DEF RedisCtrlAssumption
<1>1. \A k \in D : g(k) \in Seq(Op) /\ Does(g(k), O[k])
  <2> TAKE k \in D
  <2>1. k \in Cluster /\ A(k) \in SUBSET Addr
    BY RangeOfSeq DEF IsDir, Children
  <2>2. w(k) \in Seq(Op) /\ Does(w(k), W(k))
    <3> HIDE DEF A
    <3> QED BY <2>1, ServerDeletes
  <2>3. r(k) \in Seq(Op) /\ Does(r(k), R(k))
    <3>1. Delete(dir, k, NULL) \in Op
      BY <2>1, OpType
    <3>2. Does(<<>>, {}) /\ Does(<<Delete(dir, k, NULL)>>, {Delete(dir, k, NULL)})
      BY OccursFew DEF Does
    <3>3. <<>> \in Seq(Op) /\ <<Delete(dir, k, NULL)>> \in Seq(Op)
      BY <3>1
    <3> QED BY <3>2, <3>3
  <2>4. W(k) \cap R(k) = {}
    <3>1. \A a \in A(k) : a # NULL
      BY <1>0, <2>1
    <3> HIDE DEF A
    <3> QED BY <3>1, OpFields
  <2> HIDE DEF w, r, W, R
  <2>5. g(k) \in Seq(Op) /\ Does(g(k), W(k) \cup R(k))
    BY <2>2, <2>3, <2>4, DoesConcat, ConcatProperties
  <2> QED BY <2>5
<1>2. \A k \in D : \A o \in O[k] : o.k = k
  BY OpFields
<1>3. LogicRm(cfgs, d, dir) = ForEach(f)
  BY DEF LogicRm
<1>4. f \in [D -> Seq(Op)] /\ \A k \in D : f[k] = g(k)
  <2> HIDE DEF g
  <2> QED BY <1>1
<1>5. D \in SUBSET Cluster
  BY DEF IsDir
<1> HIDE DEF g, f
<1>6. LogicRm(cfgs, d, dir) \in Seq(Op) /\ Does(LogicRm(cfgs, d, dir), U)
  <2> HIDE DEF O, D
  <2> QED BY <1>1, <1>2, <1>3, <1>4, <1>5, ClusterWalk
<1>7. \A e, k, a : Create(e, k, a) \notin U /\ (e # dir => Delete(e, k, a) \notin U)
  BY OpFields DEF All
<1>8. /\ \A k : \A a \in A(k) : k \in D => a \in Addr
      /\ \A k : k \notin D => A(k) = {}
  BY RangeOfSeq DEF IsDir, Children
<1>9. \A k : Delete(dir, k, NULL) \in U <=> k \in D \ DOMAIN cfgs
  <2> HIDE DEF A
  <2> QED BY <1>0, <1>8, OpFields DEF All
<1>10. \A k : \A a \in Addr : Delete(dir, k, a) \in U <=> a \in A(k)
  <2> HIDE DEF A
  <2> QED BY <1>0, <1>8, OpFields DEF All
<1> HIDE DEF U
<1> QED BY <1>6, <1>7, <1>9, <1>10 DEF Does

(* A server of A is good again.                                             *)
LEMMA ServerBack ==
  ASSUME NEW A \in SUBSET Addr, NEW k \in Cluster
  PROVE  LET s == ForEach([a \in A |-> <<Delete("error", k, a), Create("check", k, a)>>])
         IN /\ s \in Seq(Op)
            /\ Does(s, {Delete("error", k, a) : a \in A} \cup {Create("check", k, a) : a \in A})
<1> DEFINE f == [a \in A |-> <<Delete("error", k, a), Create("check", k, a)>>]
           O == [a \in A |-> {Delete("error", k, a), Create("check", k, a)}]
<1>1. \A a \in A : Delete("error", k, a) \in Op /\ Create("check", k, a) \in Op
  BY OpType
<1>2. \A a \in A : /\ f[a] = <<Delete("error", k, a), Create("check", k, a)>>
                   /\ O[a] = {Delete("error", k, a), Create("check", k, a)}
  OBVIOUS
<1>3. f \in [A -> Seq(Op)]
  BY <1>1
<1>4. \A a \in A : Does(f[a], O[a]) /\ \A o \in O[a] : o.a = a
  <2> TAKE a \in A
  <2>1. Delete("error", k, a) # Create("check", k, a)
    BY OpFields
  <2>2. Does(f[a], O[a])
    BY <1>2, <2>1, OccursFew DEF Does
  <2>3. \A o \in O[a] : o.a = a
    BY <1>2, OpFields
  <2> QED BY <2>2, <2>3
<1>5. All(O, A) = {Delete("error", k, a) : a \in A} \cup {Create("check", k, a) : a \in A}
  BY <1>2 DEF All
<1> HIDE DEF f, O
<1>6. ForEach(f) \in Seq(Op) /\ Does(ForEach(f), All(O, A))
  BY <1>3, <1>4, ServerWalk
<1> QED BY <1>5, <1>6 DEF f

(* A server of A is out of order.                                           *)
LEMMA ServerOut ==
  ASSUME NEW A \in SUBSET Addr, NEW k \in Cluster
  PROVE  LET s == ForEach([a \in A |-> <<Create("error", k, a), Delete("check", k, a)>>])
         IN /\ s \in Seq(Op)
            /\ Does(s, {Create("error", k, a) : a \in A} \cup {Delete("check", k, a) : a \in A})
<1> DEFINE f == [a \in A |-> <<Create("error", k, a), Delete("check", k, a)>>]
           O == [a \in A |-> {Create("error", k, a), Delete("check", k, a)}]
<1>1. \A a \in A : Create("error", k, a) \in Op /\ Delete("check", k, a) \in Op
  BY OpType
<1>2. \A a \in A : /\ f[a] = <<Create("error", k, a), Delete("check", k, a)>>
                   /\ O[a] = {Create("error", k, a), Delete("check", k, a)}
  OBVIOUS
<1>3. f \in [A -> Seq(Op)]
  BY <1>1
<1>4. \A a \in A : Does(f[a], O[a]) /\ \A o \in O[a] : o.a = a
  <2> TAKE a \in A
  <2>1. Create("error", k, a) # Delete("check", k, a)
    BY OpFields
  <2>2. Does(f[a], O[a])
    BY <1>2, <2>1, OccursFew DEF Does
  <2>3. \A o \in O[a] : o.a = a
    BY <1>2, OpFields
  <2> QED BY <2>2, <2>3
<1>5. All(O, A) = {Create("error", k, a) : a \in A} \cup {Delete("check", k, a) : a \in A}
  BY <1>2 DEF All
<1> HIDE DEF f, O
<1>6. ForEach(f) \in Seq(Op) /\ Does(ForEach(f), All(O, A))
  BY <1>3, <1>4, ServerWalk
<1> QED BY <1>5, <1>6 DEF f
LEMMA CheckErrorCounts ==
  ASSUME IsDir(error, Seq(Addr)), NEW live
  PROVE  /\ CheckErrorOps(live) \in Seq(Op)
         /\ \A dir, k, a :
              /\ Occurs(CheckErrorOps(live), Create(dir, k, a)) =
                   IF dir = "check" /\ a \in Children(error, k) \cap DOMAIN live THEN 1 ELSE 0
              /\ Occurs(CheckErrorOps(live), Delete(dir, k, a)) =
                   IF dir = "error" /\ a \in Children(error, k) \cap DOMAIN live THEN 1 ELSE 0
<1> DEFINE D == DOMAIN error
           A(k) == Children(error, k) \cap DOMAIN live
           g(k) == ForEach([a \in A(k) |-> <<Delete("error", k, a), Create("check", k, a)>>])
           f == [k \in D |-> g(k)]
           O == [k \in D |-> {Delete("error", k, a) : a \in A(k)} \cup {Create("check", k, a) : a \in A(k)}]
           U == All(O, D)
<1>1. \A k \in D : g(k) \in Seq(Op) /\ Does(g(k), O[k])
  <2> TAKE k \in D
  <2>1. k \in Cluster /\ A(k) \in SUBSET Addr
    BY RangeOfSeq DEF IsDir, Children
  <2> HIDE DEF A
  <2> QED BY <2>1, ServerBack
<1>2. \A k \in D : \A o \in O[k] : o.k = k
  BY OpFields
<1>3. CheckErrorOps(live) = ForEach(f)
  BY DEF CheckErrorOps
<1>4. f \in [D -> Seq(Op)] /\ \A k \in D : f[k] = g(k)
  <2> HIDE DEF g
  <2> QED BY <1>1
<1>5. D \in SUBSET Cluster
  BY DEF IsDir
<1> HIDE DEF g, f
<1>6. CheckErrorOps(live) \in Seq(Op) /\ Does(CheckErrorOps(live), U)
  <2> HIDE DEF O, D, A
  <2>1. \A k \in D : Does(f[k], O[k]) /\ \A o \in O[k] : o.k = k
    BY <1>1, <1>2, <1>4
  <2>2. f \in [D -> Seq(Op)]
    BY <1>4
  <2>3. ForEach(f) \in Seq(Op) /\ Does(ForEach(f), All(O, D))
    BY <1>5, <2>1, <2>2, ClusterWalk
  <2> QED BY <1>3, <2>3
<1>7. \A k : k \notin D => A(k) = {}
  BY DEF Children
<1>8. \A dir, k, a : /\ Create(dir, k, a) \in U <=> dir = "check" /\ a \in A(k)
                     /\ Delete(dir, k, a) \in U <=> dir = "error" /\ a \in A(k)
  <2> HIDE DEF A
  <2> QED BY <1>7, OpFields DEF All
<1> HIDE DEF U
<1>9. \A dir, k, a :
        /\ Occurs(CheckErrorOps(live), Create(dir, k, a)) = IF dir = "check" /\ a \in A(k) THEN 1 ELSE 0
        /\ Occurs(CheckErrorOps(live), Delete(dir, k, a)) = IF dir = "error" /\ a \in A(k) THEN 1 ELSE 0
  <2> HIDE DEF A
  <2> QED BY <1>6, <1>8 DEF Does
<1> QED BY <1>6, <1>9

(* The second walk of check_check.                                         *)
OutOps(live) ==
  ForEach([k \in DOMAIN check |->
    ForEach([a \in Children(check, k) \ DOMAIN live |->
              <<Create("error", k, a), Delete("check", k, a)>>])])

LEMMA OutCounts ==
  ASSUME IsDir(check, Seq(Addr)), NEW live
  PROVE  /\ OutOps(live) \in Seq(Op)
         /\ \A dir, k, a :
              /\ Occurs(OutOps(live), Create(dir, k, a)) =
                   IF dir = "error" /\ a \in Children(check, k) \ DOMAIN live THEN 1 ELSE 0
              /\ Occurs(OutOps(live), Delete(dir, k, a)) =
                   IF dir = "check" /\ a \in Children(check, k) \ DOMAIN live THEN 1 ELSE 0
<1> DEFINE D == DOMAIN check
           A(k) == Children(check, k) \ DOMAIN live
           g(k) == ForEach([a \in A(k) |-> <<Create("error", k, a), Delete("check", k, a)>>])
           f == [k \in D |-> g(k)]
           O == [k \in D |-> {Create("error", k, a) : a \in A(k)} \cup {Delete("check", k, a) : a \in A(k)}]
           U == All(O, D)
<1>1. \A k \in D : g(k) \in Seq(Op) /\ Does(g(k), O[k])
  <2> TAKE k \in D
  <2>1. k \in Cluster /\ A(k) \in SUBSET Addr
    BY RangeOfSeq DEF IsDir, Children
  <2> HIDE DEF A
  <2> QED BY <2>1, ServerOut
<1>2. \A k \in D : \A o \in O[k] : o.k = k
  BY OpFields
<1>3. OutOps(live) = ForEach(f)
  BY DEF OutOps
<1>4. f \in [D -> Seq(Op)] /\ \A k \in D : f[k] = g(k)
  <2> HIDE DEF g
  <2> QED BY <1>1
<1>5. D \in SUBSET Cluster
  BY DEF IsDir
<1> HIDE DEF g, f
<1>6. OutOps(live) \in Seq(Op) /\ Does(OutOps(live), U)
  <2> HIDE DEF O, D, A
  <2>1. \A k \in D : Does(f[k], O[k]) /\ \A o \in O[k] : o.k = k
    BY <1>1, <1>2, <1>4
  <2>2. f \in [D -> Seq(Op)]
    BY <1>4
  <2>3. ForEach(f) \in Seq(Op) /\ Does(ForEach(f), All(O, D))
    BY <1>5, <2>1, <2>2, ClusterWalk
  <2> QED BY <1>3, <2>3
<1>7. \A k : k \notin D => A(k) = {}
  BY DEF Children
<1>8. \A dir, k, a : /\ Create(dir, k, a) \in U <=> dir = "error" /\ a \in A(k)
                     /\ Delete(dir, k, a) \in U <=> dir = "check" /\ a \in A(k)
  <2> HIDE DEF A
  <2> QED BY <1>7, OpFields DEF All
<1> HIDE DEF U
<1>9. \A dir, k, a :
        /\ Occurs(OutOps(live), Create(dir, k, a)) = IF dir = "error" /\ a \in A(k) THEN 1 ELSE 0
        /\ Occurs(OutOps(live), Delete(dir, k, a)) = IF dir = "check" /\ a \in A(k) THEN 1 ELSE 0
  <2> HIDE DEF A
  <2> QED BY <1>6, <1>8 DEF Does
<1> QED BY <1>6, <1>9

LEMMA SyncCounts ==
  ASSUME IsDir(check, Seq(Addr)), IsDir(error, Seq(Addr)), NEW cfgs, IsDir(cfgs, SUBSET Addr)
  PROVE  /\ Sync(cfgs) \in Seq(Op)
         /\ \A dir, k, a : Occurs(Sync(cfgs), Create(dir, k, a)) =
                             Occurs(LogicCheckAdd(cfgs), Create(dir, k, a))
         /\ \A dir, k, a : Occurs(Sync(cfgs), Delete(dir, k, a)) =
                             Occurs(GetCheck, Delete(dir, k, a))
                             + Occurs(LogicRm(cfgs, error, "error"), Delete(dir, k, a))
                             + Occurs(LogicRm(cfgs, check, "check"), Delete(dir, k, a))
<1> DEFINE G == GetCheck
           A == LogicCheckAdd(cfgs)
           E == LogicRm(cfgs, error, "error")
           C == LogicRm(cfgs, check, "check")
<1>1. G \in Seq(Op) /\ A \in Seq(Op) /\ E \in Seq(Op) /\ C \in Seq(Op)
  BY GetCheckCounts, LogicCheckAddCounts, LogicRmCounts
<1>2. Sync(cfgs) = ((G \o A) \o E) \o C
  BY DEF Sync
<1>3. \A dir, k, a : /\ Occurs(G, Create(dir, k, a)) = 0 /\ Occurs(E, Create(dir, k, a)) = 0
                     /\ Occurs(C, Create(dir, k, a)) = 0 /\ Occurs(A, Delete(dir, k, a)) = 0
  BY GetCheckCounts, LogicCheckAddCounts, LogicRmCounts
<1> HIDE DEF G, A, E, C
<1> DEFINE GA == G \o A
           GAE == GA \o E
<1>4. GA \in Seq(Op) /\ \A x : Occurs(GA, x) = Occurs(G, x) + Occurs(A, x)
  BY <1>1, ConcatProperties, OccursConcat
<1> HIDE DEF GA
<1>5. GAE \in Seq(Op) /\ \A x : Occurs(GAE, x) = Occurs(GA, x) + Occurs(E, x)
  BY <1>1, <1>4, ConcatProperties, OccursConcat
<1> HIDE DEF GAE
<1>6. GAE \o C \in Seq(Op) /\ \A x : Occurs(GAE \o C, x) = Occurs(GAE, x) + Occurs(C, x)
  BY <1>1, <1>5, ConcatProperties, OccursConcat
<1>7. Sync(cfgs) \in Seq(Op)
      /\ \A x : Occurs(Sync(cfgs), x) = Occurs(G, x) + Occurs(A, x) + Occurs(E, x) + Occurs(C, x)
  BY <1>2, <1>4, <1>5, <1>6 DEF GA, GAE
<1>8. \A x : Occurs(G, x) \in Nat /\ Occurs(A, x) \in Nat /\ Occurs(E, x) \in Nat
             /\ Occurs(C, x) \in Nat
  BY <1>1, PlacesFinite
<1>9. \A dir, k, a : Occurs(Sync(cfgs), Create(dir, k, a)) = Occurs(A, Create(dir, k, a))
  BY <1>3, <1>7, <1>8
<1>10. \A dir, k, a : Occurs(Sync(cfgs), Delete(dir, k, a)) =
          Occurs(G, Delete(dir, k, a)) + Occurs(E, Delete(dir, k, a)) + Occurs(C, Delete(dir, k, a))
  BY <1>3, <1>7, <1>8
<1> QED BY <1>7, <1>9, <1>10 DEF G, A, E, C

LEMMA CheckCheckCounts ==
  ASSUME IsDir(check, Seq(Addr)), NEW live
  PROVE  /\ CheckCheckOps(live) = GetCheck \o OutOps(live)
         /\ CheckCheckOps(live) \in Seq(Op)
         /\ \A x : Occurs(CheckCheckOps(live), x) = Occurs(GetCheck, x) + Occurs(OutOps(live), x)
<1> DEFINE G == GetCheck
           W == OutOps(live)
<1>1. G \in Seq(Op) /\ W \in Seq(Op)
  BY GetCheckCounts, OutCounts
<1>2. CheckCheckOps(live) = G \o W
  BY DEF CheckCheckOps, OutOps
<1> HIDE DEF G, W
<1>3. G \o W \in Seq(Op) /\ \A x : Occurs(G \o W, x) = Occurs(G, x) + Occurs(W, x)
  BY <1>1, ConcatProperties, OccursConcat
<1>4. CheckCheckOps(live) \in Seq(Op)
      /\ \A x : Occurs(CheckCheckOps(live), x) = Occurs(G, x) + Occurs(W, x)
  BY <1>2, <1>3
<1> QED BY <1>2, <1>4 DEF G, W

-----------------------------------------------------------------------------
(* The order of two writes.                                                *)

(* No y comes before an x.                                                 *)
Precedes(s, x, y) == \A i, j \in DOMAIN s : s[i] = x /\ s[j] = y => i < j

LEMMA PrecedesConcat ==
  ASSUME NEW S, NEW s \in Seq(S), NEW t \in Seq(S), NEW x, NEW y,
         Precedes(s, x, y), Precedes(t, x, y), y \notin Range(s) \/ x \notin Range(t)
  PROVE  Precedes(s \o t, x, y)
<1>1. /\ Len(s) \in Nat /\ DOMAIN s = 1 .. Len(s)
      /\ Len(t) \in Nat /\ DOMAIN t = 1 .. Len(t)
  BY LenProperties
<1>2. /\ s \o t \in Seq(S) /\ Len(s \o t) = Len(s) + Len(t)
      /\ \A i \in 1 .. Len(s) + Len(t) :
           (s \o t)[i] = IF i <= Len(s) THEN s[i] ELSE t[i - Len(s)]
  BY ConcatProperties
<1>3. DOMAIN (s \o t) = 1 .. Len(s) + Len(t)
  BY <1>2, LenProperties
<1> SUFFICES ASSUME NEW i \in 1 .. Len(s) + Len(t), NEW j \in 1 .. Len(s) + Len(t),
                    (s \o t)[i] = x, (s \o t)[j] = y
             PROVE  i < j
  BY <1>3 DEF Precedes
<1>4. CASE i <= Len(s) /\ j <= Len(s)
  <2>1. i \in DOMAIN s /\ j \in DOMAIN s /\ s[i] = x /\ s[j] = y
    BY <1>1, <1>2, <1>4
  <2> QED BY <2>1 DEF Precedes
<1>5. CASE ~ (i <= Len(s)) /\ ~ (j <= Len(s))
  <2>1. /\ i - Len(s) \in DOMAIN t /\ j - Len(s) \in DOMAIN t
        /\ t[i - Len(s)] = x /\ t[j - Len(s)] = y
    BY <1>1, <1>2, <1>5
  <2>2. i - Len(s) < j - Len(s)
    BY <2>1 DEF Precedes
  <2> QED BY <1>1, <2>2
<1>6. CASE ~ (i <= Len(s)) /\ j <= Len(s)
  <2>1. i - Len(s) \in DOMAIN t /\ j \in DOMAIN s /\ t[i - Len(s)] = x /\ s[j] = y
    BY <1>1, <1>2, <1>6
  <2> QED BY <2>1 DEF Range
<1>7. CASE i <= Len(s) /\ ~ (j <= Len(s))
  BY <1>1, <1>7
<1> QED BY <1>4, <1>5, <1>6, <1>7

LEMMA PrecedesNone ==
  ASSUME NEW s, NEW x, NEW y, x \notin Range(s) \/ y \notin Range(s)
  PROVE  Precedes(s, x, y)
  BY DEF Precedes, Range

LEMMA PrecedesPair ==
  ASSUME NEW x, NEW y, x # y
  PROVE  Precedes(<<x, y>>, x, y)
  BY DEF Precedes

(* In a walk, two writes that belong to one key keep their order.          *)
LEMMA WalkPrecedes ==
  ASSUME NEW D \in SUBSET Nat, IsFiniteSet(D), NEW S, NEW f \in [D -> Seq(S)], NEW k \in D,
         NEW x, NEW y, \A j \in D \ {k} : x \notin Range(f[j]) /\ y \notin Range(f[j]),
         Precedes(f[k], x, y)
  PROVE  Precedes(ForEach(f), x, y)
<1>1. InOneGo(D, S, f, k)
  BY WalkSplit
<1>2. PICK u \in Seq(S), v \in Seq(S) :
               /\ ForEach(f) = u \o (f[k] \o v)
               /\ \A z \in Range(u) \cup Range(v) : \E j \in D \ {k} : z \in Range(f[j])
  BY <1>1, Zenon DEF InOneGo
<1> DEFINE m == f[k]
<1>3. m \in Seq(S) /\ Precedes(m, x, y) /\ ForEach(f) = u \o (m \o v)
  BY <1>2
<1>4. /\ x \notin Range(u) /\ y \notin Range(u)
      /\ x \notin Range(v) /\ y \notin Range(v)
  BY <1>2
<1> HIDE DEF m
<1>5. Precedes(u, x, y) /\ Precedes(v, x, y)
  BY <1>4, PrecedesNone
<1> DEFINE n == m \o v
<1>6. n \in Seq(S) /\ Precedes(n, x, y)
  BY <1>3, <1>4, <1>5, ConcatProperties, PrecedesConcat
<1> HIDE DEF n
<1>7. Precedes(u \o n, x, y)
  BY <1>4, <1>5, <1>6, PrecedesConcat
<1> QED BY <1>3, <1>7 DEF n

(* check_check puts a server on record as out of order before it takes it  *)
(* from those in order, if it is not there twice.                          *)
LEMMA OutInOrder ==
  ASSUME IsDir(check, Seq(Addr)), NEW live, NEW k, NEW a,
         k \in DOMAIN check => a \notin Twice(check[k]) \/ a \in DOMAIN live
  PROVE  Precedes(CheckCheckOps(live), Create("error", k, a), Delete("check", k, a))
<1> DEFINE x == Create("error", k, a)
           y == Delete("check", k, a)
           G == GetCheck
           W == OutOps(live)
<1>1. /\ G \in Seq(Op) /\ W \in Seq(Op) /\ CheckCheckOps(live) = G \o W
      /\ Occurs(G, x) = 0
      /\ Occurs(G, y) = IF k \in DOMAIN check /\ a \in Twice(check[k]) THEN 1 ELSE 0
      /\ Occurs(W, x) = IF a \in Children(check, k) \ DOMAIN live THEN 1 ELSE 0
  <2>1. G \in Seq(Op) /\ \A d, j, b :
          /\ Occurs(G, Create(d, j, b)) = 0
          /\ Occurs(G, Delete(d, j, b)) =
               IF d = "check" /\ j \in DOMAIN check /\ b \in Twice(check[j]) THEN 1 ELSE 0
    BY GetCheckCounts
  <2>2. W \in Seq(Op) /\ Occurs(W, x) = IF a \in Children(check, k) \ DOMAIN live THEN 1 ELSE 0
    BY OutCounts
  <2>3. CheckCheckOps(live) = G \o W
    BY CheckCheckCounts
  <2> HIDE DEF G, W
  <2> QED BY <2>1, <2>2, <2>3
<1>2. CASE a \notin Children(check, k) \ DOMAIN live
  <2>1. x \notin Range(G) /\ x \notin Range(W)
    <3> HIDE DEF x, y, G, W
    <3> QED BY <1>1, <1>2, PlacesFinite
  <2>2. Precedes(G, x, y) /\ Precedes(W, x, y)
    BY <2>1, PrecedesNone
  <2> HIDE DEF x, y, G, W
  <2>3. Precedes(G \o W, x, y)
    BY <1>1, <2>1, <2>2, PrecedesConcat
  <2> QED BY <1>1, <2>3 DEF x, y
<1>3. CASE a \in Children(check, k) \ DOMAIN live
  <2> DEFINE D == DOMAIN check
             A(j) == Children(check, j) \ DOMAIN live
             g(j) == [b \in A(j) |-> <<Create("error", j, b), Delete("check", j, b)>>]
             f == [j \in D |-> ForEach(g(j))]
  <2>1. k \in D /\ a \in A(k) /\ a \notin Twice(check[k])
    BY <1>3 DEF Children
  <2>2. y \notin Range(G)
    <3>1. Occurs(G, y) = 0
      BY <1>1, <2>1
    <3> HIDE DEF y, G
    <3> QED BY <1>1, <3>1, PlacesFinite
  <2>3. D \in SUBSET Cluster /\ D \in SUBSET Nat /\ IsFiniteSet(D)
    BY RedisCtrlAssumption, FS_Subset DEF RedisCtrlAssumption, IsDir
  <2>4. \A j \in D : A(j) \in SUBSET Addr /\ A(j) \in SUBSET Nat /\ IsFiniteSet(A(j))
    <3> TAKE j \in D
    <3>1. A(j) \in SUBSET Addr
      BY RangeOfSeq DEF IsDir, Children
    <3> HIDE DEF A
    <3> QED BY <3>1, RedisCtrlAssumption, FS_Subset DEF RedisCtrlAssumption
  <2> HIDE DEF A
  <2>5. \A j \in D : g(j) \in [A(j) -> Seq(Op)]
    <3> TAKE j \in D
    <3>1. \A b \in A(j) : Create("error", j, b) \in Op /\ Delete("check", j, b) \in Op
      BY <2>3, <2>4, OpType
    <3> QED BY <3>1
  <2>6. \A j \in D : \A b \in A(j) :
          g(j)[b] = <<Create("error", j, b), Delete("check", j, b)>>
          /\ Range(g(j)[b]) = {Create("error", j, b), Delete("check", j, b)}
    BY DEF Range
  <2> HIDE DEF g
  <2>7. \A j \in D : ForEach(g(j)) \in Seq(Op)
                     /\ \A z \in Range(ForEach(g(j))) : z.k = j
    <3> TAKE j \in D
    <3>1. /\ ForEach(g(j)) \in Seq(Op)
          /\ \A z \in Range(ForEach(g(j))) : \E b \in A(j) : z \in Range(g(j)[b])
      BY <2>4, <2>5, WalkRange
    <3> QED BY <2>6, <3>1, OpFields
  <2>8. f \in [D -> Seq(Op)] /\ \A j \in D : f[j] = ForEach(g(j))
    BY <2>7
  <2>9. W = ForEach(f)
    BY DEF OutOps, g, A
  <2>10. x.k = k /\ y.k = k /\ x # y /\ x.a = a /\ y.a = a
    BY OpFields
  <2> HIDE DEF f, W
  <2>11. Precedes(ForEach(g(k)), x, y)
    <3>1. \A b \in A(k) \ {a} : x \notin Range(g(k)[b]) /\ y \notin Range(g(k)[b])
      <4> TAKE b \in A(k) \ {a}
      <4>1. Range(g(k)[b]) = {Create("error", k, b), Delete("check", k, b)}
        BY <2>1, <2>6
      <4> HIDE DEF x, y
      <4> QED BY <2>10, <4>1, OpFields
    <3>2. Precedes(g(k)[a], x, y)
      <4>1. g(k)[a] = <<x, y>>
        BY <2>1, <2>6
      <4> HIDE DEF x, y
      <4> QED BY <2>10, <4>1, PrecedesPair
    <3>3. A(k) \in SUBSET Nat /\ IsFiniteSet(A(k)) /\ g(k) \in [A(k) -> Seq(Op)]
      BY <2>1, <2>4, <2>5
    <3> HIDE DEF x, y
    <3> QED BY <2>1, <3>1, <3>2, <3>3, WalkPrecedes
  <2>12. Precedes(W, x, y)
    <3>1. \A j \in D \ {k} : x \notin Range(f[j]) /\ y \notin Range(f[j])
      BY <2>7, <2>8, <2>10
    <3> HIDE DEF x, y, D
    <3> QED BY <2>1, <2>3, <2>8, <2>9, <2>11, <3>1, WalkPrecedes
  <2>13. Precedes(G, x, y)
    BY <2>2, PrecedesNone
  <2> HIDE DEF x, y, G
  <2>14. Precedes(G \o W, x, y)
    BY <1>1, <2>2, <2>12, <2>13, PrecedesConcat DEF W
  <2> QED BY <1>1, <2>14 DEF x, y, W
<1> QED BY <1>2, <1>3

(* The elements of a finite set, each of them once.                        *)
LEMMA ListOfSet ==
  ASSUME NEW S, IsFiniteSet(S)
  PROVE  LET q == SetToSeq(S)
         IN /\ q \in Seq(S) /\ DOMAIN q = 1 .. Len(q) /\ Len(q) \in Nat
            /\ \A i, j \in DOMAIN q : q[i] = q[j] => i = j
            /\ \A x \in S : \E i \in DOMAIN q : q[i] = x
<1> DEFINE N == Cardinality(S)
           q == SetToSeq(S)
<1>1. N \in Nat /\ ExistsBijection(1 .. N, S)
  BY FS_CardinalityType
<1>2. PICK f : f \in Bijection(1 .. N, S)
  BY <1>1 DEF ExistsBijection
<1>3. f \in [1 .. N -> S] /\ IsInjective(f)
  BY <1>2 DEF Bijection, Injection
<1>4. q \in [1 .. N -> S] /\ IsInjective(q)
  BY <1>3 DEF SetToSeq
<1> HIDE DEF q
<1>5. IsFiniteSet(1 .. N) /\ Cardinality(1 .. N) = N
  BY <1>1, FS_Interval
<1>6. q \in Injection(1 .. N, S)
  BY <1>4 DEF Injection
<1>7. q \in Surjection(1 .. N, S)
  BY <1>5, <1>6, FS_Injection
<1>8. \A x \in S : \E i \in 1 .. N : q[i] = x
  BY <1>7 DEF Surjection
<1>9. DOMAIN q = 1 .. N /\ q \in Seq(S) /\ Len(q) = N
  BY <1>1, <1>4
<1> QED BY <1>1, <1>4, <1>8, <1>9 DEF IsInjective, q

-----------------------------------------------------------------------------
(* The lock.                                                               *)

(* The shape of the state that a step relies on.                           *)
Shape == /\ DOMAIN st = Ctrl
         /\ \A c \in Ctrl : {"pc", "ops", "cmds"} \subseteq DOMAIN st[c]
         /\ sess \in [Ctrl -> BOOLEAN]

(* A controller outside of check has nothing to write.                     *)
IdleDone == \A c \in Ctrl : st[c].pc = "idle" => st[c].ops = <<>>

LockInv == Shape /\ IdleDone /\ OneController

(* A step inside the pass of c: it leaves the lock and the sessions alone, *)
(* the other controllers where they are, and does not end the pass.        *)
Inside(c) ==
  /\ st[c].pc # "idle"
  /\ DOMAIN st' = DOMAIN st
  /\ \A d \in Ctrl \ {c} : st'[d] = st[d]
  /\ {"pc", "ops", "cmds"} \subseteq DOMAIN st'[c]
  /\ st'[c].pc # "idle"
  /\ UNCHANGED <<lock, sess>>

(* Such a step keeps the invariant.                                        *)
LEMMA InsideKeeps ==
  ASSUME LockInv, NEW c \in Ctrl, Inside(c)
  PROVE  LockInv'
  BY DEF LockInv, Shape, IdleDone, OneController, Working, Inside

(* Every step of check between get_lock and free_lock is one.              *)
LEMMA StepInside ==
  ASSUME LockInv, NEW c \in Ctrl,
         \/ Read(c) \/ Write(c) \/ CheckRedis(c) \/ CheckError(c)
         \/ CheckCheck(c) \/ GenLegal(c) \/ DoSlaveof(c) \/ CallLost(c)
  PROVE  Inside(c)
<1>1. CASE Read(c)
  BY <1>1 DEF LockInv, Shape, Inside, Read, GiveUp, NoPass
<1>2. CASE CheckRedis(c)
  <2> DEFINE asked == (UNION Range(st[c].cfgs)) \ DOMAIN st[c].live
             l(A) == [a \in DOMAIN st[c].live \cup A |->
                       IF a \in A THEN slaveof[a] ELSE st[c].live[a]]
             n(A) == IF A = asked \/ st[c].tries = 1 THEN TryTimes ELSE st[c].tries - 1
             p(A) == IF A = asked \/ st[c].tries = 1 THEN "redis" ELSE "sync"
  <2>3. PICK A \in SUBSET asked :
          st' = [st EXCEPT ![c].live = l(A), ![c].tries = n(A), ![c].pc = p(A)]
    BY <1>2, Zenon DEF CheckRedis
  <2>4. p(A) \in {"redis", "sync"}
    OBVIOUS
  <2> HIDE DEF l, n, p, asked
  <2>1. PICK ll, nn, pp :
          /\ st' = [st EXCEPT ![c].live = ll, ![c].tries = nn, ![c].pc = pp]
          /\ pp \in {"redis", "sync"}
    BY <2>3, <2>4
  <2>2. /\ st'[c].pc = pp
        /\ {"pc", "ops", "cmds"} \subseteq DOMAIN st'[c]
        /\ DOMAIN st' = DOMAIN st
        /\ \A d \in Ctrl \ {c} : st'[d] = st[d]
    BY <2>1 DEF LockInv, Shape
  <2> QED
    BY <1>2, <2>1, <2>2 DEF Inside, CheckRedis, At
<1>3. CASE CheckError(c)
  BY <1>3 DEF LockInv, Shape, Inside, CheckError, At, Plan, GiveUp, NoPass
<1>4. CASE CheckCheck(c)
  BY <1>4 DEF LockInv, Shape, Inside, CheckCheck, At, Plan, GiveUp, NoPass
<1>5. CASE GenLegal(c)
  <2>1. CASE GiveUp(c)
    BY <1>5, <2>1 DEF LockInv, Shape, Inside, GenLegal, At, GiveUp, NoPass
  <2>2. CASE ~ GiveUp(c)
    <3>1. PICK o, m : st' = [st EXCEPT ![c].pc = "legal", ![c].ops = o, ![c].cmds = m]
      BY <1>5, <2>2 DEF GenLegal
    <3>2. /\ st'[c].pc = "legal"
          /\ {"pc", "ops", "cmds"} \subseteq DOMAIN st'[c]
          /\ DOMAIN st' = DOMAIN st
          /\ \A d \in Ctrl \ {c} : st'[d] = st[d]
      BY <3>1 DEF LockInv, Shape
    <3> QED
      BY <1>5, <3>2 DEF Inside, GenLegal, At
  <2> QED
    BY <2>1, <2>2
<1>6. CASE DoSlaveof(c)
  BY <1>6 DEF LockInv, Shape, Inside, DoSlaveof, At, GiveUp, NoPass
<1>7. CASE Write(c)
  BY <1>7 DEF LockInv, Shape, IdleDone, Inside, Write, GiveUp, NoPass
<1>8. CASE CallLost(c)
  BY <1>8 DEF LockInv, Shape, IdleDone, Inside, CallLost, GiveUp, NoPass
<1> QED
  BY <1>1, <1>2, <1>3, <1>4, <1>5, <1>6, <1>7, <1>8

(* No step lets two controllers in.  get_lock succeeds only when there is  *)
(* no lock, which by OneController means that nobody works; only who works *)
(* can delete the lock, and only the owner of the lock works.              *)
LEMMA LockStep ==
  ASSUME LockInv, [Next]_vars
  PROVE  LockInv'
<1> USE RedisCtrlAssumption DEF RedisCtrlAssumption
<1>1. ASSUME NEW c \in Ctrl, GetLock(c)
      PROVE  LockInv'
  <2>1. \A d \in Ctrl : ~ Working(d)
    BY <1>1 DEF LockInv, OneController, GetLock
  <2> QED
    BY <1>1, <2>1 DEF LockInv, Shape, IdleDone, OneController, Working, GetLock, Goto
<1>2. ASSUME NEW c \in Ctrl, FreeLock(c)
      PROVE  LockInv'
  <2>1. sess[c] => \A d \in Ctrl \ {c} : ~ Working(d)
    BY <1>2 DEF LockInv, OneController, Working, FreeLock
  <2> QED
    BY <1>2, <2>1 DEF LockInv, Shape, IdleDone, OneController, Working, FreeLock, NoPass
<1>3. ASSUME NEW c \in Ctrl,
             \/ Read(c) \/ Write(c) \/ CheckRedis(c) \/ CheckError(c)
             \/ CheckCheck(c) \/ GenLegal(c) \/ DoSlaveof(c) \/ CallLost(c)
      PROVE  LockInv'
  BY <1>3, StepInside, InsideKeeps
<1>4. ASSUME NEW c \in Ctrl, LockLost(c)
      PROVE  LockInv'
  <2>1. CASE st[c].pc = "idle" /\ lock = NULL /\ lock' = c /\ UNCHANGED st
    BY <1>4, <2>1 DEF LockInv, Shape, IdleDone, OneController, Working, LockLost
  <2>2. CASE st[c].pc = "free" /\ UNCHANGED lock /\ st' = [st EXCEPT ![c] = NoPass]
    BY <1>4, <2>2 DEF LockInv, Shape, IdleDone, OneController, Working, LockLost, NoPass
  <2> QED
    BY <1>4, <2>1, <2>2 DEF LockLost
<1>5. ASSUME NEW c \in Ctrl, SessionExpires(c)
      PROVE  LockInv'
  BY <1>5 DEF LockInv, Shape, IdleDone, OneController, Working, SessionExpires
<1>6. ASSUME NEW c \in Ctrl, Restart(c)
      PROVE  LockInv'
  BY <1>6 DEF LockInv, Shape, IdleDone, OneController, Working, Restart, NoPass
<1>7. CASE DeadSession
  BY <1>7 DEF LockInv, Shape, IdleDone, OneController, Working, DeadSession
<1>8. CASE Configure
  BY <1>8 DEF LockInv, Shape, IdleDone, OneController, Working, Configure
<1>9. ASSUME NEW a \in Addr, Redis(a)
      PROVE  LockInv'
  BY <1>9 DEF LockInv, Shape, IdleDone, OneController, Working, Redis
<1>10. CASE UNCHANGED vars
  BY <1>10 DEF LockInv, Shape, IdleDone, OneController, Working, vars
<1> QED
  BY <1>1, <1>2, <1>3, <1>4, <1>5, <1>6, <1>7, <1>8, <1>9, <1>10 DEF Next, Step, Fault

(* Of the controllers whose session lives at most one is inside a pass of  *)
(* RedisCtrl::check, and it owns <root>/lock/lock.                         *)
THEOREM OneControllerCorrect == Spec => []OneController
<1>1. Init => LockInv
  BY DEF Init, LockInv, Shape, IdleDone, OneController, Working, NoPass
<1>2. LockInv /\ [Next]_vars => LockInv'
  BY LockStep
<1>3. LockInv => OneController
  BY DEF LockInv
<1> QED
  BY <1>1, <1>2, <1>3, PTL DEF Spec
-----------------------------------------------------------------------------
(* Types.  TypeOK is not inductive: that a round of check_redis leaves     *)
(* tries from 0 .. TryTimes needs that there is a try left in it (PassOK). *)

Fields == {"pc", "cfgs", "ops", "live", "cmds", "tries"}

PassOK(s) ==
  /\ DOMAIN s = Fields
  /\ s.pc \in {"idle", "read", "sync", "redis", "error", "check", "legal", "free"}
  /\ IsDir(s.cfgs, SUBSET Addr)
  /\ s.ops \in Seq(IF s.pc = "legal" THEN LegalOp ELSE Op)
  /\ DOMAIN s.live \subseteq Addr
  /\ Range(s.live) \subseteq Addr \cup {NULL}
  /\ s.cmds \subseteq Addr \X (Addr \cup {NULL})
  /\ s.tries \in 0 .. TryTimes
  /\ s.tries = 0 => s.pc \in {"idle", "read", "free"}
  /\ s.pc \in {"idle", "read", "redis", "free"} => s.ops = <<>>

Passes == DOMAIN st = Ctrl /\ \A c \in Ctrl : PassOK(st[c])

Records == /\ IsDir(error, Seq(Addr)) /\ IsDir(check, Seq(Addr))
           /\ legal \subseteq Legal /\ IsFiniteSet(legal)

Around == /\ lock \in Ctrl \cup {NULL, DEAD}
          /\ IsDir(config, SUBSET Addr)
          /\ up \in [Addr -> BOOLEAN]
          /\ slaveof \in [Addr -> Addr \cup {NULL}]
          /\ sess \in [Ctrl -> BOOLEAN]
          /\ events \in 0 .. MaxEvents

TypeInv == Passes /\ Records /\ Around

(* The state of c becomes the one with these fields, the others stay.      *)
Becomes(c, p, f, o, l, m, n) ==
  /\ DOMAIN st' = Ctrl /\ \A d \in Ctrl \ {c} : st'[d] = st[d]
  /\ DOMAIN st'[c] = Fields
  /\ st'[c].pc = p /\ st'[c].cfgs = f /\ st'[c].ops = o
  /\ st'[c].live = l /\ st'[c].cmds = m /\ st'[c].tries = n

LEMMA ResetEffect ==
  ASSUME Passes, NEW c \in Ctrl
  PROVE  /\ GiveUp(c) => Becomes(c, "free", <<>>, <<>>, <<>>, {}, 0)
         /\ st' = [st EXCEPT ![c] = NoPass] => Becomes(c, "idle", <<>>, <<>>, <<>>, {}, 0)
  BY DEF Passes, Becomes, GiveUp, NoPass, Fields

LEMMA GotoEffect ==
  ASSUME Passes, NEW c \in Ctrl, NEW p, Goto(c, p)
  PROVE  Becomes(c, p, st[c].cfgs, st[c].ops, st[c].live, st[c].cmds, st[c].tries)
  BY DEF Passes, PassOK, Becomes, Goto, Fields

LEMMA PlanEffect ==
  ASSUME Passes, NEW c \in Ctrl, NEW p, NEW o, Plan(c, p, o)
  PROVE  Becomes(c, p, st[c].cfgs, o, st[c].live, st[c].cmds, st[c].tries)
  BY DEF Passes, PassOK, Becomes, Plan, Fields

LEMMA ReadEffect ==
  ASSUME Passes, NEW c \in Ctrl, NEW o, NEW n,
         st' = [st EXCEPT ![c].pc = "sync", ![c].cfgs = config, ![c].ops = o, ![c].tries = n]
  PROVE  Becomes(c, "sync", config, o, st[c].live, st[c].cmds, n)
  BY DEF Passes, PassOK, Becomes, Fields

LEMMA WriteEffect ==
  ASSUME Passes, NEW c \in Ctrl, st' = [st EXCEPT ![c].ops = Tail(@)]
  PROVE  Becomes(c, st[c].pc, st[c].cfgs, Tail(st[c].ops), st[c].live, st[c].cmds, st[c].tries)
  BY DEF Passes, PassOK, Becomes, Fields

LEMMA AskEffect ==
  ASSUME Passes, NEW c \in Ctrl, NEW l, NEW n, NEW p,
         st' = [st EXCEPT ![c].live = l, ![c].tries = n, ![c].pc = p]
  PROVE  Becomes(c, p, st[c].cfgs, st[c].ops, l, st[c].cmds, n)
  BY DEF Passes, PassOK, Becomes, Fields

LEMMA GenEffect ==
  ASSUME Passes, NEW c \in Ctrl, NEW o, NEW m,
         st' = [st EXCEPT ![c].pc = "legal", ![c].ops = o, ![c].cmds = m]
  PROVE  Becomes(c, "legal", st[c].cfgs, o, st[c].live, m, st[c].tries)
  BY DEF Passes, PassOK, Becomes, Fields

LEMMA SendEffect ==
  ASSUME Passes, NEW c \in Ctrl, NEW m, NEW n,
         st' = [st EXCEPT ![c].cmds = m, ![c].tries = n]
  PROVE  Becomes(c, st[c].pc, st[c].cfgs, st[c].ops, st[c].live, m, n)
  BY DEF Passes, PassOK, Becomes, Fields

(* A controller whose fields are as they should be changes nothing for     *)
(* the others.                                                             *)
LEMMA PassKept ==
  ASSUME Passes, NEW c \in Ctrl, NEW p, NEW f, NEW o, NEW l, NEW m, NEW n,
         Becomes(c, p, f, o, l, m, n),
         p \in {"idle", "read", "sync", "redis", "error", "check", "legal", "free"},
         IsDir(f, SUBSET Addr), o \in Seq(IF p = "legal" THEN LegalOp ELSE Op),
         DOMAIN l \subseteq Addr, Range(l) \subseteq Addr \cup {NULL},
         m \subseteq Addr \X (Addr \cup {NULL}), n \in 0 .. TryTimes,
         n = 0 => p \in {"idle", "read", "free"},
         p \in {"idle", "read", "redis", "free"} => o = <<>>
  PROVE  Passes'
<1>1. PassOK(st'[c])
  BY Zenon DEF PassOK, Becomes
<1>2. \A d \in Ctrl : PassOK(st'[d])
  BY <1>1, Zenon DEF Passes, Becomes
<1> QED BY <1>2, Zenon DEF Passes, Becomes

LEMMA EmptyPass ==
  /\ IsDir(<<>>, SUBSET Addr) /\ \A T : <<>> \in Seq(T)
  /\ DOMAIN <<>> \subseteq Addr /\ Range(<<>>) \subseteq Addr \cup {NULL}
  /\ {} \subseteq Addr \X (Addr \cup {NULL}) /\ 0 \in 0 .. TryTimes
  BY RedisCtrlAssumption DEF RedisCtrlAssumption, IsDir, Range

LEMMA ResetKept ==
  ASSUME Passes, NEW c \in Ctrl, GiveUp(c) \/ st' = [st EXCEPT ![c] = NoPass]
  PROVE  Passes'
<1>1. PICK p \in {"idle", "free"} : Becomes(c, p, <<>>, <<>>, <<>>, {}, 0)
  BY ResetEffect
<1>2. PassOK(st'[c])
  BY <1>1, EmptyPass DEF PassOK, Becomes
<1> QED BY <1>1, <1>2, Zenon DEF Passes, Becomes

-----------------------------------------------------------------------------
(* What a write under error or check changes.                              *)

(* How many nodes there are for a below cluster k; for NULL, whether there *)
(* is one for k.                                                           *)
Has(d, k, a) == IF k \notin DOMAIN d THEN 0 ELSE IF a = NULL THEN 1 ELSE Occurs(d[k], a)

LEMMA HasType ==
  ASSUME NEW d, IsDir(d, Seq(Addr)), NEW k, NEW a
  PROVE  /\ Has(d, k, a) \in Nat
         /\ a # NULL => (Has(d, k, a) = 0 <=> a \notin Children(d, k))
<1>1. CASE k \notin DOMAIN d
  BY <1>1 DEF Has, Children
<1>2. CASE k \in DOMAIN d
  <2>1. d[k] \in Seq(Addr)
    BY <1>2 DEF IsDir
  <2>2. Occurs(d[k], a) \in Nat /\ (Occurs(d[k], a) = 0 <=> a \notin Range(d[k]))
    BY <2>1, PlacesFinite
  <2> QED BY <1>2, <2>2 DEF Has, Children
<1> QED BY <1>1, <1>2

LEMMA WrittenHas ==
  ASSUME NEW d, IsDir(d, Seq(Addr)), NEW o \in Op, CanWrite(d, o)
  PROVE  /\ IsDir(Written(d, o), Seq(Addr))
         /\ \A k \in Cluster, a \in {NULL} \cup Addr :
              Has(Written(d, o), k, a) = Has(d, k, a)
                + (IF o = Create(o.dir, k, a) THEN 1 ELSE 0)
                - (IF o = Delete(o.dir, k, a) THEN 1 ELSE 0)
<1> DEFINE w == Written(d, o)
<1>0. NULL \notin Addr
  BY RedisCtrlAssumption DEF RedisCtrlAssumption
<1>1. /\ o.k \in Cluster /\ o.a \in {NULL} \cup Addr /\ o.act \in {"create", "delete"}
      /\ \A k, a : /\ o = Create(o.dir, k, a) <=> o.act = "create" /\ o.k = k /\ o.a = a
                   /\ o = Delete(o.dir, k, a) <=> o.act = "delete" /\ o.k = k /\ o.a = a
  BY DEF Op, Create, Delete
<1>2. \A k \in DOMAIN d : k \in Cluster /\ d[k] \in Seq(Addr)
  BY DEF IsDir
<1>3. \A k, a : Has(d, k, a) \in Nat
  BY HasType
<1>4. CASE o.a = NULL /\ o.act = "create"
  <2>1. o.k \notin DOMAIN d /\ w = [j \in DOMAIN d \cup {o.k} |-> IF j = o.k THEN <<>> ELSE d[j]]
    BY <1>4 DEF CanWrite, Written
  <2> HIDE DEF w
  <2>2. IsDir(w, Seq(Addr))
    BY <1>1, <1>2, <2>1 DEF IsDir
  <2>3. ASSUME NEW k \in Cluster, NEW a \in {NULL} \cup Addr
        PROVE  Has(w, k, a) = Has(d, k, a) + (IF k = o.k /\ a = NULL THEN 1 ELSE 0)
    <3>1. CASE k = o.k
      <4>1. k \notin DOMAIN d /\ k \in DOMAIN w /\ w[k] = <<>>
        BY <2>1, <3>1
      <4>2. Has(d, k, a) = 0 /\ Has(w, k, a) = IF a = NULL THEN 1 ELSE 0
        BY <4>1, OccursFew DEF Has
      <4> QED BY <3>1, <4>2
    <3>2. CASE k # o.k
      <4>1. (k \in DOMAIN w <=> k \in DOMAIN d) /\ (k \in DOMAIN d => w[k] = d[k])
        BY <2>1, <3>2
      <4>2. Has(w, k, a) = Has(d, k, a)
        BY <4>1 DEF Has
      <4> QED BY <1>3, <3>2, <4>2
    <3> QED BY <3>1, <3>2
  <2> QED BY <1>1, <1>3, <1>4, <2>2, <2>3 DEF w
<1>5. CASE o.a = NULL /\ o.act = "delete"
  <2>1. o.k \in DOMAIN d /\ d[o.k] = <<>> /\ w = [j \in DOMAIN d \ {o.k} |-> d[j]]
    BY <1>5 DEF CanWrite, Written, Restrict
  <2> HIDE DEF w
  <2>2. IsDir(w, Seq(Addr))
    BY <1>2, <2>1 DEF IsDir
  <2>3. ASSUME NEW k \in Cluster, NEW a \in {NULL} \cup Addr
        PROVE  Has(w, k, a) = Has(d, k, a) - (IF k = o.k /\ a = NULL THEN 1 ELSE 0)
    <3>1. CASE k = o.k
      <4>1. k \in DOMAIN d /\ d[k] = <<>> /\ k \notin DOMAIN w
        BY <2>1, <3>1
      <4>2. Has(w, k, a) = 0 /\ Has(d, k, a) = IF a = NULL THEN 1 ELSE 0
        BY <4>1, OccursFew DEF Has
      <4> QED BY <3>1, <4>2
    <3>2. CASE k # o.k
      <4>1. (k \in DOMAIN w <=> k \in DOMAIN d) /\ (k \in DOMAIN d => w[k] = d[k])
        BY <2>1, <3>2
      <4>2. Has(w, k, a) = Has(d, k, a)
        BY <4>1 DEF Has
      <4> QED BY <1>3, <3>2, <4>2
    <3> QED BY <3>1, <3>2
  <2> QED BY <1>1, <1>3, <1>5, <2>2, <2>3 DEF w
<1>6. CASE o.a # NULL /\ o.act = "create"
  <2>1. o.a \in Addr /\ o.k \in DOMAIN d /\ w = [d EXCEPT ![o.k] = Append(@, o.a)]
    BY <1>1, <1>6 DEF CanWrite, Written
  <2>2. d[o.k] \in Seq(Addr) /\ Append(d[o.k], o.a) \in Seq(Addr)
    BY <1>2, <2>1, AppendProperties
  <2>3. \A a : Occurs(Append(d[o.k], o.a), a) = Occurs(d[o.k], a) + (IF a = o.a THEN 1 ELSE 0)
    BY <2>1, <2>2, OccursAppend
  <2> DEFINE s == Append(d[o.k], o.a)
  <2>4. DOMAIN w = DOMAIN d /\ w = [j \in DOMAIN d |-> w[j]]
        /\ \A j \in DOMAIN d : w[j] = IF j = o.k THEN s ELSE d[j]
    BY <2>1 DEF IsDir
  <2> HIDE DEF w, s
  <2>5. IsDir(w, Seq(Addr))
    BY <1>2, <2>2, <2>4 DEF IsDir, s
  <2>6. ASSUME NEW k \in Cluster, NEW a \in {NULL} \cup Addr
        PROVE  Has(w, k, a) = Has(d, k, a) + (IF k = o.k /\ a = o.a THEN 1 ELSE 0)
    <3>1. CASE k = o.k
      BY <1>3, <1>6, <2>1, <2>3, <2>4, <3>1 DEF Has, s
    <3>2. CASE k # o.k
      <4>1. (k \in DOMAIN w <=> k \in DOMAIN d) /\ (k \in DOMAIN d => w[k] = d[k])
        BY <2>4, <3>2
      <4>2. Has(w, k, a) = Has(d, k, a)
        BY <4>1 DEF Has
      <4> QED BY <1>3, <3>2, <4>2
    <3> QED BY <3>1, <3>2
  <2> QED BY <1>1, <1>3, <1>6, <2>5, <2>6 DEF w
<1>7. CASE o.a # NULL /\ o.act = "delete"
  <2>1. /\ o.a \in Addr /\ o.k \in DOMAIN d /\ o.a \in Range(d[o.k])
        /\ w = [d EXCEPT ![o.k] = RemoveNewest(@, o.a)]
    BY <1>1, <1>7 DEF CanWrite, Written, Children
  <2> DEFINE s == RemoveNewest(d[o.k], o.a)
  <2>2. d[o.k] \in Seq(Addr)
    BY <1>2, <2>1
  <2>3. s \in Seq(Addr) /\ \A a : Occurs(s, a) = Occurs(d[o.k], a) - (IF a = o.a THEN 1 ELSE 0)
    BY <2>1, <2>2, NewestRemoved
  <2>4. DOMAIN w = DOMAIN d /\ w = [j \in DOMAIN d |-> w[j]]
        /\ \A j \in DOMAIN d : w[j] = IF j = o.k THEN s ELSE d[j]
    BY <2>1 DEF IsDir
  <2> HIDE DEF w, s
  <2>5. IsDir(w, Seq(Addr))
    BY <1>2, <2>3, <2>4 DEF IsDir
  <2>6. ASSUME NEW k \in Cluster, NEW a \in {NULL} \cup Addr
        PROVE  Has(w, k, a) = Has(d, k, a) - (IF k = o.k /\ a = o.a THEN 1 ELSE 0)
    <3>1. CASE k = o.k
      BY <1>3, <1>7, <2>1, <2>3, <2>4, <3>1 DEF Has
    <3>2. CASE k # o.k
      <4>1. (k \in DOMAIN w <=> k \in DOMAIN d) /\ (k \in DOMAIN d => w[k] = d[k])
        BY <2>4, <3>2
      <4>2. Has(w, k, a) = Has(d, k, a)
        BY <4>1 DEF Has
      <4> QED BY <1>3, <3>2, <4>2
    <3> QED BY <3>1, <3>2
  <2> QED BY <1>1, <1>3, <1>7, <2>5, <2>6 DEF w
<1> QED BY <1>1, <1>4, <1>5, <1>6, <1>7

(* What there will be when the writes ops are done.                        *)
Due(d, dir, ops, k, a) ==
  Has(d, k, a) + Occurs(ops, Create(dir, k, a)) - Occurs(ops, Delete(dir, k, a))

(* A write that is done is no longer due.                                  *)
LEMMA DueWritten ==
  ASSUME NEW ops \in Seq(Op), ops # <<>>, NEW d, IsDir(d, Seq(Addr)),
         NEW dir \in {"error", "check"}, NEW k \in Cluster, NEW a \in {NULL} \cup Addr
  PROVE  /\ Head(ops).dir = dir /\ CanWrite(d, Head(ops)) =>
              Due(Written(d, Head(ops)), dir, Tail(ops), k, a) = Due(d, dir, ops, k, a)
         /\ Head(ops).dir # dir =>
              Due(d, dir, Tail(ops), k, a) = Due(d, dir, ops, k, a)
<1> DEFINE o == Head(ops)
           c == Create(dir, k, a)
           r == Delete(dir, k, a)
<1>1. /\ o \in Op /\ Tail(ops) \in Seq(Op)
      /\ \A x : Occurs(ops, x) = (IF x = o THEN 1 ELSE 0) + Occurs(Tail(ops), x)
  BY OccursHead
<1>2. Occurs(Tail(ops), c) \in Nat /\ Occurs(Tail(ops), r) \in Nat
  BY <1>1, PlacesFinite
<1>3. c.dir = dir /\ r.dir = dir
  BY OpFields
<1>4. Has(d, k, a) \in Nat
  BY HasType
<1> HIDE DEF o
<1>5. CASE o.dir = dir
  <2>1. CASE CanWrite(d, o)
    <3>1. Has(Written(d, o), k, a) =
            Has(d, k, a) + (IF o = c THEN 1 ELSE 0) - (IF o = r THEN 1 ELSE 0)
      BY <1>1, <1>5, <2>1, WrittenHas
    <3> HIDE DEF c, r
    <3>2. Has(Written(d, o), k, a) + Occurs(Tail(ops), c) - Occurs(Tail(ops), r) =
            Has(d, k, a) + Occurs(ops, c) - Occurs(ops, r)
      BY <1>1, <1>2, <1>4, <3>1
    <3> QED BY <1>5, <3>2 DEF Due, o, c, r
  <2> QED BY <1>5, <2>1 DEF o
<1>6. CASE o.dir # dir
  <2>1. o # c /\ o # r
    BY <1>3, <1>6
  <2> HIDE DEF c, r
  <2>2. Occurs(ops, c) = Occurs(Tail(ops), c) /\ Occurs(ops, r) = Occurs(Tail(ops), r)
    BY <1>1, <1>2, <2>1
  <2> QED BY <1>6, <2>2 DEF Due, o, c, r
<1> QED BY <1>5, <1>6

-----------------------------------------------------------------------------
(* Every step keeps the types.                                             *)

LEMMA WriteTypes ==
  ASSUME TypeInv, NEW c \in Ctrl, st[c].ops # <<>>, Possible(c), Apply(c)
  PROVE  Records'
<1> DEFINE o == Head(st[c].ops)
<1>1. PassOK(st[c])
  BY DEF TypeInv, Passes
<1>2. CASE st[c].pc = "legal"
  <2>1. o \in LegalOp
    BY <1>1, <1>2 DEF PassOK
  <2>2. /\ legal' = IF o.act = "create" THEN legal \cup {o.node} ELSE legal \ {o.node}
        /\ UNCHANGED <<error, check>>
    BY <1>2 DEF Apply, ApplyLegal
  <2>3. o.node \in Legal
    BY <2>1 DEF LegalOp
  <2>4. IsFiniteSet(legal')
    BY <2>2, FS_AddElement, FS_RemoveElement DEF TypeInv, Records
  <2> QED BY <2>2, <2>3, <2>4 DEF TypeInv, Records, IsDir
<1>3. CASE st[c].pc # "legal"
  <2>1. o \in Op
    BY <1>1, <1>3 DEF PassOK
  <2>2. o.dir \in {"error", "check"} /\ CanWrite(IF o.dir = "error" THEN error ELSE check, o)
    BY <1>3, <2>1 DEF Possible, Op
  <2>3. /\ error' = IF o.dir = "error" THEN Written(error, o) ELSE error
        /\ check' = IF o.dir = "error" THEN check ELSE Written(check, o)
        /\ UNCHANGED legal
    BY <1>3 DEF Apply, ApplyRecord
  <2> HIDE DEF o
  <2>4. IsDir(error', Seq(Addr)) /\ IsDir(check', Seq(Addr))
    BY <2>1, <2>2, <2>3, WrittenHas DEF TypeInv, Records
  <2> QED BY <2>3, <2>4 DEF TypeInv, Records
<1> QED BY <1>2, <1>3

LEMMA WritePass ==
  ASSUME Passes, NEW c \in Ctrl, st[c].ops # <<>>, st' = [st EXCEPT ![c].ops = Tail(@)]
  PROVE  Passes'
<1>1. PassOK(st[c])
  BY DEF Passes
<1>2. Becomes(c, st[c].pc, st[c].cfgs, Tail(st[c].ops), st[c].live, st[c].cmds, st[c].tries)
  BY WriteEffect
<1> DEFINE T == IF st[c].pc = "legal" THEN LegalOp ELSE Op
<1>3. st[c].ops \in Seq(T)
  BY <1>1 DEF PassOK
<1> HIDE DEF T
<1>4. Tail(st[c].ops) \in Seq(T)
  BY <1>3, HeadTailProperties
<1>5. PassOK(st'[c])
  BY <1>1, <1>2, <1>4 DEF PassOK, Becomes, T
<1> QED BY <1>2, <1>5, Zenon DEF Passes, Becomes

LEMMA ReadPass ==
  ASSUME TypeInv, NEW c \in Ctrl, Read(c)
  PROVE  Passes'
<1>1. CASE GiveUp(c)
  BY <1>1, ResetKept DEF TypeInv
<1>2. CASE ~ GiveUp(c)
  <2> DEFINE o == Sync(config)
  <2>1. st' = [st EXCEPT ![c].pc = "sync", ![c].cfgs = config, ![c].ops = o,
                         ![c].tries = TryTimes]
    BY <1>2 DEF Read
  <2>2. o \in Seq(Op)
    BY SyncCounts DEF TypeInv, Records, Around
  <2> HIDE DEF o
  <2>3. Becomes(c, "sync", config, o, st[c].live, st[c].cmds, TryTimes)
    BY <2>1, ReadEffect DEF TypeInv
  <2>4. PassOK(st'[c])
    BY <2>2, <2>3, RedisCtrlAssumption
       DEF RedisCtrlAssumption, PassOK, Becomes, TypeInv, Passes, Around
  <2> QED BY <2>3, <2>4, Zenon DEF TypeInv, Passes, Becomes
<1> QED BY <1>1, <1>2

(* A round of check_redis, without the answers of events.                  *)
Round(c, p, l, n) ==
  /\ p \in {"sync", "redis"} /\ n \in 1 .. TryTimes
  /\ Becomes(c, p, st[c].cfgs, <<>>, l, st[c].cmds, n)
  /\ DOMAIN st[c].live \subseteq DOMAIN l
  /\ DOMAIN l \subseteq Addr /\ Range(l) \subseteq Addr \cup {NULL}

LEMMA CheckRedisEffect ==
  ASSUME TypeInv, NEW c \in Ctrl, CheckRedis(c)
  PROVE  \E p, l, n : Round(c, p, l, n)
<1> DEFINE asked == (UNION Range(st[c].cfgs)) \ DOMAIN st[c].live
           l(A) == [a \in DOMAIN st[c].live \cup A |->
                     IF a \in A THEN slaveof[a] ELSE st[c].live[a]]
           n(A) == IF A = asked \/ st[c].tries = 1 THEN TryTimes ELSE st[c].tries - 1
           p(A) == IF A = asked \/ st[c].tries = 1 THEN "redis" ELSE "sync"
<1>1. PICK A \in SUBSET asked :
        st' = [st EXCEPT ![c].live = l(A), ![c].tries = n(A), ![c].pc = p(A)]
  BY Zenon DEF CheckRedis
<1>2. st[c].pc = "sync" /\ st[c].ops = <<>> /\ PassOK(st[c])
  BY DEF CheckRedis, At, TypeInv, Passes
<1>3. p(A) \in {"sync", "redis"}
  OBVIOUS
<1>4. n(A) \in 1 .. TryTimes
  BY <1>2, RedisCtrlAssumption DEF RedisCtrlAssumption, PassOK
<1>5. asked \in SUBSET Addr
  BY <1>2 DEF PassOK, IsDir, Range
<1>6. /\ DOMAIN l(A) = DOMAIN st[c].live \cup A
      /\ \A a \in DOMAIN l(A) : l(A)[a] = IF a \in A THEN slaveof[a] ELSE st[c].live[a]
  OBVIOUS
<1> HIDE DEF l, n, p, asked
<1>7. DOMAIN l(A) \subseteq Addr /\ Range(l(A)) \subseteq Addr \cup {NULL}
  BY <1>2, <1>5, <1>6 DEF PassOK, Range, TypeInv, Around
<1>8. Becomes(c, p(A), st[c].cfgs, <<>>, l(A), st[c].cmds, n(A))
  BY <1>1, <1>2, AskEffect DEF TypeInv
<1>9. DOMAIN st[c].live \subseteq DOMAIN l(A)
  BY <1>6
<1>10. Round(c, p(A), l(A), n(A))
  BY <1>3, <1>4, <1>7, <1>8, <1>9, Zenon DEF Round
<1> QED BY <1>10, Zenon

LEMMA CheckRedisPass ==
  ASSUME TypeInv, NEW c \in Ctrl, CheckRedis(c)
  PROVE  Passes'
<1>1. PICK p, l, n : Round(c, p, l, n)
  BY CheckRedisEffect
<1>2. PassOK(st[c])
  BY DEF TypeInv, Passes
<1>3. PassOK(st'[c])
  BY <1>1, <1>2, RedisCtrlAssumption, EmptyPass
     DEF RedisCtrlAssumption, PassOK, Becomes, Round
<1> QED BY <1>1, <1>3, Zenon DEF TypeInv, Passes, Becomes, Round

LEMMA PlanPass ==
  ASSUME TypeInv, NEW c \in Ctrl, CheckError(c) \/ CheckCheck(c)
  PROVE  Passes'
<1>1. CASE GiveUp(c)
  BY <1>1, ResetKept DEF TypeInv
<1>2. CASE ~ GiveUp(c)
  <2>1. PICK p \in {"error", "check"}, o \in Seq(Op) : Plan(c, p, o) /\ st[c].pc \in {"redis", "error"}
    <3>1. CASE CheckError(c)
      <4>1. Plan(c, "error", CheckErrorOps(st[c].live)) /\ st[c].pc = "redis"
        BY <1>2, <3>1 DEF CheckError, At
      <4>2. CheckErrorOps(st[c].live) \in Seq(Op)
        BY CheckErrorCounts DEF TypeInv, Records
      <4> QED BY <4>1, <4>2
    <3>2. CASE CheckCheck(c)
      <4>1. Plan(c, "check", CheckCheckOps(st[c].live)) /\ st[c].pc = "error"
        BY <1>2, <3>2 DEF CheckCheck, At
      <4>2. CheckCheckOps(st[c].live) \in Seq(Op)
        BY CheckCheckCounts DEF TypeInv, Records
      <4> QED BY <4>1, <4>2
    <3> QED BY <3>1, <3>2
  <2>2. Becomes(c, p, st[c].cfgs, o, st[c].live, st[c].cmds, st[c].tries)
    BY <2>1, PlanEffect DEF TypeInv
  <2>3. PassOK(st[c])
    BY DEF TypeInv, Passes
  <2>4. PassOK(st'[c])
    BY <2>1, <2>2, <2>3 DEF PassOK, Becomes
  <2> QED BY <2>2, <2>4, Zenon DEF TypeInv, Passes, Becomes
<1> QED BY <1>1, <1>2

(* What gen_legal_redis decides to publish and to send.                    *)
LEMMA LegalOfType ==
  ASSUME Records, NEW live, ~ GenFails(live), NEW k \in DOMAIN check
  PROVE  /\ LegalOf(k) \in Legal /\ LegalOf(k).cls = k
         /\ IF check[k] # <<>>
            THEN LegalOf(k).rds = check[k]
            ELSE \E a \in Children(error, k) : LegalOf(k).rds = <<a>>
         /\ Children(error, k) \subseteq Addr /\ Range(check[k]) \subseteq Addr
<1>1. k \in Cluster /\ check[k] \in Seq(Addr) /\ Range(check[k]) \subseteq Addr
  BY RangeOfSeq DEF Records, IsDir
<1>2. Children(error, k) \subseteq Addr
  BY RangeOfSeq DEF Records, IsDir, Children
<1>3. LegalOf(k).cls = k
  BY DEF LegalOf
<1>4. CASE check[k] # <<>>
  <2>1. LegalOf(k) = [cls |-> k, rds |-> check[k]]
    BY <1>4 DEF LegalOf
  <2> QED BY <1>1, <1>2, <1>3, <1>4, <2>1 DEF Legal
<1>5. CASE check[k] = <<>>
  <2>1. Children(error, k) # {}
    BY <1>5 DEF GenFails
  <2>2. Min(Children(error, k)) \in Children(error, k)
    BY <1>2, <2>1, MinIsLeast, RedisCtrlAssumption DEF RedisCtrlAssumption
  <2> DEFINE a == Min(Children(error, k))
  <2>3. LegalOf(k) = [cls |-> k, rds |-> <<a>>]
    BY <1>5 DEF LegalOf
  <2> HIDE DEF a
  <2>4. a \in Addr /\ a \in Children(error, k)
    BY <1>2, <2>2 DEF a
  <2>5. <<a>> \in Seq(Addr)
    BY <2>4
  <2>6. LegalOf(k).rds = <<a>> /\ LegalOf(k) \in Legal
    BY <1>1, <2>3, <2>5 DEF Legal
  <2> QED BY <1>1, <1>2, <1>3, <1>5, <2>4, <2>6
<1> QED BY <1>4, <1>5

Target == {LegalOf(k) : k \in DOMAIN check}

LEMMA TargetType ==
  ASSUME Records, NEW live, ~ GenFails(live)
  PROVE  Target \subseteq Legal /\ IsFiniteSet(Target)
<1>1. IsFiniteSet(DOMAIN check)
  BY RedisCtrlAssumption, FS_Subset DEF RedisCtrlAssumption, Records, IsDir
<1> DEFINE f == [k \in DOMAIN check |-> LegalOf(k)]
<1>2. f \in Surjection(DOMAIN check, Target)
  BY DEF Surjection, Target
<1>3. IsFiniteSet(Target)
  BY <1>1, <1>2, FS_Surjection
<1>4. Target \subseteq Legal
  BY LegalOfType DEF Target
<1> QED BY <1>3, <1>4

LEMMA SlaveofType ==
  ASSUME Records, NEW live, NEW k \in DOMAIN check
  PROVE  SlaveofCmds(k, live) \subseteq Addr \X (Addr \cup {NULL})
<1>1. check[k] \in Seq(Addr) /\ Range(check[k]) \subseteq Addr
  BY RangeOfSeq DEF Records, IsDir
<1> SUFFICES ASSUME NEW a \in Range(check[k])
             PROVE  <<a, IF a = check[k][1] THEN NULL ELSE check[k][1]>>
                      \in Addr \X (Addr \cup {NULL})
  BY DEF SlaveofCmds
<1>2. check[k] # <<>>
  BY DEF Range
<1>3. check[k][1] \in Addr
  <2>1. Len(check[k]) \in Nat \ {0}
    BY <1>1, <1>2, EmptySeq
  <2>2. 1 \in 1 .. Len(check[k])
    BY <2>1
  <2> QED BY <1>1, <2>2, ElementOfSeq
<1> QED BY <1>1, <1>3

LEMMA LegalCmpType ==
  ASSUME NEW target, target \subseteq Legal, IsFiniteSet(target),
         legal \subseteq Legal, IsFiniteSet(legal)
  PROVE  LegalCmp(target) \in Seq(LegalOp)
<1> DEFINE old == SetToSeq(legal \ target)
           new == SetToSeq(target \ legal)
<1>1. IsFiniteSet(legal \ target) /\ IsFiniteSet(target \ legal)
  BY FS_Subset
<1>2. old \in Seq(legal \ target) /\ DOMAIN old = 1 .. Len(old) /\ Len(old) \in Nat
  BY <1>1, ListOfSet
<1>3. new \in Seq(target \ legal) /\ DOMAIN new = 1 .. Len(new) /\ Len(new) \in Nat
  BY <1>1, ListOfSet
<1>4. /\ Outdated(target) = [i \in DOMAIN old |-> Withdraw(old[i])]
      /\ Missing(target) = [i \in DOMAIN new |-> Publish(new[i])]
  BY DEF Outdated, Missing
<1> HIDE DEF old, new
<1>5. \A l \in Legal : Withdraw(l) \in LegalOp /\ Publish(l) \in LegalOp
  BY DEF Withdraw, Publish, LegalOp
<1>6. /\ \A i \in DOMAIN old : Withdraw(old[i]) \in LegalOp
      /\ \A i \in DOMAIN new : Publish(new[i]) \in LegalOp
  BY <1>2, <1>3, <1>5
<1>7. Outdated(target) \in Seq(LegalOp) /\ Missing(target) \in Seq(LegalOp)
  BY <1>2, <1>3, <1>4, <1>6
<1>8. Outdated(target) \o Missing(target) \in Seq(LegalOp)
  BY <1>7, ConcatProperties
<1> QED BY <1>8 DEF LegalCmp

LEMMA GenLegalPass ==
  ASSUME TypeInv, NEW c \in Ctrl, GenLegal(c)
  PROVE  Passes'
<1>1. CASE GiveUp(c)
  BY <1>1, ResetKept DEF TypeInv
<1>2. CASE ~ GiveUp(c)
  <2> DEFINE o == LegalCmp(Target)
             m == UNION {SlaveofCmds(k, st[c].live) : k \in DOMAIN check}
  <2>1. /\ st' = [st EXCEPT ![c].pc = "legal", ![c].ops = o, ![c].cmds = m]
        /\ ~ GenFails(st[c].live) /\ st[c].pc = "check"
    BY <1>2 DEF GenLegal, At, Target
  <2>2. o \in Seq(LegalOp)
    BY <2>1, TargetType, LegalCmpType DEF TypeInv, Records
  <2>3. m \subseteq Addr \X (Addr \cup {NULL})
    BY SlaveofType DEF TypeInv
  <2> HIDE DEF o, m
  <2>4. Becomes(c, "legal", st[c].cfgs, o, st[c].live, m, st[c].tries)
    BY <2>1, GenEffect DEF TypeInv
  <2>5. PassOK(st[c])
    BY DEF TypeInv, Passes
  <2>6. PassOK(st'[c])
    BY <2>1, <2>2, <2>3, <2>4, <2>5 DEF PassOK, Becomes
  <2> QED BY <2>4, <2>6, Zenon DEF TypeInv, Passes, Becomes
<1> QED BY <1>1, <1>2

LEMMA DoSlaveofPass ==
  ASSUME TypeInv, NEW c \in Ctrl, DoSlaveof(c)
  PROVE  Passes' /\ slaveof' \in [Addr -> Addr \cup {NULL}]
<1>1. PassOK(st[c]) /\ st[c].pc = "legal" /\ st[c].ops = <<>>
  BY DEF TypeInv, Passes, DoSlaveof, At
<1>2. Passes'
  <2>1. CASE GiveUp(c)
    BY <2>1, ResetKept DEF TypeInv
  <2>2. CASE ~ GiveUp(c)
    <3> DEFINE m(ok) == st[c].cmds \ ok
               n == st[c].tries - 1
    <3>1. PICK ok : st' = [st EXCEPT ![c].cmds = m(ok), ![c].tries = n] /\ st[c].tries # 1
      BY <2>2, Zenon DEF DoSlaveof
    <3>2. m(ok) \subseteq Addr \X (Addr \cup {NULL})
      BY <1>1 DEF PassOK
    <3>3. n \in 1 .. TryTimes
      BY <1>1, <3>1, RedisCtrlAssumption DEF RedisCtrlAssumption, PassOK
    <3> HIDE DEF m, n
    <3>4. Becomes(c, st[c].pc, st[c].cfgs, st[c].ops, st[c].live, m(ok), n)
      BY <3>1, SendEffect DEF TypeInv
    <3>5. PassOK(st'[c])
      BY <1>1, <3>2, <3>3, <3>4, RedisCtrlAssumption DEF RedisCtrlAssumption, PassOK, Becomes
    <3> QED BY <3>4, <3>5, Zenon DEF TypeInv, Passes, Becomes
  <2> QED BY <2>1, <2>2
<1>3. slaveof' \in [Addr -> Addr \cup {NULL}]
  <2>1. PICK done : /\ done \subseteq st[c].cmds
                    /\ slaveof' = [b \in Addr |-> IF \E m \in done : m[1] = b
                                                  THEN (CHOOSE m \in done : m[1] = b)[2]
                                                  ELSE slaveof[b]]
    BY Zenon DEF DoSlaveof
  <2>2. \A b \in Addr : (\E m \in done : m[1] = b) =>
          (CHOOSE m \in done : m[1] = b)[2] \in Addr \cup {NULL}
    <3> TAKE b \in Addr
    <3> HAVE \E m \in done : m[1] = b
    <3>1. (CHOOSE m \in done : m[1] = b) \in done
      BY Zenon
    <3> DEFINE x == CHOOSE m \in done : m[1] = b
    <3> HIDE DEF x
    <3>2. x \in Addr \X (Addr \cup {NULL})
      BY <1>1, <2>1, <3>1 DEF PassOK, x
    <3>3. x[2] \in Addr \cup {NULL}
      BY <3>2
    <3> QED BY <3>3 DEF x
  <2> QED BY <2>1, <2>2 DEF TypeInv, Around
<1> QED BY <1>2, <1>3

LEMMA EventType ==
  ASSUME Around, NEW e, Event(e) \/ UNCHANGED events
  PROVE  events' \in 0 .. MaxEvents
  BY RedisCtrlAssumption DEF RedisCtrlAssumption, Around, Event

(* The operator's changes.                                                 *)
LEMMA ConfigType ==
  ASSUME TypeInv, Configure
  PROVE  IsDir(config', SUBSET Addr)
<1>1. IsDir(config, SUBSET Addr)
  BY DEF TypeInv, Around
<1>2. CASE \E k \in Cluster \ DOMAIN config :
             config' = [j \in DOMAIN config \cup {k} |-> Servers(config, j)]
  BY <1>1, <1>2 DEF IsDir, Servers
<1>3. CASE \E k \in DOMAIN config : config' = Restrict(config, DOMAIN config \ {k})
  BY <1>1, <1>3 DEF IsDir, Restrict
<1>4. CASE \E k \in DOMAIN config, a \in Addr :
             config' = [config EXCEPT ![k] = IF a \in @ THEN @ \ {a} ELSE @ \cup {a}]
  <2>1. PICK k \in DOMAIN config, a \in Addr :
          config' = [config EXCEPT ![k] = IF a \in @ THEN @ \ {a} ELSE @ \cup {a}]
    BY <1>4
  <2> DEFINE s == IF a \in config[k] THEN config[k] \ {a} ELSE config[k] \cup {a}
  <2>2. config' = [config EXCEPT ![k] = s]
    BY <2>1
  <2>3. s \in SUBSET Addr
    BY <1>1, <2>1 DEF IsDir
  <2> HIDE DEF s
  <2> QED BY <1>1, <2>2, <2>3 DEF IsDir
<1> QED BY <1>2, <1>3, <1>4 DEF Configure

(* One step of check.                                                      *)
LEMMA StepTypes ==
  ASSUME TypeInv, NEW c \in Ctrl, Step(c)
  PROVE  TypeInv'
<1>1. CASE GetLock(c)
  <2>1. Becomes(c, "read", st[c].cfgs, st[c].ops, st[c].live, st[c].cmds, st[c].tries)
    BY <1>1, GotoEffect DEF TypeInv, GetLock
  <2>2. PassOK(st[c]) /\ st[c].pc = "idle"
    BY <1>1 DEF TypeInv, Passes, GetLock
  <2>3. PassOK(st'[c])
    BY <2>1, <2>2 DEF PassOK, Becomes
  <2>4. Passes'
    BY <2>1, <2>3, Zenon DEF TypeInv, Passes, Becomes
  <2> QED BY <1>1, <2>4 DEF GetLock, TypeInv, Records, Around
<1>2. CASE Read(c)
  <2>1. Passes'
    BY <1>2, ReadPass
  <2> QED BY <1>2, <2>1 DEF Read, TypeInv, Records, Around
<1>3. CASE Write(c)
  <2>1. Around'
    BY <1>3 DEF Write, TypeInv, Around
  <2>2. CASE sess[c] /\ Possible(c)
    <3>1. Apply(c) /\ st[c].ops # <<>> /\ st' = [st EXCEPT ![c].ops = Tail(@)]
      BY <1>3, <2>2 DEF Write
    <3> QED BY <2>1, <2>2, <3>1, WriteTypes, WritePass DEF TypeInv
  <2>3. CASE ~ (sess[c] /\ Possible(c))
    <3>1. GiveUp(c) /\ UNCHANGED <<error, check, legal>>
      BY <1>3, <2>3 DEF Write
    <3>2. Passes'
      BY <3>1, ResetKept DEF TypeInv
    <3> QED BY <2>1, <3>1, <3>2 DEF TypeInv, Records
  <2> QED BY <2>2, <2>3
<1>4. CASE CheckRedis(c)
  <2>1. Passes'
    BY <1>4, CheckRedisPass
  <2>2. /\ UNCHANGED <<lock, config, error, check, legal, up, slaveof, sess>>
        /\ Event("slow") \/ UNCHANGED events
    BY <1>4 DEF CheckRedis
  <2>3. events' \in 0 .. MaxEvents
    BY <2>2, EventType DEF TypeInv
  <2> QED BY <2>1, <2>2, <2>3 DEF TypeInv, Records, Around
<1>5. CASE CheckError(c)
  <2>1. Passes'
    BY <1>5, PlanPass
  <2> QED BY <1>5, <2>1 DEF CheckError, TypeInv, Records, Around
<1>6. CASE CheckCheck(c)
  <2>1. Passes'
    BY <1>6, PlanPass
  <2> QED BY <1>6, <2>1 DEF CheckCheck, TypeInv, Records, Around
<1>7. CASE GenLegal(c)
  <2>1. Passes'
    BY <1>7, GenLegalPass
  <2> QED BY <1>7, <2>1 DEF GenLegal, TypeInv, Records, Around
<1>8. CASE DoSlaveof(c)
  <2>1. Passes' /\ slaveof' \in [Addr -> Addr \cup {NULL}]
    BY <1>8, DoSlaveofPass
  <2>2. /\ UNCHANGED <<lock, config, error, check, legal, up, sess>>
        /\ Event("slow") \/ UNCHANGED events
    BY <1>8 DEF DoSlaveof
  <2>3. events' \in 0 .. MaxEvents
    BY <2>2, EventType DEF TypeInv
  <2> QED BY <2>1, <2>2, <2>3 DEF TypeInv, Records, Around
<1>9. CASE FreeLock(c)
  <2>1. Passes'
    BY <1>9, ResetKept DEF FreeLock, TypeInv
  <2>2. lock' \in Ctrl \cup {NULL, DEAD}
    BY <1>9 DEF FreeLock, TypeInv, Around
  <2>3. UNCHANGED <<config, error, check, legal, up, slaveof, sess, events>>
    BY <1>9 DEF FreeLock
  <2> QED BY <2>1, <2>2, <2>3 DEF TypeInv, Records, Around
<1> QED BY <1>1, <1>2, <1>3, <1>4, <1>5, <1>6, <1>7, <1>8, <1>9 DEF Step

(* What happens around it.                                                 *)
LEMMA FaultTypes ==
  ASSUME TypeInv, Fault \/ DeadSession
  PROVE  TypeInv'
<1>1. ASSUME NEW c \in Ctrl, LockLost(c)
      PROVE  TypeInv'
  <2>1. /\ UNCHANGED <<config, error, check, legal, up, slaveof, sess>> /\ Event("zk")
        /\ UNCHANGED st \/ st' = [st EXCEPT ![c] = NoPass]
        /\ lock' = c \/ UNCHANGED lock
    BY <1>1 DEF LockLost
  <2>2. Passes'
    <3>1. CASE UNCHANGED st
      BY <3>1 DEF TypeInv, Passes
    <3>2. CASE st' = [st EXCEPT ![c] = NoPass]
      BY <3>2, ResetKept DEF TypeInv
    <3> QED BY <2>1, <3>1, <3>2
  <2>3. events' \in 0 .. MaxEvents
    BY <2>1, EventType DEF TypeInv
  <2> QED BY <2>1, <2>2, <2>3 DEF TypeInv, Records, Around
<1>2. ASSUME NEW c \in Ctrl, CallLost(c)
      PROVE  TypeInv'
  <2>1. /\ UNCHANGED <<lock, config, up, slaveof, sess>> /\ Event("zk") /\ GiveUp(c)
    BY <1>2 DEF CallLost
  <2>2. Records'
    <3>1. CASE st[c].ops # <<>> /\ Possible(c) /\ Apply(c)
      BY <3>1, WriteTypes
    <3>2. CASE UNCHANGED <<error, check, legal>>
      BY <3>2 DEF TypeInv, Records
    <3> QED BY <1>2, <3>1, <3>2 DEF CallLost
  <2>3. Passes'
    BY <2>1, ResetKept DEF TypeInv
  <2>4. events' \in 0 .. MaxEvents
    BY <2>1, EventType DEF TypeInv
  <2> QED BY <2>1, <2>2, <2>3, <2>4 DEF TypeInv, Around
<1>3. ASSUME NEW c \in Ctrl, SessionExpires(c)
      PROVE  TypeInv'
  <2>1. events' \in 0 .. MaxEvents
    BY <1>3, EventType DEF TypeInv, SessionExpires
  <2> QED BY <1>3, <2>1 DEF SessionExpires, TypeInv, Passes, Records, Around
<1>4. ASSUME NEW c \in Ctrl, Restart(c)
      PROVE  TypeInv'
  <2>1. Passes'
    BY <1>4, ResetKept DEF TypeInv, Restart
  <2>2. events' \in 0 .. MaxEvents
    BY <1>4, EventType DEF TypeInv, Restart
  <2> QED BY <1>4, <2>1, <2>2 DEF Restart, TypeInv, Records, Around
<1>5. CASE DeadSession
  BY <1>5 DEF DeadSession, TypeInv, Passes, Records, Around
<1>6. CASE Configure
  <2>1. IsDir(config', SUBSET Addr)
    BY <1>6, ConfigType
  <2>2. events' \in 0 .. MaxEvents /\ UNCHANGED <<lock, error, check, legal, up, slaveof, sess, st>>
    BY <1>6, EventType DEF TypeInv, Configure
  <2> QED BY <2>1, <2>2 DEF TypeInv, Passes, Records, Around
<1>7. ASSUME NEW a \in Addr, Redis(a)
      PROVE  TypeInv'
  <2>1. events' \in 0 .. MaxEvents
    BY <1>7, EventType DEF TypeInv, Redis
  <2> QED BY <1>7, <2>1 DEF Redis, TypeInv, Passes, Records, Around
<1> QED BY <1>1, <1>2, <1>3, <1>4, <1>5, <1>6, <1>7 DEF Fault

LEMMA TypeStep ==
  ASSUME TypeInv, [Next]_vars
  PROVE  TypeInv'
<1>1. CASE UNCHANGED vars
  BY <1>1 DEF vars, TypeInv, Passes, Records, Around
<1> QED BY <1>1, StepTypes, FaultTypes DEF Next

LEMMA TypeInit ==
  ASSUME Init
  PROVE  TypeInv
<1>1. PassOK(NoPass)
  BY EmptyPass DEF PassOK, NoPass, Fields
<1>2. Passes
  BY <1>1 DEF Init, Passes
<1>3. IsDir(<<>>, Seq(Addr)) /\ IsFiniteSet({})
  BY FS_EmptySet DEF IsDir
<1> QED
  BY <1>2, <1>3, RedisCtrlAssumption DEF RedisCtrlAssumption, Init, TypeInv, Records, Around

(* The state of the controllers, the records in ZooKeeper and what is      *)
(* around them have their types, however many of each there are: the       *)
(* writes a pass has decided on are writes of its phase (src/RedisCtrl.cpp *)
(* builds them from what it has read), and no round of check_redis or      *)
(* do_slaveof_cmd begins without a try left.                               *)
THEOREM TypeCorrect == Spec => []TypeOK
<1>1. Init => TypeInv
  BY TypeInit
<1>2. TypeInv /\ [Next]_vars => TypeInv'
  BY TypeStep
<1>3. TypeInv => TypeOK
  BY DEF TypeInv, TypeOK, Passes, PassOK, Records, Around
<1> QED
  BY <1>1, <1>2, <1>3, PTL DEF Spec
================================================================================
