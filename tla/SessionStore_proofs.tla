------------------------- MODULE SessionStore_proofs --------------------------
(***************************************************************************)
(* The invariants of the session store, for any number of users,           *)
(* connections, gates, logic servers and masters, any times to live and    *)
(* any delays.  Indexed and ToldOnce are inductive next to the types.      *)
(* SweptOnlyAway is not: that a gate the client has left cannot have it    *)
(* swept rests on the field GATE, which must be the gate the client is     *)
(* with, or '' when it is away.  SweptInv says so.                         *)
(***************************************************************************)
EXTENDS SessionStore, FiniteSetTheorems, TLAPS

(* The kinds of steps, for one proof step each.                            *)
LEMMA NextCases ==
  ASSUME Next
  PROVE  \/ \E u \in User, c \in Conn, g \in Gate, ct \in CliType : Touch(u, c, g, ct)
         \/ \E k \in Key, g \in Gate, d \in Nat : FinDelay(k, g, d)
         \/ \E l \in Logic, k \in Key, heard \in BOOLEAN : Fin(l, k, heard)
         \/ \E l \in Logic : OfflineNotify(l) \/ TimeoutRm(l) \/ NotifyMulti(l)
         \/ \E l \in Logic, r \in Redis : \E K \in SUBSET Key :
              (K \subseteq Due(r) /\ SweepAt(l, r, K)) \/ LateSweep(l, r, K)
         \/ Tick
<1>1. CASE FromSublayer
  <2>1. PICK u \in User, c \in Conn :
          \/ \E g \in Gate, ct \in CliType : Syn(u, c, g, ct) \/ Upidx(u, c, g, ct)
          \/ \E g \in Gate : FinDelayed(u, c, g)
          \/ \E l \in Logic, heard \in BOOLEAN : Fin(l, <<u, c>>, heard)
    BY <1>1 DEF FromSublayer
  <2>2. <<u, c>> \in Key /\ 0 .. MaxDelay \subseteq Nat
    BY SessionStoreAssumption DEF Key
  <2> QED
    BY <2>1, <2>2 DEF Syn, Upidx, FinDelayed
<1>2. ASSUME NEW l \in Logic, CheckTimeout(l)
      PROVE  \/ TimeoutRm(l) \/ NotifyMulti(l)
             \/ \E r \in Redis : \E K \in SUBSET Key :
                  (K \subseteq Due(r) /\ SweepAt(l, r, K)) \/ LateSweep(l, r, K)
  BY <1>2, Zenon DEF CheckTimeout, Due
<1> QED
  BY <1>1, <1>2 DEF Next

(* Stuttering.                                                             *)
LEMMA Stutter ==
  ASSUME UNCHANGED vars
  PROVE  /\ UNCHANGED <<idx, uttl, ttl, gate, dly, at, fin, sweep, late, born, told>>
         /\ UNCHANGED store
  BY DEF vars, store

-----------------------------------------------------------------------------
(* Types.                                                                  *)

StoreType ==
  /\ idx \in [User -> SUBSET Conn]
  /\ uttl \in [User -> Nat]
  /\ ttl \in [Key -> Nat]
  /\ gate \in [Key -> Gate \cup {NULL}]
  /\ dly \in [Key -> Nat \cup {NULL}]
  /\ at \in [Key -> Gate \cup {NULL}]

LEMMA RemoveType ==
  ASSUME StoreType, NEW K, Remove(K)
  PROVE  StoreType'
  BY DEF StoreType, Remove

LEMMA TouchType ==
  ASSUME TypeOK, NEW u \in User, NEW c \in Conn, NEW g \in Gate, NEW ct \in CliType,
         Touch(u, c, g, ct)
  PROVE  TypeOK'
<1> DEFINE k == <<u, c>>
           left == IF Purged(u) = {} THEN 0 ELSE uttl[u]
           new == IF Seconds(left) < Seconds(Ep[ct]) THEN Ep[ct] ELSE left
<1>1. k \in Key /\ Ep[ct] \in Nat /\ Purged(u) \subseteq Conn
  BY SessionStoreAssumption DEF Key, Purged, TypeOK
<1>2. new \in Nat
  BY <1>1 DEF TypeOK
<1>3. /\ idx' = [idx EXCEPT ![u] = Purged(u) \cup {c}]
      /\ born' = [born EXCEPT ![k] = IF c \in Purged(u) THEN @ ELSE @ + 1]
      /\ ttl' = [ttl EXCEPT ![k] = Ep[ct]]
      /\ uttl' = [uttl EXCEPT ![u] = new]
      /\ gate' = [gate EXCEPT ![k] = g]
      /\ dly' = [dly EXCEPT ![k] = NULL]
      /\ at' = [at EXCEPT ![k] = g]
      /\ UNCHANGED <<fin, sweep, late, told>>
  BY DEF Touch
<1> HIDE DEF k, new
<1> QED
  BY <1>1, <1>2, <1>3 DEF TypeOK

LEMMA TickType ==
  ASSUME TypeOK, Tick
  PROVE  TypeOK'
<1>0. ASSUME NEW n \in Nat, n # 0
      PROVE  n - 1 \in Nat
  BY <1>0
<1>1. ttl' \in [Key -> Nat] /\ uttl' \in [User -> Nat]
  <2>1. ASSUME NEW k \in Key
        PROVE  (IF ttl[k] = 0 THEN 0 ELSE ttl[k] - 1) \in Nat
    <3>1. ttl[k] \in Nat
      BY DEF TypeOK
    <3> QED
      BY <3>1
  <2>2. ASSUME NEW u \in User
        PROVE  (IF uttl[u] = 0 THEN 0 ELSE uttl[u] - 1) \in Nat
    <3>1. uttl[u] \in Nat
      BY DEF TypeOK
    <3> QED
      BY <3>1
  <2> QED
    BY <2>1, <2>2, Zenon DEF Tick
<1>2. dly' \in [Key -> Nat \cup {NULL}]
  <2>1. ASSUME NEW k \in Key
        PROVE  (IF dly[k] \in {NULL, 0} THEN dly[k] ELSE dly[k] - 1) \in Nat \cup {NULL}
    <3>1. dly[k] \in Nat \cup {NULL}
      BY DEF TypeOK
    <3> QED
      BY <1>0, <3>1
  <2> QED
    BY <2>1, Zenon DEF Tick
<1> QED
  BY <1>1, <1>2 DEF TypeOK, Tick

LEMMA SweepType ==
  ASSUME TypeOK, NEW l \in Logic, NEW r \in Redis, NEW K \in SUBSET Key,
         SweepAt(l, r, K) \/ LateSweep(l, r, K)
  PROVE  TypeOK'
<1>1. StoreType'
  BY RemoveType DEF TypeOK, StoreType, SweepAt, LateSweep
<1>2. Ended(K) \subseteq Key
  BY DEF Ended
<1>3. sweep' \in [Logic -> [pc : {"sleep", "wait"}, todo : SUBSET Redis, rvs : SUBSET Key]]
  BY <1>2 DEF TypeOK, SweepAt, LateSweep
<1> QED
  BY <1>1, <1>3 DEF TypeOK, StoreType, SweepAt, LateSweep

LEMMA TypeStep ==
  ASSUME TypeOK, [Next]_vars
  PROVE  TypeOK'
<1>1. CASE UNCHANGED vars
  BY <1>1, Stutter DEF TypeOK
<1>2. ASSUME NEW k \in Key, NEW g \in Gate, NEW d \in Nat, FinDelay(k, g, d)
      PROVE  TypeOK'
  BY <1>2 DEF TypeOK, FinDelay
<1>3. ASSUME NEW l \in Logic, NEW k \in Key, NEW heard \in BOOLEAN, Fin(l, k, heard)
      PROVE  TypeOK'
  <2>1. StoreType'
    BY <1>3, RemoveType DEF TypeOK, StoreType, Fin
  <2>2. fin' \in [Logic -> Key \cup {NULL}]
    BY <1>3 DEF TypeOK, Fin
  <2> QED
    BY <1>3, <2>1, <2>2 DEF TypeOK, StoreType, Fin
<1>4. ASSUME NEW l \in Logic, OfflineNotify(l)
      PROVE  TypeOK'
  BY <1>4 DEF TypeOK, OfflineNotify, store
<1>5. ASSUME NEW l \in Logic, TimeoutRm(l)
      PROVE  TypeOK'
  BY <1>5 DEF TypeOK, TimeoutRm, store
<1>6. ASSUME NEW l \in Logic, NotifyMulti(l)
      PROVE  TypeOK'
  BY <1>6 DEF TypeOK, NotifyMulti, Asleep, store
<1> QED
  BY <1>1, <1>2, <1>3, <1>4, <1>5, <1>6, TouchType, TickType, SweepType, NextCases

(* The variables keep their types.                                         *)
THEOREM TypeCorrect == Spec => []TypeOK
<1>1. Init => TypeOK
  BY DEF Init, TypeOK, Asleep
<1> QED
  BY <1>1, TypeStep, PTL DEF Spec

-----------------------------------------------------------------------------
(* The index lists every session, and outlives it.                         *)

(* What TTL does not tell apart differs by less than a second.             *)
LEMMA SecondsOrder ==
  ASSUME NEW s \in Nat, NEW t \in Nat
  PROVE  IF Seconds(s) < Seconds(t) THEN s < t ELSE t <= s + 1
  BY DEF Seconds

LEMMA TouchIndexed ==
  ASSUME TypeOK, Indexed,
         NEW u \in User, NEW c \in Conn, NEW g \in Gate, NEW ct \in CliType,
         Touch(u, c, g, ct)
  PROVE  Indexed'
<1> DEFINE k == <<u, c>>
           left == IF Purged(u) = {} THEN 0 ELSE uttl[u]
           new == IF Seconds(left) < Seconds(Ep[ct]) THEN Ep[ct] ELSE left
<1>1. k \in Key /\ Ep[ct] \in Nat /\ left \in Nat
  BY SessionStoreAssumption DEF Key, TypeOK
<1>2. new \in Nat /\ left <= new /\ Ep[ct] <= new + 1
  <2> HIDE DEF left
  <2>1. IF Seconds(left) < Seconds(Ep[ct]) THEN left < Ep[ct] ELSE Ep[ct] <= left + 1
    BY <1>1, SecondsOrder
  <2> QED
    BY <1>1, <2>1
<1>3. /\ idx' = [idx EXCEPT ![u] = Purged(u) \cup {c}]
      /\ ttl' = [ttl EXCEPT ![k] = Ep[ct]]
      /\ uttl' = [uttl EXCEPT ![u] = new]
  BY DEF Touch
<1> SUFFICES ASSUME NEW j \in Key, ttl'[j] > 1
             PROVE  Listed(j)' /\ ttl'[j] <= uttl'[j[1]] + 1
  BY DEF Indexed
<1>4. j[1] \in User /\ j[2] \in Conn /\ j = <<j[1], j[2]>>
  BY DEF Key
<1>5. CASE j = k
  <2>1. c \in idx'[u] /\ ttl'[k] = Ep[ct] /\ uttl'[u] = new
    BY <1>1, <1>3 DEF TypeOK
  <2> QED
    BY <1>2, <1>5, <2>1 DEF Listed
<1>6. CASE j # k /\ j[1] = u
  <2>1. ttl[j] > 1 /\ ttl'[j] = ttl[j] /\ uttl'[u] = new
    BY <1>1, <1>3, <1>6 DEF TypeOK
  <2>2. Listed(j) /\ ttl[j] <= uttl[u] + 1
    BY <1>6, <2>1 DEF Indexed
  <2>3. j[2] \in Purged(u)
    BY <1>4, <1>6, <2>1, <2>2 DEF Purged, Exists, Listed, TypeOK
  <2>4. left = uttl[u]
    BY <2>3
  <2>5. j[2] \in idx'[j[1]]
    BY <1>3, <1>6, <2>3 DEF TypeOK
  <2>6. ttl[j] \in Nat /\ uttl[u] \in Nat
    BY DEF TypeOK
  <2> HIDE DEF left, new
  <2> QED
    BY <1>2, <1>6, <2>1, <2>2, <2>4, <2>5, <2>6 DEF Listed
<1>7. CASE j[1] # u
  <2>1. ttl'[j] = ttl[j] /\ uttl'[j[1]] = uttl[j[1]] /\ idx'[j[1]] = idx[j[1]]
    BY <1>3, <1>4, <1>7 DEF TypeOK
  <2> QED
    BY <2>1 DEF Indexed, Listed
<1> QED
  BY <1>5, <1>6, <1>7

LEMMA RemoveIndexed ==
  ASSUME TypeOK, Indexed, NEW K \in SUBSET Key, Remove(K)
  PROVE  Indexed'
<1> SUFFICES ASSUME NEW j \in Key, ttl'[j] > 1
             PROVE  Listed(j)' /\ ttl'[j] <= uttl'[j[1]] + 1
  BY DEF Indexed
<1>1. j[1] \in User /\ j[2] \in Conn /\ j = <<j[1], j[2]>>
  BY DEF Key
<1>2. j \notin K /\ ttl'[j] = ttl[j]
  BY DEF Remove
<1>3. Listed(j) /\ ttl[j] <= uttl[j[1]] + 1
  BY <1>2 DEF Indexed
<1>4. j[2] \in idx'[j[1]]
  BY <1>1, <1>2, <1>3 DEF Remove, Listed
<1>5. uttl'[j[1]] = uttl[j[1]]
  BY <1>1, <1>4 DEF Remove
<1> QED
  BY <1>2, <1>3, <1>4, <1>5 DEF Listed

LEMMA TickIndexed ==
  ASSUME TypeOK, Indexed, Tick
  PROVE  Indexed'
<1> SUFFICES ASSUME NEW j \in Key, ttl'[j] > 1
             PROVE  Listed(j)' /\ ttl'[j] <= uttl'[j[1]] + 1
  BY DEF Indexed
<1>1. j[1] \in User /\ ttl[j] \in Nat /\ uttl[j[1]] \in Nat
  BY DEF Key, TypeOK
<1>2. ttl[j] > 2 /\ ttl'[j] = ttl[j] - 1
  BY <1>1 DEF Tick
<1>3. Listed(j) /\ ttl[j] <= uttl[j[1]] + 1
  BY <1>1, <1>2 DEF Indexed
<1>4. uttl'[j[1]] = uttl[j[1]] - 1 /\ uttl'[j[1]] # 0
  BY <1>1, <1>2, <1>3 DEF Tick
<1>5. idx'[j[1]] = idx[j[1]]
  BY <1>1, <1>4 DEF Tick
<1> QED
  BY <1>1, <1>2, <1>3, <1>4, <1>5 DEF Listed

LEMMA IndexedStep ==
  ASSUME TypeOK, Indexed, [Next]_vars
  PROVE  Indexed'
<1>1. CASE UNCHANGED <<idx, uttl, ttl>>
  BY <1>1 DEF Indexed, Listed
<1>2. ASSUME NEW k \in Key, NEW g \in Gate, NEW d \in Nat, FinDelay(k, g, d)
      PROVE  UNCHANGED <<idx, uttl, ttl>>
  BY <1>2 DEF FinDelay
<1>3. ASSUME NEW l \in Logic, NEW k \in Key, NEW heard \in BOOLEAN, Fin(l, k, heard)
      PROVE  Indexed'
  <2>1. Remove({k}) /\ {k} \in SUBSET Key
    BY <1>3 DEF Fin
  <2> QED
    BY <2>1, RemoveIndexed
<1>4. ASSUME NEW l \in Logic, OfflineNotify(l) \/ TimeoutRm(l) \/ NotifyMulti(l)
      PROVE  UNCHANGED <<idx, uttl, ttl>>
  BY <1>4 DEF OfflineNotify, TimeoutRm, NotifyMulti, store
<1>5. ASSUME NEW l \in Logic, NEW r \in Redis, NEW K \in SUBSET Key,
             SweepAt(l, r, K) \/ LateSweep(l, r, K)
      PROVE  Indexed'
  BY <1>5, RemoveIndexed DEF SweepAt, LateSweep
<1> QED
  BY <1>1, <1>2, <1>3, <1>4, <1>5, TouchIndexed, TickIndexed, NextCases, Stutter

(* get_multi finds every session with more than half a second to live,     *)
(* whatever the times to live of the types of clients.                     *)
THEOREM IndexedCorrect == Spec => []Indexed
<1>1. Init => Indexed
  BY DEF Init, Indexed
<1> QED
  BY <1>1, IndexedStep, TypeCorrect, PTL DEF Spec

-----------------------------------------------------------------------------
(* Only sessions of clients that are away are swept.                       *)

(* The field GATE tells where the client is, and goes with the session.    *)
GateTells ==
  \A k \in Key : gate[k] = at[k] /\ (~ Exists(k) => at[k] = NULL)
SweptInv == GateTells /\ SweptOnlyAway

LEMMA RemoveSwept ==
  ASSUME TypeOK, SweptInv, NEW K, Remove(K)
  PROVE  SweptInv'
  BY DEF SweptInv, GateTells, SweptOnlyAway, Exists, Remove

LEMMA TouchSwept ==
  ASSUME TypeOK, SweptInv,
         NEW u \in User, NEW c \in Conn, NEW g \in Gate, NEW ct \in CliType,
         Touch(u, c, g, ct)
  PROVE  SweptInv'
<1> DEFINE k == <<u, c>>
<1>1. Ep[ct] \in Nat \ {0} /\ g # NULL
  BY SessionStoreAssumption
<1>2. /\ ttl' = [ttl EXCEPT ![k] = Ep[ct]]
      /\ gate' = [gate EXCEPT ![k] = g]
      /\ dly' = [dly EXCEPT ![k] = NULL]
      /\ at' = [at EXCEPT ![k] = g]
  BY DEF Touch
<1> HIDE DEF k
<1> QED
  BY <1>1, <1>2 DEF SweptInv, GateTells, SweptOnlyAway, Exists, TypeOK

LEMMA FinDelaySwept ==
  ASSUME TypeOK, SweptInv, NEW k \in Key, NEW g \in Gate, NEW d \in Nat, FinDelay(k, g, d)
  PROVE  SweptInv'
<1>1. g # NULL /\ d # NULL
  BY SessionStoreAssumption
<1>2. gate[k] = at[k]
  BY DEF SweptInv, GateTells
<1>3. CASE gate[k] = g
  <2>1. /\ dly' = [dly EXCEPT ![k] = d] /\ gate' = [gate EXCEPT ![k] = NULL]
        /\ at' = [at EXCEPT ![k] = NULL] /\ ttl' = ttl
    BY <1>2, <1>3 DEF FinDelay
  <2> QED
    BY <1>1, <2>1 DEF SweptInv, GateTells, SweptOnlyAway, Exists, TypeOK
<1>4. CASE gate[k] # g
  BY <1>2, <1>4 DEF FinDelay, SweptInv, GateTells, SweptOnlyAway, Exists
<1> QED
  BY <1>3, <1>4

LEMMA TickSwept ==
  ASSUME TypeOK, SweptInv, Tick
  PROVE  SweptInv'
<1> SUFFICES ASSUME NEW k \in Key
             PROVE  /\ gate'[k] = at'[k] /\ (ttl'[k] = 0 => at'[k] = NULL)
                    /\ ttl'[k] > 0 => (dly'[k] # NULL <=> at'[k] = NULL)
  <2>1. ttl' \in [Key -> Nat]
    BY TickType DEF TypeOK
  <2> QED
    BY <2>1 DEF SweptInv, GateTells, SweptOnlyAway, Exists
<1>1. ttl[k] \in Nat /\ dly[k] \in Nat \cup {NULL} /\ ttl'[k] \in Nat
  BY TickType DEF TypeOK
<1>2. gate'[k] = at'[k] /\ (ttl'[k] = 0 => at'[k] = NULL)
  BY DEF Tick, SweptInv, GateTells
<1>3. ASSUME ttl'[k] > 0
      PROVE  dly'[k] # NULL <=> at'[k] = NULL
  <2>1. ttl[k] > 0 /\ at'[k] = at[k]
    BY <1>1, <1>3 DEF Tick
  <2>2. dly[k] # NULL <=> at[k] = NULL
    BY <2>1 DEF SweptInv, SweptOnlyAway, Exists
  <2>3. dly'[k] = IF dly[k] \in {NULL, 0} THEN dly[k] ELSE dly[k] - 1
    BY DEF Tick
  <2>4. dly'[k] = NULL <=> dly[k] = NULL
    <3>1. CASE dly[k] \in {NULL, 0}
      BY <2>3, <3>1
    <3>2. CASE dly[k] \notin {NULL, 0}
      <4>1. dly'[k] \in Nat
        BY <1>1, <2>3, <3>2
      <4> QED
        BY <3>2, <4>1, SessionStoreAssumption
    <3> QED
      BY <3>1, <3>2
  <2> QED
    BY <2>1, <2>2, <2>4
<1> QED
  BY <1>2, <1>3

LEMMA SweptStep ==
  ASSUME TypeOK, SweptInv, [Next]_vars
  PROVE  SweptInv'
<1>1. CASE UNCHANGED <<ttl, gate, dly, at>>
  BY <1>1 DEF SweptInv, GateTells, SweptOnlyAway, Exists
<1>2. ASSUME NEW l \in Logic, OfflineNotify(l) \/ TimeoutRm(l) \/ NotifyMulti(l)
      PROVE  UNCHANGED <<ttl, gate, dly, at>>
  BY <1>2 DEF OfflineNotify, TimeoutRm, NotifyMulti, store
<1>3. ASSUME NEW l \in Logic, NEW k \in Key, NEW heard \in BOOLEAN, Fin(l, k, heard)
      PROVE  SweptInv'
  BY <1>3, RemoveSwept DEF Fin
<1>4. ASSUME NEW l \in Logic, NEW r \in Redis, NEW K \in SUBSET Key,
             SweepAt(l, r, K) \/ LateSweep(l, r, K)
      PROVE  SweptInv'
  BY <1>4, RemoveSwept DEF SweepAt, LateSweep
<1> QED
  BY <1>1, <1>2, <1>3, <1>4, TouchSwept, FinDelaySwept, TickSwept, NextCases, Stutter

(* Whatever gates report in whatever order, a session that the gate of its *)
(* client keeps alive is not put on the list of those to be swept.         *)
THEOREM SweptOnlyAwayCorrect == Spec => []SweptOnlyAway
<1>1. Init => SweptInv
  BY DEF Init, SweptInv, GateTells, SweptOnlyAway, Exists
<1>2. SweptInv => SweptOnlyAway
  BY DEF SweptInv
<1> QED
  BY <1>1, <1>2, SweptStep, TypeCorrect, PTL DEF Spec

-----------------------------------------------------------------------------
(* No end is told twice.                                                   *)

(* Who is about to tell the end of k, on either way.                       *)
FinOf(k) == {l \in Logic : fin[l] = k}
SweepOf(k) == {l \in Logic : k \in sweep[l].rvs}
One(k) == IF Listed(k) THEN 1 ELSE 0

(* ToldOnce for one session, with the sums as numbers.                     *)
ToldOf(k) == told[k] + (Cardinality(FinOf(k)) + Cardinality(SweepOf(k))) + One(k) <= born[k]

LEMMA ToldOnceOf == ToldOnce <=> \A k \in Key : ToldOf(k)
  BY DEF ToldOnce, ToldOf, Telling, FinOf, SweepOf, One

LEMMA Numbers ==
  ASSUME TypeOK, NEW k \in Key
  PROVE  /\ told[k] \in Nat /\ born[k] \in Nat /\ One(k) \in {0, 1}
         /\ IsFiniteSet(FinOf(k)) /\ Cardinality(FinOf(k)) \in Nat
         /\ IsFiniteSet(SweepOf(k)) /\ Cardinality(SweepOf(k)) \in Nat
<1>1. FinOf(k) \subseteq Logic /\ SweepOf(k) \subseteq Logic
  BY DEF FinOf, SweepOf
<1>2. IsFiniteSet(FinOf(k)) /\ IsFiniteSet(SweepOf(k))
  BY <1>1, SessionStoreAssumption, FS_Subset
<1> QED
  BY <1>2, FS_CardinalityType DEF TypeOK, One

(* What a step adds to the left side of ToldOf, it must add to the right.  *)
LEMMA Balance ==
  ASSUME TypeOK, TypeOK', ToldOnce, NEW k \in Key,
         told'[k] + (Cardinality(FinOf(k)') + Cardinality(SweepOf(k)')) + One(k)' - born'[k]
           <= told[k] + (Cardinality(FinOf(k)) + Cardinality(SweepOf(k))) + One(k) - born[k]
  PROVE  ToldOf(k)'
<1>1. ToldOf(k)
  BY ToldOnceOf
<1>2. /\ told[k] \in Nat /\ born[k] \in Nat /\ One(k) \in {0, 1}
      /\ Cardinality(FinOf(k)) \in Nat /\ Cardinality(SweepOf(k)) \in Nat
  BY Numbers
<1>3. /\ told'[k] \in Nat /\ born'[k] \in Nat /\ One(k)' \in {0, 1}
      /\ Cardinality(FinOf(k)') \in Nat /\ Cardinality(SweepOf(k)') \in Nat
  <2>1. FinOf(k)' \subseteq Logic /\ SweepOf(k)' \subseteq Logic
    BY DEF FinOf, SweepOf
  <2>2. IsFiniteSet(FinOf(k)') /\ IsFiniteSet(SweepOf(k)')
    BY <2>1, SessionStoreAssumption, FS_Subset
  <2> QED
    BY <2>2, FS_CardinalityType DEF TypeOK, One
<1> QED
  BY <1>1, <1>2, <1>3 DEF ToldOf

LEMMA ToldOnceAfter ==
  ASSUME \A k \in Key : ToldOf(k)'
  PROVE  ToldOnce'
  BY DEF ToldOnce, ToldOf, Telling, FinOf, SweepOf, One

(* A step that enlists no session and tells of none keeps ToldOnce.        *)
LEMMA QuietTold ==
  ASSUME TypeOK, TypeOK', ToldOnce, UNCHANGED <<told, born, fin, sweep>>,
         \A k \in Key : Listed(k)' => Listed(k)
  PROVE  ToldOnce'
<1> SUFFICES ASSUME NEW k \in Key
             PROVE  ToldOf(k)'
  BY ToldOnceAfter
<1>1. One(k)' <= One(k) /\ One(k)' \in {0, 1}
  BY DEF One
<1>2. FinOf(k)' = FinOf(k) /\ SweepOf(k)' = SweepOf(k)
  BY DEF FinOf, SweepOf
<1> QED
  BY <1>1, <1>2, Numbers, Balance

(* Remove strikes the sessions K from the index, and no others.            *)
LEMMA RemoveOne ==
  ASSUME NEW K, Remove(K), NEW k \in Key
  PROVE  One(k)' = IF k \in K THEN 0 ELSE One(k)
<1>1. k[1] \in User /\ k[2] \in Conn /\ k = <<k[1], k[2]>>
  BY DEF Key
<1>2. idx'[k[1]] = {c \in idx[k[1]] : <<k[1], c>> \notin K}
  BY <1>1 DEF Remove
<1> QED
  BY <1>1, <1>2 DEF One, Listed

LEMMA TouchTold ==
  ASSUME TypeOK, TypeOK', ToldOnce,
         NEW u \in User, NEW c \in Conn, NEW g \in Gate, NEW ct \in CliType,
         Touch(u, c, g, ct)
  PROVE  ToldOnce'
<1> SUFFICES ASSUME NEW k \in Key
             PROVE  ToldOf(k)'
  BY ToldOnceAfter
<1>1. /\ idx' = [idx EXCEPT ![u] = Purged(u) \cup {c}]
      /\ born' = [born EXCEPT ![<<u, c>>] = IF c \in Purged(u) THEN born[<<u, c>>]
                                           ELSE born[<<u, c>>] + 1]
      /\ UNCHANGED <<fin, sweep, told>>
  BY DEF Touch
<1>2. FinOf(k)' = FinOf(k) /\ SweepOf(k)' = SweepOf(k)
  BY <1>1 DEF FinOf, SweepOf
<1>3. k[1] \in User /\ k[2] \in Conn /\ k = <<k[1], k[2]>> /\ Purged(u) \subseteq idx[u]
  BY DEF Key, Purged
<1>4. born'[k] = IF k = <<u, c>> /\ c \notin Purged(u) THEN born[k] + 1 ELSE born[k]
  BY <1>1 DEF TypeOK
<1>5. One(k)' <= IF k = <<u, c>> /\ c \notin Purged(u) THEN 1 ELSE One(k)
  <2>1. CASE k[1] = u
    <3>1. idx'[k[1]] = Purged(u) \cup {c}
      BY <1>1, <2>1 DEF TypeOK
    <3> QED
      BY <1>3, <2>1, <3>1 DEF One, Listed
  <2>2. CASE k[1] # u
    <3>1. idx'[k[1]] = idx[k[1]]
      BY <1>1, <1>3, <2>2 DEF TypeOK
    <3> QED
      BY <1>3, <2>2, <3>1 DEF One, Listed
  <2> QED
    BY <2>1, <2>2
<1>6. One(k)' \in {0, 1}
  BY DEF One
<1> QED
  BY <1>1, <1>2, <1>4, <1>5, <1>6, Numbers, Balance

LEMMA FinTold ==
  ASSUME TypeOK, TypeOK', ToldOnce,
         NEW l \in Logic, NEW j \in Key, NEW heard \in BOOLEAN, Fin(l, j, heard)
  PROVE  ToldOnce'
<1> SUFFICES ASSUME NEW k \in Key
             PROVE  ToldOf(k)'
  BY ToldOnceAfter
<1>1. One(k)' = IF k = j THEN 0 ELSE One(k)
  BY RemoveOne DEF Fin
<1>2. SweepOf(k)' = SweepOf(k) /\ told' = told /\ born' = born
  BY DEF SweepOf, Fin
<1>3. fin[l] # k
  BY SessionStoreAssumption DEF Fin
<1>4. CASE k = j /\ heard /\ Listed(j)
  <2>1. fin' = [fin EXCEPT ![l] = j]
    BY <1>4 DEF Fin
  <2>2. FinOf(k)' = FinOf(k) \cup {l} /\ l \notin FinOf(k)
    BY <1>3, <1>4, <2>1 DEF FinOf, TypeOK
  <2>3. Cardinality(FinOf(k)') = Cardinality(FinOf(k)) + 1
    BY <2>2, Numbers, FS_AddElement
  <2>4. One(k) = 1
    BY <1>4 DEF One
  <2> QED
    BY <1>1, <1>2, <1>4, <2>3, <2>4, Numbers, Balance
<1>5. CASE ~ (k = j /\ heard /\ Listed(j))
  <2>1. FinOf(k)' = FinOf(k)
    <3>1. CASE fin' = fin
      BY <3>1 DEF FinOf
    <3>2. CASE fin' = [fin EXCEPT ![l] = j] /\ k # j
      BY <1>3, <3>2 DEF FinOf, TypeOK
    <3> QED
      BY <1>5, <3>1, <3>2 DEF Fin
  <2> QED
    BY <1>1, <1>2, <2>1, Numbers, Balance
<1> QED
  BY <1>4, <1>5

LEMMA OfflineNotifyTold ==
  ASSUME TypeOK, TypeOK', ToldOnce, NEW l \in Logic, OfflineNotify(l)
  PROVE  ToldOnce'
<1> SUFFICES ASSUME NEW k \in Key
             PROVE  ToldOf(k)'
  BY ToldOnceAfter
<1>1. /\ told' = [told EXCEPT ![fin[l]] = told[fin[l]] + 1]
      /\ fin' = [fin EXCEPT ![l] = NULL]
      /\ UNCHANGED <<idx, sweep, born>>
      /\ k # NULL
  BY SessionStoreAssumption DEF OfflineNotify, store
<1>2. SweepOf(k)' = SweepOf(k) /\ One(k)' = One(k)
  BY <1>1 DEF SweepOf, One, Listed
<1>3. CASE fin[l] = k
  <2>1. FinOf(k)' = FinOf(k) \ {l} /\ l \in FinOf(k) /\ told'[k] = told[k] + 1
    BY <1>1, <1>3 DEF FinOf, TypeOK
  <2>2. Cardinality(FinOf(k)') = Cardinality(FinOf(k)) - 1
    BY <2>1, Numbers, FS_RemoveElement
  <2>3. told'[k] + (Cardinality(FinOf(k)') + Cardinality(SweepOf(k)')) + One(k)' - born'[k]
          <= told[k] + (Cardinality(FinOf(k)) + Cardinality(SweepOf(k))) + One(k) - born[k]
    BY <1>1, <1>2, <2>1, <2>2, Numbers
  <2> QED
    BY <2>3, Balance
<1>4. CASE fin[l] # k
  <2>1. FinOf(k)' = FinOf(k) /\ told'[k] = told[k]
    BY <1>1, <1>4 DEF FinOf, TypeOK
  <2> QED
    BY <1>1, <1>2, <2>1, Numbers, Balance
<1> QED
  BY <1>3, <1>4

LEMMA TimeoutRmTold ==
  ASSUME TypeOK, TypeOK', ToldOnce, NEW l \in Logic, TimeoutRm(l)
  PROVE  ToldOnce'
<1> SUFFICES ASSUME NEW k \in Key
             PROVE  ToldOf(k)'
  BY ToldOnceAfter
<1>1. /\ UNCHANGED <<idx, fin, told, born>>
      /\ sweep' = [sweep EXCEPT ![l] = [pc |-> "wait", todo |-> Redis, rvs |-> {}]]
  BY DEF TimeoutRm, store
<1>2. FinOf(k)' = FinOf(k) /\ One(k)' = One(k)
  BY <1>1 DEF FinOf, One, Listed
<1>3. SweepOf(k)' \subseteq SweepOf(k)
  BY <1>1 DEF SweepOf, TypeOK
<1>4. Cardinality(SweepOf(k)') <= Cardinality(SweepOf(k)) /\ Cardinality(SweepOf(k)') \in Nat
  BY <1>3, Numbers, FS_Subset, FS_CardinalityType
<1> QED
  BY <1>1, <1>2, <1>4, Numbers, Balance

LEMMA NotifyMultiTold ==
  ASSUME TypeOK, TypeOK', ToldOnce, NEW l \in Logic, NotifyMulti(l)
  PROVE  ToldOnce'
<1> SUFFICES ASSUME NEW k \in Key
             PROVE  ToldOf(k)'
  BY ToldOnceAfter
<1>1. /\ UNCHANGED <<idx, fin, born>>
      /\ told' = [j \in Key |-> IF j \in sweep[l].rvs THEN told[j] + 1 ELSE told[j]]
      /\ sweep' = [sweep EXCEPT ![l] = Asleep]
  BY DEF NotifyMulti, store
<1>2. FinOf(k)' = FinOf(k) /\ One(k)' = One(k)
  BY <1>1 DEF FinOf, One, Listed
<1>3. SweepOf(k)' = SweepOf(k) \ {l}
  BY <1>1 DEF SweepOf, Asleep, TypeOK
<1>4. told'[k] = IF l \in SweepOf(k) THEN told[k] + 1 ELSE told[k]
  BY <1>1 DEF SweepOf
<1>5. Cardinality(SweepOf(k)') =
        IF l \in SweepOf(k) THEN Cardinality(SweepOf(k)) - 1 ELSE Cardinality(SweepOf(k))
  BY <1>3, Numbers, FS_RemoveElement
<1> QED
  BY <1>1, <1>2, <1>4, <1>5, Numbers, Balance

LEMMA SweepAtTold ==
  ASSUME TypeOK, TypeOK', ToldOnce,
         NEW l \in Logic, NEW r \in Redis, NEW K \in SUBSET Key, SweepAt(l, r, K)
  PROVE  ToldOnce'
<1> SUFFICES ASSUME NEW k \in Key
             PROVE  ToldOf(k)'
  BY ToldOnceAfter
<1>1. /\ UNCHANGED <<fin, told, born>>
      /\ sweep' = [sweep EXCEPT ![l] = [pc |-> "wait", todo |-> sweep[l].todo \ {r},
                                       rvs |-> sweep[l].rvs \cup Ended(K)]]
      /\ One(k)' = IF k \in K THEN 0 ELSE One(k)
  BY RemoveOne DEF SweepAt
<1>2. FinOf(k)' = FinOf(k)
  BY <1>1 DEF FinOf
<1>3. CASE k \in Ended(K)
  <2>1. SweepOf(k)' = SweepOf(k) \cup {l} /\ One(k) = 1 /\ One(k)' = 0
    BY <1>1, <1>3 DEF SweepOf, Ended, One, TypeOK
  <2>2. Cardinality(SweepOf(k)') =
          IF l \in SweepOf(k) THEN Cardinality(SweepOf(k)) ELSE Cardinality(SweepOf(k)) + 1
    BY <2>1, Numbers, FS_AddElement
  <2>3. told'[k] + (Cardinality(FinOf(k)') + Cardinality(SweepOf(k)')) + One(k)' - born'[k]
          <= told[k] + (Cardinality(FinOf(k)) + Cardinality(SweepOf(k))) + One(k) - born[k]
    BY <1>1, <1>2, <2>1, <2>2, Numbers
  <2> QED
    BY <2>3, Balance
<1>4. CASE k \notin Ended(K)
  <2>1. SweepOf(k)' = SweepOf(k)
    BY <1>1, <1>4 DEF SweepOf, TypeOK
  <2> QED
    BY <1>1, <1>2, <2>1, Numbers, Balance
<1> QED
  BY <1>3, <1>4

LEMMA ToldStep ==
  ASSUME TypeOK, ToldOnce, [Next]_vars
  PROVE  ToldOnce'
<1>1. TypeOK'
  BY TypeStep
<1>2. CASE UNCHANGED vars
  BY <1>1, <1>2, QuietTold, Stutter DEF Listed
<1>3. ASSUME NEW k \in Key, NEW g \in Gate, NEW d \in Nat, FinDelay(k, g, d)
      PROVE  ToldOnce'
  BY <1>1, <1>3, QuietTold DEF FinDelay, Listed
<1>4. ASSUME NEW l \in Logic, NEW r \in Redis, NEW K \in SUBSET Key, LateSweep(l, r, K)
      PROVE  ToldOnce'
  <2>1. UNCHANGED <<told, born, fin, sweep>> /\ Remove(K)
    BY <1>4 DEF LateSweep
  <2>2. ASSUME NEW k \in Key, Listed(k)'
        PROVE  Listed(k)
    BY <2>1, <2>2, RemoveOne DEF One
  <2> QED
    BY <1>1, <2>1, <2>2, QuietTold
<1>5. ASSUME Tick
      PROVE  ToldOnce'
  <2>1. UNCHANGED <<told, born, fin, sweep>>
    BY <1>5 DEF Tick
  <2>2. ASSUME NEW k \in Key, Listed(k)'
        PROVE  Listed(k)
    BY <1>5, <2>2 DEF Tick, Listed, Key
  <2> QED
    BY <1>1, <2>1, <2>2, QuietTold
<1> QED
  BY <1>1, <1>2, <1>3, <1>4, <1>5, TouchTold, FinTold, OfflineNotifyTold,
     TimeoutRmTold, NotifyMultiTold, SweepAtTold, NextCases

(* Any number of logic servers, handlers of FIN and sweeps, in time and    *)
(* late, tell the end of a session at most once.                           *)
THEOREM ToldOnceCorrect == Spec => []ToldOnce
<1>1. Init => ToldOnce
  <2> SUFFICES ASSUME Init, NEW k \in Key
               PROVE  ToldOf(k)
    BY ToldOnceOf
  <2>1. FinOf(k) = {} /\ SweepOf(k) = {} /\ One(k) = 0 /\ told[k] = 0 /\ born[k] = 0
    BY SessionStoreAssumption DEF Init, FinOf, SweepOf, One, Listed, Asleep, Key
  <2> QED
    BY <2>1, FS_EmptySet DEF ToldOf
<1> QED
  BY <1>1, ToldStep, TypeCorrect, PTL DEF Spec
================================================================================
