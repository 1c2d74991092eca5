---------------------------- MODULE RedisHash_proofs ---------------------------
(***************************************************************************)
(* For any number of clients, clusters, servers and users, and whatever is *)
(* written and fails: a client is never deaf, its view is one LegalView    *)
(* allows, clients that have read the same agree, and users stay with      *)
(* their masters.  The invariant is InOrder and FromLog with the types.    *)
(***************************************************************************)
EXTENDS RedisHash, FiniteSetTheorems, FunctionTheorems, TLAPS

USE RedisHashAssumption

-----------------------------------------------------------------------------
(* Lists and what is written.                                              *)

(* A list is a sequence of servers with a first one.                       *)
LEMMA ListIsSeq ==
  ASSUME NEW s \in Lists
  PROVE  s \in Seq(Addr) /\ Len(s) \in Nat \ {0} /\ s[1] \in Addr /\ s[1] \in Range(s)
<1>1. PICK n \in 1 .. Cardinality(Addr) : s \in [1 .. n -> Addr]
  BY DEF Lists
<1>2. n \in Nat \ {0}
  BY <1>1, FS_CardinalityType DEF RedisHashAssumption
<1>3. s \in Seq(Addr) /\ Len(s) = n /\ s[1] \in Addr
  BY <1>1, <1>2
<1>4. s[1] \in Range(s)
  BY <1>1, <1>2 DEF Range
<1> QED BY <1>2, <1>3, <1>4

(* A write keeps the nodes apart from each other.                          *)
LEMMA MayKeeps ==
  ASSUME NEW S \in SUBSET Node, NEW T \in May(S), Distinct(S)
  PROVE  T \in SUBSET Node /\ Distinct(T)
  BY DEF May, Distinct, Free

(* What nodes apart from each other are read as: one map only, from their  *)
(* clusters to their lists.                                                *)
LEMMA OneEnds ==
  ASSUME NEW S \in SUBSET Node, Distinct(S), NEW f \in V!Ends(S), NEW g \in V!Ends(S)
  PROVE  f = g
<1>1. DOMAIN f = DOMAIN g
  BY DEF V!Ends
<1>2. ASSUME NEW k \in DOMAIN f PROVE f[k] = g[k]
  <2> DEFINE m == [cls |-> k, rds |-> f[k]]
             n == [cls |-> k, rds |-> g[k]]
  <2>1. m \in S /\ n \in S
    BY <1>1, <1>2 DEF V!Ends
  <2>2. m.cls = n.cls /\ m.rds = f[k] /\ n.rds = g[k]
    OBVIOUS
  <2> HIDE DEF m, n
  <2>3. m = n
    BY <2>1, <2>2 DEF Distinct
  <2> QED BY <2>2, <2>3
<1>3. f = [k \in DOMAIN f |-> f[k]] /\ g = [k \in DOMAIN g |-> g[k]]
  BY DEF V!Ends
<1> QED BY <1>1, <1>2, <1>3

(* Such a map: finitely many clusters, no server in two lists.             *)
Map(f) ==
  /\ IsFiniteSet(DOMAIN f)
  /\ f \in [DOMAIN f -> Lists]
  /\ \A j, k \in DOMAIN f : j # k => Range(f[j]) \cap Range(f[k]) = {}

LEMMA EndsMap ==
  ASSUME NEW S \in SUBSET Node, Distinct(S), NEW f \in V!Ends(S)
  PROVE  Map(f)
<1>1. DOMAIN f = {l.cls : l \in S} /\ f \in [DOMAIN f -> {l.rds : l \in S}]
  BY DEF V!Ends
<1>2. DOMAIN f \subseteq Cluster /\ {l.rds : l \in S} \subseteq Lists
  BY <1>1 DEF Node
<1>3. IsFiniteSet(DOMAIN f)
  BY <1>2, FS_Subset DEF RedisHashAssumption
<1>4. \A k \in DOMAIN f : [cls |-> k, rds |-> f[k]] \in S
  BY DEF V!Ends
<1>5. ASSUME NEW j \in DOMAIN f, NEW k \in DOMAIN f, j # k
      PROVE  Range(f[j]) \cap Range(f[k]) = {}
  <2>1. /\ [cls |-> j, rds |-> f[j]] \in S /\ [cls |-> k, rds |-> f[k]] \in S
        /\ [cls |-> j, rds |-> f[j]] # [cls |-> k, rds |-> f[k]]
    BY <1>4, <1>5
  <2>2. [cls |-> j, rds |-> f[j]].rds = f[j] /\ [cls |-> k, rds |-> f[k]].rds = f[k]
    OBVIOUS
  <2> QED BY <2>1, <2>2 DEF Distinct
<1>6. f \in [DOMAIN f -> Lists]
  BY <1>1, <1>2
<1> QED BY <1>3, <1>5, <1>6 DEF Map

-----------------------------------------------------------------------------
(* The invariant.                                                          *)

Inv == TypeOK /\ InOrder /\ FromLog

LEMMA InitInv == ASSUME Init PROVE Inv
<1>1. log \in Seq(SUBSET Node) /\ log # <<>> /\ Len(log) = 1 /\ log[1] = {}
  BY DEF Init
<1>2. TypeOK
  <2>1. \A c \in Client : addrs[c] \in [DOMAIN addrs[c] -> Lists]
    BY DEF Init
  <2> QED BY <1>1, <2>1 DEF Init, TypeOK, RedisHashAssumption
<1>3. InOrder
  BY <1>1 DEF Init, InOrder, Chain
<1>4. FromLog
  BY <1>1 DEF Init, FromLog, Distinct
<1> QED BY <1>2, <1>3, <1>4 DEF Inv

(* The directory changes, however often it has: S is what it has then.     *)
Grow(S) == S \in May(log[Len(log)]) /\ log' = Append(log, S) /\ UNCHANGED client

(* What was logged stays.                                                  *)
LEMMA GrowInv == ASSUME Inv, NEW S, Grow(S) PROVE Inv'
<1> USE DEF Inv
<1>1. S \in May(log[Len(log)]) /\ log' = Append(log, S)
  BY DEF Grow
<1>2. /\ log \in Seq(SUBSET Node) /\ Len(log) \in Nat \ {0} /\ log[Len(log)] \in SUBSET Node
      /\ Distinct(log[Len(log)])
  BY DEF TypeOK, FromLog
<1>3. S \in SUBSET Node /\ Distinct(S)
  BY <1>1, <1>2, MayKeeps
<1>4. /\ log' \in Seq(SUBSET Node) /\ log' # <<>> /\ Len(log') = Len(log) + 1
      /\ \A i \in 1 .. Len(log) : log'[i] = log[i]
      /\ log'[Len(log) + 1] = S
  BY <1>1, <1>2, <1>3
<1>5. UNCHANGED client
  BY DEF Grow
<1>6. TypeOK'
  <2>1. 1 .. Len(log) \subseteq 1 .. Len(log') /\ 0 .. Len(log) \subseteq 0 .. Len(log')
    BY <1>2, <1>4
  <2> QED BY <1>4, <1>5, <2>1 DEF TypeOK, client
<1>7. InOrder'
  <2> SUFFICES ASSUME NEW c \in Client
               PROVE  (seen[c] <= got[c] /\ got[c] <= srv[c] /\ (alive[c] => Chain(c)))'
    BY DEF InOrder
  <2>1. log'[got[c]] = log[got[c]]
    BY <1>4 DEF TypeOK
  <2> QED BY <1>5, <2>1 DEF InOrder, Chain, client, V!Readable
<1>8. FromLog'
  <2>1. \A i \in 1 .. Len(log') : Distinct(log'[i])
    BY <1>2, <1>3, <1>4 DEF FromLog
  <2>2. ASSUME NEW c \in Client, seen[c] # 0 PROVE log'[seen[c]] = log[seen[c]]
    BY <1>4, <2>2 DEF TypeOK
  <2>3. (\A i \in 1 .. Len(log) : Distinct(log[i]))'
    BY <2>1 DEF Distinct
  <2>4. ASSUME NEW c \in Client
        PROVE  (IF seen[c] = 0 THEN addrs[c] = <<>>
                ELSE V!Readable(log[seen[c]]) /\ addrs[c] \in V!Ends(log[seen[c]]))'
    <3>1. CASE seen[c] = 0
      BY <1>5, <3>1 DEF FromLog, client
    <3>2. CASE seen[c] # 0
      BY <1>5, <2>2, <3>2 DEF FromLog, client, V!Readable, V!Ends
    <3> QED BY <3>1, <3>2
  <2> QED BY <2>3, <2>4 DEF FromLog
<1> QED BY <1>6, <1>7, <1>8

(* A step of a client changes nothing but what it knows of one client,     *)
(* and its map only in redis_node_cb.                                      *)
LEMMA QuietInv ==
  ASSUME Inv, NEW c \in Client,
         Catch(c) \/ Answer(c) \/ Fail(c) \/ Expire(c) \/ Watcher(c) \/ NodeCbFailed(c)
  PROVE  Inv' /\ UNCHANGED <<log, addrs, seen>>
<1> USE DEF Inv
<1>0. UNCHANGED <<log, addrs, seen>>
  BY DEF Catch, Answer, Fail, Expire, Watcher, NodeCbFailed
<1>1. TypeOK'
  <2>1. CASE Catch(c)
    BY <2>1 DEF TypeOK, Catch
  <2>2. CASE Answer(c)
    BY <2>2 DEF TypeOK, Answer
  <2>3. CASE Fail(c)
    BY <2>3 DEF TypeOK, Fail
  <2>4. CASE Expire(c)
    BY <2>4 DEF TypeOK, Expire
  <2>5. CASE Watcher(c)
    BY <2>5 DEF TypeOK, Watcher, Reread
  <2>6. CASE NodeCbFailed(c)
    BY <2>6 DEF TypeOK, NodeCbFailed, Reread
  <2> QED BY <2>1, <2>2, <2>3, <2>4, <2>5, <2>6
<1>2. InOrder'
  <2> SUFFICES ASSUME NEW d \in Client
               PROVE  (seen[d] <= got[d] /\ got[d] <= srv[d] /\ (alive[d] => Chain(d)))'
    BY DEF InOrder
  <2>1. CASE Catch(c)
    BY <2>1 DEF TypeOK, InOrder, Chain, Catch, V!Readable
  <2>2. CASE Answer(c)
    <3>1. CASE d = c
      <4>1. rd'[c] = "answered" /\ got'[c] = srv[c] /\ watch'[c] = "set"
        BY <2>2 DEF Answer, TypeOK
      <4>2. seen[c] \in Nat /\ got[c] \in Nat /\ srv[c] \in Nat
        BY DEF TypeOK
      <4>3. seen[c] <= srv[c]
        BY <4>2 DEF InOrder
      <4> QED BY <2>2, <3>1, <4>1, <4>2, <4>3 DEF Answer, Chain
    <3>2. CASE d # c
      BY <2>2, <3>2 DEF TypeOK, InOrder, Chain, Answer, V!Readable
    <3> QED BY <3>1, <3>2
  <2>3. CASE Fail(c)
    BY <2>3 DEF TypeOK, InOrder, Chain, Fail, V!Readable
  <2>4. CASE Expire(c)
    BY <2>4 DEF TypeOK, InOrder, Chain, Expire, V!Readable
  <2>5. CASE Watcher(c)
    BY <2>5 DEF TypeOK, InOrder, Chain, Watcher, Reread, V!Readable
  <2>6. CASE NodeCbFailed(c)
    BY <2>6 DEF TypeOK, InOrder, Chain, NodeCbFailed, Reread, V!Readable
  <2> QED BY <2>1, <2>2, <2>3, <2>4, <2>5, <2>6
<1>3. FromLog'
  BY <1>0 DEF FromLog, Distinct, V!Readable, V!Ends
<1> QED BY <1>0, <1>1, <1>2, <1>3

(* redis_node_cb takes over the answer, if it can be read.                 *)
LEMMA NodeCbInv == ASSUME Inv, NEW c \in Client, NodeCb(c) PROVE Inv'
<1> USE DEF Inv
<1> DEFINE S == log[got[c]]
<1>0. /\ rd' = [rd EXCEPT ![c] = "none"]
      /\ UNCHANGED <<log, srv, alive, got, watch, faults>>
      /\ got[c] \in 1 .. Len(log) /\ S \in SUBSET Node /\ Distinct(S)
  BY DEF NodeCb, TypeOK, FromLog
<1>1. CASE ~ V!Readable(S)
  <2>1. UNCHANGED <<addrs, seen>>
    BY <1>1 DEF NodeCb
  <2>2. TypeOK'
    BY <1>0, <2>1 DEF TypeOK
  <2>3. InOrder'
    BY <1>0, <1>1, <2>1 DEF TypeOK, InOrder, Chain, NodeCb, V!Readable
  <2>4. FromLog'
    <3>1. UNCHANGED <<log, addrs, seen>>
      BY <1>0, <2>1
    <3> QED BY <3>1 DEF FromLog, Distinct, V!Readable, V!Ends
  <2> QED BY <2>2, <2>3, <2>4
<1>2. CASE V!Readable(S)
  <2>1. PICK f \in V!Ends(S) :
          addrs' = [addrs EXCEPT ![c] = f] /\ seen' = [seen EXCEPT ![c] = got[c]]
    BY <1>2 DEF NodeCb
  <2>2. f \in [DOMAIN f -> Lists]
    BY <1>0, EndsMap DEF Map
  <2>3. TypeOK'
    <3>1. \A d \in Client : addrs'[d] \in [DOMAIN addrs'[d] -> Lists]
      BY <2>1, <2>2 DEF TypeOK
    <3>2. seen' \in [Client -> 0 .. Len(log)] /\ DOMAIN addrs' = Client
      BY <1>0, <2>1 DEF TypeOK
    <3> QED BY <1>0, <3>1, <3>2 DEF TypeOK
  <2>4. InOrder'
    BY <1>0, <2>1 DEF TypeOK, InOrder, Chain, NodeCb, V!Readable
  <2>5. FromLog'
    <3>1. ASSUME NEW d \in Client
          PROVE  IF seen'[d] = 0 THEN addrs'[d] = <<>>
                 ELSE V!Readable(log[seen'[d]]) /\ addrs'[d] \in V!Ends(log[seen'[d]])
      <4>1. CASE d = c
        <5>1. seen'[d] = got[c] /\ addrs'[d] = f /\ got[c] # 0
          BY <1>0, <2>1, <4>1 DEF TypeOK
        <5> QED BY <1>2, <5>1
      <4>2. CASE d # c
        BY <2>1, <4>2 DEF FromLog, TypeOK
      <4> QED BY <4>1, <4>2
    <3> QED BY <1>0, <3>1 DEF FromLog, Distinct, V!Readable, V!Ends
  <2> QED BY <2>3, <2>4, <2>5
<1> QED BY <1>1, <1>2

LEMMA StillInv == ASSUME Inv, UNCHANGED vars PROVE Inv'
<1>1. UNCHANGED <<log, srv, alive, rd, got, watch, addrs, seen, faults>>
  BY DEF vars, client
<1>2. TypeOK'
  BY <1>1 DEF Inv, TypeOK
<1>3. InOrder'
  BY <1>1 DEF Inv, InOrder, Chain, V!Readable
<1>4. FromLog'
  BY <1>1 DEF Inv, FromLog, Distinct, V!Readable, V!Ends
<1> QED BY <1>2, <1>3, <1>4 DEF Inv

LEMMA StepInv == ASSUME Inv, NEW c \in Client, Step(c) PROVE Inv'
BY QuietInv, NodeCbInv DEF Step, Handle

LEMMA NextInv == ASSUME Inv, [Next]_vars PROVE Inv'
<1>1. CASE UNCHANGED vars
  BY <1>1, StillInv
<1>2. CASE Change
  BY <1>2, GrowInv DEF Change, Grow
<1>3. CASE \E c \in Client : Step(c)
  BY <1>3, StepInv
<1> QED BY <1>1, <1>2, <1>3 DEF Next

(* The inductive invariant of RedisHash: types, the order in which answers *)
(* and events are handled, and where the maps come from.                   *)
LEMMA Invariant == Spec => []Inv
<1>1. Init => Inv
  BY InitInv
<1>2. Inv /\ [Next]_vars => Inv'
  BY NextInv
<1> QED BY <1>1, <1>2, PTL DEF Spec

-----------------------------------------------------------------------------
(* The variables of RedisHash keep their types.                            *)
THEOREM TypeCorrect == Spec => []TypeOK
<1>1. Inv => TypeOK
  BY DEF Inv
<1> QED BY <1>1, Invariant, PTL

LEMMA InvListening == ASSUME Inv PROVE Listening
<1> SUFFICES ASSUME NEW c \in Client, alive[c], rd[c] = "none", watch[c] # "fired"
             PROVE  /\ watch[c] = "set"
                    /\ V!Readable(log[srv[c]]) => addrs[c] \in V!Ends(log[srv[c]])
  BY DEF Listening
<1>1. watch[c] = "set"
  BY DEF Inv, TypeOK, InOrder, Chain
<1>2. got[c] = srv[c] /\ (V!Readable(log[srv[c]]) => seen[c] = srv[c]) /\ srv[c] # 0
  BY <1>1 DEF Inv, TypeOK, InOrder, Chain
<1> QED BY <1>1, <1>2 DEF Inv, FromLog

(* A client whose session lives waits for an answer or has a watch, and    *)
(* has what its server has when nothing is under way (redis_node_wc,       *)
(* redis_node_cb).                                                         *)
THEOREM ListeningCorrect == Spec => []Listening
BY InvListening, Invariant, PTL

(* A change of the directory is one in LegalView.                          *)
LEMMA GrowViews == ASSUME Inv, NEW S, Grow(S) PROVE V!Change
<1>1. S \in May(log[Len(log)]) /\ log' = Append(log, S) /\ UNCHANGED <<seen, addrs>>
  BY DEF Grow, client
<1>2. log' # log
  <2>1. log \in Seq(SUBSET Node) /\ S \in SUBSET Node
    BY <1>1, GrowInv DEF Inv, TypeOK
  <2>2. Len(log) \in Nat /\ Len(log') = Len(log) + 1
    BY <1>1, <2>1
  <2> QED BY <2>2
<1>3. V!Lists = Lists
  BY DEF Lists, V!Lists, IsInjective, V!IsInjective, Cardinality, V!Cardinality
<1>4. \A T : V!Range(T) = Range(T)
  BY DEF Range, V!Range
<1>5. V!May(log[Len(log)]) = May(log[Len(log)])
  BY <1>3, <1>4 DEF May, V!May, Free, V!Free, Node, V!Node
<1> QED BY <1>1, <1>2, <1>5 DEF V!Change

(* redis_node_cb goes on to a newer map or leaves the old one, and no      *)
(* other step of a client is seen.                                         *)
LEMMA StepViews ==
  ASSUME Inv, NEW c \in Client, Step(c)
  PROVE  V!See(c) \/ UNCHANGED <<log, seen, addrs>>
<1>1. CASE ~ NodeCb(c)
  BY <1>1, QuietInv DEF Step, Handle
<1>2. CASE NodeCb(c) /\ V!Readable(log[got[c]])
  <2>1. PICK f \in V!Ends(log[got[c]]) :
          addrs' = [addrs EXCEPT ![c] = f] /\ seen' = [seen EXCEPT ![c] = got[c]]
    BY <1>2 DEF NodeCb
  <2>2. got[c] \in 1 .. Len(log) /\ got[c] >= seen[c] /\ UNCHANGED log
    BY <1>2 DEF NodeCb, Inv, TypeOK, InOrder
  <2> QED BY <1>2, <2>1, <2>2 DEF V!See
<1>3. CASE NodeCb(c) /\ ~ V!Readable(log[got[c]])
  BY <1>3 DEF NodeCb
<1> QED BY <1>1, <1>2, <1>3

(* RedisHash implements LegalView.                                         *)
THEOREM ViewCorrect == Spec => View
<1>1. Init => V!Init
  BY DEF Init, V!Init
<1>2. ASSUME Inv, [Next]_vars PROVE [V!Next]_<<log, seen, addrs>>
  <2>1. CASE UNCHANGED vars
    BY <2>1 DEF vars, client
  <2>2. CASE Change
    BY <1>2, <2>2, GrowViews DEF Change, Grow, V!Next
  <2>3. CASE \E c \in Client : Step(c)
    BY <1>2, <2>3, StepViews DEF V!Next
  <2> QED BY <1>2, <2>1, <2>2, <2>3 DEF Next
<1> QED BY <1>1, <1>2, Invariant, PTL DEF Spec, View, V!Spec

-----------------------------------------------------------------------------
(* Where users go.                                                         *)

(* Every client's map is one.                                              *)
LEMMA ClientMap ==
  ASSUME Inv, NEW c \in Client
  PROVE  Map(addrs[c])
<1>1. CASE seen[c] = 0
  <2>1. addrs[c] = <<>>
    BY <1>1 DEF Inv, FromLog
  <2>2. DOMAIN addrs[c] = {}
    BY <2>1
  <2>3. IsFiniteSet(DOMAIN addrs[c]) /\ addrs[c] \in [DOMAIN addrs[c] -> Lists]
    BY <2>2, FS_EmptySet DEF Inv, TypeOK
  <2> QED BY <2>2, <2>3 DEF Map
<1>2. CASE seen[c] # 0
  <2>1. seen[c] \in 1 .. Len(log)
    BY <1>2 DEF Inv, TypeOK
  <2>2. /\ log[seen[c]] \in SUBSET Node /\ Distinct(log[seen[c]])
        /\ addrs[c] \in V!Ends(log[seen[c]])
    BY <1>2, <2>1 DEF Inv, TypeOK, FromLog
  <2> QED BY <2>2, EndsMap
<1> QED BY <1>1, <1>2

(* In a map, the order of lists is that of their masters.                  *)
LEMMA LessIsMaster ==
  ASSUME NEW f, Map(f), NEW j \in DOMAIN f, NEW k \in DOMAIN f
  PROVE  Less(f[j], f[k]) <=> f[j][1] < f[k][1]
<1> DEFINE s == f[j]
           t == f[k]
<1>1. s \in Lists /\ t \in Lists
  BY DEF Map
<1>2. /\ s \in Seq(Addr) /\ Len(s) \in Nat \ {0} /\ s[1] \in Addr /\ s[1] \in Range(s)
      /\ t \in Seq(Addr) /\ Len(t) \in Nat \ {0} /\ t[1] \in Addr /\ t[1] \in Range(t)
  BY <1>1, ListIsSeq
<1>3. s[1] \in Nat /\ t[1] \in Nat
  BY <1>2 DEF RedisHashAssumption
<1>4. CASE j = k
  <2>1. s = t
    BY <1>4
  <2>2. ASSUME NEW n \in 1 .. Len(t), n <= Len(s) + 1, n = Len(s) + 1 \/ s[n] < t[n]
        PROVE  FALSE
    <3>1. t[n] \in Addr
      BY <1>2, <2>2
    <3>2. t[n] \in Nat
      BY <3>1 DEF RedisHashAssumption
    <3> QED BY <1>2, <2>1, <2>2, <3>2
  <2>3. ~ Less(s, t)
    BY <2>2 DEF Less
  <2> QED BY <1>3, <2>1, <2>3
<1>5. CASE j # k
  <2>1. s[1] # t[1]
    BY <1>2, <1>5 DEF Map
  <2>2. ASSUME NEW n \in 1 .. Len(t), \A i \in 1 .. n - 1 : s[i] = t[i]
        PROVE  n = 1
    <3>1. n # 1 => 1 \in 1 .. n - 1
      BY <1>2
    <3> QED BY <2>1, <2>2, <3>1
  <2>3. Less(s, t) => s[1] < t[1]
    BY <1>2, <2>2 DEF Less
  <2>4. ASSUME s[1] < t[1] PROVE Less(s, t)
    <3>1. 1 \in 1 .. Len(t) /\ 1 <= Len(s) + 1
      BY <1>2
    <3>2. \A i \in 1 .. 1 - 1 : s[i] = t[i]
      OBVIOUS
    <3> QED BY <2>4, <3>1, <3>2 DEF Less
  <2> QED BY <2>3, <2>4
<1> QED BY <1>4, <1>5

(* The place of a cluster depends on the masters only.                     *)
LEMMA PlaceByMaster ==
  ASSUME NEW f, Map(f), NEW k \in DOMAIN f
  PROVE  Place(f, k) = Cardinality({j \in DOMAIN f : f[j][1] < f[k][1]})
<1>1. {j \in DOMAIN f : Less(f[j], f[k])} = {j \in DOMAIN f : f[j][1] < f[k][1]}
  BY LessIsMaster
<1> QED BY <1>1 DEF Place

(* Every cluster has a place of its own, and all places are taken.         *)
LEMMA PlacesDiffer ==
  ASSUME NEW f, Map(f), NEW j \in DOMAIN f, NEW k \in DOMAIN f, f[j][1] < f[k][1]
  PROVE  Place(f, j) < Place(f, k)
<1> DEFINE B(i) == {x \in DOMAIN f : f[x][1] < f[i][1]}
<1>1. \A x \in DOMAIN f : f[x][1] \in Nat
  BY ListIsSeq DEF Map, RedisHashAssumption
<1>2. B(j) \subseteq B(k)
  BY <1>1
<1>3. j \in B(k) /\ j \notin B(j)
  BY <1>1
<1>4. IsFiniteSet(B(k)) /\ IsFiniteSet(B(j))
  BY FS_Subset DEF Map
<1>5. /\ Cardinality(B(j)) <= Cardinality(B(k))
      /\ Cardinality(B(k)) = Cardinality(B(j)) => B(k) = B(j)
  BY <1>2, <1>4, FS_Subset
<1>6. Cardinality(B(j)) \in Nat /\ Cardinality(B(k)) \in Nat
  BY <1>4, FS_CardinalityType
<1>7. Cardinality(B(j)) # Cardinality(B(k))
  BY <1>3, <1>5
<1>8. Place(f, j) = Cardinality(B(j)) /\ Place(f, k) = Cardinality(B(k))
  BY PlaceByMaster
<1> HIDE DEF B
<1> QED BY <1>5, <1>6, <1>7, <1>8

LEMMA PlaceOnce ==
  ASSUME NEW f, Map(f), NEW j \in DOMAIN f, NEW k \in DOMAIN f
  PROVE  /\ Place(f, j) \in 0 .. Cardinality(DOMAIN f) - 1
         /\ j # k => Place(f, j) # Place(f, k)
<1>1. f[j][1] \in Nat /\ f[k][1] \in Nat
  BY ListIsSeq DEF Map, RedisHashAssumption
<1>2. Place(f, j) \in 0 .. Cardinality(DOMAIN f) - 1
  <2> DEFINE B == {x \in DOMAIN f : f[x][1] < f[j][1]}
  <2>1. B \in SUBSET DOMAIN f /\ j \notin B
    BY <1>1
  <2>2. /\ IsFiniteSet(B) /\ Cardinality(B) <= Cardinality(DOMAIN f)
        /\ Cardinality(DOMAIN f) = Cardinality(B) => DOMAIN f = B
    BY <2>1, FS_Subset DEF Map
  <2>3. Cardinality(B) \in Nat /\ Cardinality(DOMAIN f) \in Nat
    BY <2>2, FS_CardinalityType DEF Map
  <2>4. Place(f, j) = Cardinality(B)
    BY PlaceByMaster
  <2> HIDE DEF B
  <2> QED BY <2>1, <2>2, <2>3, <2>4
<1>3. ASSUME j # k PROVE Place(f, j) # Place(f, k)
  <2>1. f[j][1] # f[k][1]
    BY <1>3, ListIsSeq DEF Map
  <2>2. f[j][1] < f[k][1] \/ f[k][1] < f[j][1]
    BY <1>1, <2>1
  <2>3. Place(f, j) < Place(f, k) \/ Place(f, k) < Place(f, j)
    BY <2>2, PlacesDiffer
  <2>4. Place(f, j) \in Nat
    BY <1>2
  <2> QED BY <2>3, <2>4
<1> QED BY <1>2, <1>3

LEMMA HomeExists ==
  ASSUME NEW f, Map(f), DOMAIN f # {}, NEW u \in User
  PROVE  \E k \in DOMAIN f : IsHome(f, u, k)
<1> DEFINE n == Cardinality(DOMAIN f)
           p == [k \in DOMAIN f |-> Place(f, k)]
<1>1. n \in Nat \ {0}
  BY FS_CardinalityType, FS_EmptySet DEF Map
<1>2. p \in [DOMAIN f -> 0 .. n - 1]
  BY PlaceOnce
<1>3. \A a, b \in DOMAIN f : p[a] = p[b] => a = b
  BY PlaceOnce
<1>4. IsFiniteSet(0 .. n - 1) /\ Cardinality(0 .. n - 1) = n
  <2> HIDE DEF n
  <2>1. n - 1 \in Int /\ 0 \in Int /\ n - 1 - 0 + 1 = n /\ ~ (0 > n - 1)
    BY <1>1
  <2> QED BY <2>1, FS_Interval
<1>5. p \in Injection(DOMAIN f, 0 .. n - 1)
  BY <1>2, <1>3, Fun_IsInj
<1>6. p \in Surjection(DOMAIN f, 0 .. n - 1)
  BY <1>4, <1>5, FS_Injection
<1>7. Hash[u] % n \in 0 .. n - 1
  <2>1. Hash[u] \in Nat
    BY DEF RedisHashAssumption
  <2> HIDE DEF n
  <2> QED BY <1>1, <2>1
<1>8. PICK k \in DOMAIN f : p[k] = Hash[u] % n
  BY <1>6, <1>7 DEF Surjection
<1> QED BY <1>8 DEF IsHome

LEMMA SameMasters ==
  ASSUME NEW f, NEW g, Map(f), Map(g), Masters(f) = Masters(g), NEW u \in User
  PROVE  Master(f, u) = Master(g, u)
<1>1. DOMAIN f = DOMAIN g
  BY DEF Masters
<1>2. \A k \in DOMAIN f : f[k][1] = g[k][1]
  BY <1>1 DEF Masters
<1>3. ASSUME NEW k \in DOMAIN f PROVE Place(f, k) = Place(g, k)
  <2>1. {j \in DOMAIN f : f[j][1] < f[k][1]} = {j \in DOMAIN g : g[j][1] < g[k][1]}
    BY <1>1, <1>2
  <2> QED BY <1>1, <2>1, PlaceByMaster
<1>4. \A k : IsHome(f, u, k) <=> IsHome(g, u, k)
  BY <1>1, <1>3 DEF IsHome
<1>5. CASE DOMAIN f = {}
  BY <1>1, <1>5 DEF Master
<1>6. CASE DOMAIN f # {}
  <2> DEFINE h == CHOOSE k \in DOMAIN f : IsHome(f, u, k)
             i == CHOOSE k \in DOMAIN g : IsHome(g, u, k)
  <2>1. h = i
    BY <1>1, <1>4
  <2>2. h \in DOMAIN f
    BY <1>6, HomeExists
  <2>3. Master(f, u) = f[h][1] /\ Master(g, u) = g[i][1]
    BY <1>1, <1>6 DEF Master
  <2> HIDE DEF h, i
  <2> QED BY <1>2, <2>1, <2>2, <2>3
<1> QED BY <1>5, <1>6

LEMMA InvAgree == ASSUME Inv PROVE Agree
<1> SUFFICES ASSUME NEW c \in Client, seen[c] # 0, NEW f \in V!Ends(log[seen[c]])
             PROVE  f = addrs[c]
  BY DEF Agree
<1>1. seen[c] \in 1 .. Len(log)
  BY DEF Inv, TypeOK
<1>2. /\ log[seen[c]] \in SUBSET Node /\ Distinct(log[seen[c]])
      /\ addrs[c] \in V!Ends(log[seen[c]])
  BY <1>1 DEF Inv, TypeOK, FromLog
<1> QED BY <1>2, OneEnds

(* Contents can be read in one way only, so that clients that have read    *)
(* the same send every user to the same server.                            *)
THEOREM AgreeCorrect == Spec => []Agree
BY InvAgree, Invariant, PTL

LEMMA InvEveryPlaceOnce == ASSUME Inv PROVE EveryPlaceOnce
<1> SUFFICES ASSUME NEW c \in Client, NEW j \in DOMAIN addrs[c], NEW k \in DOMAIN addrs[c]
             PROVE  /\ Place(addrs[c], j) < Cardinality(DOMAIN addrs[c])
                    /\ j # k => Place(addrs[c], j) # Place(addrs[c], k)
  BY DEF EveryPlaceOnce
<1>1. Map(addrs[c])
  BY ClientMap
<1>2. Cardinality(DOMAIN addrs[c]) \in Nat
  BY <1>1, FS_CardinalityType DEF Map
<1>3. Place(addrs[c], j) \in 0 .. Cardinality(DOMAIN addrs[c]) - 1
  BY <1>1, PlaceOnce
<1>4. j # k => Place(addrs[c], j) # Place(addrs[c], k)
  BY <1>1, PlaceOnce
<1> QED BY <1>2, <1>3, <1>4

(* Each cluster of a map has its place among the remainders, so that every *)
(* user has a home.                                                        *)
THEOREM EveryPlaceOnceCorrect == Spec => []EveryPlaceOnce
BY InvEveryPlaceOnce, Invariant, PTL

(* What UsersStay says of a step.                                          *)
Stay == \A c \in Client :
          addrs'[c] # addrs[c] /\ Masters(addrs'[c]) = Masters(addrs[c]) =>
            \A u \in User : Master(addrs'[c], u) = Master(addrs[c], u)

LEMMA InvStay == ASSUME Inv, Inv' PROVE Stay
<1> SUFFICES ASSUME NEW c \in Client, Masters(addrs'[c]) = Masters(addrs[c]), NEW u \in User
             PROVE  Master(addrs'[c], u) = Master(addrs[c], u)
  BY DEF Stay
<1>1. Map(addrs[c])
  BY ClientMap
<1>2. Map(addrs[c])'
  BY ClientMap, PTL
<1>3. Map(addrs'[c])
  BY <1>2 DEF Map
<1> QED BY <1>1, <1>3, SameMasters

(* Users stay with their servers as long as the masters a client knows do. *)
THEOREM UsersStayCorrect == Spec => UsersStay
BY InvStay, Invariant, PTL DEF UsersStay, Stay
===============================================================================
