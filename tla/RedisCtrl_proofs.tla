--------------------------- MODULE RedisCtrl_proofs ----------------------------
(***************************************************************************)
(* What the writes of a controller come to, whatever stops it half way.    *)
(*                                                                         *)
(* The records.  Between the phases of check() a configured server is in   *)
(* check or in error in the way RecordInv says.  It counts what is still   *)
(* to be written as written (Due), so that a write changes nothing of it   *)
(* and only a phase that decides on new writes has to be looked at.        *)
(*                                                                         *)
(* Lists and replication agree.  LegalInv adds what the controller in the  *)
(* last phase has still to do: its writes come in an order in which no two *)
(* lists ever share their cluster or a server, and its SLAVEOF commands    *)
(* follow the lists that will be there then (Ready).  That the lists it    *)
(* decides on share no server is what the records say of them: each        *)
(* configured server is on record below its own cluster only.              *)
(***************************************************************************)
EXTENDS RedisCtrlTypes_proofs

-----------------------------------------------------------------------------
(* Where the servers are on record.  What a pass still has to write counts *)
(* as written (Due): it is then the same before and after each write, and  *)
(* it changes only when a phase decides on new ones.                       *)

(* A server is at most once in error, by its name, and at most twice in    *)
(* check: check_error adds a node for one that is there.                   *)
Few(er, ch) == \A k \in Cluster : \A a \in Addr : Has(er, k, a) <= 1 /\ Has(ch, k, a) <= 2

(* In a phase, a configured server that has answered (good) or has not has *)
(* n nodes in check and e in error.  logic_check_add puts it somewhere;    *)
(* check_error takes one that has answered out of error; check_check takes *)
(* one that has not out of check, and the second of two nodes.             *)
Place(pc, good, n, e) ==
  /\ n \in Nat /\ e \in Nat
  /\ pc \in {"sync", "redis"} \/ (pc = "error" /\ ~ good) => n <= 1 /\ e <= 1 /\ n + e > 0
  /\ pc = "error" /\ good => e = 0 /\ n \in {1, 2}
  /\ pc \in {"check", "legal"} => IF good THEN e = 0 /\ n = 1 ELSE n = 0 /\ e > 0

(* The records of a pass that has read the configuration f, when the       *)
(* servers of live have answered and ops are still to be written.          *)
Recorded(pc, f, live, ops, er, ch) ==
  /\ ~ Duplicate(f)
  /\ \A k \in Cluster :
       /\ Due(ch, "check", ops, k, NULL) = IF k \in DOMAIN f THEN 1 ELSE 0
       /\ Due(er, "error", ops, k, NULL) = IF k \in DOMAIN f THEN 1 ELSE 0
  /\ \A k \in Cluster : \A a \in Addr :
       LET n == Due(ch, "check", ops, k, a)
           e == Due(er, "error", ops, k, a)
       IN IF a \in Servers(f, k) THEN Place(pc, a \in DOMAIN live, n, e) ELSE n = 0 /\ e = 0

(* No phase both adds a node to check and takes one with that address      *)
(* away; only check_check adds to error, and before it takes from check.   *)
Lined(pc, ops) ==
  \A k \in Cluster : \A a \in Addr :
    /\ Occurs(ops, Create("check", k, a)) > 0 => Occurs(ops, Delete("check", k, a)) = 0
    /\ Occurs(ops, Create("error", k, a)) > 0 => pc = "check"
    /\ Precedes(ops, Create("error", k, a), Delete("check", k, a))

Pending(c) == IF st[c].pc = "legal" THEN <<>> ELSE st[c].ops
Recording(c) == Working(c) /\ st[c].pc \in {"sync", "redis", "error", "check", "legal"}

RecordInv ==
  /\ Few(error, check)
  /\ \A c \in Ctrl : Recording(c) =>
       /\ Recorded(st[c].pc, st[c].cfgs, st[c].live, Pending(c), error, check)
       /\ Lined(st[c].pc, Pending(c))

LEMMA TwiceIs ==
  ASSUME IsDir(check, Seq(Addr)), NEW k \in Cluster, NEW a \in Addr
  PROVE  k \in DOMAIN check /\ a \in Twice(check[k]) <=> Has(check, k, a) > 1
<1>1. a # NULL
  BY RedisCtrlAssumption DEF RedisCtrlAssumption
<1>2. CASE k \in DOMAIN check
  <2>1. check[k] \in Seq(Addr)
    BY <1>2 DEF IsDir
  <2>2. Occurs(check[k], a) \in Nat /\ (Occurs(check[k], a) = 0 <=> a \notin Range(check[k]))
    BY <2>1, PlacesFinite
  <2>3. a \in Twice(check[k]) <=> a \in Range(check[k]) /\ Occurs(check[k], a) > 1
    BY DEF Twice, Occurs, Places
  <2> QED BY <1>1, <1>2, <2>2, <2>3 DEF Has
<1>3. CASE k \notin DOMAIN check
  BY <1>3 DEF Has
<1> QED BY <1>2, <1>3

(* What a phase has nothing to write for stays as it is.                   *)
LEMMA DueNone ==
  ASSUME NEW d, IsDir(d, Seq(Addr)), NEW dir, NEW k, NEW a
  PROVE  Due(d, dir, <<>>, k, a) = Has(d, k, a)
<1>1. Occurs(<<>>, Create(dir, k, a)) = 0 /\ Occurs(<<>>, Delete(dir, k, a)) = 0
  BY OccursFew
<1>2. Has(d, k, a) \in Nat
  BY HasType
<1> QED BY <1>1, <1>2 DEF Due

(* Read: whatever earlier passes have left behind, the writes of           *)
(* check_config make the records those of the configuration.               *)
LEMMA SyncRecords ==
  ASSUME Records, Few(error, check), NEW f, IsDir(f, SUBSET Addr), ~ Duplicate(f), NEW live
  PROVE  Recorded("sync", f, live, Sync(f), error, check) /\ Lined("sync", Sync(f))
<1>1. IsDir(error, Seq(Addr)) /\ IsDir(check, Seq(Addr)) /\ NULL \notin Addr
  BY RedisCtrlAssumption DEF RedisCtrlAssumption, Records
<1> DEFINE o == Sync(f)
           p == LogicCheckAdd(f)
           r == LogicRm(f, error, "error")
           s == LogicRm(f, check, "check")
<1>7. /\ \A dir, k, a : Occurs(o, Create(dir, k, a)) = Occurs(p, Create(dir, k, a))
      /\ \A dir, k, a : Occurs(o, Delete(dir, k, a)) =
           Occurs(GetCheck, Delete(dir, k, a)) + Occurs(r, Delete(dir, k, a))
           + Occurs(s, Delete(dir, k, a))
      /\ o \in Seq(Op)
  BY <1>1, SyncCounts, Zenon
<1>8. /\ \A dir, k : Occurs(p, Create(dir, k, NULL)) =
           IF /\ k \in DOMAIN f
              /\ \/ dir = "error" /\ k \notin DOMAIN error
                 \/ dir = "check" /\ k \notin DOMAIN check
           THEN 1 ELSE 0
      /\ \A dir, k : \A a \in Addr : Occurs(p, Create(dir, k, a)) =
           IF /\ dir = "check" /\ k \in DOMAIN f
              /\ a \in f[k] \ (Children(check, k) \cup Children(error, k))
           THEN 1 ELSE 0
  BY <1>1, LogicCheckAddCounts, Zenon
<1>9. /\ \A k : Occurs(r, Delete("error", k, NULL)) =
           IF k \in DOMAIN error \ DOMAIN f THEN 1 ELSE 0
      /\ \A k : \A a \in Addr : Occurs(r, Delete("error", k, a)) =
           IF a \in Children(error, k) \ Servers(f, k) THEN 1 ELSE 0
      /\ \A e, k, a : e # "error" => Occurs(r, Delete(e, k, a)) = 0
  BY <1>1, LogicRmCounts, Zenon
<1>10. /\ \A k : Occurs(s, Delete("check", k, NULL)) =
            IF k \in DOMAIN check \ DOMAIN f THEN 1 ELSE 0
       /\ \A k : \A a \in Addr : Occurs(s, Delete("check", k, a)) =
            IF a \in Children(check, k) \ Servers(f, k) THEN 1 ELSE 0
       /\ \A e, k, a : e # "check" => Occurs(s, Delete(e, k, a)) = 0
  BY <1>1, LogicRmCounts, Zenon
<1> HIDE DEF o, p, r, s
<1>2. ASSUME NEW k \in Cluster
      PROVE  /\ Due(check, "check", o, k, NULL) = IF k \in DOMAIN f THEN 1 ELSE 0
             /\ Due(error, "error", o, k, NULL) = IF k \in DOMAIN f THEN 1 ELSE 0
  <2>1. k \in DOMAIN check => NULL \notin Twice(check[k])
    <3> SUFFICES ASSUME k \in DOMAIN check PROVE NULL \notin Range(check[k])
      BY DEF Twice
    <3> QED BY <1>1, RangeOfSeq DEF IsDir
  <2>2. /\ Occurs(o, Create("check", k, NULL)) = IF k \in DOMAIN f \ DOMAIN check THEN 1 ELSE 0
        /\ Occurs(o, Create("error", k, NULL)) = IF k \in DOMAIN f \ DOMAIN error THEN 1 ELSE 0
    BY <1>7, <1>8
  <2>3. /\ Occurs(o, Delete("check", k, NULL)) = IF k \in DOMAIN check \ DOMAIN f THEN 1 ELSE 0
        /\ Occurs(o, Delete("error", k, NULL)) = IF k \in DOMAIN error \ DOMAIN f THEN 1 ELSE 0
    <3>1. /\ Occurs(GetCheck, Delete("check", k, NULL)) = 0
          /\ Occurs(GetCheck, Delete("error", k, NULL)) = 0
      BY <1>1, <2>1, GetCheckCounts
    <3> QED BY <1>7, <1>9, <1>10, <3>1
  <2> QED BY <2>2, <2>3 DEF Due, Has
<1>3. ASSUME NEW k \in Cluster, NEW a \in Addr
      PROVE  /\ Occurs(o, Create("check", k, a)) =
                  IF a \in Servers(f, k) /\ Has(check, k, a) = 0 /\ Has(error, k, a) = 0
                  THEN 1 ELSE 0
             /\ Occurs(o, Create("error", k, a)) = 0
             /\ Occurs(o, Delete("check", k, a)) =
                  (IF Has(check, k, a) > 1 THEN 1 ELSE 0)
                  + (IF a \notin Servers(f, k) /\ Has(check, k, a) > 0 THEN 1 ELSE 0)
             /\ Occurs(o, Delete("error", k, a)) =
                  IF a \notin Servers(f, k) /\ Has(error, k, a) > 0 THEN 1 ELSE 0
  <2>1. /\ a # NULL
        /\ Has(check, k, a) \in Nat /\ (Has(check, k, a) = 0 <=> a \notin Children(check, k))
        /\ Has(error, k, a) \in Nat /\ (Has(error, k, a) = 0 <=> a \notin Children(error, k))
    BY <1>1, HasType
  <2>2. /\ Occurs(o, Create("check", k, a)) =
             IF k \in DOMAIN f /\ a \in f[k] \ (Children(check, k) \cup Children(error, k))
             THEN 1 ELSE 0
        /\ Occurs(o, Create("error", k, a)) = 0
    BY <1>7, <1>8
  <2>3. /\ Occurs(GetCheck, Delete("check", k, a)) = IF Has(check, k, a) > 1 THEN 1 ELSE 0
        /\ Occurs(GetCheck, Delete("error", k, a)) = 0
    BY <1>1, GetCheckCounts, TwiceIs
  <2>6. Occurs(o, Delete("check", k, a)) =
          (IF Has(check, k, a) > 1 THEN 1 ELSE 0)
          + (IF a \notin Servers(f, k) /\ Has(check, k, a) > 0 THEN 1 ELSE 0)
    BY <1>7, <1>9, <1>10, <2>1, <2>3
  <2>7. Occurs(o, Delete("error", k, a)) =
          IF a \notin Servers(f, k) /\ Has(error, k, a) > 0 THEN 1 ELSE 0
    BY <1>7, <1>9, <1>10, <2>1, <2>3
  <2>8. a \in Servers(f, k) <=> k \in DOMAIN f /\ a \in f[k]
    BY DEF Servers
  <2> QED BY <2>1, <2>2, <2>6, <2>7, <2>8
<1>4. ASSUME NEW k \in Cluster, NEW a \in Addr
      PROVE  LET n == Due(check, "check", o, k, a)
                 e == Due(error, "error", o, k, a)
             IN IF a \in Servers(f, k) THEN Place("sync", a \in DOMAIN live, n, e)
                ELSE n = 0 /\ e = 0
  <2>1. Has(check, k, a) \in 0 .. 2 /\ Has(error, k, a) \in 0 .. 1
    BY <1>1, HasType DEF Few
  <2>2. CASE a \in Servers(f, k)
    <3> DEFINE n == Due(check, "check", o, k, a)
               e == Due(error, "error", o, k, a)
    <3>1. n \in 0 .. 1 /\ e \in 0 .. 1 /\ n + e > 0
      BY <1>3, <2>1, <2>2 DEF Due
    <3> HIDE DEF n, e
    <3>2. Place("sync", a \in DOMAIN live, n, e)
      BY <3>1 DEF Place
    <3> QED BY <2>2, <3>2 DEF n, e
  <2>3. CASE a \notin Servers(f, k)
    BY <1>3, <2>1, <2>3 DEF Due
  <2> QED BY <2>2, <2>3
<1>5. Lined("sync", o)
  <2> SUFFICES ASSUME NEW k \in Cluster, NEW a \in Addr
               PROVE  /\ Occurs(o, Create("check", k, a)) > 0 =>
                           Occurs(o, Delete("check", k, a)) = 0
                      /\ Occurs(o, Create("error", k, a)) > 0 => "sync" = "check"
                      /\ Precedes(o, Create("error", k, a), Delete("check", k, a))
    BY DEF Lined
  <2>2. Create("error", k, a) \notin Range(o)
    BY <1>3, <1>7, PlacesFinite
  <2> QED BY <1>3, <2>2, PrecedesNone
<1>6. Recorded("sync", f, live, o, error, check)
  BY <1>2, <1>4 DEF Recorded
<1> QED BY <1>5, <1>6 DEF o

LEMMA LinedNone ==
  ASSUME NEW p
  PROVE  Lined(p, <<>>)
<1>1. \A x : Occurs(<<>>, x) = 0
  BY OccursFew
<1>2. \A x, y : Precedes(<<>>, x, y)
  BY DEF Precedes
<1>3. ~ (0 > 0)
  OBVIOUS
<1> QED BY <1>1, <1>2, <1>3, Zenon DEF Lined

(* CheckRedis: more servers have answered, nothing else changes.           *)
LEMMA AskedRecords ==
  ASSUME NEW f, NEW live, NEW l, NEW p \in {"sync", "redis"}, NEW q \in {"sync", "redis"},
         Recorded(p, f, live, <<>>, error, check)
  PROVE  Recorded(q, f, l, <<>>, error, check) /\ Lined(q, <<>>)
<1>1. Lined(q, <<>>)
  BY LinedNone
<1>2. \A n, e, x, y : Place(p, x, n, e) => Place(q, y, n, e)
  BY DEF Place
<1> QED BY <1>1, <1>2, Zenon DEF Recorded

(* CheckError: a server that has answered is nowhere in error, and once or *)
(* twice in check.                                                         *)
LEMMA ErrorRecords ==
  ASSUME Records, NEW f, NEW live, Recorded("redis", f, live, <<>>, error, check)
  PROVE  /\ Recorded("error", f, live, CheckErrorOps(live), error, check)
         /\ Lined("error", CheckErrorOps(live))
<1> DEFINE o == CheckErrorOps(live)
<1>1. IsDir(error, Seq(Addr)) /\ IsDir(check, Seq(Addr)) /\ NULL \notin Addr
  BY RedisCtrlAssumption DEF RedisCtrlAssumption, Records
<1>2. /\ o \in Seq(Op)
      /\ \A dir, k, a :
           /\ Occurs(o, Create(dir, k, a)) =
                IF dir = "check" /\ a \in Children(error, k) \cap DOMAIN live THEN 1 ELSE 0
           /\ Occurs(o, Delete(dir, k, a)) =
                IF dir = "error" /\ a \in Children(error, k) \cap DOMAIN live THEN 1 ELSE 0
  BY <1>1, CheckErrorCounts, Zenon
<1> HIDE DEF o
<1>3. \A k : NULL \notin Children(error, k)
  BY <1>1, RangeOfSeq DEF IsDir, Children
<1>4. ASSUME NEW k \in Cluster
      PROVE  /\ Due(check, "check", o, k, NULL) = IF k \in DOMAIN f THEN 1 ELSE 0
             /\ Due(error, "error", o, k, NULL) = IF k \in DOMAIN f THEN 1 ELSE 0
  <2>1. /\ Has(check, k, NULL) = IF k \in DOMAIN f THEN 1 ELSE 0
        /\ Has(error, k, NULL) = IF k \in DOMAIN f THEN 1 ELSE 0
    BY <1>1, DueNone DEF Recorded
  <2> QED BY <1>2, <1>3, <2>1 DEF Due
<1>5. ASSUME NEW k \in Cluster, NEW a \in Addr
      PROVE  LET n == Due(check, "check", o, k, a)
                 e == Due(error, "error", o, k, a)
             IN IF a \in Servers(f, k) THEN Place("error", a \in DOMAIN live, n, e)
                ELSE n = 0 /\ e = 0
  <2> DEFINE m == Has(check, k, a)
             b == Has(error, k, a)
             n == Due(check, "check", o, k, a)
             e == Due(error, "error", o, k, a)
  <2>1. IF a \in Servers(f, k) THEN Place("redis", a \in DOMAIN live, m, b) ELSE m = 0 /\ b = 0
    BY <1>1, DueNone DEF Recorded
  <2>2. b = 0 <=> a \notin Children(error, k)
    BY <1>1, HasType
  <2>3. /\ n = m + (IF b # 0 /\ a \in DOMAIN live THEN 1 ELSE 0)
        /\ e = b - (IF b # 0 /\ a \in DOMAIN live THEN 1 ELSE 0)
    <3>1. m \in Nat /\ b \in Nat
      BY <1>1, HasType
    <3> QED BY <1>2, <2>2, <3>1 DEF Due
  <2> HIDE DEF m, b, n, e
  <2>4. IF a \in Servers(f, k) THEN Place("error", a \in DOMAIN live, n, e) ELSE n = 0 /\ e = 0
    BY <2>1, <2>3 DEF Place
  <2> QED BY <2>4 DEF n, e
<1>6. Recorded("error", f, live, o, error, check)
  BY <1>4, <1>5 DEF Recorded
<1>7. Lined("error", o)
  <2> SUFFICES ASSUME NEW k \in Cluster, NEW a \in Addr
               PROVE  /\ Occurs(o, Create("check", k, a)) > 0 =>
                           Occurs(o, Delete("check", k, a)) = 0
                      /\ Occurs(o, Create("error", k, a)) > 0 => "error" = "check"
                      /\ Precedes(o, Create("error", k, a), Delete("check", k, a))
    BY DEF Lined
  <2>1. Occurs(o, Create("error", k, a)) = 0 /\ Occurs(o, Delete("check", k, a)) = 0
    BY <1>2
  <2>2. Create("error", k, a) \notin Range(o)
    BY <1>2, <2>1, PlacesFinite
  <2> QED BY <2>1, <2>2, PrecedesNone
<1> QED BY <1>6, <1>7 DEF o

(* CheckCheck: a server that has answered is once in check; one that has   *)
(* not is not there, and in error.                                         *)
LEMMA CheckRecords ==
  ASSUME Records, NEW f, NEW live, Recorded("error", f, live, <<>>, error, check)
  PROVE  /\ Recorded("check", f, live, CheckCheckOps(live), error, check)
         /\ Lined("check", CheckCheckOps(live))
<1> DEFINE o == CheckCheckOps(live)
           g == OutOps(live)
<1>1. IsDir(error, Seq(Addr)) /\ IsDir(check, Seq(Addr)) /\ NULL \notin Addr
  BY RedisCtrlAssumption DEF RedisCtrlAssumption, Records
<1>2. /\ o \in Seq(Op)
      /\ \A x : Occurs(o, x) = Occurs(GetCheck, x) + Occurs(g, x)
  BY <1>1, CheckCheckCounts, Zenon
<1>3. \A dir, k, a :
        /\ Occurs(g, Create(dir, k, a)) =
             IF dir = "error" /\ a \in Children(check, k) \ DOMAIN live THEN 1 ELSE 0
        /\ Occurs(g, Delete(dir, k, a)) =
             IF dir = "check" /\ a \in Children(check, k) \ DOMAIN live THEN 1 ELSE 0
  BY <1>1, OutCounts, Zenon
<1>4. \A dir, k, a :
        /\ Occurs(GetCheck, Create(dir, k, a)) = 0
        /\ Occurs(GetCheck, Delete(dir, k, a)) =
             IF dir = "check" /\ k \in DOMAIN check /\ a \in Twice(check[k]) THEN 1 ELSE 0
  BY <1>1, GetCheckCounts, Zenon
<1> HIDE DEF o, g
<1>5. \A k : NULL \notin Children(check, k) /\ (k \in DOMAIN check => NULL \notin Twice(check[k]))
  BY <1>1, RangeOfSeq DEF IsDir, Children, Twice
<1>6. ASSUME NEW k \in Cluster
      PROVE  /\ Due(check, "check", o, k, NULL) = IF k \in DOMAIN f THEN 1 ELSE 0
             /\ Due(error, "error", o, k, NULL) = IF k \in DOMAIN f THEN 1 ELSE 0
  <2>1. /\ Has(check, k, NULL) = IF k \in DOMAIN f THEN 1 ELSE 0
        /\ Has(error, k, NULL) = IF k \in DOMAIN f THEN 1 ELSE 0
    BY <1>1, DueNone DEF Recorded
  <2>2. /\ Occurs(o, Create("check", k, NULL)) = 0 /\ Occurs(o, Delete("check", k, NULL)) = 0
        /\ Occurs(o, Create("error", k, NULL)) = 0 /\ Occurs(o, Delete("error", k, NULL)) = 0
    BY <1>2, <1>3, <1>4, <1>5
  <2> QED BY <2>1, <2>2 DEF Due
<1>7. ASSUME NEW k \in Cluster, NEW a \in Addr
      PROVE  /\ Occurs(o, Create("check", k, a)) = 0 /\ Occurs(o, Delete("error", k, a)) = 0
             /\ Occurs(o, Create("error", k, a)) =
                  IF Has(check, k, a) > 0 /\ a \notin DOMAIN live THEN 1 ELSE 0
             /\ Occurs(o, Delete("check", k, a)) =
                  (IF Has(check, k, a) > 1 THEN 1 ELSE 0)
                  + (IF Has(check, k, a) > 0 /\ a \notin DOMAIN live THEN 1 ELSE 0)
  <2>1. k \in DOMAIN check /\ a \in Twice(check[k]) <=> Has(check, k, a) > 1
    BY <1>1, TwiceIs
  <2>2. Has(check, k, a) \in Nat /\ (Has(check, k, a) > 0 <=> a \in Children(check, k))
    BY <1>1, HasType
  <2> QED BY <1>2, <1>3, <1>4, <2>1, <2>2
<1>8. ASSUME NEW k \in Cluster, NEW a \in Addr
      PROVE  /\ IF a \in Servers(f, k)
                THEN Place("error", a \in DOMAIN live, Has(check, k, a), Has(error, k, a))
                ELSE Has(check, k, a) = 0 /\ Has(error, k, a) = 0
             /\ Has(check, k, a) \in Nat /\ Has(error, k, a) \in Nat
  BY <1>1, DueNone, HasType DEF Recorded
<1>9. ASSUME NEW k \in Cluster, NEW a \in Addr
      PROVE  LET n == Due(check, "check", o, k, a)
                 e == Due(error, "error", o, k, a)
             IN IF a \in Servers(f, k) THEN Place("check", a \in DOMAIN live, n, e)
                ELSE n = 0 /\ e = 0
  <2> DEFINE m == Has(check, k, a)
             b == Has(error, k, a)
             n == Due(check, "check", o, k, a)
             e == Due(error, "error", o, k, a)
  <2>1. /\ n = m - (IF m > 1 THEN 1 ELSE 0) - (IF m > 0 /\ a \notin DOMAIN live THEN 1 ELSE 0)
        /\ e = b + (IF m > 0 /\ a \notin DOMAIN live THEN 1 ELSE 0)
    BY <1>7, <1>8 DEF Due
  <2>2. IF a \in Servers(f, k) THEN Place("error", a \in DOMAIN live, m, b) ELSE m = 0 /\ b = 0
    BY <1>8
  <2>3. m \in Nat /\ b \in Nat
    BY <1>8
  <2> HIDE DEF m, b, n, e
  <2>4. IF a \in Servers(f, k) THEN Place("check", a \in DOMAIN live, n, e) ELSE n = 0 /\ e = 0
    BY <2>1, <2>2, <2>3 DEF Place
  <2> QED BY <2>4 DEF n, e
<1>10. Recorded("check", f, live, o, error, check)
  BY <1>6, <1>9 DEF Recorded
<1>11. Lined("check", o)
  <2> SUFFICES ASSUME NEW k \in Cluster, NEW a \in Addr
               PROVE  /\ Occurs(o, Create("check", k, a)) > 0 =>
                           Occurs(o, Delete("check", k, a)) = 0
                      /\ Precedes(o, Create("error", k, a), Delete("check", k, a))
    BY DEF Lined
  <2>1. k \in DOMAIN check => a \notin Twice(check[k]) \/ a \in DOMAIN live
    <3>1. a \in DOMAIN live \/ Has(check, k, a) <= 1
      BY <1>8 DEF Place
    <3> QED BY <1>1, <1>8, <3>1, TwiceIs
  <2>2. Precedes(o, Create("error", k, a), Delete("check", k, a))
    BY <1>1, <2>1, OutInOrder DEF o
  <2> QED BY <1>7, <2>2
<1> QED BY <1>10, <1>11 DEF o

(* A write that is done leaves the records to come as they are.            *)
LEMMA WrittenRecords ==
  ASSUME Records, Few(error, check), NEW ops \in Seq(Op), ops # <<>>,
         NEW p \in {"sync", "redis", "error", "check", "legal"}, NEW f, NEW live,
         Recorded(p, f, live, ops, error, check), Lined(p, ops),
         CanWrite(IF Head(ops).dir = "error" THEN error ELSE check, Head(ops)),
         ApplyRecord(Head(ops))
  PROVE  /\ Recorded(p, f, live, Tail(ops), error', check') /\ Lined(p, Tail(ops))
         /\ Few(error', check')
<1> DEFINE o == Head(ops)
           t == Tail(ops)
<1>1. IsDir(error, Seq(Addr)) /\ IsDir(check, Seq(Addr)) /\ NULL \notin Addr
  BY RedisCtrlAssumption DEF RedisCtrlAssumption, Records
<1>2. /\ o \in Op /\ t \in Seq(Op)
      /\ \A x : Occurs(ops, x) = (IF x = o THEN 1 ELSE 0) + Occurs(t, x)
  BY OccursHead
<1>3. o.dir \in {"error", "check"}
  BY <1>2 DEF Op
<1>4. /\ error' = IF o.dir = "error" THEN Written(error, o) ELSE error
      /\ check' = IF o.dir = "error" THEN check ELSE Written(check, o)
  BY DEF ApplyRecord
<1>5. ASSUME NEW k \in Cluster, NEW a \in {NULL} \cup Addr
      PROVE  /\ Due(check', "check", t, k, a) = Due(check, "check", ops, k, a)
             /\ Due(error', "error", t, k, a) = Due(error, "error", ops, k, a)
  <2>1. CASE o.dir = "error"
    BY <1>1, <1>4, <2>1, DueWritten
  <2>2. CASE o.dir = "check"
    BY <1>1, <1>4, <2>2, DueWritten
  <2> QED BY <1>3, <2>1, <2>2
<1>6. Recorded(p, f, live, t, error', check')
  BY <1>5 DEF Recorded
<1>7. \A x : Occurs(t, x) \in Nat /\ Occurs(ops, x) \in Nat
  BY <1>2, PlacesFinite
<1> HIDE DEF o
<1>8. Lined(p, t)
  <2> SUFFICES ASSUME NEW k \in Cluster, NEW a \in Addr
               PROVE  /\ Occurs(t, Create("check", k, a)) > 0 =>
                           Occurs(t, Delete("check", k, a)) = 0
                      /\ Occurs(t, Create("error", k, a)) > 0 => p = "check"
                      /\ Precedes(t, Create("error", k, a), Delete("check", k, a))
    BY DEF Lined
  <2> DEFINE x == Create("error", k, a)
             y == Delete("check", k, a)
             z == Create("check", k, a)
  <2>1. /\ Occurs(ops, z) > 0 => Occurs(ops, y) = 0
        /\ Occurs(ops, x) > 0 => p = "check"
        /\ Precedes(ops, x, y)
    BY DEF Lined
  <2> HIDE DEF x, y, z
  <2>2. (Occurs(t, z) > 0 => Occurs(t, y) = 0) /\ (Occurs(t, x) > 0 => p = "check")
    BY <1>2, <1>7, <2>1
  <2>3. Precedes(t, x, y)
    <3>1. Len(ops) \in Nat /\ DOMAIN t = 1 .. Len(ops) - 1 /\ DOMAIN ops = 1 .. Len(ops)
          /\ \A i \in DOMAIN t : t[i] = ops[i + 1]
      BY HeadTailProperties, LenProperties
    <3> HIDE DEF t
    <3>2. \A i \in DOMAIN t : i + 1 \in DOMAIN ops /\ i \in Nat
      BY <3>1
    <3> SUFFICES ASSUME NEW i \in DOMAIN t, NEW j \in DOMAIN t, t[i] = x, t[j] = y
                 PROVE  i < j
      BY DEF Precedes
    <3>3. ops[i + 1] = x /\ ops[j + 1] = y
      BY <3>1
    <3>4. i + 1 < j + 1
      BY <2>1, <3>2, <3>3, Zenon DEF Precedes
    <3> QED BY <3>2, <3>4
  <2> QED BY <2>2, <2>3 DEF x, y, z
<1>9. Few(error', check')
  <2> SUFFICES ASSUME NEW k \in Cluster, NEW a \in Addr
               PROVE  Has(error', k, a) <= 1 /\ Has(check', k, a) <= 2
    BY DEF Few
  <2>1. /\ Has(error, k, a) \in Nat /\ Has(error, k, a) <= 1
        /\ Has(check, k, a) \in Nat /\ Has(check, k, a) <= 2
        /\ (Has(error, k, a) = 0 <=> a \notin Children(error, k))
    BY <1>1, HasType DEF Few
  <2>2. Has(error', k, a) <= 1
    <3>1. CASE o.dir = "error"
      <4>1. Has(error', k, a) = Has(error, k, a) + (IF o = Create(o.dir, k, a) THEN 1 ELSE 0)
                                - (IF o = Delete(o.dir, k, a) THEN 1 ELSE 0)
        BY <1>1, <1>2, <1>4, <3>1, WrittenHas DEF o
      <4>2. ASSUME o = Create("error", k, a) PROVE a \notin Children(error, k)
        <5>1. CanWrite(error, o)
          BY <3>1 DEF o
        <5>2. o.act = "create" /\ o.dir = "error" /\ o.k = k /\ o.a = a /\ a # NULL
          BY <1>1, <4>2 DEF Create
        <5> QED BY <5>1, <5>2 DEF CanWrite, Children
      <4> QED BY <2>1, <3>1, <4>1, <4>2
    <3>2. CASE o.dir = "check"
      BY <1>4, <2>1, <3>2
    <3> QED BY <1>3, <3>1, <3>2
  <2>3. Has(check', k, a) <= 2
    <3>1. CASE o = Create("check", k, a)
      <4>1. Occurs(ops, Create("check", k, a)) > 0
        BY <1>2, <1>7, <3>1
      <4>2. Occurs(ops, Delete("check", k, a)) = 0
        BY <4>1 DEF Lined
      <4>3. Occurs(t, Delete("check", k, a)) = 0
        BY <1>2, <1>7, <4>2
      <4>4. Due(check, "check", ops, k, a) \in Nat /\ Due(check, "check", ops, k, a) <= 2
        <5> DEFINE n == Due(check, "check", ops, k, a)
                   e == Due(error, "error", ops, k, a)
        <5>1. Place(p, a \in DOMAIN live, n, e) \/ n = 0
          BY DEF Recorded
        <5> HIDE DEF n, e
        <5>2. n \in Nat /\ n <= 2
          BY <5>1 DEF Place
        <5> QED BY <5>2 DEF n
      <4>5. Due(check', "check", t, k, a) = Due(check, "check", ops, k, a)
        BY <1>5
      <4>6. Has(check', k, a) \in Nat
        <5>1. CASE o.dir = "error"
          BY <1>4, <2>1, <5>1
        <5>2. CASE o.dir = "check"
          <6>1. IsDir(check', Seq(Addr))
            BY <1>1, <1>2, <1>4, <5>2, WrittenHas DEF o
          <6> QED BY <6>1, HasType
        <5> QED BY <1>3, <5>1, <5>2
      <4> QED BY <1>7, <4>3, <4>4, <4>5, <4>6 DEF Due
    <3>2. CASE o # Create("check", k, a)
      <4>1. CASE o.dir = "check"
        <5>1. Has(check', k, a) = Has(check, k, a) + (IF o = Create(o.dir, k, a) THEN 1 ELSE 0)
                                  - (IF o = Delete(o.dir, k, a) THEN 1 ELSE 0)
          BY <1>1, <1>2, <1>4, <4>1, WrittenHas DEF o
        <5> QED BY <2>1, <3>2, <4>1, <5>1
      <4>2. CASE o.dir = "error"
        BY <1>4, <2>1, <4>2
      <4> QED BY <1>3, <4>1, <4>2
    <3> QED BY <3>1, <3>2
  <2> QED BY <2>2, <2>3
<1> QED BY <1>6, <1>8, <1>9

(* Who does not go on with a pass changes nothing.                         *)
LEMMA RecordKept ==
  ASSUME RecordInv, UNCHANGED <<error, check>>,
         \A d \in Ctrl : \/ st'[d].pc \in {"idle", "read", "free"}
                         \/ st'[d] = st[d] /\ (sess'[d] => sess[d])
  PROVE  RecordInv'
<1>1. Few(error', check')
  BY DEF RecordInv
<1>2. ASSUME NEW d \in Ctrl, Recording(d)'
      PROVE  /\ Recorded(st'[d].pc, st'[d].cfgs, st'[d].live, Pending(d)', error', check')
             /\ Lined(st'[d].pc, Pending(d)')
  <2>1. st'[d] = st[d] /\ (sess'[d] => sess[d])
    BY <1>2 DEF Recording
  <2>2. Recording(d) /\ Pending(d)' = Pending(d)
    BY <1>2, <2>1 DEF Recording, Working, Pending
  <2> QED BY <2>1, <2>2 DEF RecordInv
<1> QED BY <1>1, <1>2 DEF RecordInv

LEMMA RecordReset ==
  ASSUME TypeInv, RecordInv, NEW c \in Ctrl, UNCHANGED <<error, check>>,
         GiveUp(c) \/ st' = [st EXCEPT ![c] = NoPass], \A d \in Ctrl \ {c} : sess'[d] = sess[d]
  PROVE  RecordInv'
<1>1. PICK p \in {"idle", "free"} : Becomes(c, p, <<>>, <<>>, <<>>, {}, 0)
  BY ResetEffect DEF TypeInv
<1>2. \A d \in Ctrl : \/ st'[d].pc \in {"idle", "read", "free"}
                      \/ st'[d] = st[d] /\ (sess'[d] => sess[d])
  BY <1>1 DEF Becomes
<1> QED BY <1>2, RecordKept

(* Nor does one that goes on to a phase whose records are in order.        *)
LEMMA RecordOn ==
  ASSUME RecordInv, NEW c \in Ctrl, UNCHANGED <<error, check, sess>>,
         NEW p, NEW f, NEW o, NEW l, NEW m, NEW n, Becomes(c, p, f, o, l, m, n),
         Working(c) => /\ Recorded(p, f, l, IF p = "legal" THEN <<>> ELSE o, error, check)
                       /\ Lined(p, IF p = "legal" THEN <<>> ELSE o),
         st[c].pc # "idle"
  PROVE  RecordInv'
<1>1. Few(error', check')
  BY DEF RecordInv
<1>2. ASSUME NEW d \in Ctrl, Recording(d)'
      PROVE  /\ Recorded(st'[d].pc, st'[d].cfgs, st'[d].live, Pending(d)', error', check')
             /\ Lined(st'[d].pc, Pending(d)')
  <2>1. CASE d # c
    <3>1. st'[d] = st[d] /\ sess'[d] = sess[d]
      BY <2>1 DEF Becomes
    <3>2. Recording(d) /\ Pending(d)' = Pending(d)
      BY <1>2, <3>1 DEF Recording, Working, Pending
    <3> QED BY <3>1, <3>2 DEF RecordInv
  <2>2. CASE d = c
    <3>1. st'[c].pc = p /\ st'[c].cfgs = f /\ st'[c].ops = o /\ st'[c].live = l
      BY DEF Becomes
    <3>2. Working(c)
      BY <1>2, <2>2 DEF Recording, Working
    <3>3. Pending(c)' = IF p = "legal" THEN <<>> ELSE o
      BY <3>1 DEF Pending
    <3> QED BY <2>2, <3>1, <3>2, <3>3
  <2> QED BY <2>1, <2>2
<1> QED BY <1>1, <1>2 DEF RecordInv

(* Of the others none is at work when a controller writes.                 *)
LEMMA OthersOut ==
  ASSUME LockInv, NEW c \in Ctrl, Working(c), NEW d \in Ctrl \ {c}
  PROVE  ~ Working(d)
  BY DEF LockInv, OneController

LEMMA WriterRecords ==
  ASSUME TypeInv, LockInv, RecordInv, NEW c \in Ctrl, sess[c], st[c].ops # <<>>,
         st[c].pc # "legal"
  PROVE  /\ Working(c) /\ Recording(c) /\ Pending(c) = st[c].ops
         /\ st[c].ops \in Seq(Op) /\ st[c].pc \in {"sync", "error", "check"}
         /\ Recorded(st[c].pc, st[c].cfgs, st[c].live, st[c].ops, error, check)
         /\ Lined(st[c].pc, st[c].ops)
<1>1. PassOK(st[c])
  BY DEF TypeInv, Passes
<1>2. st[c].ops \in Seq(Op) /\ st[c].pc \in {"sync", "error", "check"}
  BY <1>1 DEF PassOK
<1>3. Working(c) /\ Recording(c) /\ Pending(c) = st[c].ops
  BY <1>2 DEF Working, Recording, Pending
<1> QED BY <1>2, <1>3 DEF RecordInv

(* A write by a controller at work, whether or not it hears of it.         *)
LEMMA RecordWritten ==
  ASSUME TypeInv, LockInv, RecordInv, NEW c \in Ctrl, sess[c], UNCHANGED sess,
         st[c].ops # <<>>, Possible(c), Apply(c),
         GiveUp(c) \/ st' = [st EXCEPT ![c].ops = Tail(@)]
  PROVE  RecordInv'
<1>1. CASE st[c].pc = "legal"
  <2>1. UNCHANGED <<error, check>>
    BY <1>1 DEF Apply, ApplyLegal
  <2>2. CASE GiveUp(c)
    BY <2>1, <2>2, RecordReset
  <2>3. CASE st' = [st EXCEPT ![c].ops = Tail(@)]
    <3>1. Becomes(c, "legal", st[c].cfgs, Tail(st[c].ops), st[c].live, st[c].cmds, st[c].tries)
      BY <1>1, <2>3, WriteEffect DEF TypeInv
    <3>2. Working(c) => /\ Recorded("legal", st[c].cfgs, st[c].live, <<>>, error, check)
                        /\ Lined("legal", <<>>)
      BY <1>1 DEF RecordInv, Recording, Pending
    <3> QED BY <1>1, <2>1, <3>1, <3>2, RecordOn
  <2> QED BY <2>2, <2>3
<1>2. CASE st[c].pc # "legal"
  <2> DEFINE o == Head(st[c].ops)
             t == Tail(st[c].ops)
  <2>1. /\ Working(c) /\ st[c].ops \in Seq(Op) /\ st[c].pc \in {"sync", "error", "check"}
        /\ Recorded(st[c].pc, st[c].cfgs, st[c].live, st[c].ops, error, check)
        /\ Lined(st[c].pc, st[c].ops)
    BY <1>2, WriterRecords
  <2>2. CanWrite(IF o.dir = "error" THEN error ELSE check, o) /\ ApplyRecord(o)
    BY <1>2 DEF Possible, Apply
  <2>3. /\ Recorded(st[c].pc, st[c].cfgs, st[c].live, t, error', check')
        /\ Lined(st[c].pc, t) /\ Few(error', check')
    BY <2>1, <2>2, WrittenRecords DEF TypeInv, RecordInv
  <2>4. \A d \in Ctrl \ {c} : st'[d] = st[d]
    BY ResetEffect, WriteEffect DEF TypeInv, Becomes
  <2>5. \A d \in Ctrl \ {c} : ~ Recording(d)'
    BY <2>1, <2>4, OthersOut DEF Recording, Working
  <2> HIDE DEF o, t
  <2>6. ASSUME Recording(c)'
        PROVE  /\ Recorded(st'[c].pc, st'[c].cfgs, st'[c].live, Pending(c)', error', check')
               /\ Lined(st'[c].pc, Pending(c)')
    <3>1. ~ GiveUp(c)
      BY <2>6, ResetEffect DEF TypeInv, Becomes, Recording
    <3>2. Becomes(c, st[c].pc, st[c].cfgs, t, st[c].live, st[c].cmds, st[c].tries)
      BY <3>1, WriteEffect DEF TypeInv, t
    <3>3. /\ st'[c].pc = st[c].pc /\ st'[c].cfgs = st[c].cfgs /\ st'[c].live = st[c].live
          /\ Pending(c)' = t
      BY <1>2, <3>2 DEF Becomes, Pending
    <3> QED BY <2>3, <3>3
  <2> QED BY <2>3, <2>5, <2>6 DEF RecordInv
<1> QED BY <1>1, <1>2

LEMMA RecordStep ==
  ASSUME TypeInv, LockInv, RecordInv, [Next]_vars
  PROVE  RecordInv'
<1>1. ASSUME NEW c \in Ctrl, GetLock(c)
      PROVE  RecordInv'
  <2>1. Becomes(c, "read", st[c].cfgs, st[c].ops, st[c].live, st[c].cmds, st[c].tries)
    BY <1>1, GotoEffect DEF TypeInv, GetLock
  <2>2. \A d \in Ctrl : \/ st'[d].pc \in {"idle", "read", "free"}
                        \/ st'[d] = st[d] /\ (sess'[d] => sess[d])
    BY <1>1, <2>1 DEF Becomes, GetLock
  <2> QED BY <1>1, <2>2, RecordKept DEF GetLock
<1>2. ASSUME NEW c \in Ctrl, Read(c)
      PROVE  RecordInv'
  <2>1. UNCHANGED <<error, check, sess>> /\ st[c].pc = "read"
    BY <1>2 DEF Read
  <2>2. CASE GiveUp(c)
    BY <2>1, <2>2, RecordReset
  <2>3. CASE ~ GiveUp(c)
    <3> DEFINE o == Sync(config)
    <3>1. /\ st' = [st EXCEPT ![c].pc = "sync", ![c].cfgs = config, ![c].ops = o,
                              ![c].tries = TryTimes]
          /\ ~ Duplicate(config)
      BY <1>2, <2>3 DEF Read
    <3>2. Becomes(c, "sync", config, o, st[c].live, st[c].cmds, TryTimes)
      BY <3>1, ReadEffect DEF TypeInv
    <3>3. Recorded("sync", config, st[c].live, o, error, check) /\ Lined("sync", o)
      BY <3>1, SyncRecords DEF TypeInv, Around, RecordInv
    <3> HIDE DEF o
    <3> QED BY <2>1, <3>2, <3>3, RecordOn
  <2> QED BY <2>2, <2>3
<1>3. ASSUME NEW c \in Ctrl, Write(c)
      PROVE  RecordInv'
  <2>1. CASE sess[c] /\ Possible(c)
    <3>1. Apply(c) /\ st[c].ops # <<>> /\ st' = [st EXCEPT ![c].ops = Tail(@)] /\ UNCHANGED sess
      BY <1>3, <2>1 DEF Write
    <3> QED BY <2>1, <3>1, RecordWritten
  <2>2. CASE ~ (sess[c] /\ Possible(c))
    <3>1. GiveUp(c) /\ UNCHANGED <<error, check, sess>>
      BY <1>3, <2>2 DEF Write
    <3> QED BY <3>1, RecordReset
  <2> QED BY <2>1, <2>2
<1>4. ASSUME NEW c \in Ctrl, CheckRedis(c)
      PROVE  RecordInv'
  <2>1. PICK p, l, n : Round(c, p, l, n)
    BY <1>4, CheckRedisEffect
  <2>2. /\ UNCHANGED <<error, check, sess>> /\ st[c].pc = "sync" /\ st[c].ops = <<>>
        /\ p \in {"sync", "redis"} /\ Becomes(c, p, st[c].cfgs, <<>>, l, st[c].cmds, n)
    BY <1>4, <2>1 DEF CheckRedis, At, Round
  <2>3. ASSUME Working(c)
        PROVE  Recorded(p, st[c].cfgs, l, <<>>, error, check) /\ Lined(p, <<>>)
    <3>1. Recorded("sync", st[c].cfgs, st[c].live, <<>>, error, check)
      BY <2>2, <2>3 DEF RecordInv, Recording, Pending
    <3> QED BY <2>2, <3>1, AskedRecords
  <2>4. p # "legal"
    BY <2>2
  <2> QED BY <2>2, <2>3, <2>4, RecordOn
<1>5. ASSUME NEW c \in Ctrl, CheckError(c)
      PROVE  RecordInv'
  <2>1. UNCHANGED <<error, check, sess>> /\ st[c].pc = "redis" /\ st[c].ops = <<>>
    BY <1>5 DEF CheckError, At
  <2>2. CASE GiveUp(c)
    BY <2>1, <2>2, RecordReset
  <2>3. CASE ~ GiveUp(c)
    <3> DEFINE o == CheckErrorOps(st[c].live)
    <3>1. Plan(c, "error", o)
      BY <1>5, <2>3 DEF CheckError
    <3>2. Becomes(c, "error", st[c].cfgs, o, st[c].live, st[c].cmds, st[c].tries)
      BY <3>1, PlanEffect DEF TypeInv
    <3>3. ASSUME Working(c)
          PROVE  Recorded("error", st[c].cfgs, st[c].live, o, error, check) /\ Lined("error", o)
      <4>1. Recorded("redis", st[c].cfgs, st[c].live, <<>>, error, check)
        BY <2>1, <3>3 DEF RecordInv, Recording, Pending
      <4> QED BY <4>1, ErrorRecords DEF TypeInv
    <3> HIDE DEF o
    <3> QED BY <2>1, <3>2, <3>3, RecordOn
  <2> QED BY <2>2, <2>3
<1>6. ASSUME NEW c \in Ctrl, CheckCheck(c)
      PROVE  RecordInv'
  <2>1. UNCHANGED <<error, check, sess>> /\ st[c].pc = "error" /\ st[c].ops = <<>>
    BY <1>6 DEF CheckCheck, At
  <2>2. CASE GiveUp(c)
    BY <2>1, <2>2, RecordReset
  <2>3. CASE ~ GiveUp(c)
    <3> DEFINE o == CheckCheckOps(st[c].live)
    <3>1. Plan(c, "check", o)
      BY <1>6, <2>3 DEF CheckCheck
    <3>2. Becomes(c, "check", st[c].cfgs, o, st[c].live, st[c].cmds, st[c].tries)
      BY <3>1, PlanEffect DEF TypeInv
    <3>3. ASSUME Working(c)
          PROVE  Recorded("check", st[c].cfgs, st[c].live, o, error, check) /\ Lined("check", o)
      <4>1. Recorded("error", st[c].cfgs, st[c].live, <<>>, error, check)
        BY <2>1, <3>3 DEF RecordInv, Recording, Pending
      <4> QED BY <4>1, CheckRecords DEF TypeInv
    <3> HIDE DEF o
    <3> QED BY <2>1, <3>2, <3>3, RecordOn
  <2> QED BY <2>2, <2>3
<1>7. ASSUME NEW c \in Ctrl, GenLegal(c)
      PROVE  RecordInv'
  <2>1. UNCHANGED <<error, check, sess>> /\ st[c].pc = "check" /\ st[c].ops = <<>>
    BY <1>7 DEF GenLegal, At
  <2>2. CASE GiveUp(c)
    BY <2>1, <2>2, RecordReset
  <2>3. CASE ~ GiveUp(c)
    <3>1. PICK o, m : st' = [st EXCEPT ![c].pc = "legal", ![c].ops = o, ![c].cmds = m]
      BY <1>7, <2>3 DEF GenLegal
    <3>2. Becomes(c, "legal", st[c].cfgs, o, st[c].live, m, st[c].tries)
      BY <3>1, GenEffect DEF TypeInv
    <3>3. ASSUME Working(c)
          PROVE  Recorded("legal", st[c].cfgs, st[c].live, <<>>, error, check) /\ Lined("legal", <<>>)
      <4>1. Recorded("check", st[c].cfgs, st[c].live, <<>>, error, check) /\ Lined("check", <<>>)
        BY <2>1, <3>3 DEF RecordInv, Recording, Pending
      <4>2. \A n, e, x : Place("check", x, n, e) => Place("legal", x, n, e)
        BY DEF Place
      <4>3. Recorded("legal", st[c].cfgs, st[c].live, <<>>, error, check)
        BY <4>1, <4>2, Zenon DEF Recorded
      <4>4. Lined("legal", <<>>)
        BY LinedNone
      <4> QED BY <4>3, <4>4
    <3> QED BY <2>1, <3>2, <3>3, RecordOn
  <2> QED BY <2>2, <2>3
<1>8. ASSUME NEW c \in Ctrl, DoSlaveof(c)
      PROVE  RecordInv'
  <2>1. UNCHANGED <<error, check, sess>> /\ st[c].pc = "legal" /\ st[c].ops = <<>>
    BY <1>8 DEF DoSlaveof, At
  <2>2. CASE GiveUp(c)
    BY <2>1, <2>2, RecordReset
  <2>3. CASE ~ GiveUp(c)
    <3> DEFINE r(ok) == st[c].cmds \ ok
               j == st[c].tries - 1
    <3>4. PICK ok : st' = [st EXCEPT ![c].cmds = r(ok), ![c].tries = j]
      BY <1>8, <2>3, Zenon DEF DoSlaveof
    <3> HIDE DEF r, j
    <3>1. PICK m, n : st' = [st EXCEPT ![c].cmds = m, ![c].tries = n]
      BY <3>4
    <3>2. Becomes(c, "legal", st[c].cfgs, st[c].ops, st[c].live, m, n)
      BY <2>1, <3>1, SendEffect DEF TypeInv
    <3>3. ASSUME Working(c)
          PROVE  Recorded("legal", st[c].cfgs, st[c].live, <<>>, error, check) /\ Lined("legal", <<>>)
      BY <2>1, <3>3 DEF RecordInv, Recording, Pending
    <3> QED BY <2>1, <3>2, <3>3, RecordOn
  <2> QED BY <2>2, <2>3
<1>9. ASSUME NEW c \in Ctrl, FreeLock(c)
      PROVE  RecordInv'
  BY <1>9, RecordReset DEF FreeLock
<1>10. ASSUME NEW c \in Ctrl, LockLost(c)
       PROVE  RecordInv'
  <2>1. UNCHANGED <<error, check, sess>> /\ (UNCHANGED st \/ st' = [st EXCEPT ![c] = NoPass])
    BY <1>10 DEF LockLost
  <2>2. CASE UNCHANGED st
    BY <2>1, <2>2, RecordKept
  <2>3. CASE st' = [st EXCEPT ![c] = NoPass]
    BY <2>1, <2>3, RecordReset
  <2> QED BY <2>1, <2>2, <2>3
<1>11. ASSUME NEW c \in Ctrl, CallLost(c)
       PROVE  RecordInv'
  <2>1. GiveUp(c) /\ sess[c] /\ UNCHANGED sess
    BY <1>11 DEF CallLost
  <2>2. CASE st[c].ops # <<>> /\ Possible(c) /\ Apply(c)
    BY <2>1, <2>2, RecordWritten
  <2>3. CASE UNCHANGED <<error, check, legal>>
    BY <2>1, <2>3, RecordReset
  <2> QED BY <1>11, <2>2, <2>3 DEF CallLost
<1>12. ASSUME NEW c \in Ctrl, SessionExpires(c)
       PROVE  RecordInv'
  <2>1. UNCHANGED <<error, check, st>> /\ sess' = [sess EXCEPT ![c] = FALSE]
    BY <1>12 DEF SessionExpires
  <2>2. \A d \in Ctrl : sess'[d] => sess[d]
    BY <2>1 DEF TypeInv, Around
  <2> QED BY <2>1, <2>2, RecordKept
<1>13. ASSUME NEW c \in Ctrl, Restart(c)
       PROVE  RecordInv'
  <2>1. /\ UNCHANGED <<error, check>> /\ st' = [st EXCEPT ![c] = NoPass]
        /\ sess' = [sess EXCEPT ![c] = TRUE]
    BY <1>13 DEF Restart
  <2>2. \A d \in Ctrl \ {c} : sess'[d] = sess[d]
    BY <2>1 DEF TypeInv, Around
  <2> QED BY <2>1, <2>2, RecordReset
<1>14. CASE DeadSession \/ Configure \/ (\E a \in Addr : Redis(a)) \/ UNCHANGED vars
  <2>1. UNCHANGED <<error, check, st, sess>>
    BY <1>14 DEF DeadSession, Configure, Redis, vars
  <2> QED BY <2>1, RecordKept
<1> QED
  BY <1>1, <1>2, <1>3, <1>4, <1>5, <1>6, <1>7, <1>8, <1>9, <1>10, <1>11, <1>12, <1>13, <1>14
     DEF Next, Step, Fault

CtrlInv == TypeInv /\ LockInv /\ RecordInv

LEMMA CtrlInit ==
  ASSUME Init
  PROVE  CtrlInv
<1>1. TypeInv
  BY TypeInit
<1>2. LockInv
  BY DEF Init, LockInv, Shape, IdleDone, OneController, Working, NoPass
<1>3. Few(error, check)
  BY DEF Init, Few, Has
<1>4. RecordInv
  BY <1>3 DEF Init, RecordInv, Recording, Working, NoPass
<1> QED BY <1>1, <1>2, <1>4 DEF CtrlInv

LEMMA CtrlStep ==
  ASSUME CtrlInv, [Next]_vars
  PROVE  CtrlInv'
  BY TypeStep, LockStep, RecordStep DEF CtrlInv

(* When gen_legal_redis has decided what to publish, every configured      *)
(* server that has answered in this pass is once in check and nowhere in   *)
(* error, and every other one is in error and not in check, whatever       *)
(* earlier passes, crashed or failed half way, had left on record.         *)
THEOREM ClassifiedCorrect == Spec => []Classified
<1>1. Init => CtrlInv
  BY CtrlInit
<1>2. CtrlInv /\ [Next]_vars => CtrlInv'
  BY CtrlStep
<1>3. ASSUME CtrlInv
      PROVE  Classified
  <2> SUFFICES ASSUME NEW c \in Ctrl, Working(c), st[c].pc = "legal"
               PROVE  /\ DOMAIN check = DOMAIN st[c].cfgs /\ DOMAIN error = DOMAIN st[c].cfgs
                      /\ \A k \in DOMAIN st[c].cfgs :
                           /\ Range(check[k]) = st[c].cfgs[k] \cap DOMAIN st[c].live
                           /\ Range(error[k]) = st[c].cfgs[k] \ DOMAIN st[c].live
                           /\ Twice(check[k]) = {}
    BY DEF Classified
  <2> DEFINE f == st[c].cfgs
             live == st[c].live
  <2>1. /\ IsDir(check, Seq(Addr)) /\ IsDir(error, Seq(Addr)) /\ IsDir(f, SUBSET Addr)
        /\ NULL \notin Addr
    BY <1>3, RedisCtrlAssumption
       DEF RedisCtrlAssumption, CtrlInv, TypeInv, Records, Passes, PassOK
  <2>2. Recorded("legal", f, live, <<>>, error, check)
    BY <1>3 DEF CtrlInv, RecordInv, Recording, Pending
  <2> HIDE DEF f, live
  <2>3. \A k \in Cluster : /\ Has(check, k, NULL) = IF k \in DOMAIN f THEN 1 ELSE 0
                           /\ Has(error, k, NULL) = IF k \in DOMAIN f THEN 1 ELSE 0
    BY <2>1, <2>2, DueNone DEF Recorded
  <2>4. DOMAIN check = DOMAIN f /\ DOMAIN error = DOMAIN f
    BY <2>1, <2>3 DEF Has, IsDir
  <2>5. ASSUME NEW k \in DOMAIN f
        PROVE  /\ Range(check[k]) = f[k] \cap DOMAIN live
               /\ Range(error[k]) = f[k] \ DOMAIN live
               /\ Twice(check[k]) = {}
    <3>1. k \in Cluster /\ Servers(f, k) = f[k] /\ Range(check[k]) = Children(check, k)
          /\ Range(error[k]) = Children(error, k)
      BY <2>1, <2>4 DEF IsDir, Servers, Children
    <3>2. Range(check[k]) \subseteq Addr /\ Range(error[k]) \subseteq Addr /\ f[k] \subseteq Addr
      BY <2>1, <2>4, RangeOfSeq DEF IsDir
    <3>3. ASSUME NEW a \in Addr
          PROVE  /\ IF a \in f[k] THEN Place("legal", a \in DOMAIN live, Has(check, k, a), Has(error, k, a))
                    ELSE Has(check, k, a) = 0 /\ Has(error, k, a) = 0
                 /\ Has(check, k, a) \in Nat /\ (Has(check, k, a) = 0 <=> a \notin Range(check[k]))
                 /\ Has(error, k, a) \in Nat /\ (Has(error, k, a) = 0 <=> a \notin Range(error[k]))
      BY <2>1, <2>2, <3>1, DueNone, HasType DEF Recorded
    <3>4. ASSUME NEW a \in Addr
          PROVE  /\ a \in Range(check[k]) <=> a \in f[k] /\ a \in DOMAIN live
                 /\ a \in Range(error[k]) <=> a \in f[k] /\ a \notin DOMAIN live
                 /\ Has(check, k, a) <= 1
      BY <3>3 DEF Place
    <3>5. \A a \in Addr : a \notin Twice(check[k])
      BY <2>1, <2>4, <3>1, <3>3, <3>4, TwiceIs
    <3> QED BY <3>2, <3>4, <3>5 DEF Twice
  <2> QED BY <2>4, <2>5 DEF f, live
<1> QED
  BY <1>1, <1>2, <1>3, PTL DEF Spec

(* The oldest entry of a cluster is taken away only when it is the only    *)
(* one with its address: get_check leaves it, since it deletes the younger *)
(* of two (RemoveNewest).                                                  *)
LEMMA OldestGoes ==
  ASSUME IsDir(check, Seq(Addr)), NEW o \in Op, CanWrite(check, o),
         NEW k \in DOMAIN check, check[k] # <<>>
  PROVE  \/ k \in DOMAIN Written(check, o) /\ Written(check, o)[k] # <<>>
            /\ Head(Written(check, o)[k]) = Head(check[k])
         \/ o = Delete(o.dir, k, Head(check[k])) /\ Occurs(check[k], Head(check[k])) <= 1
<1> DEFINE w == Written(check, o)
           m == Head(check[k])
<1>1. check[k] \in Seq(Addr) /\ m \in Addr
  BY HeadTailProperties DEF IsDir
<1>2. /\ o.k \in Cluster /\ o.a \in {NULL} \cup Addr /\ o.act \in {"create", "delete"}
      /\ o = Delete(o.dir, k, m) <=> o.act = "delete" /\ o.k = k /\ o.a = m
  BY DEF Op, Delete
<1>3. CASE o.a = NULL /\ o.act = "create"
  <2>1. o.k \notin DOMAIN check
        /\ w = [j \in DOMAIN check \cup {o.k} |-> IF j = o.k THEN <<>> ELSE check[j]]
    BY <1>3 DEF CanWrite, Written
  <2> HIDE DEF w
  <2>2. k \in DOMAIN w /\ w[k] = check[k]
    BY <2>1
  <2> QED BY <2>2 DEF w
<1>4. CASE o.a = NULL /\ o.act = "delete"
  <2>1. check[o.k] = <<>> /\ w = [j \in DOMAIN check \ {o.k} |-> check[j]]
    BY <1>4 DEF CanWrite, Written, Restrict
  <2> HIDE DEF w
  <2>2. k \in DOMAIN w /\ w[k] = check[k]
    BY <2>1
  <2> QED BY <2>2 DEF w
<1>5. CASE o.a # NULL
  <2> DEFINE s == IF o.act = "create" THEN Append(check[o.k], o.a)
                  ELSE RemoveNewest(check[o.k], o.a)
  <2>1. w = [check EXCEPT ![o.k] = s] /\ (o.act = "delete" => o.a \in Children(check, o.k))
    BY <1>2, <1>5 DEF CanWrite, Written
  <2>2. CASE o.k # k
    <3> HIDE DEF w, s
    <3>1. k \in DOMAIN w /\ w[k] = check[k]
      BY <2>1, <2>2
    <3> QED BY <3>1 DEF w
  <2>3. CASE o.k = k
    <3>1. k \in DOMAIN w /\ w[k] = s
      <4> HIDE DEF w, s
      <4> QED BY <2>1, <2>3
    <3>2. CASE o.act = "create"
      <4>1. s = Append(check[k], o.a) /\ o.a \in Addr
        BY <1>2, <1>5, <2>3, <3>2
      <4> HIDE DEF s, w
      <4>2. s # <<>> /\ Head(s) = m
        BY <1>1, <4>1, AppendProperties, EmptySeq
      <4> QED BY <3>1, <4>2 DEF w
    <3>3. CASE o.act = "delete"
      <4>1. s = RemoveNewest(check[k], o.a) /\ o.a \in Range(check[k])
        BY <2>1, <2>3, <3>3 DEF Children
      <4>2. Occurs(check[k], m) \in Nat
        BY <1>1, PlacesFinite
      <4> HIDE DEF s, w
      <4>3. CASE m # o.a \/ Occurs(check[k], o.a) > 1
        <5>1. s # <<>> /\ Head(s) = m
          BY <1>1, <4>1, <4>3, NewestRemoved
        <5> QED BY <3>1, <5>1 DEF w
      <4>4. CASE m = o.a /\ ~ (Occurs(check[k], o.a) > 1)
        BY <1>2, <2>3, <3>3, <4>2, <4>4
      <4> QED BY <4>3, <4>4
    <3> QED BY <1>2, <3>2, <3>3
  <2> QED BY <2>2, <2>3
<1> QED BY <1>2, <1>3, <1>4, <1>5

(* What a controller at work deletes last of a server: it is not           *)
(* configured, or on record in error.                                      *)
LEMMA LastGoes ==
  ASSUME Records, NEW ops \in Seq(Op), ops # <<>>, NEW p \in {"sync", "error", "check"},
         NEW f, NEW live, Recorded(p, f, live, ops, error, check), Lined(p, ops),
         NEW k \in DOMAIN check, NEW m \in Addr, Head(ops) = Delete("check", k, m),
         Occurs(check[k], m) <= 1
  PROVE  m \in Children(error, k) \/ m \notin Servers(f, k)
<1> SUFFICES ASSUME m \in Servers(f, k)
             PROVE  m \in Children(error, k)
  OBVIOUS
<1>1. IsDir(error, Seq(Addr)) /\ IsDir(check, Seq(Addr)) /\ NULL \notin Addr /\ k \in Cluster
  BY RedisCtrlAssumption DEF RedisCtrlAssumption, Records, IsDir
<1> DEFINE x == Create("error", k, m)
           y == Delete("check", k, m)
           z == Create("check", k, m)
           v == Delete("error", k, m)
<1>2. \A u : Occurs(ops, u) \in Nat /\ (Occurs(ops, u) = 0 <=> u \notin Range(ops))
  BY PlacesFinite
<1>3. /\ Len(ops) \in Nat /\ DOMAIN ops = 1 .. Len(ops) /\ 1 \in DOMAIN ops /\ ops[1] = y
  <2>1. Len(ops) \in Nat \ {0} /\ DOMAIN ops = 1 .. Len(ops)
    BY LenProperties, EmptySeq
  <2>2. Head(ops) = ops[1]
    BY HeadTailProperties
  <2> QED BY <2>1, <2>2
<1>4. Precedes(ops, x, y) /\ (Occurs(ops, z) > 0 => Occurs(ops, y) = 0)
  BY <1>1 DEF Lined
<1>5. /\ Has(check, k, m) \in Nat /\ Has(check, k, m) <= 1
      /\ Has(error, k, m) \in Nat /\ (Has(error, k, m) = 0 <=> m \notin Children(error, k))
  BY <1>1, HasType DEF Has
<1> DEFINE n == Due(check, "check", ops, k, m)
           e == Due(error, "error", ops, k, m)
<1>6. /\ n = Has(check, k, m) + Occurs(ops, z) - Occurs(ops, y)
      /\ e = Has(error, k, m) + Occurs(ops, x) - Occurs(ops, v)
  BY DEF Due
<1>7. Place(p, m \in DOMAIN live, n, e)
  BY <1>1 DEF Recorded
<1> HIDE DEF x, y, z, v, n, e
<1>8. Occurs(ops, y) > 0
  <2>1. y \in Range(ops)
    BY <1>3 DEF Range
  <2> QED BY <1>2, <2>1
<1>9. Occurs(ops, x) = 0
  <2> SUFFICES ASSUME x \in Range(ops) PROVE FALSE
    BY <1>2
  <2>1. PICK i \in DOMAIN ops : ops[i] = x
    BY DEF Range
  <2>2. i < 1
    BY <1>3, <1>4, <2>1, Zenon DEF Precedes
  <2> QED BY <1>3, <2>1, <2>2
<1>10. n <= 0
  BY <1>2, <1>4, <1>5, <1>6, <1>8
<1>11. e > 0
  BY <1>7, <1>10 DEF Place
<1> QED BY <1>2, <1>5, <1>6, <1>9, <1>11

(* The oldest entry of a cluster, its master, changes only when the server *)
(* is on record as out of order or the pass that takes it away has found   *)
(* it not configured.                                                      *)
THEOREM MasterStickyCorrect == Spec => MasterSticky
<1> DEFINE Sticky ==
      \A k \in DOMAIN check : check[k] # <<>> =>
        LET m == Head(check[k])
        IN \/ k \in DOMAIN check' /\ check'[k] # <<>> /\ Head(check'[k]) = m
           \/ m \in Children(error, k)
           \/ \E c \in Ctrl : Working(c) /\ m \notin Servers(st[c].cfgs, k)
<1>1. Init => CtrlInv
  BY CtrlInit
<1>2. CtrlInv /\ [Next]_vars => CtrlInv'
  BY CtrlStep
<1>3. ASSUME CtrlInv, [Next]_vars
      PROVE  [Sticky]_vars
  <2>1. ASSUME NEW c \in Ctrl, sess[c], st[c].ops # <<>>, Possible(c), Apply(c)
        PROVE  Sticky
    <3> DEFINE o == Head(st[c].ops)
    <3>1. CASE st[c].pc = "legal"
      BY <2>1, <3>1 DEF Apply, ApplyLegal
    <3>2. CASE st[c].pc # "legal"
      <4>1. /\ Working(c) /\ st[c].ops \in Seq(Op) /\ st[c].pc \in {"sync", "error", "check"}
            /\ Recorded(st[c].pc, st[c].cfgs, st[c].live, st[c].ops, error, check)
            /\ Lined(st[c].pc, st[c].ops)
        BY <1>3, <2>1, <3>2, WriterRecords DEF CtrlInv
      <4>2. CanWrite(IF o.dir = "error" THEN error ELSE check, o) /\ ApplyRecord(o)
        BY <2>1, <3>2 DEF Possible, Apply
      <4>3. o \in Op /\ o.dir \in {"error", "check"}
        <5>1. o \in Op
          BY <2>1, <4>1, HeadTailProperties
        <5> QED BY <5>1 DEF Op
      <4>4. CASE o.dir = "error"
        BY <4>2, <4>4 DEF ApplyRecord
      <4>5. CASE o.dir = "check"
        <5> SUFFICES ASSUME NEW k \in DOMAIN check, check[k] # <<>>
                     PROVE  \/ k \in DOMAIN check' /\ check'[k] # <<>>
                               /\ Head(check'[k]) = Head(check[k])
                            \/ Head(check[k]) \in Children(error, k)
                            \/ Head(check[k]) \notin Servers(st[c].cfgs, k)
          BY <4>1
        <5>1. check' = Written(check, o) /\ CanWrite(check, o)
          BY <4>2, <4>5 DEF ApplyRecord
        <5>2. Records /\ IsDir(check, Seq(Addr))
          BY <1>3 DEF CtrlInv, TypeInv, Records
        <5> DEFINE m == Head(check[k])
        <5>3. m \in Addr
          BY <5>2, HeadTailProperties DEF IsDir
        <5> HIDE DEF m, o
        <5>4. CASE o = Delete("check", k, m) /\ Occurs(check[k], m) <= 1
          <6>1. m \in Children(error, k) \/ m \notin Servers(st[c].cfgs, k)
            BY <2>1, <4>1, <5>2, <5>3, <5>4, LastGoes DEF o
          <6> QED BY <6>1 DEF m
        <5>5. CASE ~ (o = Delete("check", k, m) /\ Occurs(check[k], m) <= 1)
          BY <4>3, <4>5, <5>1, <5>2, <5>5, OldestGoes DEF m
        <5> QED BY <5>4, <5>5
      <4> QED BY <4>3, <4>4, <4>5
    <3> QED BY <3>1, <3>2
  <2>2. CASE UNCHANGED check
    BY <2>2
  <2>3. ASSUME NEW c \in Ctrl, Write(c)
        PROVE  Sticky
    <3>1. CASE sess[c] /\ Possible(c)
      BY <2>1, <2>3, <3>1 DEF Write
    <3>2. CASE ~ (sess[c] /\ Possible(c))
      BY <2>2, <2>3, <3>2 DEF Write
    <3> QED BY <3>1, <3>2
  <2>4. ASSUME NEW c \in Ctrl, CallLost(c)
        PROVE  Sticky
    <3>1. CASE st[c].ops # <<>> /\ Possible(c) /\ Apply(c)
      BY <2>1, <2>4, <3>1 DEF CallLost
    <3>2. CASE UNCHANGED <<error, check, legal>>
      BY <2>2, <3>2
    <3> QED BY <2>4, <3>1, <3>2 DEF CallLost
  <2> HIDE DEF Sticky
  <2>5. ASSUME NEW c \in Ctrl, \/ GetLock(c) \/ Read(c) \/ CheckRedis(c) \/ CheckError(c)
                               \/ CheckCheck(c) \/ GenLegal(c) \/ DoSlaveof(c) \/ FreeLock(c)
                               \/ LockLost(c) \/ SessionExpires(c) \/ Restart(c)
        PROVE  UNCHANGED check
    BY <2>5 DEF GetLock, Read, CheckRedis, CheckError, CheckCheck, GenLegal, DoSlaveof,
                FreeLock, LockLost, SessionExpires, Restart
  <2>6. DeadSession \/ Configure \/ (\E a \in Addr : Redis(a)) => UNCHANGED check
    BY DEF DeadSession, Configure, Redis
  <2> QED BY <1>3, <2>2, <2>3, <2>4, <2>5, <2>6 DEF Next, Step, Fault
<1>4. Spec => [][Sticky]_vars
  BY <1>1, <1>2, <1>3, PTL DEF Spec
<1> QED BY <1>4 DEF MasterSticky

-----------------------------------------------------------------------------
(* What legal_cmp still has to write.                                      *)

Coming(ops) == {ops[i].node : i \in {j \in DOMAIN ops : ops[j].act = "create"}}
Going(ops)  == {ops[i].node : i \in {j \in DOMAIN ops : ops[j].act = "delete"}}

(* The command m makes a server of the list l the slave of its first, or   *)
(* the first a master.                                                     *)
Follows(m, l) == /\ m[1] \in Range(l.rds)
                 /\ m[2] = IF m[1] = l.rds[1] THEN NULL ELSE l.rds[1]

(* Two nodes that clients cannot have both: of one cluster, or with a      *)
(* server in common.                                                       *)
Clash(m, n) == m.cls = n.cls \/ Range(m.rds) \cap Range(n.rds) # {}

(* The writes ops, on the nodes S: a node comes when those it clashes with *)
(* have gone, and none that it clashes with comes.                         *)
Orderly(ops, S) ==
  \A i \in DOMAIN ops : ops[i].act = "create" =>
    /\ \A n \in S : Clash(n, ops[i].node) =>
         \E j \in DOMAIN ops : j < i /\ ops[j].act = "delete" /\ ops[j].node = n
    /\ \A j \in DOMAIN ops : ops[j].act = "create" /\ j # i =>
         ~ Clash(ops[j].node, ops[i].node)

(* Every command follows a list that is there or comes, and does not go.   *)
Covered(ops, S, cmds) ==
  \A m \in cmds : \E l \in (S \cup Coming(ops)) \ Going(ops) : Follows(m, l)

Ready(ops, S, cmds) ==
  /\ ops \in Seq(Range(ops))
  /\ \A i \in DOMAIN ops : /\ ops[i].act \in {"create", "delete"}
                           /\ ops[i].act = "create" => ops[i].node \in L!Node
  /\ Orderly(ops, S)
  /\ Covered(ops, S, cmds)

(* AtMostOneLegal and NoSharedRedis of the nodes S.                        *)
Apart(S) == \A m, n \in S : Clash(m, n) => m = n

LEMMA ClashSym ==
  ASSUME NEW m, NEW n
  PROVE  Clash(m, n) => Clash(n, m)
  BY DEF Clash

LEMMA TailOfSeq ==
  ASSUME NEW T, NEW s \in Seq(T), s # <<>>
  PROVE  /\ Len(s) \in Nat \ {0} /\ DOMAIN s = 1 .. Len(s) /\ Head(s) = s[1]
         /\ DOMAIN Tail(s) = 1 .. Len(s) - 1
         /\ \A i \in DOMAIN Tail(s) : i + 1 \in DOMAIN s /\ Tail(s)[i] = s[i + 1]
         /\ Tail(s) \in Seq(Range(Tail(s)))
<1>1. Len(s) \in Nat \ {0} /\ DOMAIN s = 1 .. Len(s) /\ Head(s) = s[1]
  OBVIOUS
<1>2. Tail(s) \in Seq(T) /\ Len(Tail(s)) = Len(s) - 1
  OBVIOUS
<1>3. DOMAIN Tail(s) = 1 .. Len(s) - 1
  BY <1>1, <1>2
<1>4. \A i \in DOMAIN Tail(s) : i + 1 \in DOMAIN s /\ Tail(s)[i] = s[i + 1]
  BY <1>1, <1>3
<1>5. Tail(s) \in Seq(Range(Tail(s)))
  BY <1>2, SeqOfRange
<1> QED BY <1>1, <1>3, <1>4, <1>5

(* The first write leaves what is left of them as orderly, and never makes *)
(* a second node of a cluster.                                             *)
LEMMA ReadyTail ==
  ASSUME NEW ops, NEW S, NEW cmds, Ready(ops, S, cmds), ops # <<>>,
         NEW T, T = IF Head(ops).act = "create" THEN S \cup {Head(ops).node}
                    ELSE S \ {Head(ops).node}
  PROVE  Ready(Tail(ops), T, cmds) /\ (Apart(S) => Apart(T))
<1> DEFINE rest == Tail(ops)
<1>1. /\ Len(ops) \in Nat \ {0} /\ DOMAIN ops = 1 .. Len(ops) /\ Head(ops) = ops[1]
      /\ DOMAIN rest = 1 .. Len(ops) - 1
      /\ \A i \in DOMAIN rest : i + 1 \in DOMAIN ops /\ rest[i] = ops[i + 1]
      /\ rest \in Seq(Range(rest))
  <2>1. ops \in Seq(Range(ops))
    BY DEF Ready
  <2> QED BY <2>1, TailOfSeq
<1>2. 1 \in DOMAIN ops /\ ops[1].act \in {"create", "delete"}
  BY <1>1 DEF Ready
<1>3. T = IF ops[1].act = "create" THEN S \cup {ops[1].node} ELSE S \ {ops[1].node}
  BY <1>1
<1> HIDE DEF rest
<1>4. \A i \in DOMAIN rest : /\ rest[i].act \in {"create", "delete"}
                             /\ rest[i].act = "create" => rest[i].node \in L!Node
  BY <1>1 DEF Ready
<1>5. Orderly(rest, T)
  <2> SUFFICES ASSUME NEW i \in DOMAIN rest, rest[i].act = "create"
               PROVE  /\ \A n \in T : Clash(n, rest[i].node) =>
                           \E j \in DOMAIN rest : j < i /\ rest[j].act = "delete" /\ rest[j].node = n
                      /\ \A j \in DOMAIN rest : rest[j].act = "create" /\ j # i =>
                           ~ Clash(rest[j].node, rest[i].node)
    BY DEF Orderly
  <2>1. i + 1 \in DOMAIN ops /\ ops[i + 1].act = "create" /\ ops[i + 1] = rest[i] /\ i + 1 # 1
    BY <1>1
  <2>2. ASSUME NEW n \in T, Clash(n, rest[i].node)
        PROVE  \E j \in DOMAIN rest : j < i /\ rest[j].act = "delete" /\ rest[j].node = n
    <3>1. n \in S /\ ~ (ops[1].act = "delete" /\ ops[1].node = n)
      <4>1. CASE ops[1].act = "create"
        BY <1>1, <1>2, <1>3, <2>1, <2>2, <4>1 DEF Ready, Orderly
      <4>2. CASE ops[1].act = "delete"
        BY <1>3, <2>2, <4>2
      <4> QED BY <1>2, <4>1, <4>2
    <3>2. PICK j \in DOMAIN ops : j < i + 1 /\ ops[j].act = "delete" /\ ops[j].node = n
      BY <2>1, <2>2, <3>1 DEF Ready, Orderly
    <3>3. j # 1
      BY <3>1, <3>2
    <3>4. j - 1 \in DOMAIN rest /\ j - 1 < i /\ rest[j - 1] = ops[j]
      BY <1>1, <3>2, <3>3
    <3> QED BY <3>2, <3>4
  <2>3. ASSUME NEW j \in DOMAIN rest, rest[j].act = "create", j # i
        PROVE  ~ Clash(rest[j].node, rest[i].node)
    <3>1. j + 1 \in DOMAIN ops /\ ops[j + 1] = rest[j] /\ j + 1 # i + 1
      BY <1>1, <2>3
    <3> QED BY <2>1, <2>3, <3>1 DEF Ready, Orderly
  <2> QED BY <2>2, <2>3
<1>6. Covered(rest, T, cmds)
  <2> SUFFICES ASSUME NEW m \in cmds
               PROVE  \E l \in (T \cup Coming(rest)) \ Going(rest) : Follows(m, l)
    BY DEF Covered
  <2>1. PICK l \in (S \cup Coming(ops)) \ Going(ops) : Follows(m, l)
    BY DEF Ready, Covered
  <2>2. Going(rest) \subseteq Going(ops)
    BY <1>1 DEF Going
  <2>3. CASE l \in S
    <3>1. l \in T
      BY <1>2, <1>3, <2>1, <2>3 DEF Going
    <3> QED BY <2>1, <2>2, <3>1
  <2>4. CASE l \in Coming(ops)
    <3>1. PICK i \in DOMAIN ops : ops[i].act = "create" /\ l = ops[i].node
      BY <2>4 DEF Coming
    <3>2. CASE i = 1
      BY <1>3, <2>1, <2>2, <3>1, <3>2
    <3>3. CASE i # 1
      <4>1. i - 1 \in DOMAIN rest /\ rest[i - 1] = ops[i]
        BY <1>1, <3>3
      <4>2. l \in Coming(rest)
        BY <3>1, <4>1 DEF Coming
      <4> QED BY <2>1, <2>2, <4>2
    <3> QED BY <3>2, <3>3
  <2> QED BY <2>1, <2>3, <2>4
<1>7. ASSUME Apart(S)
      PROVE  Apart(T)
  <2>1. CASE ops[1].act = "create"
    <3>1. \A n \in S : ~ Clash(n, ops[1].node) /\ ~ Clash(ops[1].node, n)
      BY <1>1, <1>2, <2>1, ClashSym DEF Ready, Orderly
    <3> QED BY <1>3, <1>7, <2>1, <3>1 DEF Apart
  <2>2. CASE ops[1].act = "delete"
    BY <1>2, <1>3, <1>7, <2>2 DEF Apart
  <2> QED BY <1>2, <2>1, <2>2
<1> QED BY <1>1, <1>4, <1>5, <1>6, <1>7 DEF Ready, rest

(* What legal_cmp decides on is orderly and ends with the target.          *)
LEMMA ReadyLegalCmp ==
  ASSUME NEW target, IsFiniteSet(target), Apart(target), target \subseteq L!Node,
         IsFiniteSet(legal),
         NEW cmds, \A m \in cmds : \E l \in target : Follows(m, l)
  PROVE  Ready(LegalCmp(target), legal, cmds)
<1> DEFINE old == SetToSeq(legal \ target)
           new == SetToSeq(target \ legal)
           A == Outdated(target)
           B == Missing(target)
           ops == LegalCmp(target)
<1>1. IsFiniteSet(legal \ target) /\ IsFiniteSet(target \ legal)
  BY FS_Subset
<1>2. /\ old \in Seq(legal \ target) /\ DOMAIN old = 1 .. Len(old) /\ Len(old) \in Nat
      /\ \A i, j \in DOMAIN old : old[i] = old[j] => i = j
      /\ \A x \in legal \ target : \E i \in DOMAIN old : old[i] = x
  BY <1>1, ListOfSet
<1>3. /\ new \in Seq(target \ legal) /\ DOMAIN new = 1 .. Len(new) /\ Len(new) \in Nat
      /\ \A i, j \in DOMAIN new : new[i] = new[j] => i = j
      /\ \A x \in target \ legal : \E i \in DOMAIN new : new[i] = x
  BY <1>1, ListOfSet
<1>4. A = [i \in DOMAIN old |-> Withdraw(old[i])] /\ B = [i \in DOMAIN new |-> Publish(new[i])]
  BY DEF Outdated, Missing
<1>5. ops = A \o B
  BY DEF LegalCmp
<1> DEFINE T == {Withdraw(x) : x \in legal \ target} \cup {Publish(x) : x \in target \ legal}
<1>6. A \in Seq(T) /\ Len(A) = Len(old)
  <2> HIDE DEF A, B, ops, old, new
  <2>1. \A i \in DOMAIN old : Withdraw(old[i]) \in T
    BY <1>2
  <2> HIDE DEF T
  <2> QED BY <1>2, <1>4, <2>1
<1>7. B \in Seq(T) /\ Len(B) = Len(new)
  <2> HIDE DEF A, B, ops, old, new
  <2>1. \A i \in DOMAIN new : Publish(new[i]) \in T
    BY <1>3
  <2> HIDE DEF T
  <2> QED BY <1>3, <1>4, <2>1
<1> HIDE DEF A, B, ops, old, new, T
<1>8. /\ ops \in Seq(T) /\ DOMAIN ops = 1 .. Len(old) + Len(new)
      /\ \A i \in 1 .. Len(old) : ops[i] = Withdraw(old[i])
      /\ \A i \in 1 .. Len(new) : ops[Len(old) + i] = Publish(new[i])
  <2>1. /\ ops \in Seq(T) /\ Len(ops) = Len(old) + Len(new)
        /\ \A i \in 1 .. Len(old) + Len(new) :
             ops[i] = IF i <= Len(old) THEN A[i] ELSE B[i - Len(old)]
    <3>1. /\ A \o B \in Seq(T) /\ Len(A \o B) = Len(A) + Len(B)
          /\ \A i \in 1 .. Len(A) + Len(B) :
               (A \o B)[i] = IF i <= Len(A) THEN A[i] ELSE B[i - Len(A)]
      BY <1>6, <1>7, ConcatProperties
    <3> QED BY <1>5, <1>6, <1>7, <3>1
  <2>2. DOMAIN ops = 1 .. Len(old) + Len(new)
    BY <2>1
  <2>3. ASSUME NEW i \in 1 .. Len(old)
        PROVE  ops[i] = Withdraw(old[i])
    <3>1. i \in 1 .. Len(old) + Len(new) /\ i <= Len(old)
      BY <1>2, <1>3
    <3> QED BY <1>2, <1>4, <2>1, <3>1
  <2>4. ASSUME NEW i \in 1 .. Len(new)
        PROVE  ops[Len(old) + i] = Publish(new[i])
    <3>1. Len(old) + i \in 1 .. Len(old) + Len(new) /\ ~ (Len(old) + i <= Len(old))
          /\ Len(old) + i - Len(old) = i
      BY <1>2, <1>3
    <3>2. ops[Len(old) + i] = B[i]
      BY <2>1, <3>1
    <3> QED BY <1>3, <1>4, <3>2
  <2> QED BY <2>1, <2>2, <2>3, <2>4
<1>9. \A x : /\ Withdraw(x).act = "delete" /\ Withdraw(x).node = x
             /\ Publish(x).act = "create" /\ Publish(x).node = x
  BY DEF Withdraw, Publish
(* Which writes there are.                                                 *)
<1>10. ASSUME NEW i \in DOMAIN ops
       PROVE  \/ i \in DOMAIN old /\ ops[i].act = "delete" /\ ops[i].node = old[i]
              \/ /\ i - Len(old) \in DOMAIN new
                 /\ ops[i].act = "create" /\ ops[i].node = new[i - Len(old)]
  <2>1. CASE i <= Len(old)
    BY <1>2, <1>3, <1>8, <1>9, <2>1
  <2>2. CASE ~ (i <= Len(old))
    <3>1. i - Len(old) \in 1 .. Len(new) /\ Len(old) + (i - Len(old)) = i
      BY <1>2, <1>3, <1>8, <2>2
    <3>2. ops[i] = Publish(new[i - Len(old)])
      BY <1>8, <3>1
    <3> QED BY <1>3, <1>9, <3>1, <3>2
  <2> QED BY <2>1, <2>2
<1>11. \A i \in DOMAIN old : i \in DOMAIN ops /\ ops[i].act = "delete" /\ ops[i].node = old[i]
                             /\ old[i] \in legal \ target
  BY <1>2, <1>3, <1>8, <1>9
<1>12. \A i \in DOMAIN new : new[i] \in target \ legal
  BY <1>3
<1>13. Orderly(ops, legal)
  <2> SUFFICES ASSUME NEW i \in DOMAIN ops, ops[i].act = "create"
               PROVE  /\ \A n \in legal : Clash(n, ops[i].node) =>
                           \E j \in DOMAIN ops : j < i /\ ops[j].act = "delete" /\ ops[j].node = n
                      /\ \A j \in DOMAIN ops : ops[j].act = "create" /\ j # i =>
                           ~ Clash(ops[j].node, ops[i].node)
    BY DEF Orderly
  <2>1. i - Len(old) \in DOMAIN new /\ ops[i].node = new[i - Len(old)]
    BY <1>10
  <2>2. ASSUME NEW n \in legal, Clash(n, ops[i].node)
        PROVE  \E j \in DOMAIN ops : j < i /\ ops[j].act = "delete" /\ ops[j].node = n
    <3>1. n \notin target
      BY <1>12, <2>1, <2>2 DEF Apart
    <3>2. PICK j \in DOMAIN old : old[j] = n
      BY <1>2, <3>1
    <3>3. j < i
      BY <1>2, <1>3, <1>8, <2>1
    <3> QED BY <1>11, <3>2, <3>3
  <2>3. ASSUME NEW j \in DOMAIN ops, ops[j].act = "create", j # i
        PROVE  ~ Clash(ops[j].node, ops[i].node)
    <3>1. j - Len(old) \in DOMAIN new /\ ops[j].node = new[j - Len(old)]
      BY <1>10, <2>3
    <3>2. j - Len(old) # i - Len(old)
      BY <1>2, <1>8, <2>3
    <3>3. ops[j].node # ops[i].node
      BY <1>3, <2>1, <3>1, <3>2
    <3> QED BY <1>12, <2>1, <3>1, <3>3 DEF Apart
  <2> QED BY <2>2, <2>3
<1>14. Covered(ops, legal, cmds)
  <2> SUFFICES ASSUME NEW m \in cmds
               PROVE  \E l \in (legal \cup Coming(ops)) \ Going(ops) : Follows(m, l)
    BY DEF Covered
  <2>1. PICK l \in target : Follows(m, l)
    OBVIOUS
  <2>2. l \notin Going(ops)
    BY <1>10, <1>11 DEF Going
  <2>3. l \in legal \cup Coming(ops)
    <3>1. CASE l \notin legal
      <4>1. PICK i \in DOMAIN new : new[i] = l
        BY <1>3, <3>1
      <4>2. Len(old) + i \in DOMAIN ops /\ ops[Len(old) + i] = Publish(l)
        BY <1>2, <1>3, <1>8, <4>1
      <4> QED BY <1>9, <4>2 DEF Coming
    <3> QED BY <3>1
  <2> QED BY <2>1, <2>2, <2>3
<1>15. ops \in Seq(Range(ops))
  BY <1>8, SeqOfRange
<1>16. \A i \in DOMAIN ops : /\ ops[i].act \in {"create", "delete"}
                             /\ ops[i].act = "create" => ops[i].node \in L!Node
  BY <1>9, <1>10, <1>12
<1> QED BY <1>13, <1>14, <1>15, <1>16 DEF Ready, ops

-----------------------------------------------------------------------------
(* The published nodes.                                                    *)

(* Who is in the last phase of a pass, and has not lost the session.       *)
Cutting(c) == Working(c) /\ st[c].pc = "legal"

Prepared == \A c \in Ctrl : Cutting(c) => Ready(st[c].ops, legal, st[c].cmds)

LegalInv == CtrlInv /\ Apart(legal) /\ Prepared

(* Only one controller is there at a time.                                 *)
LEMMA CuttingAlone ==
  ASSUME LegalInv, NEW c \in Ctrl, NEW d \in Ctrl, Working(c), Working(d)
  PROVE  c = d
  BY DEF LegalInv, CtrlInv, LockInv, OneController

(* A write of a controller that works: the nodes it leaves, and what the   *)
(* controller still has to write, if it was told of success.               *)
LEMMA ApplyKeeps ==
  ASSUME LegalInv, NEW c \in Ctrl, Working(c), st[c].ops # <<>>, Apply(c)
  PROVE  /\ Apart(legal')
         /\ st[c].pc # "legal" => legal' = legal
         /\ st[c].pc = "legal" => Ready(Tail(st[c].ops), legal', st[c].cmds)
<1> DEFINE o == Head(st[c].ops)
<1>1. CASE st[c].pc = "legal"
  <2>1. /\ legal' = IF o.act = "create" THEN legal \cup {o.node} ELSE legal \ {o.node}
        /\ check' = check
    BY <1>1 DEF Apply, ApplyLegal
  <2>2. Ready(st[c].ops, legal, st[c].cmds)
    BY <1>1 DEF LegalInv, Prepared, Cutting
  <2>3. Ready(Tail(st[c].ops), legal', st[c].cmds) /\ Apart(legal')
    BY <2>1, <2>2, ReadyTail DEF LegalInv
  <2> QED BY <1>1, <2>1, <2>3
<1>2. CASE st[c].pc # "legal"
  <2>1. legal' = legal
    BY <1>2 DEF Apply, ApplyRecord
  <2> QED BY <1>2, <2>1 DEF LegalInv
<1> QED BY <1>1, <1>2

(* A step that writes nothing, and after which nobody has more to do.      *)
LEMMA Still ==
  ASSUME LegalInv, UNCHANGED <<legal, check>>,
         \A d \in Ctrl : Cutting(d)' =>
           Cutting(d) /\ st'[d].ops = st[d].ops /\ st'[d].cmds \subseteq st[d].cmds
  PROVE  Apart(legal') /\ Prepared'
<1>1. ASSUME NEW d \in Ctrl, Cutting(d)'
      PROVE  Ready(st'[d].ops, legal', st'[d].cmds)
  <2>1. Ready(st[d].ops, legal, st[d].cmds) /\ st'[d].ops = st[d].ops
        /\ st'[d].cmds \subseteq st[d].cmds
    BY <1>1 DEF LegalInv, Prepared
  <2> QED BY <2>1 DEF Ready, Covered
<1> QED BY <1>1 DEF LegalInv, Prepared

(* RedisCtrl::write of one node.                                           *)
LEMMA WriteKeepsLegal ==
  ASSUME LegalInv, NEW c \in Ctrl, Write(c)
  PROVE  Apart(legal') /\ Prepared'
<1>1. CASE sess[c] /\ Possible(c)
  <2>1. /\ Apply(c) /\ st[c].ops # <<>> /\ sess' = sess
        /\ st' = [st EXCEPT ![c].ops = Tail(@)]
    BY <1>1 DEF Write
  <2>2. Working(c)
    BY <1>1, <2>1 DEF Working, LegalInv, CtrlInv, LockInv, IdleDone
  <2>3. /\ st'[c].ops = Tail(st[c].ops) /\ st'[c].pc = st[c].pc /\ st'[c].cmds = st[c].cmds
        /\ \A d \in Ctrl \ {c} : st'[d] = st[d]
    BY <2>1 DEF LegalInv, CtrlInv, LockInv, Shape
  <2>4. ASSUME NEW d \in Ctrl, Cutting(d)'
        PROVE  Ready(st'[d].ops, legal', st'[d].cmds)
    <3>1. Working(d)
      BY <2>1, <2>3, <2>4 DEF Cutting, Working
    <3>2. d = c
      BY <2>2, <3>1, CuttingAlone
    <3>3. st[c].pc = "legal"
      BY <2>3, <2>4, <3>2 DEF Cutting
    <3> QED BY <2>1, <2>2, <2>3, <3>2, <3>3, ApplyKeeps
  <2> QED BY <2>1, <2>2, <2>4, ApplyKeeps DEF Prepared
<1>2. CASE ~ (sess[c] /\ Possible(c))
  <2>1. GiveUp(c) /\ UNCHANGED <<legal, check, sess>>
    BY <1>2 DEF Write
  <2>2. st'[c].pc = "free" /\ \A d \in Ctrl \ {c} : st'[d] = st[d]
    BY <2>1 DEF GiveUp, NoPass, LegalInv, CtrlInv, LockInv, Shape
  <2> QED BY <2>1, <2>2, Still DEF Cutting, Working
<1> QED BY <1>1, <1>2

(* A write that is reported as failed.                                     *)
LEMMA CallLostKeepsLegal ==
  ASSUME LegalInv, NEW c \in Ctrl, CallLost(c)
  PROVE  Apart(legal') /\ Prepared'
<1>1. /\ GiveUp(c) /\ sess' = sess /\ sess[c]
      /\ \/ st[c].ops # <<>> /\ Apply(c)
         \/ UNCHANGED <<check, legal>>
  BY DEF CallLost
<1>2. st'[c].pc = "free" /\ \A d \in Ctrl \ {c} : st'[d] = st[d]
  BY <1>1 DEF GiveUp, NoPass, LegalInv, CtrlInv, LockInv, Shape
<1>3. CASE st[c].ops # <<>> /\ Apply(c)
  <2>1. Working(c)
    BY <1>1, <1>3 DEF Working, LegalInv, CtrlInv, LockInv, IdleDone
  <2>2. ASSUME NEW d \in Ctrl, Cutting(d)'
        PROVE  FALSE
    <3>1. d # c /\ Working(d)
      BY <1>1, <1>2, <2>2 DEF Cutting, Working
    <3> QED BY <2>1, <3>1, CuttingAlone
  <2> QED BY <1>3, <2>1, <2>2, ApplyKeeps DEF Prepared
<1>4. CASE UNCHANGED <<check, legal>>
  BY <1>1, <1>2, <1>4, Still DEF Cutting, Working
<1> QED BY <1>1, <1>3, <1>4

(* A server that is on record below a cluster is configured there.         *)
LEMMA OnItsOwn ==
  ASSUME Records, NEW f, NEW live, Recorded("check", f, live, <<>>, error, check),
         NEW k \in Cluster, NEW a \in Addr
  PROVE  /\ a \in Children(check, k) \cup Children(error, k) => a \in Servers(f, k)
         /\ k \in DOMAIN check => Occurs(check[k], a) <= 1
<1>1. IsDir(error, Seq(Addr)) /\ IsDir(check, Seq(Addr)) /\ a # NULL
  BY RedisCtrlAssumption DEF RedisCtrlAssumption, Records
<1>2. /\ Has(check, k, a) = 0 <=> a \notin Children(check, k)
      /\ Has(error, k, a) = 0 <=> a \notin Children(error, k)
  BY <1>1, HasType
<1>3. IF a \in Servers(f, k) THEN Place("check", a \in DOMAIN live, Has(check, k, a), Has(error, k, a))
      ELSE Has(check, k, a) = 0 /\ Has(error, k, a) = 0
  BY <1>1, DueNone DEF Recorded
<1>4. Has(check, k, a) <= 1
  BY <1>3 DEF Place
<1> QED BY <1>1, <1>2, <1>3, <1>4 DEF Has

(* A list that names no server twice is one that can be published.         *)
LEMMA ListOK ==
  ASSUME NEW s \in Seq(Addr), s # <<>>, \A a \in Addr : Occurs(s, a) <= 1
  PROVE  s \in L!Lists
<1>1. /\ Len(s) \in Nat \ {0} /\ DOMAIN s = 1 .. Len(s) /\ s \in [1 .. Len(s) -> Addr]
  BY LenProperties, EmptySeq
<1>2. ASSUME NEW i \in DOMAIN s, NEW j \in DOMAIN s, s[i] = s[j]
      PROVE  i = j
  <2> DEFINE P == Places(s, s[i])
  <2>1. i \in P /\ j \in P
    BY <1>2 DEF Places
  <2>2. s[i] \in Addr /\ s[i] \in Range(s)
    BY <1>1 DEF Range
  <2>3. IsFiniteSet(P) /\ Cardinality(P) = 1
    BY <2>2, PlacesFinite DEF Occurs
  <2> HIDE DEF P
  <2>4. PICK x : P = {x}
    BY <2>3, FS_Singleton
  <2> QED BY <2>1, <2>4
<1>3. IsInjective(s)
  BY <1>2, Zenon DEF IsInjective
<1>4. Len(s) <= Cardinality(Addr)
  <2>1. s \in Injection(1 .. Len(s), Addr)
    BY <1>1, <1>3 DEF Injection
  <2>2. Cardinality(1 .. Len(s)) <= Cardinality(Addr)
    BY <2>1, FS_Injection, RedisCtrlAssumption DEF RedisCtrlAssumption
  <2>3. Cardinality(1 .. Len(s)) = Len(s)
    BY <1>1, FS_Interval
  <2> QED BY <2>2, <2>3
<1>5. Cardinality(Addr) \in Nat
  BY FS_CardinalityType, RedisCtrlAssumption DEF RedisCtrlAssumption
<1>6. Len(s) \in 1 .. Cardinality(Addr)
  BY <1>1, <1>4, <1>5
<1>7. L!Cardinality(Addr) = Cardinality(Addr)
  BY Zenon DEF L!Cardinality, Cardinality
<1> QED BY <1>1, <1>3, <1>6, <1>7 DEF L!Lists, L!IsInjective, IsInjective

(* What gen_legal_redis decides on: lists that share no server, and none   *)
(* of which names one twice.                                               *)
LEMMA TargetApart ==
  ASSUME Records, NEW f, NEW live, Recorded("check", f, live, <<>>, error, check),
         ~ GenFails(live)
  PROVE  Apart(Target) /\ Target \subseteq L!Node
<1>1. ASSUME NEW k \in DOMAIN check
      PROVE  /\ k \in Cluster /\ LegalOf(k).cls = k /\ LegalOf(k) \in Legal
             /\ Range(LegalOf(k).rds) \subseteq Addr \cap Servers(f, k)
             /\ LegalOf(k).rds \in L!Lists
  <2>1. /\ LegalOf(k) \in Legal /\ LegalOf(k).cls = k
        /\ IF check[k] # <<>>
           THEN LegalOf(k).rds = check[k]
           ELSE \E a \in Children(error, k) : LegalOf(k).rds = <<a>>
        /\ Children(error, k) \subseteq Addr /\ Range(check[k]) \subseteq Addr
    BY LegalOfType
  <2>2. k \in Cluster /\ check[k] \in Seq(Addr) /\ Children(check, k) = Range(check[k])
    BY DEF Records, IsDir, Children
  <2>3. CASE check[k] # <<>>
    <3>1. check[k] \in L!Lists
      BY <2>2, <2>3, ListOK, OnItsOwn
    <3>2. Range(check[k]) \subseteq Servers(f, k)
      BY <2>1, <2>2, OnItsOwn
    <3> QED BY <2>1, <2>2, <2>3, <3>1, <3>2
  <2>4. CASE check[k] = <<>>
    <3>1. PICK a \in Children(error, k) : LegalOf(k).rds = <<a>>
      BY <2>1, <2>4
    <3>2. a \in Addr /\ a \in Servers(f, k)
      BY <2>1, <2>2, OnItsOwn
    <3>3. <<a>> \in Seq(Addr) /\ <<a>> # <<>> /\ Range(<<a>>) = {a}
      BY <3>2 DEF Range
    <3>4. \A b : Occurs(<<a>>, b) <= 1
      <4> TAKE b
      <4>1. Occurs(<<a>>, b) = IF b = a THEN 1 ELSE 0
        BY OccursFew
      <4> QED BY <4>1
    <3>5. <<a>> \in L!Lists
      BY <3>3, <3>4, ListOK
    <3> QED BY <2>1, <2>2, <3>1, <3>2, <3>3, <3>5
  <2> QED BY <2>3, <2>4
<1>2. Apart(Target)
  <2> SUFFICES ASSUME NEW j \in DOMAIN check, NEW k \in DOMAIN check,
                      Clash(LegalOf(j), LegalOf(k)), j # k
               PROVE  FALSE
    BY DEF Apart, Target
  <2>1. PICK a \in Range(LegalOf(j).rds) : a \in Range(LegalOf(k).rds)
    BY <1>1 DEF Clash
  <2>2. a \in Servers(f, j) /\ a \in Servers(f, k)
    BY <1>1, <2>1
  <2>3. j \in DOMAIN f /\ k \in DOMAIN f /\ f[j] \cap f[k] # {}
    BY <2>2 DEF Servers
  <2> QED BY <2>3 DEF Recorded, Duplicate
<1>3. Target \subseteq L!Node
  BY <1>1 DEF Target, L!Node, Legal
<1> QED BY <1>2, <1>3

(* gen_legal_redis and the decision of legal_cmp.                          *)
LEMMA GenLegalPrepares ==
  ASSUME LegalInv, NEW c \in Ctrl, Working(c), At(c, "check"), ~ GenFails(st[c].live)
  PROVE  Ready(LegalCmp(Target), legal,
               UNION {SlaveofCmds(k, st[c].live) : k \in DOMAIN check})
<1> DEFINE live == st[c].live
           cmds == UNION {SlaveofCmds(k, live) : k \in DOMAIN check}
<1>1. Recorded("check", st[c].cfgs, live, <<>>, error, check)
  BY DEF LegalInv, CtrlInv, RecordInv, Recording, Pending, At
<1>2. Records
  BY DEF LegalInv, CtrlInv, TypeInv
<1>3. IsFiniteSet(Target) /\ Apart(Target) /\ Target \subseteq L!Node
  BY <1>1, <1>2, TargetType, TargetApart
<1>4. ASSUME NEW m \in cmds
      PROVE  \E l \in Target : Follows(m, l)
  <2>1. PICK k \in DOMAIN check : m \in SlaveofCmds(k, live)
    OBVIOUS
  <2>2. PICK a \in Range(check[k]) :
          m = <<a, IF a = check[k][1] THEN NULL ELSE check[k][1]>>
    BY <2>1 DEF SlaveofCmds
  <2>3. check[k] # <<>>
    BY <2>2 DEF Range
  <2>4. LegalOf(k).rds = check[k]
    BY <2>3 DEF LegalOf
  <2>5. Follows(m, LegalOf(k))
    BY <2>2, <2>4 DEF Follows
  <2> QED BY <2>5 DEF Target
<1> HIDE DEF cmds
<1>5. Ready(LegalCmp(Target), legal, cmds)
  BY <1>2, <1>3, <1>4, ReadyLegalCmp DEF Records
<1> QED BY <1>5 DEF cmds

LEMMA GenLegalKeepsLegal ==
  ASSUME LegalInv, NEW c \in Ctrl, GenLegal(c)
  PROVE  Apart(legal') /\ Prepared'
<1>1. UNCHANGED <<legal, check, sess>>
  BY DEF GenLegal
<1>2. CASE GiveUp(c)
  <2>1. st'[c].pc = "free" /\ \A d \in Ctrl \ {c} : st'[d] = st[d]
    BY <1>2 DEF GiveUp, NoPass, LegalInv, CtrlInv, LockInv, Shape
  <2> QED BY <1>1, <2>1, Still DEF Cutting, Working
<1>3. CASE ~ GiveUp(c)
  <2> DEFINE o == LegalCmp(Target)
             m == UNION {SlaveofCmds(k, st[c].live) : k \in DOMAIN check}
  <2>1. /\ st' = [st EXCEPT ![c].pc = "legal", ![c].ops = o, ![c].cmds = m]
        /\ sess[c] /\ ~ GenFails(st[c].live) /\ At(c, "check")
    BY <1>3 DEF GenLegal, Target
  <2>2. Ready(o, legal, m)
    BY <2>1, GenLegalPrepares DEF Working, At
  <2> HIDE DEF o, m
  <2>3. st'[c].ops = o /\ st'[c].cmds = m /\ \A d \in Ctrl \ {c} : st'[d] = st[d]
    BY <2>1 DEF LegalInv, CtrlInv, LockInv, Shape
  <2>4. ASSUME NEW d \in Ctrl, Cutting(d)'
        PROVE  Ready(st'[d].ops, legal', st'[d].cmds)
    <3>1. CASE d = c
      BY <1>1, <2>2, <2>3, <3>1
    <3>2. CASE d # c
      BY <1>1, <2>3, <2>4, <3>2 DEF Cutting, Working, LegalInv, Prepared
    <3> QED BY <3>1, <3>2
  <2> QED BY <1>1, <2>4 DEF LegalInv, Prepared
<1> QED BY <1>2, <1>3

(* The phases after the steps that come before gen_legal_redis, and those  *)
(* of get_lock and free_lock: not the last.                                *)
LEMMA PhaseAfter ==
  ASSUME LockInv, NEW c \in Ctrl,
         \/ Read(c) \/ CheckRedis(c) \/ CheckError(c) \/ CheckCheck(c)
         \/ GetLock(c) \/ FreeLock(c) \/ LockLost(c)
  PROVE  /\ st'[c].pc # "legal" \/ st' = st
         /\ \A d \in Ctrl \ {c} : st'[d] = st[d]
<1>1. CASE Read(c)
  <2>1. CASE GiveUp(c)
    BY <2>1 DEF LockInv, Shape, GiveUp, NoPass
  <2>2. CASE ~ GiveUp(c)
    <3> DEFINE o == Sync(config)
    <3>1. st' = [st EXCEPT ![c].pc = "sync", ![c].cfgs = config, ![c].ops = o,
                           ![c].tries = TryTimes]
      BY <1>1, <2>2 DEF Read
    <3> HIDE DEF o
    <3> QED BY <3>1 DEF LockInv, Shape
  <2> QED BY <2>1, <2>2
<1>2. CASE CheckRedis(c)
  <2> DEFINE asked == (UNION Range(st[c].cfgs)) \ DOMAIN st[c].live
             l(A) == [a \in DOMAIN st[c].live \cup A |->
                       IF a \in A THEN slaveof[a] ELSE st[c].live[a]]
             n(A) == IF A = asked \/ st[c].tries = 1 THEN TryTimes ELSE st[c].tries - 1
             p(A) == IF A = asked \/ st[c].tries = 1 THEN "redis" ELSE "sync"
  <2>1. PICK A \in SUBSET asked :
          st' = [st EXCEPT ![c].live = l(A), ![c].tries = n(A), ![c].pc = p(A)]
    BY <1>2, Zenon DEF CheckRedis
  <2>2. p(A) \in {"redis", "sync"}
    OBVIOUS
  <2> HIDE DEF l, n, p, asked
  <2>3. PICK ll, nn, pp :
          /\ st' = [st EXCEPT ![c].live = ll, ![c].tries = nn, ![c].pc = pp]
          /\ pp \in {"redis", "sync"}
    BY <2>1, <2>2
  <2> QED BY <2>3 DEF LockInv, Shape
<1>3. CASE CheckError(c)
  BY <1>3 DEF LockInv, Shape, CheckError, Plan, GiveUp, NoPass
<1>4. CASE CheckCheck(c)
  BY <1>4 DEF LockInv, Shape, CheckCheck, Plan, GiveUp, NoPass
<1>5. CASE GetLock(c)
  BY <1>5 DEF LockInv, Shape, GetLock, Goto
<1>6. CASE FreeLock(c)
  BY <1>6 DEF LockInv, Shape, FreeLock, NoPass
<1>7. CASE LockLost(c)
  BY <1>7 DEF LockInv, Shape, LockLost, NoPass
<1> QED BY <1>1, <1>2, <1>3, <1>4, <1>5, <1>6, <1>7

(* A round of do_slaveof_cmd leaves commands that were there before.       *)
LEMMA DoSlaveofKeepsLegal ==
  ASSUME LegalInv, NEW c \in Ctrl, DoSlaveof(c)
  PROVE  Apart(legal') /\ Prepared'
<1>1. UNCHANGED <<legal, check, sess>>
  BY DEF DoSlaveof
<1>2. CASE GiveUp(c)
  <2>1. st'[c].pc = "free" /\ \A d \in Ctrl \ {c} : st'[d] = st[d]
    BY <1>2 DEF GiveUp, NoPass, LegalInv, CtrlInv, LockInv, Shape
  <2> QED BY <1>1, <2>1, Still DEF Cutting, Working
<1>3. CASE ~ GiveUp(c)
  <2> DEFINE m(ok) == st[c].cmds \ ok
             n == st[c].tries - 1
  <2>3. PICK ok : st' = [st EXCEPT ![c].cmds = m(ok), ![c].tries = n]
    BY <1>3, Zenon DEF DoSlaveof
  <2>4. m(ok) \subseteq st[c].cmds
    OBVIOUS
  <2> HIDE DEF m, n
  <2>1. PICK mm, nn : /\ st' = [st EXCEPT ![c].cmds = mm, ![c].tries = nn]
                      /\ mm \subseteq st[c].cmds
    BY <2>3, <2>4
  <2>2. /\ st'[c].pc = st[c].pc /\ st'[c].ops = st[c].ops /\ st'[c].cmds = mm
        /\ \A d \in Ctrl \ {c} : st'[d] = st[d]
    BY <2>1 DEF LegalInv, CtrlInv, LockInv, Shape
  <2> QED BY <1>1, <2>1, <2>2, Still DEF Cutting, Working
<1> QED BY <1>2, <1>3

(* No step publishes a second node of a cluster, or leaves the writes and  *)
(* commands of legal_cmp at odds with what is published.                   *)
LEMMA LegalStep ==
  ASSUME LegalInv, [Next]_vars
  PROVE  LegalInv'
<1> USE RedisCtrlAssumption DEF RedisCtrlAssumption
<1>1. CtrlInv'
  BY CtrlStep DEF LegalInv
<1> DEFINE Kept == Apart(legal') /\ Prepared'
<1>2. ASSUME NEW c \in Ctrl, Write(c) PROVE Kept
  BY <1>2, WriteKeepsLegal
<1>3. ASSUME NEW c \in Ctrl, CallLost(c) PROVE Kept
  BY <1>3, CallLostKeepsLegal
<1>4. ASSUME NEW c \in Ctrl, GenLegal(c) PROVE Kept
  BY <1>4, GenLegalKeepsLegal
<1>5. ASSUME NEW c \in Ctrl,
             \/ Read(c) \/ CheckRedis(c) \/ CheckError(c) \/ CheckCheck(c)
             \/ GetLock(c) \/ FreeLock(c) \/ LockLost(c)
      PROVE  Kept
  <2>1. UNCHANGED <<legal, check, sess>>
    BY <1>5 DEF Read, CheckRedis, CheckError, CheckCheck, GetLock, FreeLock, LockLost
  <2>2. (st'[c].pc # "legal" \/ st' = st) /\ \A d \in Ctrl \ {c} : st'[d] = st[d]
    BY <1>5, PhaseAfter DEF LegalInv, CtrlInv
  <2> QED BY <2>1, <2>2, Still DEF Cutting, Working
<1>6. ASSUME NEW c \in Ctrl, DoSlaveof(c) PROVE Kept
  BY <1>6, DoSlaveofKeepsLegal
<1>7. ASSUME NEW c \in Ctrl, SessionExpires(c) PROVE Kept
  <2>1. UNCHANGED <<legal, check, st>> /\ \A d \in Ctrl : sess'[d] => sess[d]
    BY <1>7 DEF SessionExpires, LegalInv, CtrlInv, LockInv, Shape
  <2> QED BY <2>1, Still DEF Cutting, Working
<1>8. ASSUME NEW c \in Ctrl, Restart(c) PROVE Kept
  <2>1. /\ UNCHANGED <<legal, check>> /\ st'[c].pc = "idle"
        /\ \A d \in Ctrl \ {c} : st'[d] = st[d] /\ sess'[d] = sess[d]
    BY <1>8 DEF Restart, NoPass, LegalInv, CtrlInv, LockInv, Shape
  <2> QED BY <2>1, Still DEF Cutting, Working
<1>9. ASSUME DeadSession \/ Configure \/ (\E a \in Addr : Redis(a)) \/ UNCHANGED vars
      PROVE  Kept
  <2>1. UNCHANGED <<legal, check, st, sess>>
    BY <1>9 DEF DeadSession, Configure, Redis, vars
  <2> QED BY <2>1, Still DEF Cutting, Working
<1>10. Kept
  <2> HIDE DEF Kept
  <2> QED BY <1>2, <1>3, <1>4, <1>5, <1>6, <1>7, <1>8, <1>9 DEF Next, Step, Fault
<1> QED
  BY <1>1, <1>10 DEF LegalInv, Apart

LEMMA StillLegal == ASSUME LegalInv, UNCHANGED vars PROVE LegalInv'
BY LegalStep

LEMMA LegalInit ==
  ASSUME Init
  PROVE  LegalInv
<1>1. CtrlInv
  BY CtrlInit
<1>2. \A c \in Ctrl : ~ Cutting(c)
  BY DEF Init, NoPass, Cutting, Working
<1> QED BY <1>1, <1>2 DEF Init, LegalInv, Prepared, Apart

(* Whatever is changed, fails or crashes while legal_cmp replaces lists,   *)
(* clients find at most one list for a cluster.                            *)
THEOREM AtMostOneLegalCorrect == Spec => []AtMostOneLegal
<1>1. Init => LegalInv
  BY LegalInit
<1>2. LegalInv /\ [Next]_vars => LegalInv'
  BY LegalStep
<1>3. LegalInv => AtMostOneLegal
  BY DEF LegalInv, Apart, Clash, AtMostOneLegal
<1> QED BY <1>1, <1>2, <1>3, PTL DEF Spec

(* No server is published for two clusters at once, also while the         *)
(* operator moves it from one to the other and passes stop half way.       *)
THEOREM NoSharedRedisCorrect == Spec => []NoSharedRedis
<1>1. Init => LegalInv
  BY LegalInit
<1>2. LegalInv /\ [Next]_vars => LegalInv'
  BY LegalStep
<1>3. LegalInv => NoSharedRedis
  BY DEF LegalInv, Apart, Clash, NoSharedRedis
<1> QED BY <1>1, <1>2, <1>3, PTL DEF Spec

-----------------------------------------------------------------------------
(* Replication.                                                            *)

(* What SlaveofFollowsLegal says of a server.                              *)
AsPublished(a) ==
  \/ \E c \in Ctrl : ~ sess[c] /\ st[c].pc = "legal"
  \/ \E l \in legal : /\ a \in Range(l.rds)
                      /\ slaveof'[a] = IF a = l.rds[1] THEN NULL ELSE l.rds[1]

(* When nothing is left to write, the commands follow what is published.   *)
LEMMA SlaveofFollows ==
  ASSUME LegalInv, NEW c \in Ctrl, DoSlaveof(c), NEW a \in Addr, slaveof'[a] # slaveof[a]
  PROVE  AsPublished(a)
<1>1. st[c].pc = "legal" /\ st[c].ops = <<>>
  BY DEF DoSlaveof, At
<1>2. CASE ~ sess[c]
  BY <1>1, <1>2 DEF AsPublished
<1>3. CASE sess[c]
  <2>1. Ready(<<>>, legal, st[c].cmds)
    BY <1>1, <1>3 DEF LegalInv, Prepared, Cutting, Working
  <2>2. PICK done : /\ done \subseteq st[c].cmds
                    /\ slaveof' = [b \in Addr |-> IF \E m \in done : m[1] = b
                                                  THEN (CHOOSE m \in done : m[1] = b)[2]
                                                  ELSE slaveof[b]]
    BY Zenon DEF DoSlaveof
  <2>3. PICK m \in done : m[1] = a /\ slaveof'[a] = m[2]
    BY <2>2
  <2>4. PICK l \in legal : Follows(m, l)
    BY <2>1, <2>2 DEF Ready, Covered, Coming, Going
  <2> QED BY <2>3, <2>4 DEF Follows, AsPublished
<1> QED BY <1>2, <1>3

(* As long as its session lives, do_slaveof_cmd sends commands that follow *)
(* what is published at that moment.                                       *)
THEOREM SlaveofFollowsLegalCorrect == Spec => SlaveofFollowsLegal
<1>1. Init => LegalInv
  BY LegalInit
<1>2. LegalInv /\ [Next]_vars => LegalInv'
  BY LegalStep
<1>3. LegalInv /\ [Next]_vars =>
        [\A a \in Addr : slaveof'[a] # slaveof[a] /\ up' = up => AsPublished(a)]_vars
  <2> SUFFICES ASSUME LegalInv, [Next]_vars, NEW a \in Addr,
                      slaveof'[a] # slaveof[a], up' = up
               PROVE  AsPublished(a)
    OBVIOUS
  <2>1. ASSUME NEW b \in Addr, Redis(b)
        PROVE  FALSE
    BY <2>1 DEF Redis, LegalInv, CtrlInv, TypeInv, Around
  <2>2. PICK c \in Ctrl : DoSlaveof(c)
    BY <2>1 DEF Next, Step, Fault, vars, GetLock, Read, Write, CheckRedis, CheckError, CheckCheck,
         GenLegal, FreeLock, LockLost, CallLost, SessionExpires, Restart, DeadSession, Configure
  <2> QED BY <2>2, SlaveofFollows
<1> QED
  BY <1>1, <1>2, <1>3, PTL DEF Spec, SlaveofFollowsLegal, AsPublished

-----------------------------------------------------------------------------
(* The controllers together are one Leader.                                *)

(* A write of legal_cmp is one that Leader allows: its controller owns the *)
(* lock, and the node that comes clashes with none that is there.          *)
LEMMA WritePublishes ==
  ASSUME LegalInv, NEW c \in Ctrl, sess[c], st[c].ops # <<>>, Possible(c), Apply(c),
         UNCHANGED lock
  PROVE  L!Publish \/ UNCHANGED <<lock, legal>>
<1> DEFINE ops == st[c].ops
           o == Head(ops)
<1>1. CASE st[c].pc # "legal"
  BY <1>1 DEF Apply, ApplyRecord
<1>2. CASE st[c].pc = "legal"
  <2>1. Working(c) /\ lock \in Ctrl
    BY <1>2 DEF Working, LegalInv, CtrlInv, LockInv, OneController
  <2>2. Ready(ops, legal, st[c].cmds)
    BY <1>2, <2>1 DEF LegalInv, Prepared, Cutting
  <2>3. /\ (o.act = "create") # (o.node \in legal)
        /\ legal' = IF o.act = "create" THEN legal \cup {o.node} ELSE legal \ {o.node}
    BY <1>2 DEF Possible, Apply, ApplyLegal
  <2>4. DOMAIN ops = 1 .. Len(ops) /\ 1 \in DOMAIN ops /\ o = ops[1]
    <3>1. ops \in Seq(Range(ops))
      BY <2>2 DEF Ready
    <3>2. /\ Len(ops) \in Nat \ {0} /\ DOMAIN ops = 1 .. Len(ops) /\ Head(ops) = ops[1]
      BY <3>1, TailOfSeq
    <3> QED BY <3>2
  <2> HIDE DEF ops, o
  <2>5. CASE o.act = "create"
    <3>1. o.node \in L!Node /\ \A n \in legal : ~ Clash(n, o.node)
      BY <2>2, <2>4, <2>5 DEF Ready, Orderly
    <3>2. L!Free(legal, o.node)
      BY <3>1 DEF L!Free, Clash, L!Range, Range
    <3>3. legal \cup {o.node} \in L!May(legal)
      BY <3>1, <3>2 DEF L!May
    <3> QED BY <2>1, <2>3, <2>5, <3>3 DEF L!Publish
  <2>6. CASE o.act # "create"
    <3>1. legal' = legal \ {o.node} /\ o.node \in legal
      BY <2>3, <2>6
    <3>2. legal' \in L!May(legal)
      BY <3>1 DEF L!May
    <3> QED BY <2>1, <3>2 DEF L!Publish
  <2> QED BY <2>5, <2>6
<1> QED BY <1>1, <1>2

LEMMA LedStep ==
  ASSUME LegalInv, [Next]_vars
  PROVE  L!Next \/ UNCHANGED <<lock, legal>>
<1> USE RedisCtrlAssumption DEF RedisCtrlAssumption
<1>1. ASSUME NEW c \in Ctrl, GetLock(c) \/ LockLost(c)
      PROVE  L!Take \/ UNCHANGED <<lock, legal>>
  BY <1>1 DEF GetLock, LockLost, L!Take
<1>2. ASSUME NEW c \in Ctrl, FreeLock(c) \/ SessionExpires(c) \/ Restart(c)
      PROVE  L!Leave \/ UNCHANGED <<lock, legal>>
  BY <1>2 DEF FreeLock, SessionExpires, Restart, L!Leave
<1>3. ASSUME NEW c \in Ctrl, Write(c)
      PROVE  L!Publish \/ UNCHANGED <<lock, legal>>
  <2>1. CASE sess[c] /\ Possible(c)
    BY <1>3, <2>1, WritePublishes DEF Write
  <2>2. CASE ~ (sess[c] /\ Possible(c))
    BY <1>3, <2>2 DEF Write
  <2> QED BY <2>1, <2>2
<1>4. ASSUME NEW c \in Ctrl, CallLost(c)
      PROVE  L!Publish \/ UNCHANGED <<lock, legal>>
  <2>1. sess[c] /\ UNCHANGED lock
    BY <1>4 DEF CallLost
  <2>2. CASE st[c].ops # <<>> /\ Possible(c) /\ Apply(c)
    BY <2>1, <2>2, WritePublishes
  <2>3. CASE UNCHANGED <<error, check, legal>>
    BY <2>1, <2>3
  <2> QED BY <1>4, <2>2, <2>3 DEF CallLost
<1>5. ASSUME NEW c \in Ctrl,
             \/ Read(c) \/ CheckRedis(c) \/ CheckError(c) \/ CheckCheck(c)
             \/ GenLegal(c) \/ DoSlaveof(c)
      PROVE  UNCHANGED <<lock, legal>>
  BY <1>5 DEF Read, CheckRedis, CheckError, CheckCheck, GenLegal, DoSlaveof
<1>6. CASE DeadSession
  BY <1>6 DEF DeadSession, L!Next, L!Leave
<1>7. CASE Configure \/ (\E a \in Addr : Redis(a)) \/ UNCHANGED vars
  BY <1>7 DEF Configure, Redis, vars
<1> QED
  BY <1>1, <1>2, <1>3, <1>4, <1>5, <1>6, <1>7 DEF Next, Step, Fault, L!Next

(* The controllers implement Leader: the lock has one owner, the published *)
(* lists change one node at a time and only while their writer owns the    *)
(* lock, and no list ever comes that shares its cluster or a server with   *)
(* another, whatever the operator, ZooKeeper and Redis do in between.      *)
THEOREM LedCorrect == Spec => Led
<1>1. Init => LegalInv
  BY LegalInit
<1>2. LegalInv /\ [Next]_vars => LegalInv'
  BY LegalStep
<1>3. Init => L!Init
  BY DEF Init, L!Init
<1>4. LegalInv /\ [Next]_vars => [L!Next]_<<lock, legal>>
  BY LedStep
<1> QED
  BY <1>1, <1>2, <1>3, <1>4, PTL DEF Spec, Led, L!Spec
================================================================================
