------------------------------- MODULE RedisCtrl -------------------------------
(***************************************************************************)
(* The cluster controller of src/RedisCtrl.cpp.  Controllers compete for a *)
(* lock in ZooKeeper; its holder compares the configured Redis servers     *)
(* with those on record as in order (check) and out of order (error), asks *)
(* each server whose slave it is, publishes for every cluster the list of  *)
(* its servers, master first (legal_nodes), and sends SLAVEOF.             *)
(*                                                                         *)
(* One step is one ZooKeeper write or one round of Redis commands; between *)
(* any two of them the controller may crash, lose its session, or be told  *)
(* that a write failed.  Each phase of check() reads what it needs and     *)
(* then only writes: the writes it decides on are `ops', in their order,   *)
(* and the first one that fails ends the pass.  Only the holder of the     *)
(* lock writes under error, check and legal_nodes, so a phase reads them   *)
(* in one step.  An operator changes config at any time; as he changes one *)
(* node at a time, reading the clusters one after the other gives what one *)
(* read gives for some order of his changes.                               *)
(*                                                                         *)
(* Names are abstract: a server is a number, and < the order of the names. *)
(* A node of check is a sequence node that holds an address; the children  *)
(* of a cluster are the sequence of addresses in the order of creation,    *)
(* which is the order of their names.  The root directories exist.         *)
(***************************************************************************)
EXTENDS Naturals, SequencesExt

CONSTANTS Ctrl,      \* controller processes
          Cluster,   \* cluster indices
          Addr,      \* Redis servers
          Config0,   \* the configuration at the start
          TryTimes,  \* try_times of check_redis and do_slaveof_cmd, 3
          Events,    \* the kinds of things that may happen from outside
          MaxEvents, \* bound: how many of them do
          NULL, DEAD

(* d is a directory: for some clusters, the nodes below them.              *)
IsDir(d, T) == DOMAIN d \subseteq Cluster /\ d \in [DOMAIN d -> T]

ASSUME RedisCtrlAssumption ==
  /\ Cluster \subseteq Nat /\ IsFiniteSet(Cluster)
  /\ Addr \subseteq Nat /\ IsFiniteSet(Addr)
  /\ IsDir(Config0, SUBSET Addr)
  /\ TryTimes \in Nat \ {0} /\ MaxEvents \in Nat
  /\ Events \subseteq {"config", "redis", "zk", "session", "restart", "slow"}
  /\ NULL \notin Ctrl \cup Addr \cup {DEAD} /\ DEAD \notin Ctrl

VARIABLES
  lock,     \* session that owns <root>/lock/lock, NULL when there is no such
            \* node, DEAD for the session of a controller that has crashed
  config,   \* <root>/config: the servers of each cluster
  error,    \* <root>/error: the servers out of order
  check,    \* <root>/check: the servers in order, oldest entry first
  legal,    \* <root>/legal_nodes: what clients (RedisHash) see
  up,       \* Redis: does the server answer
  slaveof,  \* Redis: the master it replicates, NULL for none
  sess,     \* is the ZooKeeper session of the controller alive
  st,       \* the controllers inside RedisCtrl::check
  events    \* things that may still happen from outside

vars == <<lock, config, error, check, legal, up, slaveof, sess, st, events>>

(* Writes under error and check, and under legal_nodes.                    *)
Op == [act : {"create", "delete"}, dir : {"error", "check"},
       k : Cluster, a : {NULL} \cup Addr]
Legal == [cls : Cluster, rds : Seq(Addr)]
LegalOp == [act : {"create", "delete"}, node : Legal]

NoPass == [pc |-> "idle", cfgs |-> <<>>, ops |-> <<>>, live |-> <<>>,
           cmds |-> {}, tries |-> 0]

TypeOK ==
  /\ lock \in Ctrl \cup {NULL, DEAD}
  /\ IsDir(config, SUBSET Addr)
  /\ IsDir(error, Seq(Addr))
  /\ IsDir(check, Seq(Addr))
  /\ legal \subseteq Legal
  /\ up \in [Addr -> BOOLEAN]
  /\ slaveof \in [Addr -> Addr \cup {NULL}]
  /\ sess \in [Ctrl -> BOOLEAN]
  /\ DOMAIN st = Ctrl
  /\ \A c \in Ctrl :
       /\ st[c].pc \in {"idle", "read", "sync", "redis", "error", "check",
                        "legal", "free"}
       /\ IsDir(st[c].cfgs, SUBSET Addr)
       /\ st[c].ops \in Seq(IF st[c].pc = "legal" THEN LegalOp ELSE Op)
       /\ DOMAIN st[c].live \subseteq Addr
       /\ Range(st[c].live) \subseteq Addr \cup {NULL}
       /\ st[c].cmds \subseteq Addr \X (Addr \cup {NULL})
       /\ st[c].tries \in 0 .. TryTimes
  /\ events \in 0 .. MaxEvents

Init ==
  /\ lock = NULL
  /\ config = Config0
  /\ error = <<>> /\ check = <<>> /\ legal = {}
  /\ up = [a \in Addr |-> TRUE]
  /\ slaveof = [a \in Addr |-> NULL]
  /\ sess = [c \in Ctrl |-> TRUE]
  /\ st = [c \in Ctrl |-> NoPass]
  /\ events = MaxEvents

(* Something of kind e happens.                                            *)
Event(e) == e \in Events /\ events > 0 /\ events' = events - 1

-----------------------------------------------------------------------------
(* ZooKeeper.                                                              *)

(* a = NULL stands for the directory of cluster k itself.                  *)
Create(dir, k, a) == [act |-> "create", dir |-> dir, k |-> k, a |-> a]
Delete(dir, k, a) == [act |-> "delete", dir |-> dir, k |-> k, a |-> a]
Publish(l)  == [act |-> "create", node |-> l]
Withdraw(l) == [act |-> "delete", node |-> l]

(* The children of cluster k in d: none when it has no node there.         *)
Children(d, k) == IF k \in DOMAIN d THEN Range(d[k]) ELSE {}

(* The servers configured for k.                                           *)
Servers(cfgs, k) == IF k \in DOMAIN cfgs THEN cfgs[k] ELSE {}

(* Mutant: of two nodes with one address the older is deleted.             *)
RemoveOldest(s, a) == RemoveAt(s, Min({i \in DOMAIN s : s[i] = a}))

(* The last of the nodes with the address a.                               *)
RemoveNewest(s, a) == RemoveAt(s, Max({i \in DOMAIN s : s[i] = a}))

(* zoo_create and zoo_delete under d, which is error or check: a node is   *)
(* created once under an existing parent (a sequence node as often as one  *)
(* likes) and deleted when it is there and has no children.                *)
CanWrite(d, o) ==
  CASE o.a = NULL /\ o.act = "create" -> o.k \notin DOMAIN d
    [] o.a = NULL /\ o.act = "delete" -> o.k \in DOMAIN d /\ d[o.k] = <<>>
    [] o.a # NULL /\ o.act = "create" ->
         o.k \in DOMAIN d /\ (o.dir = "check" \/ o.a \notin Range(d[o.k]))
    [] o.a # NULL /\ o.act = "delete" -> o.a \in Children(d, o.k)

Written(d, o) ==
  CASE o.a = NULL /\ o.act = "create" ->
         [j \in DOMAIN d \cup {o.k} |-> IF j = o.k THEN <<>> ELSE d[j]]
    [] o.a = NULL /\ o.act = "delete" -> Restrict(d, DOMAIN d \ {o.k})
    [] o.a # NULL /\ o.act = "create" -> [d EXCEPT ![o.k] = Append(@, o.a)]
    [] OTHER -> [d EXCEPT ![o.k] = RemoveNewest(@, o.a)]

(* The next write of c, which is one under legal_nodes in the last phase,  *)
(* that of legal_cmp, and no other.                                        *)
Possible(c) ==
  LET o == Head(st[c].ops)
  IN IF st[c].pc = "legal" THEN (o.act = "create") # (o.node \in legal)
     ELSE CanWrite(IF o.dir = "error" THEN error ELSE check, o)

ApplyLegal(o) ==
  /\ legal' = IF o.act = "create" THEN legal \cup {o.node} ELSE legal \ {o.node}
  /\ UNCHANGED <<error, check>>

ApplyRecord(o) ==
  /\ error' = IF o.dir = "error" THEN Written(error, o) ELSE error
  /\ check' = IF o.dir = "error" THEN check ELSE Written(check, o)
  /\ UNCHANGED legal

Apply(c) ==
  LET o == Head(st[c].ops)
  IN IF st[c].pc = "legal" THEN ApplyLegal(o) ELSE ApplyRecord(o)

-----------------------------------------------------------------------------
(* What a phase decides to write.  Maps and sets are walked in the order   *)
(* of their keys: f says what there is to do for each.                     *)

ForEach(f) ==
  LET walk[T \in SUBSET DOMAIN f] ==
        IF T = {} THEN <<>> ELSE f[Min(T)] \o walk[T \ {Min(T)}]
  IN walk[DOMAIN f]

(* Mutant: get_config does not look for duplicates.                        *)
DuplicateIgnored(cfgs) == FALSE

(* get_config: an address in two clusters makes the configuration invalid. *)
Duplicate(cfgs) == \E j, k \in DOMAIN cfgs : j # k /\ cfgs[j] \cap cfgs[k] # {}

(* Mutant: get_check does not look for duplicates.                         *)
TwiceIgnored(s) == {}

(* get_check: of two nodes with one address the younger is deleted,        *)
(* whichever of the two is met first.                                      *)
Twice(s) == {a \in Range(s) : Cardinality({i \in DOMAIN s : s[i] = a}) > 1}
GetCheck ==
  ForEach([k \in DOMAIN check |->
    ForEach([a \in Twice(check[k]) |-> <<Delete("check", k, a)>>])])

(* Mutant: directories of clusters are created whether they are there or not. *)
MakeDirAlways(d, dir, k) == <<Create(dir, k, NULL)>>

(* logic_check_add: clusters without a directory get one, and servers on   *)
(* no record are taken for good.                                           *)
MakeDir(d, dir, k) == IF k \in DOMAIN d THEN <<>> ELSE <<Create(dir, k, NULL)>>
LogicCheckAdd(cfgs) ==
  ForEach([k \in DOMAIN cfgs |->
    MakeDir(error, "error", k) \o MakeDir(check, "check", k)
    \o ForEach([a \in cfgs[k] \ (Children(check, k) \cup Children(error, k)) |->
                 <<Create("check", k, a)>>])])

(* logic_error_rm and logic_check_rm: what is not configured goes.         *)
LogicRm(cfgs, d, dir) ==
  ForEach([k \in DOMAIN d |->
    ForEach([a \in Children(d, k) \ Servers(cfgs, k) |-> <<Delete(dir, k, a)>>])
    \o (IF k \in DOMAIN cfgs THEN <<>> ELSE <<Delete(dir, k, NULL)>>)])

Sync(cfgs) == GetCheck \o LogicCheckAdd(cfgs) \o LogicRm(cfgs, error, "error")
                \o LogicRm(cfgs, check, "check")

(* Mutant: check_error takes the server out of error and stops there.      *)
CheckErrorForgets(live) ==
  ForEach([k \in DOMAIN error |->
    ForEach([a \in Children(error, k) \cap DOMAIN live |-> <<Delete("error", k, a)>>])])

(* check_error: a server that answers is good again.                       *)
CheckErrorOps(live) ==
  ForEach([k \in DOMAIN error |->
    ForEach([a \in Children(error, k) \cap DOMAIN live |->
              <<Delete("error", k, a), Create("check", k, a)>>])])

(* check_check: a server that does not answer is out of order.             *)
CheckCheckOps(live) ==
  GetCheck \o
  ForEach([k \in DOMAIN check |->
    ForEach([a \in Children(check, k) \ DOMAIN live |->
              <<Create("error", k, a), Delete("check", k, a)>>])])

(* Mutant: the published list is in the order of the map, not that of sort_redis. *)
LegalByName(k) ==
  [cls |-> k, rds |-> IF check[k] # <<>> THEN ForEach([a \in Range(check[k]) |-> <<a>>])
                      ELSE <<Min(Children(error, k))>>]

(* gen_legal_redis: a cluster is its good servers, oldest first, or any of *)
(* its bad ones when it has no other.                                      *)
LegalOf(k) == [cls |-> k, rds |-> IF check[k] # <<>> THEN check[k]
                                  ELSE <<Min(Children(error, k))>>]
(* Mutant: the first of a cluster is never told SLAVEOF NO ONE.            *)
SlaveofNotMaster(k, live) ==
  {<<a, check[k][1]>> : a \in {b \in Range(check[k]) : b # check[k][1] /\ live[b] # check[k][1]}}

SlaveofCmds(k, live) ==
  {<<a, IF a = check[k][1] THEN NULL ELSE check[k][1]>> :
     a \in {b \in Range(check[k]) :
              live[b] # IF b = check[k][1] THEN NULL ELSE check[k][1]}}

GenFails(live) ==
  \/ \E k \in DOMAIN check : check[k] = <<>> /\ Children(error, k) = {}
  \/ \E k \in DOMAIN check : ~ Range(check[k]) \subseteq DOMAIN live
  \/ \E j, k \in DOMAIN check : \E m \in SlaveofCmds(j, live), n \in SlaveofCmds(k, live) :
       j # k /\ m[1] = n[1]

(* legal_cmp: nodes that are no longer right go before the new ones come.  *)
Outdated(target) == LET old == SetToSeq(legal \ target)
                    IN [i \in DOMAIN old |-> Withdraw(old[i])]
Missing(target)  == LET new == SetToSeq(target \ legal)
                    IN [i \in DOMAIN new |-> Publish(new[i])]
(* Mutant: legal_cmp adds before it removes.                               *)
LegalCmpAddFirst(target) == Missing(target) \o Outdated(target)

LegalCmp(target) == Outdated(target) \o Missing(target)

-----------------------------------------------------------------------------
(* RedisCtrl::check, called again and again (online/test_ctrl.cpp).        *)

At(c, pc) == st[c].pc = pc /\ st[c].ops = <<>>
Goto(c, pc) == st' = [st EXCEPT ![c].pc = pc]
Plan(c, pc, ops) == st' = [st EXCEPT ![c].pc = pc, ![c].ops = ops]
GiveUp(c) == st' = [st EXCEPT ![c] = [NoPass EXCEPT !.pc = "free"]]

(* Mutant: any answer of zoo_create on the lock is taken for success.      *)
GetLockBlind(c) ==
  /\ st[c].pc = "idle" /\ sess[c]
  /\ lock' = c
  /\ Goto(c, "read")
  /\ UNCHANGED <<config, error, check, legal, up, slaveof, sess, events>>

(* get_lock creates an ephemeral node.  When it exists already, and when   *)
(* init_path_check finds the session gone, check returns at once.          *)
GetLock(c) ==
  /\ st[c].pc = "idle" /\ sess[c] /\ lock = NULL
  /\ lock' = c
  /\ Goto(c, "read")
  /\ UNCHANGED <<config, error, check, legal, up, slaveof, sess, events>>

Read(c) ==
  /\ st[c].pc = "read"
  /\ IF sess[c] /\ ~ Duplicate(config)
     THEN st' = [st EXCEPT ![c].pc = "sync", ![c].cfgs = config,
                           ![c].ops = Sync(config), ![c].tries = TryTimes]
     ELSE GiveUp(c)
  /\ UNCHANGED <<lock, config, error, check, legal, up, slaveof, sess, events>>

Write(c) ==
  /\ st[c].ops # <<>>
  /\ IF sess[c] /\ Possible(c)
     THEN /\ Apply(c)
          /\ st' = [st EXCEPT ![c].ops = Tail(@)]
     ELSE /\ GiveUp(c)
          /\ UNCHANGED <<error, check, legal>>
  /\ UNCHANGED <<lock, config, up, slaveof, sess, events>>

(* One round of check_redis: those that have not answered yet are asked.   *)
(* An answer may be too late for the 100 ms of the round.                  *)
CheckRedis(c) ==
  LET s == st[c]
      asked == (UNION Range(s.cfgs)) \ DOMAIN s.live
  IN /\ At(c, "sync")
     /\ \E A \in SUBSET asked :
          /\ A \subseteq {a \in asked : up[a]}
          /\ \/ A = {a \in asked : up[a]} /\ UNCHANGED events
             \/ A # {a \in asked : up[a]} /\ Event("slow")
          /\ st' = [st EXCEPT ![c].live = [a \in DOMAIN s.live \cup A |->
                                             IF a \in A THEN slaveof[a] ELSE s.live[a]],
                      ![c].tries = IF A = asked \/ s.tries = 1 THEN TryTimes ELSE s.tries - 1,
                      ![c].pc = IF A = asked \/ s.tries = 1 THEN "redis" ELSE "sync"]
     /\ UNCHANGED <<lock, config, error, check, legal, up, slaveof, sess>>

CheckError(c) ==
  /\ At(c, "redis")
  /\ IF sess[c] THEN Plan(c, "error", CheckErrorOps(st[c].live)) ELSE GiveUp(c)
  /\ UNCHANGED <<lock, config, error, check, legal, up, slaveof, sess, events>>

CheckCheck(c) ==
  /\ At(c, "error")
  /\ IF sess[c] THEN Plan(c, "check", CheckCheckOps(st[c].live)) ELSE GiveUp(c)
  /\ UNCHANGED <<lock, config, error, check, legal, up, slaveof, sess, events>>

GenLegal(c) ==
  LET live == st[c].live
  IN /\ At(c, "check")
     /\ IF sess[c] /\ ~ GenFails(live)
        THEN st' = [st EXCEPT ![c].pc = "legal",
               ![c].ops = LegalCmp({LegalOf(k) : k \in DOMAIN check}),
               ![c].cmds = UNION {SlaveofCmds(k, live) : k \in DOMAIN check}]
        ELSE GiveUp(c)
     /\ UNCHANGED <<lock, config, error, check, legal, up, slaveof, sess, events>>

(* Mutant: do_slaveof_cmd tries again as long as a server does not answer. *)
DoSlaveofForever(c) ==
  LET s == st[c]
      able == {m \in s.cmds : up[m[1]]}
  IN /\ At(c, "legal")
     /\ slaveof' = [a \in Addr |-> IF \E m \in able : m[1] = a
                                   THEN (CHOOSE m \in able : m[1] = a)[2]
                                   ELSE slaveof[a]]
     /\ IF able = s.cmds THEN GiveUp(c)
        ELSE st' = [st EXCEPT ![c].cmds = @ \ able, ![c].tries = @ - 1]
     /\ UNCHANGED <<lock, config, error, check, legal, up, sess, events>>

(* One round of do_slaveof_cmd, which needs no ZooKeeper session.  A       *)
(* server may miss the round, or carry it out and answer too late.         *)
DoSlaveof(c) ==
  LET s == st[c]
      able == {m \in s.cmds : up[m[1]]}
  IN /\ At(c, "legal")
     /\ \E done \in SUBSET able : \E ok \in SUBSET done :
          /\ \/ ok = able /\ UNCHANGED events
             \/ ok # able /\ Event("slow")
          /\ slaveof' = [a \in Addr |-> IF \E m \in done : m[1] = a
                                        THEN (CHOOSE m \in done : m[1] = a)[2]
                                        ELSE slaveof[a]]
          /\ IF ok = s.cmds \/ s.tries = 1
             THEN GiveUp(c)
             ELSE st' = [st EXCEPT ![c].cmds = @ \ ok, ![c].tries = @ - 1]
     /\ UNCHANGED <<lock, config, error, check, legal, up, sess>>

(* ~local_lock: free_lock deletes the node, whoever created it.            *)
FreeLock(c) ==
  /\ st[c].pc = "free"
  /\ lock' = IF sess[c] THEN NULL ELSE lock
  /\ st' = [st EXCEPT ![c] = NoPass]
  /\ UNCHANGED <<config, error, check, legal, up, slaveof, sess, events>>

-----------------------------------------------------------------------------
(* What happens around it.                                                 *)

(* A ZooKeeper call returns an error (a lost connection, a timeout): it    *)
(* has been carried out or not.  A lock got or kept without knowing it is  *)
(* not given back.                                                         *)
LockLost(c) ==
  /\ Event("zk") /\ sess[c]
  /\ \/ st[c].pc = "idle" /\ lock = NULL /\ lock' = c /\ UNCHANGED st
     \/ st[c].pc = "free" /\ UNCHANGED lock /\ st' = [st EXCEPT ![c] = NoPass]
  /\ UNCHANGED <<config, error, check, legal, up, slaveof, sess>>

CallLost(c) ==
  /\ Event("zk") /\ sess[c]
  /\ \/ st[c].ops # <<>> /\ Possible(c) /\ Apply(c)
     \/ /\ st[c].ops # <<>> \/ st[c].pc \in {"read", "redis", "error", "check"}
        /\ UNCHANGED <<error, check, legal>>
  /\ GiveUp(c)
  /\ UNCHANGED <<lock, config, up, slaveof, sess>>

(* The session expires, and with it the lock; the handle of ZKinit is not  *)
(* made anew, so nothing but a restart helps.                              *)
SessionExpires(c) ==
  /\ Event("session") /\ sess[c]
  /\ sess' = [sess EXCEPT ![c] = FALSE]
  /\ lock' = IF lock = c THEN NULL ELSE lock
  /\ UNCHANGED <<config, error, check, legal, up, slaveof, st>>

(* The process dies and is started again; the old session lives on until   *)
(* ZooKeeper gives it up.                                                  *)
Restart(c) ==
  /\ Event("restart")
  /\ st' = [st EXCEPT ![c] = NoPass]
  /\ sess' = [sess EXCEPT ![c] = TRUE]
  /\ lock' = IF lock = c THEN DEAD ELSE lock
  /\ UNCHANGED <<config, error, check, legal, up, slaveof>>

DeadSession ==
  /\ lock = DEAD
  /\ lock' = NULL
  /\ UNCHANGED <<config, error, check, legal, up, slaveof, sess, st, events>>

(* The operator adds or removes a cluster or a server.                     *)
Configure ==
  /\ Event("config")
  /\ \/ \E k \in Cluster \ DOMAIN config :
          config' = [j \in DOMAIN config \cup {k} |-> Servers(config, j)]
     \/ \E k \in DOMAIN config :
          config[k] = {} /\ config' = Restrict(config, DOMAIN config \ {k})
     \/ \E k \in DOMAIN config, a \in Addr :
          config' = [config EXCEPT ![k] = IF a \in @ THEN @ \ {a} ELSE @ \cup {a}]
  /\ UNCHANGED <<lock, error, check, legal, up, slaveof, sess, st>>

(* A server stops, or starts again as its own configuration says: as a     *)
(* master.                                                                 *)
Redis(a) ==
  /\ Event("redis")
  /\ up' = [up EXCEPT ![a] = ~ @]
  /\ slaveof' = [slaveof EXCEPT ![a] = IF up[a] THEN @ ELSE NULL]
  /\ UNCHANGED <<lock, config, error, check, legal, sess, st>>

Step(c) == \/ GetLock(c) \/ Read(c) \/ Write(c) \/ CheckRedis(c) \/ CheckError(c)
           \/ CheckCheck(c) \/ GenLegal(c) \/ DoSlaveof(c) \/ FreeLock(c)

Fault == \/ \E c \in Ctrl : LockLost(c) \/ CallLost(c) \/ SessionExpires(c) \/ Restart(c)
         \/ Configure
         \/ \E a \in Addr : Redis(a)

Next == (\E c \in Ctrl : Step(c)) \/ DeadSession \/ Fault

Spec == Init /\ [][Next]_vars

(* test_ctrl calls check for ever, every blocking call in it returns, and  *)
(* ZooKeeper drops dead sessions.                                          *)
FairSpec == Spec /\ WF_vars(DeadSession) /\ \A c \in Ctrl : WF_vars(Step(c))

-----------------------------------------------------------------------------
(* Properties.                                                             *)

Working(c) == st[c].pc # "idle" /\ sess[c]

(* The lock excludes: of the controllers whose session lives at most one   *)
(* is inside a pass, and it owns the lock (get_lock, free_lock), whatever  *)
(* crashes, expires or fails.                                              *)
OneController == \A c \in Ctrl : Working(c) => lock = c

(* Clients never find two lists for one cluster index: RedisHash takes the *)
(* cluster of a node from its name, and legal_cmp never has both the old   *)
(* and the new node of a cluster there, in whatever step it stops.         *)
AtMostOneLegal == \A m, n \in legal : m.cls = n.cls => m = n

(* No server is published for two clusters at once, also while the         *)
(* operator moves it from one to the other and passes stop half way.       *)
NoSharedRedis ==
  \A m, n \in legal : m # n => Range(m.rds) \cap Range(n.rds) = {}

(* The controllers together are one Leader: the lists change one node at a *)
(* time, only while a living session owns the lock, and neither clusters   *)
(* nor servers ever meet in two lists.                                     *)
L == INSTANCE Leader
Led == L!Spec

(* When gen_legal_redis has decided what to publish, each configured       *)
(* server is on record in exactly one place, once: in check when it has    *)
(* answered in this pass, in error when it has not.                        *)
Classified ==
  \A c \in Ctrl : Working(c) /\ st[c].pc = "legal" =>
    /\ DOMAIN check = DOMAIN st[c].cfgs /\ DOMAIN error = DOMAIN st[c].cfgs
    /\ \A k \in DOMAIN st[c].cfgs :
         /\ Range(check[k]) = st[c].cfgs[k] \cap DOMAIN st[c].live
         /\ Range(error[k]) = st[c].cfgs[k] \ DOMAIN st[c].live
         /\ Twice(check[k]) = {}

(* A master keeps its place: the oldest entry of a cluster changes only    *)
(* when the server is on record as out of order or the pass has found it   *)
(* not configured.  A server that comes back never takes it, and deleting  *)
(* the younger of two entries (get_check) does not give it away.           *)
MasterSticky ==
  [][\A k \in DOMAIN check : check[k] # <<>> =>
       LET m == Head(check[k])
       IN \/ k \in DOMAIN check' /\ check'[k] # <<>> /\ Head(check'[k]) = m
          \/ m \in Children(error, k)
          \/ \E c \in Ctrl : Working(c) /\ m \notin Servers(st[c].cfgs, k)]_vars

(* Replication follows what is published: while the session of the         *)
(* controller that sends SLAVEOF lives, a server is made the slave of the  *)
(* first of a published list, which contains it, and a master only when it *)
(* is first itself.                                                        *)
SlaveofFollowsLegal ==
  [][\A a \in Addr : slaveof'[a] # slaveof[a] /\ up' = up =>
       \/ \E c \in Ctrl : ~ sess[c] /\ st[c].pc = "legal"
       \/ \E l \in legal : /\ a \in Range(l.rds)
                           /\ slaveof'[a] = IF a = l.rds[1] THEN NULL ELSE l.rds[1]]_vars

(* Once nothing more happens from outside, and the configuration is one    *)
(* that can be served (no server in two clusters, no cluster without       *)
(* servers), the records, the published lists and the replication of the   *)
(* servers that answer end up and stay as the configuration says.          *)
Servable == ~ Duplicate(config) /\ \A k \in DOMAIN config : config[k] # {}

Settled ==
  /\ DOMAIN check = DOMAIN config /\ DOMAIN error = DOMAIN config
  /\ \A k \in DOMAIN config : /\ Range(check[k]) = {a \in config[k] : up[a]}
                              /\ Range(error[k]) = {a \in config[k] : ~ up[a]}
  /\ legal = {LegalOf(k) : k \in DOMAIN check}
  /\ \A k \in DOMAIN check : \A i \in DOMAIN check[k] :
       slaveof[check[k][i]] = IF i = 1 THEN NULL ELSE check[k][1]

Converges == <>[](Servable => Settled)

(* With crashes and failing calls there are three ways never to get there: *)
(* no controller has a session; the lock belongs to a controller that does *)
(* not know it; a server that does not answer is on record in both places, *)
(* so that check_check fails to create its node in error and ends every    *)
(* pass.  There is no fourth.                                              *)
NoSession  == \A c \in Ctrl : ~ sess[c]
LockLeaked == lock # NULL /\ \A c \in Ctrl : lock = c => st[c].pc = "idle"
InBoth  == \E k \in DOMAIN config : \E a \in Children(check, k) \cap Children(error, k) : ~ up[a]

ConvergesUnlessStuck ==
  <>[](Servable => Settled) \/ <>[](NoSession \/ LockLeaked \/ InBoth)
===============================================================================
