------------------------------ MODULE RedisService -----------------------------
(***************************************************************************)
(* The controllers and the clients together: what RedisCtrl writes under   *)
(* legal_nodes is what RedisHash reads there, later.  Every write of a     *)
(* published node adds one entry to the log the clients follow; apart from *)
(* that the two sides share nothing but the Redis servers.  That the log   *)
(* changes as RedisHash assumes, one node at a time and with no cluster or *)
(* server in two lists, is what Leader promises and RedisCtrl implements.  *)
(***************************************************************************)
EXTENDS Naturals, Sequences, FiniteSets, Functions

CONSTANTS Ctrl, Cluster, Addr, Config0, TryTimes, Events, MaxEvents, NULL, DEAD,
          Client, Malformed, User, Hash, MaxChanges, MaxFaults

VARIABLES lock, config, error, check, legal, up, slaveof, sess, st, events,
          log, srv, alive, rd, got, watch, addrs, seen, faults

Ctl == INSTANCE RedisCtrl
Cli == INSTANCE RedisHash

(* What both sides assume of the constants.                                *)
ASSUME RedisServiceAssumption == Ctl!RedisCtrlAssumption /\ Cli!RedisHashAssumption

ctrls   == <<lock, config, error, check, legal, up, slaveof, sess, st, events>>
clients == <<srv, alive, rd, got, watch, addrs, seen, faults>>
vars == <<ctrls, log, clients>>

Init == Ctl!Init /\ Cli!Init

(* The log records each write of a node of legal_nodes.                    *)
Recorded == log' = IF legal' = legal THEN log ELSE Append(log, legal')

(* A controller takes a step, or something happens to the controllers.     *)
CtrlStep(c) == Ctl!Step(c) /\ Recorded /\ UNCHANGED clients
DeadSession == Ctl!DeadSession /\ UNCHANGED <<log, clients>>
Fault       == Ctl!Fault /\ Recorded /\ UNCHANGED clients

(* A client, or its ZooKeeper server, takes a step.                        *)
ClientStep(c) == Cli!Step(c) /\ UNCHANGED ctrls

Next == \/ \E c \in Ctrl : CtrlStep(c)
        \/ DeadSession \/ Fault
        \/ \E c \in Client : ClientStep(c)

Spec == Init /\ [][Next]_vars

(* That of RedisCtrl and that of RedisHash.                                *)
Fairness ==
  /\ WF_vars(DeadSession) /\ \A c \in Ctrl : WF_vars(CtrlStep(c))
  /\ \A c \in Client : WF_vars(Cli!Run(c) /\ UNCHANGED ctrls)

FairSpec == Spec /\ Fairness

-----------------------------------------------------------------------------
(* Properties.                                                             *)

(* A user stays with his server while a client's masters do, also when     *)
(* slaves fail and come back (sort_redis, sort_cluster_fun).               *)
UsersStay == Cli!UsersStay

(* The map of every client is, as a whole, one that the owner of the lock  *)
(* has published, none comes back, and what was published one after the    *)
(* other had no cluster and no server in two lists: legal_cmp writes what  *)
(* redis_node_cb relies on, also while controllers and sessions are lost.  *)
View == Cli!View

(* Once nothing more happens from outside, the configuration can be served *)
(* and each cluster has a server that answers, a client whose session      *)
(* lives knows every server that answers and no other, writes for every    *)
(* user to a server that is a master and reads from one that replicates    *)
(* that very master: sort_redis, SLAVEOF, legal_nodes, the watch, the map, *)
(* the hash, redis_addr_master and redis_addr_slave_first agree in the     *)
(* end, unless a crash has left a server on record in two places (see      *)
(* ConvergesUnlessStuck).                                                  *)
Healthy == /\ Ctl!Servable /\ ~ Ctl!InBoth /\ DOMAIN config # {}
           /\ \A k \in DOMAIN config : \E a \in config[k] : up[a]

Good(f) ==
  /\ DOMAIN f = DOMAIN config
  /\ \A k \in DOMAIN f : Range(f[k]) = {a \in config[k] : up[a]}
  /\ \A u \in User : LET m == Cli!Master(f, u)
                     IN /\ slaveof[m] = NULL
                        /\ \A a \in Cli!SlaveFirst(f, u) : a = m \/ slaveof[a] = m

Served == <>[](Healthy => \A c \in Client : alive[c] => Good(addrs[c]))
================================================================================
