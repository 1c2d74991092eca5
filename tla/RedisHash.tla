------------------------------- MODULE RedisHash ------------------------------
(***************************************************************************)
(* The client's view of src/RedisHash.cpp: it reads <root>/legal_nodes,    *)
(* leaves a watch there, reads again when the watch fires or a read fails, *)
(* and hashes users over the clusters it has read.                         *)
(*                                                                         *)
(* The ZooKeeper server of a client applies the changes of the directory   *)
(* in their order, maybe late; a read that succeeds is answered with what  *)
(* the server has and registers the watch in the same step.  Answers and   *)
(* events reach the client in order and are handled by one thread, so an   *)
(* event is handled after the answer before it.  Session events call the   *)
(* watcher with an empty path, for which zoo_awget_children does nothing.  *)
(***************************************************************************)
EXTENDS LegalNodes

CONSTANTS Client,      \* processes with a RedisHash
          Malformed,   \* names of servers that are not ip:port
          User, Hash,  \* users, CityHash64 of their names
          MaxChanges,  \* bound: how often the directory changes
          MaxFaults    \* bound: failed reads and expired sessions

ASSUME RedisHashAssumption ==
  /\ Addr \subseteq Nat \ {0} /\ IsFiniteSet(Addr) /\ Malformed \subseteq Addr
  /\ IsFiniteSet(Cluster)
  /\ Hash \in [User -> Nat]
  /\ MaxChanges \in Nat /\ MaxFaults \in Nat

VARIABLES
  log,     \* the contents legal_nodes has had, one after the other
  srv,     \* how much of log the server of a client has applied
  alive,   \* is the ZooKeeper session of the client alive
  rd,      \* its zoo_awget_children: none, sent, or answered or failed and
           \* not yet handled by redis_node_cb
  got,     \* the answer
  watch,   \* its watch: none, set, or fired and not yet handled
  addrs,   \* RedisHash::addrs_
  seen,    \* not in the code: the contents addrs_ is made from
  faults   \* things that may still go wrong

client == <<srv, alive, rd, got, watch, addrs, seen, faults>>
vars == <<log, client>>

V == INSTANCE LegalView

TypeOK ==
  /\ log \in Seq(SUBSET Node) /\ log # <<>>
  /\ srv \in [Client -> 1 .. Len(log)]
  /\ alive \in [Client -> BOOLEAN]
  /\ rd \in [Client -> {"none", "sent", "answered", "failed"}]
  /\ got \in [Client -> 1 .. Len(log)]
  /\ watch \in [Client -> {"none", "set", "fired"}]
  /\ seen \in [Client -> 0 .. Len(log)]
  /\ DOMAIN addrs = Client
  /\ \A c \in Client : addrs[c] \in [DOMAIN addrs[c] -> Lists]
  /\ faults \in 0 .. MaxFaults

(* RedisHash::start sends the first read.                                  *)
Init ==
  /\ log = <<{}>>
  /\ srv = [c \in Client |-> 1]
  /\ alive = [c \in Client |-> TRUE]
  /\ rd = [c \in Client |-> "sent"]
  /\ got = [c \in Client |-> 1]
  /\ watch = [c \in Client |-> "none"]
  /\ addrs = [c \in Client |-> <<>>]
  /\ seen = [c \in Client |-> 0]
  /\ faults = MaxFaults

(* The controllers write a node.                                           *)
Change ==
  /\ Len(log) <= MaxChanges
  /\ \E S \in May(log[Len(log)]) : log' = Append(log, S)
  /\ UNCHANGED client

(* ZooKeeper: the server of a client takes over a change and tells it.     *)
Catch(c) ==
  /\ srv[c] < Len(log)
  /\ srv' = [srv EXCEPT ![c] = @ + 1]
  /\ watch' = [watch EXCEPT ![c] = IF alive[c] /\ @ = "set" THEN "fired" ELSE @]
  /\ UNCHANGED <<log, alive, rd, got, addrs, seen, faults>>

(* ZooKeeper: a read is answered.                                          *)
Answer(c) ==
  /\ rd[c] = "sent" /\ alive[c]
  /\ rd' = [rd EXCEPT ![c] = "answered"]
  /\ got' = [got EXCEPT ![c] = srv[c]]
  /\ watch' = [watch EXCEPT ![c] = "set"]
  /\ UNCHANGED <<log, srv, alive, addrs, seen, faults>>

(* A read fails, or its answer is lost with the connection.                *)
Fail(c) ==
  /\ faults > 0 /\ faults' = faults - 1
  /\ rd[c] = "sent"
  /\ rd' = [rd EXCEPT ![c] = "failed"]
  /\ UNCHANGED <<log, srv, alive, got, watch, addrs, seen>>

(* The session expires, and with it the read that is under way.            *)
Expire(c) ==
  /\ faults > 0 /\ faults' = faults - 1
  /\ alive[c]
  /\ alive' = [alive EXCEPT ![c] = FALSE]
  /\ rd' = [rd EXCEPT ![c] = IF @ = "sent" THEN "failed" ELSE @]
  /\ UNCHANGED <<log, srv, got, watch, addrs, seen>>

(* zoo_awget_children, which returns an error at once, that nobody looks   *)
(* at, when the session is gone.                                           *)
Reread(c) == rd' = [rd EXCEPT ![c] = IF alive[c] THEN "sent" ELSE "none"]

(* Mutant: the event is only logged.                                       *)
WatcherLogs(c) ==
  /\ watch[c] = "fired" /\ rd[c] = "none"
  /\ watch' = [watch EXCEPT ![c] = "none"]
  /\ UNCHANGED <<log, srv, alive, rd, got, addrs, seen, faults>>

(* redis_node_wc                                                           *)
Watcher(c) ==
  /\ watch[c] = "fired" /\ rd[c] = "none"
  /\ watch' = [watch EXCEPT ![c] = "none"]
  /\ Reread(c)
  /\ UNCHANGED <<log, srv, alive, got, addrs, seen, faults>>

(* Mutant: the error is only logged.                                       *)
NodeCbFailedLogs(c) ==
  /\ rd[c] = "failed"
  /\ rd' = [rd EXCEPT ![c] = "none"]
  /\ UNCHANGED <<log, srv, alive, got, watch, addrs, seen, faults>>

(* Mutant: no else, update_ends is called with no clusters.                *)
NodeCbFailedClears(c) ==
  /\ rd[c] = "failed"
  /\ Reread(c)
  /\ addrs' = [addrs EXCEPT ![c] = <<>>]
  /\ seen' = [seen EXCEPT ![c] = 0]
  /\ UNCHANGED <<log, srv, alive, got, watch, faults>>

(* redis_node_cb with an error.                                            *)
NodeCbFailed(c) ==
  /\ rd[c] = "failed"
  /\ Reread(c)
  /\ UNCHANGED <<log, srv, alive, got, watch, addrs, seen, faults>>

(* redis_node_cb with an answer, and update_ends: the map changes as a     *)
(* whole or, when a name cannot be read, not at all.                       *)
NodeCb(c) ==
  LET S == log[got[c]]
  IN /\ rd[c] = "answered"
     /\ rd' = [rd EXCEPT ![c] = "none"]
     /\ \/ /\ V!Readable(S)
           /\ \E f \in V!Ends(S) : addrs' = [addrs EXCEPT ![c] = f]
           /\ seen' = [seen EXCEPT ![c] = got[c]]
        \/ ~ V!Readable(S) /\ UNCHANGED <<addrs, seen>>
     /\ UNCHANGED <<log, srv, alive, got, watch, faults>>

Handle(c) == Watcher(c) \/ NodeCbFailed(c) \/ NodeCb(c)
Step(c) == Catch(c) \/ Answer(c) \/ Fail(c) \/ Expire(c) \/ Handle(c)

Next == Change \/ \E c \in Client : Step(c)

Spec == Init /\ [][Next]_vars

(* What does not fail: ZooKeeper answers and its servers follow, and the   *)
(* client's thread runs.                                                   *)
Run(c) == Catch(c) \/ Answer(c) \/ Handle(c)
Fairness == \A c \in Client : WF_vars(Run(c))

FairSpec == Spec /\ Fairness

-----------------------------------------------------------------------------
(* Where the requests of a user go: f is addrs_, and addrs_v_ is f sorted. *)

(* Mutant: clusters are compared by the number of their servers.           *)
LessBySize(s, t) == Len(s) < Len(t)

(* Mutant: shorter lists go first, as with strings of different lengths.   *)
LessShorter(s, t) ==
  \/ Len(s) < Len(t)
  \/ Len(s) = Len(t) /\ s[1] < t[1]

(* std::vector's order, for sort_cluster_fun.                              *)
Less(s, t) ==
  \E n \in 1 .. Len(t) :
    /\ n <= Len(s) + 1
    /\ \A i \in 1 .. n - 1 : s[i] = t[i]
    /\ n = Len(s) + 1 \/ s[n] < t[n]

(* The place of cluster k in addrs_v_.                                     *)
Place(f, k) == Cardinality({j \in DOMAIN f : Less(f[j], f[k])})

IsHome(f, u, k) == k \in DOMAIN f /\ Place(f, k) = Hash[u] % Cardinality(DOMAIN f)

(* redis_addr_master, which gives 0 when there is no cluster.              *)
Master(f, u) ==
  IF DOMAIN f = {} THEN 0 ELSE f[CHOOSE k \in DOMAIN f : IsHome(f, u, k)][1]

(* redis_addr_slave_first: any slave, or the master when it has none.      *)
SlaveFirst(f, u) ==
  IF DOMAIN f = {} THEN {0}
  ELSE LET s == f[CHOOSE k \in DOMAIN f : IsHome(f, u, k)]
       IN {s[i] : i \in IF Len(s) = 1 THEN {1} ELSE 2 .. Len(s)}

(* redis_all                                                               *)
Masters(f) == [k \in DOMAIN f |-> f[k][1]]

-----------------------------------------------------------------------------
(* Properties.                                                             *)

(* A client whose session lives is never deaf: it waits for an answer or   *)
(* has a watch (redis_node_wc and redis_node_cb read again, whatever the   *)
(* result was).  When nothing is under way its map is what its server has, *)
(* if that can be read.                                                    *)
Listening ==
  \A c \in Client : alive[c] =>
    \/ rd[c] # "none" \/ watch[c] = "fired"
    \/ /\ watch[c] = "set"
       /\ V!Readable(log[srv[c]]) => addrs[c] \in V!Ends(log[srv[c]])

(* Why, in detail.  What is read is taken over in order; a client that     *)
(* waits for an answer has no watch; one with a watch has had an answer    *)
(* that is still true when the watch has not fired, and has taken it when  *)
(* it is not about to.                                                     *)
Chain(c) ==
  /\ rd[c] \in {"sent", "failed"} <=> watch[c] = "none"
  /\ watch[c] = "set" => got[c] = srv[c]
  /\ watch[c] = "set" /\ rd[c] = "none" /\ V!Readable(log[got[c]]) => seen[c] = got[c]

InOrder ==
  \A c \in Client : seen[c] <= got[c] /\ got[c] <= srv[c] /\ (alive[c] => Chain(c))

(* Only contents without two lists of one cluster or one server are ever   *)
(* there, and a client's map is made from one of them.                     *)
FromLog ==
  /\ \A i \in 1 .. Len(log) : Distinct(log[i])
  /\ \A c \in Client : IF seen[c] = 0 THEN addrs[c] = <<>>
                         ELSE V!Readable(log[seen[c]]) /\ addrs[c] \in V!Ends(log[seen[c]])

(* All clients that have read the same nodes send a user to the same       *)
(* server: whatever the nodes a client has read can be read as sends every *)
(* user where the client does.  RedisHash has no other agreement than the  *)
(* order of addresses.                                                     *)
Agree ==
  \A c \in Client : seen[c] # 0 =>
    \A f \in V!Ends(log[seen[c]]), u \in User : Master(f, u) = Master(addrs[c], u)

(* Every cluster has a place of its own, so that every user has a home and *)
(* every cluster gets its share of the hash values (addrs_v_.at).          *)
EveryPlaceOnce ==
  \A c \in Client : LET f == addrs[c]
    IN \A j, k \in DOMAIN f : Place(f, k) < Cardinality(DOMAIN f)
                              /\ (j # k => Place(f, j) # Place(f, k))

(* As long as the masters a client knows stay the same, so does the server *)
(* of every user, whatever happens to the slaves (sort_cluster_fun         *)
(* compares whole lists).  A new master, though, may move users of other   *)
(* clusters.                                                               *)
UsersStay ==
  [][\A c \in Client :
       addrs'[c] # addrs[c] /\ Masters(addrs'[c]) = Masters(addrs[c]) =>
         \A u \in User : Master(addrs'[c], u) = Master(addrs[c], u)]_vars

(* The view of a client is one of those LegalView allows.                  *)
View == V!Spec

(* After the last change a client whose session lives has the published    *)
(* map, if it can be read.                                                 *)
Informed ==
  \A c \in Client :
    <>[](alive[c] /\ V!Readable(log[Len(log)]) => addrs[c] \in V!Ends(log[Len(log)]))
===============================================================================
