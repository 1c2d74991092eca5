------------------------------ MODULE LegalNodes ------------------------------
(***************************************************************************)
(* What lies between the controllers and the clients: the directory        *)
(* <root>/legal_nodes in ZooKeeper.  A node of it is named after a cluster *)
(* and the servers of the cluster, master first; it has no content.        *)
(***************************************************************************)
EXTENDS Naturals, Sequences, FiniteSets, Functions

CONSTANTS Cluster,   \* cluster indices
          Addr       \* Redis servers

(* A list of servers, each of them once.                                   *)
Lists == {s \in UNION {[1 .. n -> Addr] : n \in 1 .. Cardinality(Addr)} : IsInjective(s)}

Node == [cls : Cluster, rds : Lists]

(* Mutant: the old node of a cluster may still be there.                   *)
FreeAnyCluster(S, n) == \A l \in S : Range(l.rds) \cap Range(n.rds) = {} \/ l.cls = n.cls

(* A node that clients can tell from those of S: another cluster, and      *)
(* other servers.                                                          *)
Free(S, n) == \A l \in S : l.cls # n.cls /\ Range(l.rds) \cap Range(n.rds) = {}

(* What one write makes of the nodes S (legal_cmp): a node goes, or one    *)
(* comes that takes neither the cluster nor a server of another.           *)
May(S) == {S \ {n} : n \in S} \cup {S \cup {n} : n \in {m \in Node : Free(S, m)}}

(* Each cluster has one list, and no server is in two of them.             *)
Distinct(S) == \A m, n \in S : m # n => m.cls # n.cls /\ Range(m.rds) \cap Range(n.rds) = {}
===============================================================================
