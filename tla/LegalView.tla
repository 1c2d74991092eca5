------------------------------- MODULE LegalView ------------------------------
(***************************************************************************)
(* What RedisHash promises to the code that asks it for servers: the map   *)
(* of a client is always, as a whole, one that was published, it never     *)
(* goes back to an older one, and what cannot be read is not taken.        *)
(***************************************************************************)
EXTENDS LegalNodes

CONSTANTS Client,      \* processes with a RedisHash
          Malformed    \* names of servers that are not ip:port

VARIABLES log,     \* the contents legal_nodes has had, one after the other
          seen,    \* the one the map of a client is made from
          addrs    \* the map of a client

(* str_ipv4 accepts every address.                                         *)
Readable(S) == \A l \in S : Range(l.rds) \cap Malformed = {}

(* Mutant: the loop of path_split ends before the last address.            *)
EndsShort(S) ==
  {[k \in DOMAIN f |-> SubSeq(f[k], 1, Len(f[k]) - 1)] :
     f \in {g \in [{l.cls : l \in S} -> {l.rds : l \in S}] :
             \A k \in DOMAIN g : [cls |-> k, rds |-> g[k]] \in S}}

(* The maps from clusters to lists that S can be read as.                  *)
Ends(S) == {f \in [{l.cls : l \in S} -> {l.rds : l \in S}] :
              \A k \in DOMAIN f : [cls |-> k, rds |-> f[k]] \in S}

Init ==
  /\ log = <<{}>>
  /\ seen = [c \in Client |-> 0]
  /\ addrs = [c \in Client |-> <<>>]

Change ==
  /\ log' # log /\ UNCHANGED <<seen, addrs>>
  /\ \E S \in May(log[Len(log)]) : log' = Append(log, S)

(* A client goes on to a newer map.                                        *)
See(c) ==
  \E n \in 1 .. Len(log) :
    /\ n >= seen[c] /\ Readable(log[n])
    /\ seen' = [seen EXCEPT ![c] = n]
    /\ \E f \in Ends(log[n]) : addrs' = [addrs EXCEPT ![c] = f]
    /\ UNCHANGED log

Next == Change \/ \E c \in Client : See(c)

Spec == Init /\ [][Next]_<<log, seen, addrs>>
===============================================================================
