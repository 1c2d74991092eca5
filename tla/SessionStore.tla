----------------------------- MODULE SessionStore -----------------------------
(***************************************************************************)
(* The sessions of src/script/*.lua and the logic servers that work on     *)
(* them (src/logic_driver, src/online/OnlineCtrl.cpp).  A client is logged *)
(* in over logical connections; each of them is a session in Redis.  Gates *)
(* report that a client has logged in (SYNOK), is alive (UPIDX), has left  *)
(* (FIN) or that its link broke (FIN_DELAY, with a delay in which it may   *)
(* come back, perhaps through another gate).  Every logic server handles   *)
(* such messages and sweeps, once a second, the sessions whose delay is    *)
(* over; it tells the business layer whose session has ended.              *)
(*                                                                         *)
(* A script is one step of its Redis server.  The caller may time out      *)
(* before the script has run, and not hear of its result; a script that    *)
(* never runs, for a lost connection or NOSCRIPT, is no step.  Messages    *)
(* come from any gate in any order and any number: gates are not part of   *)
(* the repository.                                                         *)
(*                                                                         *)
(* Time is what keys have left to live, in half seconds: Redis expires     *)
(* keys to the millisecond but TTL answers in seconds, to the nearest one. *)
(* Data that no script looks at again (indices, client data) is left out,  *)
(* and so is RANK_W, which only counts writes.                             *)
(***************************************************************************)
EXTENDS Integers, FiniteSets

CONSTANTS User, Conn, Gate, Logic,
          Redis,       \* the masters of the clusters
          Home,        \* the one that has the keys of a user
          CliType,     \* client types
          Ep,          \* what the scripts call ep, by type
          MaxDelay,    \* bound: longest delay of a FIN_DELAY
          MaxEntries,  \* bound: how often a session is entered in the index
          NULL

(* L.<uid>.<lc>.  None of the scripts reads the keys of two users, save    *)
(* timeout_rm.                                                             *)
Key == User \X Conn

ASSUME SessionStoreAssumption ==
  /\ Home \in [User -> Redis]
  /\ Ep \in [CliType -> Nat \ {0}]
  /\ MaxDelay \in Nat /\ MaxEntries \in Nat
  /\ IsFiniteSet(Logic)
  /\ NULL \notin Gate \cup Key \cup Nat

VARIABLES
  idx,    \* U.<uid>: the connections it lists
  uttl,   \* time U.<uid> has left, 0 when there is no such key
  ttl,    \* time L.<uid>.<lc> has left, 0 when there is no such key
  gate,   \* its field GATE, NULL for ''
  dly,    \* DLY_CK: time until the score of the member, NULL for none
  fin,    \* a FIN handler: the session whose end it is about to tell
  sweep,  \* the thread of check_timeout of a logic server
  late,   \* sweeps their callers no longer wait for
  \* not in the code:
  at,     \* the gate that last reported the client alive and not gone since
  born,   \* how often the session was entered in the index
  told    \* how often its end was told

store == <<idx, uttl, ttl, gate, dly, at>>
vars == <<store, fin, sweep, late, born, told>>

Asleep == [pc |-> "sleep", todo |-> {}, rvs |-> {}]

TypeOK ==
  /\ idx \in [User -> SUBSET Conn]
  /\ uttl \in [User -> Nat]
  /\ ttl \in [Key -> Nat]
  /\ gate \in [Key -> Gate \cup {NULL}]
  /\ dly \in [Key -> Nat \cup {NULL}]
  /\ fin \in [Logic -> Key \cup {NULL}]
  /\ sweep \in [Logic -> [pc : {"sleep", "wait"}, todo : SUBSET Redis,
                          rvs : SUBSET Key]]
  /\ late \subseteq Logic \X Redis
  /\ at \in [Key -> Gate \cup {NULL}]
  /\ born \in [Key -> Nat]
  /\ told \in [Key -> Nat]

Init ==
  /\ idx = [u \in User |-> {}] /\ uttl = [u \in User |-> 0]
  /\ ttl = [k \in Key |-> 0] /\ gate = [k \in Key |-> NULL]
  /\ dly = [k \in Key |-> NULL]
  /\ fin = [l \in Logic |-> NULL]
  /\ sweep = [l \in Logic |-> Asleep]
  /\ late = {}
  /\ at = [k \in Key |-> NULL]
  /\ born = [k \in Key |-> 0] /\ told = [k \in Key |-> 0]

Listed(k) == k[2] \in idx[k[1]]
Exists(k) == ttl[k] > 0

-----------------------------------------------------------------------------
(* The scripts.                                                            *)

(* TTL answers in seconds.                                                 *)
Seconds(t) == (t + 1) \div 2

(* Mutant: the index is not checked for sessions that have expired.        *)
PurgedNever(u) == idx[u]

(* "expire check": connections of u without a session leave the index.  A  *)
(* hash that loses its last field is no longer a key.                      *)
Purged(u) == {c \in idx[u] : Exists(<<u, c>>)}

(* Mutant: the time of the index is set to that of the session touched.    *)
TouchShortens(u, c, g, ct) ==
  LET k == <<u, c>>
  IN /\ c \notin Purged(u) => born[k] < MaxEntries
     /\ idx' = [idx EXCEPT ![u] = Purged(u) \cup {c}]
     /\ born' = [born EXCEPT ![k] = IF c \in Purged(u) THEN @ ELSE @ + 1]
     /\ ttl' = [ttl EXCEPT ![k] = Ep[ct]]
     /\ uttl' = [uttl EXCEPT ![u] = Ep[ct]]
     /\ gate' = [gate EXCEPT ![k] = g]
     /\ dly' = [dly EXCEPT ![k] = NULL]
     /\ at' = [at EXCEPT ![k] = g]
     /\ UNCHANGED <<fin, sweep, late, told>>

(* syn.lua, and upidx.lua, which is the same: enter the session in the     *)
(* index and let it and the index live for ep.                             *)
Touch(u, c, g, ct) ==
  LET k == <<u, c>>
      left == IF Purged(u) = {} THEN 0 ELSE uttl[u]
  IN /\ c \notin Purged(u) => born[k] < MaxEntries
     /\ idx' = [idx EXCEPT ![u] = Purged(u) \cup {c}]
     /\ born' = [born EXCEPT ![k] = IF c \in Purged(u) THEN @ ELSE @ + 1]
     /\ ttl' = [ttl EXCEPT ![k] = Ep[ct]]
     /\ uttl' = [uttl EXCEPT ![u] = IF Seconds(left) < Seconds(Ep[ct]) THEN Ep[ct] ELSE left]
     /\ gate' = [gate EXCEPT ![k] = g]
     /\ dly' = [dly EXCEPT ![k] = NULL]
     /\ at' = [at EXCEPT ![k] = g]
     /\ UNCHANGED <<fin, sweep, late, told>>

(* The handlers of SYNOK and UPIDX (PHandleSynOk, PHandleUpidx) run the    *)
(* script and do nothing about its result.                                 *)
Syn(u, c, g, ct)   == Touch(u, c, g, ct)
Upidx(u, c, g, ct) == Touch(u, c, g, ct)

(* Mutant: the delay is not added to the time of day, and is long over.    *)
FinDelayPast(k, g, d) ==
  /\ dly' = IF gate[k] = g THEN [dly EXCEPT ![k] = d - MaxDelay - 1] ELSE dly
  /\ gate' = IF gate[k] = g THEN [gate EXCEPT ![k] = NULL] ELSE gate
  /\ at' = IF at[k] = g THEN [at EXCEPT ![k] = NULL] ELSE at
  /\ UNCHANGED <<idx, uttl, ttl, fin, sweep, late, born, told>>

(* Mutant: a gate the client has left may still end its session.           *)
FinDelayAnyGate(k, g, d) ==
  /\ dly' = IF Exists(k) THEN [dly EXCEPT ![k] = d] ELSE dly
  /\ gate' = IF Exists(k) THEN [gate EXCEPT ![k] = NULL] ELSE gate
  /\ at' = IF at[k] = g THEN [at EXCEPT ![k] = NULL] ELSE at
  /\ UNCHANGED <<idx, uttl, ttl, fin, sweep, late, born, told>>

(* fin_delay.lua: unless the client is with another gate by now, its       *)
(* session ends when the delay is over.                                    *)
FinDelay(k, g, d) ==
  /\ dly' = IF gate[k] = g THEN [dly EXCEPT ![k] = d] ELSE dly
  /\ gate' = IF gate[k] = g THEN [gate EXCEPT ![k] = NULL] ELSE gate
  /\ at' = IF at[k] = g THEN [at EXCEPT ![k] = NULL] ELSE at
  /\ UNCHANGED <<idx, uttl, ttl, fin, sweep, late, born, told>>

(* The handler of FIN_DELAY (PHandleFinDelay): the gate chooses the delay, *)
(* and nothing is done about the result.                                   *)
FinDelayed(u, c, g) == \E d \in 0 .. MaxDelay : FinDelay(<<u, c>>, g, d)

(* Mutant: the entries stay in the index.                                  *)
RemoveNoEntry(K) ==
  /\ UNCHANGED <<idx, uttl>>
  /\ ttl' = [k \in Key |-> IF k \in K THEN 0 ELSE ttl[k]]
  /\ gate' = [k \in Key |-> IF k \in K THEN NULL ELSE gate[k]]
  /\ at' = [k \in Key |-> IF k \in K THEN NULL ELSE at[k]]
  /\ dly' = [k \in Key |-> IF k \in K THEN NULL ELSE dly[k]]

(* DEL of the sessions in K and HDEL of their entries.                     *)
Remove(K) ==
  /\ idx' = [u \in User |-> {c \in idx[u] : <<u, c>> \notin K}]
  /\ uttl' = [u \in User |-> IF idx'[u] = {} THEN 0 ELSE uttl[u]]
  /\ ttl' = [k \in Key |-> IF k \in K THEN 0 ELSE ttl[k]]
  /\ gate' = [k \in Key |-> IF k \in K THEN NULL ELSE gate[k]]
  /\ at' = [k \in Key |-> IF k \in K THEN NULL ELSE at[k]]
  /\ dly' = [k \in Key |-> IF k \in K THEN NULL ELSE dly[k]]

(* fin.lua.  Its answer is the entry of the session, if there was one;     *)
(* unless it comes too late, the handler (PHandleFin) goes on to tell.     *)
Fin(l, k, heard) ==
  /\ fin[l] = NULL
  /\ Remove({k})
  /\ fin' = IF heard /\ Listed(k) THEN [fin EXCEPT ![l] = k] ELSE fin
  /\ UNCHANGED <<sweep, late, born, told>>

OfflineNotify(l) ==
  /\ fin[l] # NULL
  /\ told' = [told EXCEPT ![fin[l]] = @ + 1]
  /\ fin' = [fin EXCEPT ![l] = NULL]
  /\ UNCHANGED <<store, sweep, late, born>>

(* timeout_rm.lua on the server r removes the sessions K that were due     *)
(* when the caller read the clock, and answers with those of them that     *)
(* were listed.  Those due since then stay.                                *)
Due(r) == {k \in Key : Home[k[1]] = r /\ dly[k] = 0}
Ended(K) == {k \in K : Listed(k)}

-----------------------------------------------------------------------------
(* check_timeout: send timeout_rm to every master, collect the answers     *)
(* that come in time, tell whose sessions have ended, sleep.               *)

TimeoutRm(l) ==
  /\ sweep[l].pc = "sleep"
  /\ sweep' = [sweep EXCEPT ![l] = [pc |-> "wait", todo |-> Redis, rvs |-> {}]]
  /\ UNCHANGED <<store, fin, late, born, told>>

(* Commands to one server are answered in turn.                            *)
SweepAt(l, r, K) ==
  /\ r \in sweep[l].todo /\ <<l, r>> \notin late
  /\ Remove(K)
  /\ sweep' = [sweep EXCEPT ![l] = [pc |-> "wait", todo |-> sweep[l].todo \ {r},
                                    rvs |-> sweep[l].rvs \cup Ended(K)]]
  /\ UNCHANGED <<fin, late, born, told>>

(* RedisEvent::cmd returns with what it has, if need be because its time   *)
(* is over.                                                                *)
NotifyMulti(l) ==
  /\ sweep[l].pc = "wait"
  /\ told' = [k \in Key |-> IF k \in sweep[l].rvs THEN told[k] + 1 ELSE told[k]]
  /\ late' = late \cup ({l} \X sweep[l].todo)
  /\ sweep' = [sweep EXCEPT ![l] = Asleep]
  /\ UNCHANGED <<store, fin, born>>

(* A sweep nobody waits for runs, or (K = {}) is lost with its connection. *)
LateSweep(l, r, K) ==
  /\ <<l, r>> \in late /\ late' = late \ {<<l, r>>}
  /\ Remove(K)
  /\ UNCHANGED <<fin, sweep, born, told>>

(* Half a second passes.                                                   *)
Tick ==
  /\ ttl' = [k \in Key |-> IF ttl[k] = 0 THEN 0 ELSE ttl[k] - 1]
  /\ gate' = [k \in Key |-> IF ttl'[k] = 0 THEN NULL ELSE gate[k]]
  /\ at' = [k \in Key |-> IF ttl'[k] = 0 THEN NULL ELSE at[k]]
  /\ uttl' = [u \in User |-> IF uttl[u] = 0 THEN 0 ELSE uttl[u] - 1]
  /\ idx' = [u \in User |-> IF uttl'[u] = 0 THEN {} ELSE idx[u]]
  /\ dly' = [k \in Key |-> IF dly[k] \in {NULL, 0} THEN dly[k] ELSE dly[k] - 1]
  /\ UNCHANGED <<fin, sweep, late, born, told>>

FromSublayer ==
  \E u \in User, c \in Conn :
    \/ \E g \in Gate, ct \in CliType : Syn(u, c, g, ct) \/ Upidx(u, c, g, ct)
    \/ \E g \in Gate : FinDelayed(u, c, g)
    \/ \E l \in Logic, heard \in BOOLEAN : Fin(l, <<u, c>>, heard)

CheckTimeout(l) ==
  \/ TimeoutRm(l)
  \/ NotifyMulti(l)
  \/ \E r \in Redis : \E K \in SUBSET Due(r) : SweepAt(l, r, K) \/ LateSweep(l, r, K)

Next ==
  \/ FromSublayer
  \/ \E l \in Logic : OfflineNotify(l) \/ CheckTimeout(l)
  \/ Tick

Spec == Init /\ [][Next]_vars

(* Time goes on.                                                           *)
FairSpec == Spec /\ WF_vars(Tick)

-----------------------------------------------------------------------------
(* Properties.                                                             *)

(* get_multi and get_session_ope find every session: the index of a user   *)
(* lists each of them and outlives it.  The scripts only ever raise the    *)
(* time of the index, to that of the session they touch.  By the rounding  *)
(* of TTL it may still end half a second earlier, so that a session in its *)
(* last half second need not be listed.                                    *)
Indexed ==
  \A k \in Key : ttl[k] > 1 => Listed(k) /\ ttl[k] <= uttl[k[1]] + 1

(* A session is on the list of those to be swept exactly while its client  *)
(* is away: the gate that was last to report it alive has reported its     *)
(* link broken, and no gate has reported it alive since.  A FIN_DELAY of a *)
(* gate the client has left before counts for nothing.                     *)
SweptOnlyAway == \A k \in Key : Exists(k) => (dly[k] # NULL <=> at[k] = NULL)

(* The end of a session is told at most once, whichever of FIN and the     *)
(* sweeps of several logic servers, in time or late, come upon it.         *)
Telling(k) == Cardinality({l \in Logic : fin[l] = k})
                + Cardinality({l \in Logic : k \in sweep[l].rvs})
ToldOnce ==
  \A k \in Key : told[k] + Telling(k) + (IF Listed(k) THEN 1 ELSE 0) <= born[k]

(* An entry without a session leaves the index, although other sessions    *)
(* of the user may keep the index alive for ever.                          *)
StaleGoes == \A k \in Key : Listed(k) /\ ~ Exists(k) ~> Exists(k) \/ ~ Listed(k)
===============================================================================
