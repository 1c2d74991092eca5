------------------------------- MODULE ScriptLoad ------------------------------
(***************************************************************************)
(* How OnlineCtrl keeps one of its Lua scripts loaded (script_t): requests *)
(* name the script by its SHA1.  An asynchronous request that a server     *)
(* refuses because it does not have the script is lost; its callback marks *)
(* the server, and the next request, to whatever server, first loads the   *)
(* script where it is marked.  A synchronous request sends the script      *)
(* itself when it is refused (RedisEvent).                                 *)
(*                                                                         *)
(* Threads of the application make requests; the callbacks run in the loop *)
(* thread.  need_load_ is a plain bool that they share: it is read, and    *)
(* cleared, without the lock that guards addrs_.                           *)
(***************************************************************************)
EXTENDS Naturals, FiniteSets

CONSTANTS Thread,    \* threads that call syn_async, syn, ...
          Call,      \* asynchronous requests that may be under way at once
          Addr,      \* Redis masters
          MaxFaults  \* bound: restarts of servers and loads without answer

ASSUME ScriptLoadAssumption == MaxFaults \in Nat

VARIABLES
  need,    \* need_load_
  addrs,   \* addrs_
  pc,      \* where a thread is in lookup_sha1, or in the request after it
  took,    \* what it has swapped out of addrs_
  has,     \* the servers that have the script
  calls,   \* the state of an asynchronous request
  to,      \* its server
  faults   \* things that may still go wrong

vars == <<need, addrs, pc, took, has, calls, to, faults>>

TypeOK ==
  /\ need \in BOOLEAN /\ addrs \subseteq Addr /\ has \subseteq Addr
  /\ pc \in [Thread -> {"idle", "swap", "load", "clear", "request"}]
  /\ took \in [Thread -> SUBSET Addr]
  /\ \A t \in Thread : /\ (pc[t] = "load" => took[t] # {})
                      /\ (pc[t] \in {"idle", "swap", "request"} => took[t] = {})
  /\ calls \in [Call -> {"none", "sent", "ok", "noscript"}]
  /\ to \in [Call -> Addr]
  /\ faults \in 0 .. MaxFaults

Init ==
  /\ need = FALSE /\ addrs = {} /\ has = {}
  /\ pc = [t \in Thread |-> "idle"]
  /\ took = [t \in Thread |-> {}]
  /\ calls = [i \in Call |-> "none"]
  /\ to \in [Call -> Addr]
  /\ faults = MaxFaults

Goto(t, l) == pc' = [pc EXCEPT ![t] = l]

(* lookup_sha1: need_load_ is read, without the lock.                      *)
Check(t) ==
  /\ pc[t] = "idle"
  /\ Goto(t, IF need THEN "swap" ELSE "request")
  /\ UNCHANGED <<need, addrs, took, has, calls, to, faults>>

(* Mutant: SCRIPT LOAD is sent to nobody when another thread was faster.   *)
SwapAlwaysLoads(t) ==
  /\ pc[t] = "swap"
  /\ took' = [took EXCEPT ![t] = addrs]
  /\ addrs' = {}
  /\ Goto(t, "load")
  /\ UNCHANGED <<need, has, calls, to, faults>>

(* addrs_ is taken under the lock.                                         *)
Swap(t) ==
  /\ pc[t] = "swap"
  /\ took' = [took EXCEPT ![t] = addrs]
  /\ addrs' = {}
  /\ Goto(t, IF addrs = {} THEN "clear" ELSE "load")
  /\ UNCHANGED <<need, has, calls, to, faults>>

(* SCRIPT LOAD on what was taken; nobody looks at what cmd returns.  A     *)
(* server that does not answer may have loaded the script or not.          *)
Load(t) ==
  /\ pc[t] = "load"
  /\ \E A \in SUBSET took[t] :
       /\ \/ A = took[t] /\ UNCHANGED faults
          \/ A # took[t] /\ faults > 0 /\ faults' = faults - 1
       /\ has' = has \cup A
  /\ Goto(t, "clear")
  /\ UNCHANGED <<need, addrs, took, calls, to>>

(* need_load_ is cleared, whatever has been marked meanwhile.              *)
Clear(t) ==
  /\ pc[t] = "clear"
  /\ need' = FALSE
  /\ took' = [took EXCEPT ![t] = {}]
  /\ Goto(t, "request")
  /\ UNCHANGED <<addrs, has, calls, to, faults>>

(* single_uid_commend_async, which drops the request when no server is     *)
(* known for the user.                                                     *)
Async(t) ==
  /\ pc[t] = "request"
  /\ \/ \E i \in Call, a \in Addr :
          /\ calls[i] = "none"
          /\ calls' = [calls EXCEPT ![i] = "sent"]
          /\ to' = [to EXCEPT ![i] = a]
     \/ UNCHANGED <<calls, to>>
  /\ Goto(t, "idle")
  /\ UNCHANGED <<need, addrs, took, has, faults>>

(* single_uid_commend, with the script: refused, cmd sends EVAL, which     *)
(* loads it.  It may end without an answer, as the asynchronous one, which *)
(* then is "ok".                                                           *)
Sync(t) ==
  /\ pc[t] = "request"
  /\ \/ \E a \in Addr : has' = has \cup {a} /\ UNCHANGED faults
     \/ faults > 0 /\ faults' = faults - 1 /\ UNCHANGED has
  /\ Goto(t, "idle")
  /\ UNCHANGED <<need, addrs, took, calls, to>>

(* The server carries out EVALSHA, or the request times out.               *)
Serve(i) ==
  /\ calls[i] = "sent"
  /\ \/ /\ calls' = [calls EXCEPT ![i] = IF to[i] \in has THEN "ok" ELSE "noscript"]
        /\ UNCHANGED faults
     \/ /\ faults > 0 /\ faults' = faults - 1
        /\ calls' = [calls EXCEPT ![i] = "ok"]
  /\ UNCHANGED <<need, addrs, pc, took, has, to>>

(* Mutant: need_load_ is set only when the address is new.                 *)
AddIfNew(a) ==
  /\ addrs' = addrs \cup {a}
  /\ need' = (need \/ a \notin addrs)

(* script_t::add, under the lock.                                          *)
Add(a) == addrs' = addrs \cup {a} /\ need' = TRUE

(* check_scritp_load and need_load_script                                  *)
NeedLoad(i) == IF calls[i] = "noscript" THEN Add(to[i]) ELSE UNCHANGED <<addrs, need>>

(* cmd_cb_syn and its like                                                 *)
Callback(i) ==
  /\ calls[i] \in {"ok", "noscript"}
  /\ NeedLoad(i)
  /\ calls' = [calls EXCEPT ![i] = "none"]
  /\ UNCHANGED <<pc, took, has, to, faults>>

(* A server is started again and has no scripts.                           *)
Forget ==
  /\ faults > 0 /\ faults' = faults - 1
  /\ \E a \in has : has' = has \ {a}
  /\ UNCHANGED <<need, addrs, pc, took, calls, to>>

Lookup(t) == Check(t) \/ Swap(t) \/ Load(t) \/ Clear(t)

Next == \/ \E t \in Thread : Lookup(t) \/ Async(t) \/ Sync(t)
        \/ \E i \in Call : Serve(i) \/ Callback(i)
        \/ Forget

(* Servers answer, the loop thread calls back, lookup_sha1 goes on.        *)
Spec == /\ Init /\ [][Next]_vars
        /\ \A t \in Thread : WF_vars(Lookup(t))
        /\ \A i \in Call : WF_vars(Serve(i) \/ Callback(i))

-----------------------------------------------------------------------------
(* Properties.                                                             *)

(* Only finitely many requests are refused: a mark that is made between    *)
(* the swap and the clearing of need_load_ is forgotten, but the next      *)
(* request that is refused raises it again, and however the threads        *)
(* overtake each other in lookup_sha1 this does not go on for ever.        *)
Healed == <>[](\A i \in Call : calls[i] # "noscript")
================================================================================
