--------------------------- MODULE ScriptLoad_proofs ---------------------------
(***************************************************************************)
(* For any number of threads, requests and servers.  What TypeOK says of   *)
(* took beyond its type is what lookup_sha1 relies on: however the threads *)
(* overtake each other, the one that goes on to SCRIPT LOAD has a server   *)
(* to send it to, and what it took is gone when its request goes out.  It  *)
(* is inductive as it stands.                                              *)
(***************************************************************************)
EXTENDS ScriptLoad, TLAPS

USE ScriptLoadAssumption DEF ScriptLoadAssumption

LEMMA TypeInit == ASSUME Init PROVE TypeOK
<1>1. /\ pc \in [Thread -> {"idle", "swap", "load", "clear", "request"}]
      /\ took \in [Thread -> SUBSET Addr]
      /\ \A t \in Thread : pc[t] = "idle" /\ took[t] = {}
  BY DEF Init
<1>2. faults \in 0 .. MaxFaults
  BY DEF Init
<1> QED BY <1>1, <1>2 DEF Init, TypeOK

(* The steps of a thread.                                                  *)
LEMMA LookupTypes ==
  ASSUME TypeOK, NEW t \in Thread, Lookup(t) \/ Async(t) \/ Sync(t)
  PROVE  TypeOK'
<1> USE DEF TypeOK
<1>1. CASE Check(t)
  BY <1>1 DEF Check, Goto
<1>2. CASE Swap(t)
  BY <1>2 DEF Swap, Goto
<1>3. CASE Load(t)
  BY <1>3 DEF Load, Goto
<1>4. CASE Clear(t)
  BY <1>4 DEF Clear, Goto
<1>5. CASE Async(t)
  BY <1>5 DEF Async, Goto
<1>6. CASE Sync(t)
  BY <1>6 DEF Sync, Goto
<1> QED BY <1>1, <1>2, <1>3, <1>4, <1>5, <1>6 DEF Lookup

(* Those of the servers and of the loop thread.                            *)
LEMMA CallTypes ==
  ASSUME TypeOK, NEW i \in Call, Serve(i) \/ Callback(i)
  PROVE  TypeOK'
<1> USE DEF TypeOK
<1>1. CASE Serve(i)
  BY <1>1 DEF Serve
<1>2. CASE Callback(i)
  <2>1. to[i] \in Addr
    OBVIOUS
  <2>2. addrs' \subseteq Addr /\ need' \in BOOLEAN
    BY <1>2, <2>1 DEF Callback, NeedLoad, Add
  <2>3. calls' \in [Call -> {"none", "sent", "ok", "noscript"}]
    BY <1>2 DEF Callback
  <2> QED BY <1>2, <2>2, <2>3 DEF Callback
<1> QED BY <1>1, <1>2

LEMMA ForgetTypes == ASSUME TypeOK, Forget PROVE TypeOK'
BY DEF TypeOK, Forget

(* The variables of ScriptLoad keep their types, and no thread is about to *)
(* load a script on no server, or sends a request with servers in hand     *)
(* that it has not loaded it on (lookup_sha1).                             *)
THEOREM ScriptTypeCorrect == Spec => []TypeOK
<1>1. Init => TypeOK
  BY TypeInit
<1>2. TypeOK /\ [Next]_vars => TypeOK'
  <2>1. TypeOK /\ UNCHANGED vars => TypeOK'
    BY DEF TypeOK, vars
  <2> QED BY <2>1, LookupTypes, CallTypes, ForgetTypes DEF Next
<1> QED BY <1>1, <1>2, PTL DEF Spec
================================================================================
