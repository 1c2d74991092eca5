--------------------------- MODULE RedisService_proofs -------------------------
(***************************************************************************)
(* Controllers and clients together, for any number of both.  Each side    *)
(* keeps the invariant it has alone.  What joins them is that the log ends *)
(* with what is published: a controller that writes a node is a step of    *)
(* the directory as RedisHash has it, because LedStep lets it write only   *)
(* what is in May, and the clients' invariant survives that step.          *)
(*                                                                         *)
(* Ctl and Cli are used as they are proved about: CtlP and CliP.           *)
(***************************************************************************)
EXTENDS RedisService, TLAPS

CtlP == INSTANCE RedisCtrl_proofs
CliP == INSTANCE RedisHash_proofs

(* Controllers and clients keep to what each assumes of the constants.     *)
LEMMA Assumed == CtlP!RedisCtrlAssumption /\ CliP!RedisHashAssumption
BY RedisServiceAssumption
   DEF Ctl!RedisCtrlAssumption, CtlP!RedisCtrlAssumption, Ctl!IsFiniteSet, CtlP!IsFiniteSet,
       Ctl!IsDir, CtlP!IsDir,
       Cli!RedisHashAssumption, CliP!RedisHashAssumption, Cli!IsFiniteSet, CliP!IsFiniteSet

(* Their steps are those the lemmas are about.                             *)
LEMMA CtrlInit == ASSUME Ctl!Init PROVE CtlP!Init
BY Zenon DEF Ctl!Init, CtlP!Init, Ctl!NoPass, CtlP!NoPass

LEMMA CtrlNext == ASSUME Ctl!Next PROVE CtlP!Next
BY Zenon DEF Ctl!Next, CtlP!Next, Ctl!Step, CtlP!Step, Ctl!Fault, CtlP!Fault,
     Ctl!GetLock, CtlP!GetLock, Ctl!Read, CtlP!Read, Ctl!Write, CtlP!Write,
     Ctl!CheckRedis, CtlP!CheckRedis, Ctl!CheckError, CtlP!CheckError,
     Ctl!CheckCheck, CtlP!CheckCheck, Ctl!GenLegal, CtlP!GenLegal,
     Ctl!DoSlaveof, CtlP!DoSlaveof, Ctl!FreeLock, CtlP!FreeLock,
     Ctl!LockLost, CtlP!LockLost, Ctl!CallLost, CtlP!CallLost,
     Ctl!SessionExpires, CtlP!SessionExpires, Ctl!Restart, CtlP!Restart,
     Ctl!DeadSession, CtlP!DeadSession, Ctl!Configure, CtlP!Configure, Ctl!Redis, CtlP!Redis,
     Ctl!At, CtlP!At, Ctl!Goto, CtlP!Goto, Ctl!Plan, CtlP!Plan, Ctl!GiveUp, CtlP!GiveUp,
     Ctl!NoPass, CtlP!NoPass, Ctl!Event, CtlP!Event,
     Ctl!Possible, CtlP!Possible, Ctl!Apply, CtlP!Apply, Ctl!ApplyLegal, CtlP!ApplyLegal,
     Ctl!ApplyRecord, CtlP!ApplyRecord, Ctl!CanWrite, CtlP!CanWrite, Ctl!Written, CtlP!Written,
     Ctl!RemoveNewest, CtlP!RemoveNewest, Ctl!Children, CtlP!Children,
     Ctl!Servers, CtlP!Servers, Ctl!ForEach, CtlP!ForEach,
     Ctl!Create, CtlP!Create, Ctl!Delete, CtlP!Delete,
     Ctl!Publish, CtlP!Publish, Ctl!Withdraw, CtlP!Withdraw,
     Ctl!Duplicate, CtlP!Duplicate, Ctl!Twice, CtlP!Twice, Ctl!GetCheck, CtlP!GetCheck,
     Ctl!MakeDir, CtlP!MakeDir, Ctl!LogicCheckAdd, CtlP!LogicCheckAdd,
     Ctl!LogicRm, CtlP!LogicRm, Ctl!Sync, CtlP!Sync,
     Ctl!CheckErrorOps, CtlP!CheckErrorOps, Ctl!CheckCheckOps, CtlP!CheckCheckOps,
     Ctl!LegalOf, CtlP!LegalOf, Ctl!SlaveofCmds, CtlP!SlaveofCmds, Ctl!GenFails, CtlP!GenFails,
     Ctl!Outdated, CtlP!Outdated, Ctl!Missing, CtlP!Missing, Ctl!LegalCmp, CtlP!LegalCmp,
     Ctl!Range, CtlP!Range, Ctl!Restrict, CtlP!Restrict, Ctl!RemoveAt, CtlP!RemoveAt,
     Ctl!Min, CtlP!Min, Ctl!Max, CtlP!Max, Ctl!SetToSeq, CtlP!SetToSeq,
     Ctl!IsInjective, CtlP!IsInjective, Ctl!Cardinality, CtlP!Cardinality

LEMMA ClientInit == ASSUME Cli!Init PROVE CliP!Init
BY Zenon DEF Cli!Init, CliP!Init

LEMMA ClientNext == ASSUME NEW c \in Client, Cli!Step(c) PROVE CliP!Step(c)
BY Zenon DEF Cli!Step, CliP!Step, Cli!Handle, CliP!Handle,
     Cli!Catch, CliP!Catch, Cli!Answer, CliP!Answer, Cli!Fail, CliP!Fail,
     Cli!Expire, CliP!Expire, Cli!Watcher, CliP!Watcher, Cli!Reread, CliP!Reread,
     Cli!NodeCbFailed, CliP!NodeCbFailed, Cli!NodeCb, CliP!NodeCb,
     Cli!V!Readable, CliP!V!Readable, Cli!V!Ends, CliP!V!Ends, Cli!V!Range, CliP!V!Range

-----------------------------------------------------------------------------
(* The log ends with what is published.                                    *)
Joined == CtlP!LegalInv /\ CliP!Inv /\ log[Len(log)] = legal

LEMMA JoinedInit == ASSUME Init PROVE Joined
<1>1. CtlP!LegalInv
  BY CtrlInit, CtlP!LegalInit, Assumed DEF Init
<1>2. CliP!Inv
  BY ClientInit, CliP!InitInv, Assumed DEF Init
<1>3. log = <<{}>> /\ legal = {}
  BY DEF Init, Cli!Init, Ctl!Init
<1>4. log[Len(log)] = legal
  BY <1>3
<1> QED BY <1>1, <1>2, <1>4 DEF Joined

(* A step of the controllers is nothing to the clients, or a change of the *)
(* directory as they expect it.                                            *)
Grown == CliP!Grow(legal') \/ UNCHANGED <<log, clients>>

LEMMA CtrlGrows ==
  ASSUME Joined, CtlP!Next, Recorded, UNCHANGED clients
  PROVE  Grown
<1>1. CtlP!L!Next \/ UNCHANGED <<lock, legal>>
  BY CtlP!LedStep, Assumed DEF Joined
<1>2. CASE legal' = legal
  BY <1>2 DEF Recorded, Grown
<1>3. CASE legal' # legal
  <2>1. legal' \in CtlP!L!May(legal)
    BY <1>1, <1>3 DEF CtlP!L!Next, CtlP!L!Take, CtlP!L!Leave, CtlP!L!Publish
  <2>2. CtlP!L!May(legal) = CliP!May(legal)
    BY Zenon DEF CtlP!L!May, CliP!May, CtlP!L!Free, CliP!Free, CtlP!L!Node, CliP!Node,
       CtlP!L!Lists, CliP!Lists, CtlP!L!Range, CliP!Range,
       CtlP!L!IsInjective, CliP!IsInjective, CtlP!L!Cardinality, CliP!Cardinality
  <2>3. legal' \in CliP!May(log[Len(log)])
    BY <2>1, <2>2 DEF Joined
  <2>4. log' = Append(log, legal')
    BY <1>3 DEF Recorded
  <2> QED BY <2>3, <2>4 DEF Grown, CliP!Grow, CliP!client, clients
<1> QED BY <1>2, <1>3

(* Both invariants survive what the other side does.                       *)
LEMMA CtrlJoined ==
  ASSUME Joined, CtlP!Next, Recorded, UNCHANGED clients
  PROVE  Joined'
<1>1. CtlP!LegalInv'
  BY CtlP!LegalStep, Assumed DEF Joined
<1>2. log \in Seq(SUBSET CliP!Node) /\ log # <<>>
  BY DEF Joined, CliP!Inv, CliP!TypeOK
<1>3. CASE CliP!Grow(legal')
  <2>1. CliP!Inv'
    BY <1>3, CliP!GrowInv, Assumed DEF Joined
  <2>2. log' = Append(log, legal')
    BY <1>3 DEF CliP!Grow
  <2>3. legal' \in SUBSET CliP!Node
    BY <1>3, <1>2 DEF CliP!Grow, CliP!May
  <2>4. log'[Len(log')] = legal'
    BY <1>2, <2>2, <2>3
  <2> QED BY <1>1, <2>1, <2>4 DEF Joined
<1>4. CASE UNCHANGED <<log, clients>>
  <2>1. CliP!Inv'
    BY <1>4, CliP!StillInv, Assumed DEF Joined, clients, CliP!vars, CliP!client
  <2>2. legal' = legal
    BY <1>2, <1>4 DEF Recorded
  <2> QED BY <1>1, <1>4, <2>1, <2>2 DEF Joined
<1> QED BY <1>3, <1>4, CtrlGrows DEF Grown

LEMMA ClientJoined ==
  ASSUME Joined, NEW c \in Client, CliP!Step(c), UNCHANGED ctrls
  PROVE  Joined' /\ (CliP!V!See(c) \/ UNCHANGED <<log, seen, addrs>>)
<1>1. CtlP!LegalInv'
  BY CtlP!StillLegal, Assumed DEF Joined, ctrls, CtlP!vars
<1>2. CliP!Inv' /\ (CliP!V!See(c) \/ UNCHANGED <<log, seen, addrs>>)
  BY CliP!StepInv, CliP!StepViews, Assumed DEF Joined
<1>3. UNCHANGED log
  BY <1>2 DEF CliP!V!See
<1> QED BY <1>1, <1>2, <1>3 DEF Joined, ctrls

(* A step of the whole is one of these or changes nothing.                 *)
LEMMA Kinds ==
  ASSUME [Next]_vars
  PROVE  \/ CtlP!Next /\ Recorded /\ UNCHANGED clients
         \/ \E c \in Client : CliP!Step(c) /\ UNCHANGED ctrls
         \/ UNCHANGED vars
<1>1. ASSUME NEW c \in Ctrl, CtrlStep(c) PROVE CtlP!Next /\ Recorded /\ UNCHANGED clients
  BY <1>1, CtrlNext DEF CtrlStep, Ctl!Next
<1>2. ASSUME DeadSession PROVE CtlP!Next /\ Recorded /\ UNCHANGED clients
  <2>1. UNCHANGED legal
    BY <1>2 DEF DeadSession, Ctl!DeadSession
  <2> QED BY <1>2, <2>1, CtrlNext DEF DeadSession, Ctl!Next, Recorded
<1>3. ASSUME Fault PROVE CtlP!Next /\ Recorded /\ UNCHANGED clients
  BY <1>3, CtrlNext DEF Fault, Ctl!Next
<1>4. ASSUME NEW c \in Client, ClientStep(c) PROVE CliP!Step(c) /\ UNCHANGED ctrls
  BY <1>4, ClientNext DEF ClientStep
<1> QED BY <1>1, <1>2, <1>3, <1>4 DEF Next

LEMMA JoinedStep == ASSUME Joined, [Next]_vars PROVE Joined'
<1>1. CASE UNCHANGED vars
  <2>1. CtlP!LegalInv'
    BY <1>1, CtlP!StillLegal, Assumed DEF Joined, vars, ctrls, CtlP!vars
  <2>2. CliP!Inv'
    BY <1>1, CliP!StillInv, Assumed DEF Joined, vars, clients, CliP!vars, CliP!client
  <2> QED BY <1>1, <2>1, <2>2 DEF Joined, vars, ctrls
<1> QED BY <1>1, Kinds, CtrlJoined, ClientJoined

(* The invariant of the whole.                                             *)
LEMMA Invariant == Spec => []Joined
<1>1. Init => Joined
  BY JoinedInit
<1>2. Joined /\ [Next]_vars => Joined'
  BY JoinedStep
<1> QED BY <1>1, <1>2, PTL DEF Spec

(* Also with controllers that write, and stop writing, in mid-pass: what a *)
(* client has is one of the published lists as a whole, it goes forward    *)
(* only, and no two lists of what it is made from share a cluster or a     *)
(* server.  This is where the guarantee of the lock, of legal_cmp's order  *)
(* of writes and of get_config's check meets what redis_node_cb relies on. *)
THEOREM ServiceViewCorrect == Spec => View
<1>1. Init => Cli!V!Init
  BY DEF Init, Cli!Init, Cli!V!Init
<1>2. ASSUME Joined, [Next]_vars PROVE [Cli!V!Next]_<<log, seen, addrs>>
  <2>1. CASE UNCHANGED vars
    BY <2>1 DEF vars, clients
  <2>2. CASE CtlP!Next /\ Recorded /\ UNCHANGED clients
    <3>1. CliP!V!Change \/ UNCHANGED <<log, clients>>
      BY <1>2, <2>2, CtrlGrows, CliP!GrowViews, Assumed DEF Grown, Joined
    <3>2. CliP!V!Change => Cli!V!Change
      BY Zenon DEF CliP!V!Change, Cli!V!Change, CliP!V!May, Cli!V!May, CliP!V!Free, Cli!V!Free,
         CliP!V!Node, Cli!V!Node, CliP!V!Lists, Cli!V!Lists, CliP!V!Range, Cli!V!Range,
         CliP!V!IsInjective, Cli!V!IsInjective, CliP!V!Cardinality, Cli!V!Cardinality
    <3> QED BY <3>1, <3>2 DEF Cli!V!Next, clients
  <2>3. ASSUME NEW c \in Client, CliP!Step(c), UNCHANGED ctrls
        PROVE  Cli!V!See(c) \/ UNCHANGED <<log, seen, addrs>>
    <3>1. CliP!V!See(c) \/ UNCHANGED <<log, seen, addrs>>
      BY <1>2, <2>3, ClientJoined
    <3>2. CliP!V!See(c) => Cli!V!See(c)
      BY Zenon DEF CliP!V!See, Cli!V!See, CliP!V!Readable, Cli!V!Readable,
         CliP!V!Ends, Cli!V!Ends, CliP!V!Range, Cli!V!Range
    <3> QED BY <3>1, <3>2
  <2> QED BY <1>2, <2>1, <2>2, <2>3, Kinds DEF Cli!V!Next
<1> QED BY <1>1, <1>2, Invariant, PTL DEF Spec, View, Cli!View, Cli!V!Spec

(* Users stay with their masters also when the lists come from controllers *)
(* that reorder, drop and readmit slaves.                                  *)
THEOREM ServiceUsersStayCorrect == Spec => UsersStay
<1>1. ASSUME Joined, Joined' PROVE CliP!Stay
  BY <1>1, CliP!InvStay, Assumed DEF Joined
<1>2. CliP!Stay => [\A c \in Client :
        addrs'[c] # addrs[c] /\ Cli!Masters(addrs'[c]) = Cli!Masters(addrs[c]) =>
          \A u \in User : Cli!Master(addrs'[c], u) = Cli!Master(addrs[c], u)]_Cli!vars
  BY Zenon DEF CliP!Stay, CliP!Masters, Cli!Masters, CliP!Master, Cli!Master,
     CliP!IsHome, Cli!IsHome, CliP!Place, Cli!Place, CliP!Less, Cli!Less,
     CliP!Cardinality, Cli!Cardinality
<1> QED BY <1>1, <1>2, Invariant, PTL DEF UsersStay, Cli!UsersStay
================================================================================
