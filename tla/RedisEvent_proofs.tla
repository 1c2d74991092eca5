--------------------------- MODULE RedisEvent_proofs ---------------------------
(* Proofs about RedisEvent for any number of servers, threads and slots:   *)
(* under the load the slot table is made for, a callback never uses a      *)
(* cf->d() that is not its own.                                            *)
EXTENDS RedisEvent, FiniteSetTheorems, SequenceTheorems, TLAPS

(* TypeOK is not inductive alone: a retry takes the identity Again(c),     *)
(* which exists only for a first round.                                    *)
CallOK ==
  \A t \in Thread :
    /\ th[t].pc # "idle" => th[t].call \in Call
    /\ th[t].lua => th[t].call \in 1 .. MaxCalls

TInv == TypeOK /\ CallOK

(* What the sections under mutex_ share: get_cf returns an index into cfg_. *)
LEMMA NextIdxSlot ==
  ASSUME TypeOK
  PROVE  NextIdx \in Slot /\ NextIdx \in 0 .. CUR_CALL_NUM
BY RedisEventAssumption DEF TypeOK, NextIdx, Slot

(* wsz is a number: a call is sent to finitely many servers.               *)
LEMMA ReadyFinite ==
  ASSUME NEW A \in SUBSET Addr
  PROVE  IsFiniteSet(Ready(A)) /\ Cardinality(Ready(A)) \in Nat /\ Ready(A) \in SUBSET Addr
<1>1. Ready(A) \subseteq Addr
  BY DEF Ready
<1>2. IsFiniteSet(Ready(A))
  BY <1>1, RedisEventAssumption, FS_Subset
<1> QED
  BY <1>1, <1>2, FS_CardinalityType

(* cmd and cmd_async under mutex_ (Issue) keep the state well typed.       *)
LEMMA IssueType ==
  ASSUME TypeOK, NEW A \in SUBSET Addr, NEW c \in Call, NEW cb \in Kind,
         NEW sha \in BOOLEAN, Issue(A, c, cb, sha)
  PROVE  /\ ctx' \in [Addr -> {"none", "attach", "establish"}]
         /\ replies' \in [Addr -> Seq(Entry)]
         /\ freeing' \in Addr \cup {NULL}
         /\ idx' \in 0 .. CUR_CALL_NUM
         /\ cfg' \in [Slot -> CFlag]
<1> DEFINE e == [slot |-> NextIdx, call |-> c, cb |-> cb, sha |-> sha]
<1>1. e \in Entry
  BY NextIdxSlot DEF Entry
<1>2. replies' \in [Addr -> Seq(Entry)]
  <2>1. replies' = [a \in Addr |-> IF a \in Ready(A) THEN Append(replies[a], e) ELSE replies[a]]
    BY DEF Issue, Send
  <2>2. \A a \in Addr : replies[a] \in Seq(Entry) /\ Append(replies[a], e) \in Seq(Entry)
    <3> HIDE DEF e
    <3> QED BY <1>1 DEF TypeOK
  <2> HIDE DEF e
  <2> QED BY <2>1, <2>2
<1>3. ctx' \in [Addr -> {"none", "attach", "establish"}]
  BY DEF Issue, Connect, TypeOK
<1>4. cfg' \in [Slot -> CFlag]
  BY ReadyFinite, NextIdxSlot DEF Issue, SetFlag, TypeOK, CFlag
<1> QED
  BY <1>2, <1>3, <1>4, NextIdxSlot DEF Issue, TypeOK

(* What a step writes into the argument of a call is an argument.          *)
LEMMA ArgType ==
  ASSUME TypeOK
  PROVE  /\ \A k \in Kind : DeadArg(k) \in Arg
         /\ \A k \in Kind, A \in SUBSET Addr : NewArg(k, A) \in Arg
         /\ \A r : \A c \in Call, a \in Addr, k \in Kind : AddReply(c, a, k, r) \in Arg
<1>1. \A k \in Kind : DeadArg(k) \in Arg
  BY DEF DeadArg, NoArg, Arg, Kind
<1>2. \A k \in Kind, A \in SUBSET Addr : NewArg(k, A) \in Arg
  BY DEF NewArg, NoArg, Arg, Kind
<1>3. ASSUME NEW c \in Call, NEW a \in Addr, NEW k \in Kind, NEW r
      PROVE  AddReply(c, a, k, r) \in Arg
  <2>1. carg[c] \in Arg
    BY DEF TypeOK
  <2> QED BY <2>1 DEF AddReply, Arg
<1> QED BY <1>1, <1>2, <1>3

(* A reply callback (redis_cmd_cb, redis_cmd_async_cb) keeps the state     *)
(* well typed.                                                             *)
LEMMA CallbackType ==
  ASSUME TInv, NEW a \in Addr, NEW r, replies[a] # <<>>, RunCallback(a, r),
         UNCHANGED <<idx, ncall>>
  PROVE  /\ replies' \in [Addr -> Seq(Entry)]
         /\ cfg' \in [Slot -> CFlag]
         /\ req' \subseteq [call : Call, slot : Slot]
         /\ carg' \in [Call -> Arg]
         /\ th' \in [Thread -> Local]
         /\ CallOK'
<1> DEFINE e == Head(replies[a])
<1>1. replies[a] \in Seq(Entry) /\ e \in Entry
  BY DEF TInv, TypeOK
<1>2. replies' \in [Addr -> Seq(Entry)]
  BY <1>1 DEF RunCallback, TInv, TypeOK
<1>3. e.slot \in Slot /\ e.cb \in Kind
  BY <1>1 DEF Entry
<1>4. CASE Unwanted(e.slot) /\ UNCHANGED <<cfg, carg, th, req>>
  BY <1>2, <1>4 DEF TInv, TypeOK, CallOK
<1>5. CASE /\ ~Unwanted(e.slot) /\ Usable(cfg[e.slot].d, e.cb) /\ Decrement(e.slot)
           /\ IF e.cb = "sync" THEN SyncCb(e, a, r) ELSE AsyncCb(e, a, r)
  <2> HIDE DEF e
  <2>0. PICK c : c = cfg[e.slot].d
    OBVIOUS
  <2>1. c \in Call /\ cfg[e.slot].f \in Nat \ {0}
    BY <1>3, <1>5, <2>0 DEF Unwanted, TInv, TypeOK, CFlag
  <2>2. cfg' \in [Slot -> CFlag]
    BY <1>3, <1>5, <2>0, <2>1 DEF Decrement, Empty, TInv, TypeOK, CFlag
  <2>5. CASE e.cb = "sync"
    <3>1. SyncCb(e, a, r)
      BY <1>5, <2>5
    <3>2. carg' = [carg EXCEPT ![c] = AddReply(c, a, "sync", r)] /\ req' = req
      BY <3>1, <2>0 DEF SyncCb
    <3>3. \/ th' = th
          \/ th' = [t \in Thread |-> IF th[t].pc = "wait" /\ th[t].call = c
                       THEN [th[t] EXCEPT !.pc = "resume"] ELSE th[t]]
      BY <3>1, <2>0 DEF SyncCb, Notify
    <3>4. carg' \in [Call -> Arg]
      BY <3>2, <2>1, ArgType DEF TInv, TypeOK, Kind
    <3>5. \A t \in Thread :
            /\ th'[t] \in Local
            /\ th'[t].call = th[t].call /\ th'[t].lua = th[t].lua
            /\ th'[t].pc # "idle" => th[t].pc # "idle"
      <4>1. \A t \in Thread : th[t] \in Local
        BY DEF TInv, TypeOK
      <4> QED BY <3>3, <4>1 DEF Local
    <3>6. th' \in [Thread -> Local]
      BY <3>3, <3>5 DEF TInv, TypeOK
    <3> QED BY <1>2, <2>2, <3>2, <3>4, <3>5, <3>6 DEF TInv, TypeOK, CallOK
  <2>6. CASE e.cb # "sync"
    <3>1. AsyncCb(e, a, r)
      BY <1>5, <2>6
    <3>2. /\ th' = th /\ req' \subseteq req
          /\ \/ carg' = [carg EXCEPT ![c] = DeadArg("async")]
             \/ carg' = [carg EXCEPT ![c] = AddReply(c, a, "async", r)]
      BY <3>1, <2>0 DEF AsyncCb
    <3>a. DeadArg("async") \in Arg /\ AddReply(c, a, "async", r) \in Arg
      BY <2>1, ArgType DEF TInv, Kind
    <3>3. carg' \in [Call -> Arg]
      BY <3>2, <3>a, <2>1 DEF TInv, TypeOK
    <3> QED BY <1>2, <2>2, <3>2, <3>3 DEF TInv, TypeOK, CallOK
  <2> QED BY <2>5, <2>6
<1> QED
  BY <1>4, <1>5 DEF RunCallback

(* Type correctness: whatever is issued, answered, lost or timed out.      *)
LEMMA TypeStep == TInv /\ [CalmNext]_vars => TInv'
<1> SUFFICES ASSUME TInv, [CalmNext]_vars PROVE TInv'
  OBVIOUS
<1> USE RedisEventAssumption
<1>t. \A t \in Thread : th[t] \in Local
  BY DEF TInv, TypeOK
<1>1. ASSUME NEW t \in Thread, NEW A \in SUBSET Addr, NEW L \in SUBSET A,
             NEW lua \in BOOLEAN, Cmd(t, A, L, lua)
      PROVE  TInv'
  <2>1. /\ Issue(A \ L, ncall + 1, "sync", lua)
        /\ carg' = [carg EXCEPT ![ncall + 1] = NewArg("sync", Ready(A \ L))]
        /\ ncall' = ncall + 1 /\ ncall < MaxCalls /\ UNCHANGED req
        /\ th' = [th EXCEPT ![t] =
                   [pc   |-> IF Ready(A \ L) = {} THEN "resume" ELSE "wait",
                    call |-> ncall + 1, slot |-> NextIdx, lua |-> lua, tmo |-> FALSE]]
    BY <1>1 DEF Cmd
  <2>2. ncall + 1 \in 1 .. MaxCalls /\ ncall + 1 \in Call /\ ncall' \in 0 .. MaxCalls
    BY <2>1 DEF TInv, TypeOK, Call
  <2>3. NewArg("sync", Ready(A \ L)) \in Arg
    BY ArgType, ReadyFinite DEF TInv, Kind
  <2>4. carg' \in [Call -> Arg]
    BY <2>1, <2>2, <2>3 DEF TInv, TypeOK
  <2>5. th'[t] \in Local /\ th' \in [Thread -> Local]
    BY <2>1, <2>2, NextIdxSlot DEF TInv, TypeOK, Local
  <2>6. CallOK'
    BY <2>1, <2>2 DEF TInv, TypeOK, CallOK
  <2>7. "sync" \in Kind /\ A \ L \in SUBSET Addr /\ TypeOK
    BY DEF Kind, TInv
  <2>8. /\ ctx' \in [Addr -> {"none", "attach", "establish"}]
        /\ replies' \in [Addr -> Seq(Entry)]
        /\ freeing' \in Addr \cup {NULL}
        /\ idx' \in 0 .. CUR_CALL_NUM
        /\ cfg' \in [Slot -> CFlag]
    BY <2>1, <2>2, <2>7, IssueType
  <2> QED BY <2>1, <2>2, <2>4, <2>5, <2>6, <2>8 DEF TInv, TypeOK
<1>2. ASSUME NEW t \in Thread, CmdRetry(t)
      PROVE  TInv'
  <2> DEFINE A == carg[th[t].call].nos
             c == Again(th[t].call)
  <2>1. th[t].call \in 1 .. MaxCalls /\ th[t].call \in Call /\ c \in Call
    BY <1>2 DEF CmdRetry, TInv, CallOK, Call, Again
  <2>2. A \in SUBSET Addr
    BY <2>1 DEF TInv, TypeOK, Arg
  <2> HIDE DEF A, c
  <2>3. /\ Issue(A, c, "sync", FALSE)
        /\ carg' = [carg EXCEPT ![c] = NewArg("sync", Ready(A))]
        /\ UNCHANGED <<req, ncall>>
        /\ th' = [th EXCEPT ![t] =
                   [pc   |-> IF Ready(A) = {} THEN "resume" ELSE "wait",
                    call |-> c, slot |-> NextIdx, lua |-> FALSE, tmo |-> FALSE]]
    BY <1>2 DEF CmdRetry, A, c
  <2>4. NewArg("sync", Ready(A)) \in Arg
    BY <2>2, ArgType, ReadyFinite DEF TInv, Kind
  <2>5. carg' \in [Call -> Arg]
    BY <2>1, <2>3, <2>4 DEF TInv, TypeOK
  <2>6. th'[t] \in Local /\ th' \in [Thread -> Local]
    BY <2>1, <2>3, NextIdxSlot DEF TInv, TypeOK, Local
  <2>7. CallOK'
    BY <2>1, <2>3 DEF TInv, TypeOK, CallOK
  <2>8. "sync" \in Kind
    BY DEF Kind
  <2> QED BY <2>1, <2>2, <2>3, <2>5, <2>6, <2>7, <2>8, IssueType DEF TInv, TypeOK
<1>3. ASSUME NEW A \in SUBSET Addr, NEW L \in SUBSET A, CmdAsync(A, L)
      PROVE  TInv'
  <2>1. /\ Issue(A \ L, ncall + 1, "async", FALSE)
        /\ ncall' = ncall + 1 /\ ncall < MaxCalls /\ UNCHANGED th
        /\ req' = req \cup {[call |-> ncall + 1, slot |-> NextIdx]}
        /\ carg' = [carg EXCEPT ![ncall + 1] =
                     IF Ready(A \ L) = {} THEN DeadArg("async")
                     ELSE NewArg("async", Ready(A \ L))]
    BY <1>3 DEF CmdAsync
  <2>2. ncall + 1 \in Call /\ ncall' \in 0 .. MaxCalls
    BY <2>1 DEF TInv, TypeOK, Call
  <2>3. DeadArg("async") \in Arg /\ NewArg("async", Ready(A \ L)) \in Arg
    BY ArgType, ReadyFinite DEF TInv, Kind
  <2>4. carg' \in [Call -> Arg]
    BY <2>1, <2>2, <2>3 DEF TInv, TypeOK
  <2>5. req' \subseteq [call : Call, slot : Slot]
    BY <2>1, <2>2, NextIdxSlot DEF TInv, TypeOK
  <2>6. CallOK' /\ "async" \in Kind
    BY <2>1 DEF TInv, CallOK, Kind
  <2> QED BY <2>1, <2>2, <2>4, <2>5, <2>6, IssueType DEF TInv, TypeOK
<1>4. ASSUME NEW t \in Thread, CmdReturn(t)
      PROVE  TInv'
  <2>1. carg' \in [Call -> Arg]
    <3>1. DeadArg("sync") \in Arg
      BY ArgType DEF TInv, Kind
    <3> QED BY <1>4, <3>1 DEF CmdReturn, TInv, TypeOK
  <2>2. th' \in [Thread -> Local]
    BY <1>4 DEF CmdReturn, TInv, TypeOK, Idle, Local, Slot
  <2>3. CallOK'
    BY <1>4 DEF CmdReturn, TInv, TypeOK, CallOK, Idle
  <2> QED BY <1>4, <2>1, <2>2, <2>3 DEF CmdReturn, TInv, TypeOK
<1>5. ASSUME NEW t \in Thread, CmdTimeout(t)
      PROVE  TInv'
  <2>1. th' \in [Thread -> Local]
    BY <1>5, <1>t DEF CmdTimeout, TInv, TypeOK, Local
  <2>2. CallOK'
    BY <1>5, <1>t DEF CmdTimeout, TInv, TypeOK, CallOK, Local
  <2> QED BY <1>5, <2>1, <2>2 DEF CmdTimeout, TInv, TypeOK
<1>6. ASSUME NEW t \in Thread, CmdReset(t)
      PROVE  TInv'
  <2>1. th' \in [Thread -> Local]
    BY <1>6, <1>t DEF CmdReset, TInv, TypeOK, Local
  <2>2. CallOK'
    BY <1>6, <1>t DEF CmdReset, TInv, TypeOK, CallOK, Local
  <2>3. cfg' \in [Slot -> CFlag]
    BY <1>6 DEF CmdReset, TInv, TypeOK, CFlag, Empty
  <2> QED BY <1>6, <2>1, <2>2, <2>3 DEF CmdReset, TInv, TypeOK
<1>7. ASSUME NEW a \in Addr, ConnectOk(a) \/ ConnectFail(a) \/ Disconnect(a) \/ Cleanup(a)
      PROVE  TInv'
  BY <1>7 DEF ConnectOk, ConnectFail, Disconnect, Cleanup, TInv, TypeOK, CallOK
<1>8. ASSUME NEW a \in Addr, NEW r, Reply(a, r)
      PROVE  TInv'
  <2>1. replies[a] # <<>> /\ RunCallback(a, r) /\ UNCHANGED <<ctx, freeing, idx, ncall>>
    BY <1>8 DEF Reply
  <2> QED BY <2>1, CallbackType DEF TInv, TypeOK
<1>9. ASSUME NEW a \in Addr, NullReply(a)
      PROVE  TInv'
  <2>1. replies[a] # <<>> /\ RunCallback(a, "null") /\ UNCHANGED <<ctx, freeing, idx, ncall>>
    BY <1>9 DEF NullReply
  <2> QED BY <2>1, CallbackType DEF TInv, TypeOK
<1>10. ASSUME NEW q \in req, Expire(q)
       PROVE  TInv'
  <2>0. q \in [call : Call, slot : Slot]
    BY DEF TInv, TypeOK
  <2>1. CASE UNCHANGED <<cfg, carg>>
    BY <1>10, <2>1 DEF Expire, TInv, TypeOK, CallOK
  <2>2. CASE /\ ~Unwanted(q.slot)
             /\ cfg' = [cfg EXCEPT ![q.slot] = Empty]
             /\ carg' = [carg EXCEPT ![cfg[q.slot].d] = DeadArg("async")]
    <3>1. cfg' \in [Slot -> CFlag]
      BY <2>2 DEF TInv, TypeOK, CFlag, Empty
    <3>2. DeadArg("async") \in Arg
      BY ArgType DEF TInv, Kind
    <3>3. carg' \in [Call -> Arg]
      BY <2>2, <3>2 DEF TInv, TypeOK
    <3> QED BY <1>10, <3>1, <3>3 DEF Expire, TInv, TypeOK, CallOK
  <2> QED BY <1>10, <2>1, <2>2 DEF Expire
<1>11. CASE UNCHANGED vars
  BY <1>11 DEF vars, TInv, TypeOK, CallOK
<1> QED
  BY <1>1, <1>2, <1>3, <1>4, <1>5, <1>6, <1>7, <1>8, <1>9, <1>10, <1>11
  DEF CalmNext, Allocate, Waiters, Loop

(* The state the constructor leaves is well typed.                         *)
LEMMA InitType == Init => TInv
<1> SUFFICES ASSUME Init PROVE TInv
  OBVIOUS
<1>1. Empty \in CFlag /\ NoArg \in Arg /\ Idle \in Local
  BY RedisEventAssumption DEF Empty, CFlag, NoArg, Arg, Kind, Idle, Local, Slot
<1> QED
  BY <1>1, RedisEventAssumption DEF Init, TInv, TypeOK, CallOK, Idle

(* Every behaviour under the calm load is well typed (TypeOK).             *)
THEOREM TypeCorrect == CalmSpec => []TypeOK
<1>1. Init => TInv
  BY InitType
<1>2. TInv /\ [CalmNext]_vars => TInv'
  BY TypeStep
<1>3. TInv => TypeOK
  BY DEF TInv
<1> QED
  BY <1>1, <1>2, <1>3, PTL DEF CalmSpec

-----------------------------------------------------------------------------
(* What sending and answering do to the replies that are owed.             *)

(* Sending adds at most the new entry to what a server owes.               *)
LEMMA SendPending ==
  ASSUME TypeOK, NEW A \in SUBSET Addr, NEW e \in Entry, Send(A, e)
  PROVE  \A a \in Addr : Pending(a)' \subseteq Pending(a) \cup {e}
<1> SUFFICES ASSUME NEW a \in Addr, NEW i \in DOMAIN replies'[a]
             PROVE  replies'[a][i] \in Pending(a) \cup {e}
  BY DEF Pending
<1>1. replies[a] \in Seq(Entry)
  BY DEF TypeOK
<1>2. CASE replies'[a] = replies[a]
  BY <1>2 DEF Pending
<1>3. CASE replies'[a] = Append(replies[a], e)
  <2>1. i \in 1 .. Len(replies[a]) + 1
    BY <1>1, <1>3
  <2>2. CASE i = Len(replies[a]) + 1
    BY <1>1, <1>3, <2>2
  <2>3. CASE i \in 1 .. Len(replies[a])
    <3>1. replies'[a][i] = replies[a][i] /\ i \in DOMAIN replies[a]
      BY <1>1, <1>3, <2>3
    <3> QED BY <3>1 DEF Pending
  <2> QED BY <1>1, <2>1, <2>2, <2>3
<1> QED
  BY <1>2, <1>3 DEF Send, TypeOK

(* The elements of the tail of a queue.                                    *)
LEMMA TailElement ==
  ASSUME NEW q \in Seq(Entry), q # <<>>, NEW i \in DOMAIN Tail(q)
  PROVE  i + 1 \in DOMAIN q /\ Tail(q)[i] = q[i + 1]
<1>1. /\ Tail(q) \in Seq(Entry) /\ Len(Tail(q)) = Len(q) - 1
      /\ \A j \in 1 .. Len(Tail(q)) : Tail(q)[j] = q[j + 1]
  BY HeadTailProperties
<1>2. i \in 1 .. Len(Tail(q)) /\ Len(q) \in Nat /\ DOMAIN q = 1 .. Len(q)
  BY <1>1
<1> QED
  BY <1>1, <1>2

(* Answering takes the oldest entry and adds none.                         *)
LEMMA TailPending ==
  ASSUME TypeOK, NEW a \in Addr, replies[a] # <<>>,
         replies' = [replies EXCEPT ![a] = Tail(@)]
  PROVE  /\ Head(replies[a]) \in Pending(a) /\ Head(replies[a]) \in Entry
         /\ \A b \in Addr : Pending(b)' \subseteq Pending(b)
<1>1. replies[a] \in Seq(Entry)
  BY DEF TypeOK
<1>2. Head(replies[a]) = replies[a][1] /\ 1 \in DOMAIN replies[a]
  BY <1>1
<1>3. Head(replies[a]) \in Entry
  BY <1>1
<1>4. ASSUME NEW b \in Addr, NEW i \in DOMAIN replies'[b]
      PROVE  replies'[b][i] \in Pending(b)
  <2>1. CASE b # a
    BY <2>1, <1>4 DEF Pending, TypeOK
  <2>2. CASE b = a
    <3>1. replies'[b] = Tail(replies[a])
      BY <2>2 DEF TypeOK
    <3>2. i + 1 \in DOMAIN replies[a] /\ replies'[b][i] = replies[a][i + 1]
      BY <1>1, <1>4, <2>2, <3>1, TailElement
    <3> QED BY <2>2, <3>2 DEF Pending
  <2> QED BY <2>1, <2>2
<1> QED
  BY <1>2, <1>3, <1>4 DEF Pending

(* A pending reply and a deadline name a slot and a call.                  *)
LEMMA PendingType ==
  ASSUME TypeOK
  PROVE  /\ \A a \in Addr : \A e \in Pending(a) :
              e \in Entry /\ e.slot \in Slot /\ e.call \in Call /\ e.cb \in Kind
         /\ \A q \in req : q.slot \in Slot /\ q.call \in Call
<1>1. ASSUME NEW a \in Addr, NEW e \in Pending(a)
      PROVE  e \in Entry
  BY <1>1 DEF TypeOK, Pending
<1> QED
  BY <1>1 DEF Entry, TypeOK

-----------------------------------------------------------------------------
(* Ownership is inductive.                                                 *)

(* A step that forgets replies, deadlines and slots, issues nothing, and   *)
(* changes the arguments of issued calls only in their results and by      *)
(* ending them.                                                            *)
KeepsCalls ==
  /\ \A a \in Addr : Pending(a)' \subseteq Pending(a)
  /\ req' \subseteq req
  /\ \A s \in Slot : cfg'[s].d \in {NULL, cfg[s].d}
  /\ \A c \in Call : /\ carg'[c].st = "unused" <=> carg[c].st = "unused"
                     /\ carg'[c].kind = carg[c].kind
  /\ ncall' = ncall
  /\ \A t \in Thread : th'[t].pc # "idle" =>
       /\ th[t].pc # "idle"
       /\ th'[t].call = th[t].call /\ th'[t].lua = th[t].lua

(* Such a step disturbs at most OwnSlots.                                  *)
LEMMA KeepOwn ==
  ASSUME TInv, Ownership, KeepsCalls
  PROVE  OwnReplies' /\ OwnDeadlines' /\ OwnStacks' /\ Fresh'
<1> USE RedisEventAssumption
<1>1. ASSUME NEW a \in Addr, NEW e \in Pending(a)'
      PROVE  carg'[e.call].st # "unused" /\ carg'[e.call].kind = e.cb
             /\ cfg'[e.slot].d \in {NULL, e.call}
  <2>1. e \in Pending(a) /\ e.slot \in Slot /\ e.call \in Call
    BY <1>1, PendingType DEF KeepsCalls, TInv
  <2> QED BY <2>1 DEF Ownership, OwnReplies, Issued, KeepsCalls
<1>2. ASSUME NEW q \in req'
      PROVE  carg'[q.call].st # "unused" /\ carg'[q.call].kind = "async"
             /\ cfg'[q.slot].d \in {NULL, q.call}
  <2>1. q \in req /\ q.slot \in Slot /\ q.call \in Call
    BY <1>2, PendingType DEF KeepsCalls, TInv
  <2> QED BY <2>1 DEF Ownership, OwnDeadlines, Issued, KeepsCalls
<1>3. OwnStacks'
  <2> DEFINE Iss(d) == carg'[d].st # "unused" /\ carg'[d].kind = "sync"
  <2>0. \A d \in Call : Issued(d, "sync") => Iss(d)
    BY DEF KeepsCalls, Issued
  <2> SUFFICES ASSUME NEW t \in Thread, th'[t].pc # "idle"
               PROVE  /\ Iss(th[t].call)
                      /\ th[t].lua => carg'[Again(th[t].call)].st = "unused"
                      /\ \A d \in Call : Again(d) = th[t].call => Iss(d)
                      /\ \A u \in Thread \ {t} :
                           th'[u].pc # "idle" =>
                             th[u].call # th[t].call /\ th[u].call # Again(th[t].call)
    BY DEF OwnStacks, Issued, KeepsCalls
  <2> HIDE DEF Iss
  <2>1. th[t].pc # "idle" /\ th[t].call \in Call
    BY DEF KeepsCalls, TInv, CallOK
  <2>2. th[t].lua => Again(th[t].call) \in Call
    BY DEF TInv, CallOK, Again, Call
  <2>3. th[t].lua => carg'[Again(th[t].call)].st = "unused"
    BY <2>1, <2>2 DEF Ownership, OwnStacks, KeepsCalls
  <2>4. \A u \in Thread \ {t} : th'[u].pc # "idle" => th[u].pc # "idle"
    BY DEF KeepsCalls
  <2> QED BY <2>0, <2>1, <2>3, <2>4 DEF Ownership, OwnStacks
<1>4. Fresh'
  <2> SUFFICES ASSUME NEW d \in 1 .. MaxCalls, d > ncall
               PROVE  carg'[d].st = "unused" /\ carg'[Again(d)].st = "unused"
    BY DEF Fresh, KeepsCalls
  <2>1. d \in Call /\ Again(d) \in Call
    BY DEF Call, Again
  <2> QED BY <2>1 DEF Ownership, Fresh, KeepsCalls
<1> QED
  BY <1>1, <1>2, <1>3, <1>4 DEF OwnReplies, OwnDeadlines, Issued

(* What cmd, its retry and cmd_async do with an unused call c: see Issue,  *)
(* and for the rest of the state the parts of Ownership.                   *)
Issuing(A, c, cb, sha) ==
  /\ Issue(A, c, cb, sha)
  /\ carg[c].st = "unused"
  /\ carg'[c].kind = cb /\ carg'[c].st # "unused"
  /\ Ready(A) # {} => carg'[c].st = "live"
  /\ \A d \in Call : d # c => carg'[d] = carg[d]
  /\ \A q \in req' : q \in req \/ (cb = "async" /\ q = [call |-> c, slot |-> NextIdx])
  /\ \A t \in Thread : th[t].pc \in {"wait", "timeout"} => th'[t] = th[t]
  /\ cb = "sync" /\ Ready(A) # {} =>
       \E t \in Thread : th'[t].pc = "wait" /\ th'[t].call = c /\ th'[t].slot = NextIdx

(* Issuing the unused call c through a quiet slot.                         *)
LEMMA IssueOwn ==
  ASSUME TypeOK, Ownership, Quiet(NextIdx),
         NEW A \in SUBSET Addr, NEW c \in Call, NEW cb \in Kind, NEW sha \in BOOLEAN,
         Issuing(A, c, cb, sha)
  PROVE  OwnReplies' /\ OwnDeadlines' /\ OwnSlots'
<1> USE RedisEventAssumption DEF Issuing
<1> DEFINE s0 == NextIdx
           e0 == [slot |-> s0, call |-> c, cb |-> cb, sha |-> sha]
<1>1. s0 \in Slot /\ e0 \in Entry
  BY NextIdxSlot DEF Entry
<1>2. \A a \in Addr : Pending(a)' \subseteq Pending(a) \cup {e0}
  BY <1>1, SendPending DEF Issue
<1>3. cfg[s0].d = NULL /\ cfg' \in [Slot -> CFlag]
  BY IssueType DEF Quiet, Empty
<1>4. \A s \in Slot : s # s0 => cfg'[s] = cfg[s]
  BY DEF Issue, SetFlag, TypeOK
<1>5. cfg'[s0].d \in {NULL, c} /\ (cfg'[s0].d # NULL => Ready(A) # {})
  BY <1>1, <1>3 DEF Issue, SetFlag, TypeOK
<1>6. \A d \in Call : d # c => carg'[d] = carg[d]
  OBVIOUS
<1>7. carg'[c].kind = cb /\ carg'[c].st # "unused" /\ (Ready(A) # {} => carg'[c].st = "live")
  OBVIOUS
<1> HIDE DEF s0
<1>8. ASSUME NEW a \in Addr, NEW e \in Pending(a)'
      PROVE  Issued(e.call, e.cb)' /\ cfg'[e.slot].d \in {NULL, e.call}
  <2>1. CASE e = e0
    <3>1. e.call = c /\ e.slot = s0 /\ e.cb = cb
      BY <2>1
    <3> HIDE DEF e0
    <3> QED BY <3>1, <1>5, <1>7 DEF Issued
  <2>2. CASE e \in Pending(a)
    <3>1. e.slot \in Slot /\ e.call \in Call /\ e.slot # s0
      BY <2>2, PendingType DEF Quiet, s0
    <3>2. Issued(e.call, e.cb) /\ cfg[e.slot].d \in {NULL, e.call}
      BY <2>2 DEF Ownership, OwnReplies
    <3> QED BY <3>1, <3>2, <1>4, <1>6 DEF Issued
  <2> QED BY <1>2, <1>8, <2>1, <2>2
<1>9. ASSUME NEW q \in req'
      PROVE  Issued(q.call, "async")' /\ cfg'[q.slot].d \in {NULL, q.call}
  <2>1. CASE cb = "async" /\ q = [call |-> c, slot |-> s0]
    BY <2>1, <1>5, <1>7 DEF Issued
  <2>2. CASE q \in req
    <3>1. q.slot \in Slot /\ q.call \in Call /\ q.slot # s0
      BY <2>2, PendingType DEF Quiet, s0
    <3>2. Issued(q.call, "async") /\ cfg[q.slot].d \in {NULL, q.call}
      BY <2>2 DEF Ownership, OwnDeadlines
    <3> QED BY <3>1, <3>2, <1>4, <1>6 DEF Issued
  <2> QED BY <1>9, <2>1, <2>2 DEF s0
<1>10. \A s \in Slot : cfg[s].d # NULL => cfg[s].d \in Call /\ cfg[s].d # c
  BY DEF Ownership, OwnSlots, TypeOK, CFlag
<1>11. ASSUME NEW s \in Slot, cfg'[s].d # NULL
       PROVE  /\ carg'[cfg'[s].d].st = "live"
              /\ \A u \in Slot : cfg'[u].d = cfg'[s].d => u = s
              /\ carg'[cfg'[s].d].kind = "sync" =>
                   \E t \in Thread : /\ th'[t].pc \in {"wait", "timeout"}
                                     /\ th'[t].call = cfg'[s].d
                                     /\ th'[t].slot = s
  <2>1. CASE s = s0
    <3>1. cfg'[s].d = c /\ Ready(A) # {}
      BY <1>11, <2>1, <1>5
    <3>2. \A u \in Slot : cfg'[u].d = c => u = s
      BY <2>1, <1>4, <1>10
    <3> QED BY <2>1, <3>1, <3>2, <1>7 DEF s0
  <2>2. CASE s # s0
    <3>1. cfg'[s] = cfg[s] /\ cfg[s].d \in Call /\ cfg[s].d # c
      BY <1>4, <1>10, <1>11, <2>2
    <3>2. carg'[cfg[s].d] = carg[cfg[s].d]
      BY <3>1, <1>6
    <3>3. \A u \in Slot : cfg'[u].d = cfg[s].d => u = s
      BY <3>1, <1>4, <1>5, <1>11 DEF Ownership, OwnSlots
    <3>4. carg[cfg[s].d].st = "live"
      BY <3>1, <1>11 DEF Ownership, OwnSlots
    <3>5. carg[cfg[s].d].kind = "sync" =>
            \E t \in Thread : /\ th'[t].pc \in {"wait", "timeout"}
                              /\ th'[t].call = cfg[s].d
                              /\ th'[t].slot = s
      BY <3>1, <1>11 DEF Ownership, OwnSlots
    <3> QED BY <3>1, <3>2, <3>3, <3>4, <3>5
  <2> QED BY <2>1, <2>2
<1> QED
  BY <1>8, <1>9, <1>11 DEF OwnReplies, OwnDeadlines, OwnSlots

(* RedisEvent::cmd up to the wait.                                         *)
LEMMA CmdOwn ==
  ASSUME TInv, Ownership, Quiet(NextIdx),
         NEW t \in Thread, NEW A \in SUBSET Addr, NEW L \in SUBSET A,
         NEW lua \in BOOLEAN, Cmd(t, A, L, lua)
  PROVE  Ownership'
<1> USE RedisEventAssumption
<1> DEFINE c == ncall + 1
           arg == NewArg("sync", Ready(A \ L))
<1>1. /\ Issue(A \ L, c, "sync", lua) /\ carg' = [carg EXCEPT ![c] = arg]
      /\ th[t].pc = "idle" /\ ncall' = c /\ ncall < MaxCalls /\ req' = req
      /\ th' = [th EXCEPT ![t] =
                  [pc   |-> IF Ready(A \ L) = {} THEN "resume" ELSE "wait",
                   call |-> c, slot |-> NextIdx, lua |-> lua, tmo |-> FALSE]]
  BY DEF Cmd
<1>2. c \in 1 .. MaxCalls /\ c \in Call /\ ncall \in Nat /\ Again(c) \in Call /\ Again(c) # c
  BY <1>1 DEF TInv, TypeOK, Call, Again
<1>3. carg[c].st = "unused" /\ carg[Again(c)].st = "unused"
  BY <1>2 DEF Ownership, Fresh
<1>4. arg \in Arg /\ arg.kind = "sync" /\ arg.st = "live" /\ "sync" \in Kind
  <2>1. Ready(A \ L) \in SUBSET Addr
    BY ReadyFinite
  <2>2. arg \in Arg
    BY <2>1, ArgType DEF TInv, Kind
  <2> QED BY <2>2 DEF NewArg, NoArg, Kind
<1> HIDE DEF arg, c
<1>5. /\ th'[t].pc = (IF Ready(A \ L) = {} THEN "resume" ELSE "wait")
      /\ th'[t].call = c /\ th'[t].slot = NextIdx /\ th'[t].lua = lua
      /\ \A u \in Thread \ {t} : th'[u] = th[u]
  BY <1>1 DEF TInv, TypeOK
<1>7. carg'[c] = arg /\ \A d \in Call : d # c => carg'[d] = carg[d]
  BY <1>1, <1>2 DEF TInv, TypeOK
<1>6. OwnReplies' /\ OwnDeadlines' /\ OwnSlots'
  <2>1. A \ L \in SUBSET Addr /\ TypeOK
    BY DEF TInv
  <2>2. \A u \in Thread : th[u].pc \in {"wait", "timeout"} => th'[u] = th[u]
    BY <1>1, <1>5
  <2>3. Ready(A \ L) # {} =>
          \E u \in Thread : th'[u].pc = "wait" /\ th'[u].call = c /\ th'[u].slot = NextIdx
    BY <1>5
  <2>4. Issuing(A \ L, c, "sync", lua)
    BY <1>1, <1>3, <1>4, <1>7, <2>2, <2>3 DEF Issuing
  <2> QED BY <1>2, <1>4, <2>1, <2>4, IssueOwn
<1>8. \A u \in Thread : th[u].pc # "idle" => th[u].call \in Call /\ th[u].call # c
                                             /\ th[u].call # Again(c)
                                             /\ Again(th[u].call) # c
  <2>1. \A u \in Thread : th[u].pc # "idle" => th[u].call \in Call /\ carg[th[u].call].st # "unused"
    BY DEF TInv, CallOK, Ownership, OwnStacks, Issued
  <2> QED BY <1>2, <1>3, <2>1 DEF Again, Call
<1>9. OwnStacks'
  <2> DEFINE Iss(d) == carg'[d].st # "unused" /\ carg'[d].kind = "sync"
  <2> SUFFICES ASSUME NEW u \in Thread, th'[u].pc # "idle"
               PROVE  /\ Iss(th'[u].call)
                      /\ th'[u].lua => carg'[Again(th'[u].call)].st = "unused"
                      /\ \A d \in Call : Again(d) = th'[u].call => Iss(d)
                      /\ \A v \in Thread \ {u} :
                           th'[v].pc # "idle" =>
                             th'[v].call # th'[u].call /\ th'[v].call # Again(th'[u].call)
    BY DEF OwnStacks, Issued
  <2>1. CASE u = t
    <3>1. \A d \in Call : Again(d) # c
      BY <1>2 DEF Again, Call
    <3>2. carg'[Again(c)].st = "unused"
      BY <1>2, <1>3, <1>7
    <3>3. Iss(c)
      BY <1>4, <1>7
    <3>4. \A v \in Thread \ {u} : th'[v].pc # "idle" => th'[v].call # c /\ th'[v].call # Again(c)
      BY <2>1, <1>5, <1>8
    <3> HIDE DEF Iss
    <3> QED BY <2>1, <3>1, <3>2, <3>3, <3>4, <1>5
  <2>2. CASE u # t
    <3>1. th'[u] = th[u] /\ th[u].pc # "idle" /\ th[u].call \in Call /\ th[u].call # c
      BY <1>5, <1>8, <2>2
    <3>2. Iss(th[u].call)
      BY <3>1, <1>7 DEF Ownership, OwnStacks, Issued
    <3>3. th[u].lua => carg'[Again(th[u].call)].st = "unused"
      <4>1. th[u].lua => Again(th[u].call) \in Call
        BY DEF TInv, CallOK, Again, Call
      <4> QED BY <3>1, <4>1, <1>7, <1>8 DEF Ownership, OwnStacks
    <3>4. \A d \in Call : Again(d) = th[u].call => Iss(d)
      <4>1. \A d \in Call : Again(d) = th[u].call => d # c
        BY <3>1, <1>8
      <4> QED BY <3>1, <4>1, <1>7 DEF Ownership, OwnStacks, Issued
    <3>5. \A v \in Thread \ {u} : th'[v].pc # "idle" =>
             th'[v].call # th[u].call /\ th'[v].call # Again(th[u].call)
      BY <3>1, <1>5, <1>8 DEF Ownership, OwnStacks
    <3> HIDE DEF Iss
    <3> QED BY <3>1, <3>2, <3>3, <3>4, <3>5
  <2> QED BY <2>1, <2>2
<1>10. Fresh'
  <2> SUFFICES ASSUME NEW d \in 1 .. MaxCalls, d > ncall'
               PROVE  carg'[d].st = "unused" /\ carg'[Again(d)].st = "unused"
    BY DEF Fresh
  <2>1. d > ncall /\ d # c /\ Again(d) # c /\ d \in Call /\ Again(d) \in Call
    BY <1>1, <1>2 DEF Again, Call, c
  <2> QED BY <2>1, <1>7 DEF Ownership, Fresh
<1> QED
  BY <1>6, <1>9, <1>10 DEF Ownership

(* The call of cmd to itself after NOSCRIPT.                               *)
LEMMA CmdRetryOwn ==
  ASSUME TInv, Ownership, Quiet(NextIdx), NEW t \in Thread, CmdRetry(t)
  PROVE  Ownership'
<1> USE RedisEventAssumption
<1> DEFINE b == th[t].call
           c == Again(b)
           A == carg[b].nos
<1>1. /\ th[t].pc = "resume" /\ th[t].lua
      /\ Issue(A, c, "sync", FALSE) /\ carg' = [carg EXCEPT ![c] = NewArg("sync", Ready(A))]
      /\ ncall' = ncall /\ req' = req
      /\ th' = [th EXCEPT ![t] =
                  [pc   |-> IF Ready(A) = {} THEN "resume" ELSE "wait",
                   call |-> c, slot |-> NextIdx, lua |-> FALSE, tmo |-> FALSE]]
  BY DEF CmdRetry
<1>2. b \in 1 .. MaxCalls /\ b \in Call /\ c \in Call /\ c > MaxCalls /\ c # b
  BY <1>1 DEF TInv, CallOK, Call, Again
<1>3. carg[c].st = "unused" /\ A \in SUBSET Addr /\ Issued(b, "sync")
  BY <1>1, <1>2 DEF Ownership, OwnStacks, TInv, TypeOK, Arg
<1>4. carg'[c].kind = "sync" /\ carg'[c].st = "live" /\ "sync" \in Kind
  BY <1>1, <1>2 DEF NewArg, NoArg, Kind, TInv, TypeOK
<1> HIDE DEF A, b, c
<1>5. /\ th'[t].pc = (IF Ready(A) = {} THEN "resume" ELSE "wait")
      /\ th'[t].call = c /\ th'[t].slot = NextIdx /\ th'[t].lua = FALSE
      /\ \A u \in Thread \ {t} : th'[u] = th[u]
  BY <1>1 DEF TInv, TypeOK
<1>6. \A d \in Call : d # c => carg'[d] = carg[d]
  BY <1>1 DEF TInv, TypeOK
<1>7. OwnReplies' /\ OwnDeadlines' /\ OwnSlots'
  <2>1. \A u \in Thread : th[u].pc \in {"wait", "timeout"} => th'[u] = th[u]
    BY <1>1, <1>5
  <2>2. Ready(A) # {} =>
          \E u \in Thread : th'[u].pc = "wait" /\ th'[u].call = c /\ th'[u].slot = NextIdx
    BY <1>5
  <2>3. Issuing(A, c, "sync", FALSE)
    BY <1>1, <1>3, <1>4, <1>6, <2>1, <2>2 DEF Issuing
  <2>4. TypeOK
    BY DEF TInv
  <2> QED BY <1>2, <1>3, <1>4, <2>3, <2>4, IssueOwn
<1>8. \A u \in Thread \ {t} : th[u].pc # "idle" =>
        th[u].call \in Call /\ th[u].call # b /\ th[u].call # c /\ Again(th[u].call) # c
  <2>1. \A u \in Thread \ {t} : th[u].pc # "idle" =>
          th[u].call \in Call /\ th[u].call # b /\ th[u].call # c
    BY <1>1 DEF TInv, CallOK, Ownership, OwnStacks, b, c
  <2> QED BY <1>2, <2>1 DEF Again, Call, c
<1>9. OwnStacks'
  <2> DEFINE Iss(d) == carg'[d].st # "unused" /\ carg'[d].kind = "sync"
  <2> SUFFICES ASSUME NEW u \in Thread, th'[u].pc # "idle"
               PROVE  /\ Iss(th'[u].call)
                      /\ th'[u].lua => carg'[Again(th'[u].call)].st = "unused"
                      /\ \A d \in Call : Again(d) = th'[u].call => Iss(d)
                      /\ \A v \in Thread \ {u} :
                           th'[v].pc # "idle" =>
                             th'[v].call # th'[u].call /\ th'[v].call # Again(th'[u].call)
    BY DEF OwnStacks, Issued
  <2>0. Iss(c)
    BY <1>4
  <2>1. \A d \in Call : d # c /\ Issued(d, "sync") => Iss(d)
    BY <1>6 DEF Issued
  <2> HIDE DEF Iss
  <2>2. CASE u = t
    <3>1. \A d \in Call : Again(d) = c => d = b
      BY <1>2 DEF Again, Call, c
    <3>2. Iss(b)
      BY <1>2, <1>3, <2>1
    <3>3. \A v \in Thread \ {u} : th'[v].pc # "idle" => th'[v].call # c /\ th'[v].call # Again(c)
      <4>1. Again(c) \notin Call
        BY <1>2 DEF Again, Call
      <4> QED BY <2>2, <4>1, <1>5, <1>8
    <3> QED BY <2>0, <2>2, <3>1, <3>2, <3>3, <1>5
  <2>3. CASE u # t
    <3>1. th'[u] = th[u] /\ th[u].pc # "idle" /\ th[u].call \in Call /\ th[u].call # c
      BY <1>5, <1>8, <2>3
    <3>2. Iss(th[u].call)
      BY <3>1, <2>1 DEF Ownership, OwnStacks
    <3>3. th[u].lua => carg'[Again(th[u].call)].st = "unused"
      <4>1. th[u].lua => Again(th[u].call) \in Call
        BY DEF TInv, CallOK, Again, Call
      <4> QED BY <2>3, <3>1, <4>1, <1>6, <1>8 DEF Ownership, OwnStacks
    <3>4. \A d \in Call : Again(d) = th[u].call => Iss(d)
      <4>1. \A d \in Call : Again(d) = th[u].call => d # c
        BY <1>2, <3>1 DEF Again, Call
      <4> QED BY <3>1, <4>1, <2>1 DEF Ownership, OwnStacks
    <3>5. \A v \in Thread \ {u} : th'[v].pc # "idle" =>
             th'[v].call # th[u].call /\ th'[v].call # Again(th[u].call)
      BY <2>3, <3>1, <1>5, <1>8 DEF Ownership, OwnStacks
    <3> QED BY <3>1, <3>2, <3>3, <3>4, <3>5
  <2> QED BY <2>2, <2>3
<1>10. Fresh'
  <2> SUFFICES ASSUME NEW d \in 1 .. MaxCalls, d > ncall
               PROVE  carg'[d].st = "unused" /\ carg'[Again(d)].st = "unused"
    BY <1>1 DEF Fresh
  <2>1. carg[d].st = "unused" /\ carg[Again(d)].st = "unused"
    BY DEF Ownership, Fresh
  <2>2. d # b /\ d # c /\ d \in Call /\ Again(d) \in Call
    BY <1>2, <1>3, <2>1 DEF Issued, Again, Call
  <2>3. Again(d) # c
    BY <1>2, <2>2 DEF Again, c
  <2> QED BY <2>1, <2>2, <2>3, <1>6
<1> QED
  BY <1>7, <1>9, <1>10 DEF Ownership

(* RedisEvent::cmd_async.                                                  *)
LEMMA CmdAsyncOwn ==
  ASSUME TInv, Ownership, Quiet(NextIdx),
         NEW A \in SUBSET Addr, NEW L \in SUBSET A, CmdAsync(A, L)
  PROVE  Ownership'
<1> USE RedisEventAssumption
<1> DEFINE c == ncall + 1
           arg == IF Ready(A \ L) = {} THEN DeadArg("async") ELSE NewArg("async", Ready(A \ L))
<1>1. /\ Issue(A \ L, c, "async", FALSE) /\ carg' = [carg EXCEPT ![c] = arg]
      /\ ncall' = c /\ ncall < MaxCalls /\ th' = th
      /\ req' = req \cup {[call |-> c, slot |-> NextIdx]}
  BY DEF CmdAsync
<1>2. c \in 1 .. MaxCalls /\ c \in Call /\ ncall \in Nat
  BY <1>1 DEF TInv, TypeOK, Call
<1>3. carg[c].st = "unused"
  BY <1>2 DEF Ownership, Fresh
<1>4. arg.kind = "async" /\ arg.st # "unused" /\ (Ready(A \ L) # {} => arg.st = "live")
  BY DEF NewArg, DeadArg, NoArg
<1> HIDE DEF arg, c
<1>5. carg'[c] = arg /\ \A d \in Call : d # c => carg'[d] = carg[d]
  BY <1>1, <1>2 DEF TInv, TypeOK
<1>6. OwnReplies' /\ OwnDeadlines' /\ OwnSlots'
  <2>1. A \ L \in SUBSET Addr /\ TypeOK /\ "async" \in Kind
    BY DEF TInv, Kind
  <2>2. Issuing(A \ L, c, "async", FALSE)
    BY <1>1, <1>3, <1>4, <1>5 DEF Issuing
  <2> QED BY <1>2, <2>1, <2>2, IssueOwn
<1>7. OwnStacks'
  <2> DEFINE Iss(d) == carg'[d].st # "unused" /\ carg'[d].kind = "sync"
  <2> SUFFICES ASSUME NEW u \in Thread, th[u].pc # "idle"
               PROVE  /\ Iss(th[u].call)
                      /\ th[u].lua => carg'[Again(th[u].call)].st = "unused"
                      /\ \A d \in Call : Again(d) = th[u].call => Iss(d)
                      /\ \A v \in Thread \ {u} :
                           th[v].pc # "idle" =>
                             th[v].call # th[u].call /\ th[v].call # Again(th[u].call)
    BY <1>1 DEF OwnStacks, Issued
  <2>1. \A d \in Call : Issued(d, "sync") => Iss(d)
    BY <1>3, <1>5 DEF Issued
  <2> HIDE DEF Iss
  <2>2. th[u].call \in Call
    BY DEF TInv, CallOK
  <2>3. th[u].lua => Again(th[u].call) \in Call /\ Again(th[u].call) # c
    BY <1>2 DEF TInv, CallOK, Again, Call
  <2>4. th[u].lua => carg'[Again(th[u].call)].st = "unused"
    BY <2>3, <1>5 DEF Ownership, OwnStacks
  <2> QED BY <2>1, <2>2, <2>4 DEF Ownership, OwnStacks
<1>8. Fresh'
  <2> SUFFICES ASSUME NEW d \in 1 .. MaxCalls, d > c
               PROVE  carg'[d].st = "unused" /\ carg'[Again(d)].st = "unused"
    BY <1>1 DEF Fresh
  <2>1. d > ncall /\ d # c /\ Again(d) # c /\ d \in Call /\ Again(d) \in Call
    BY <1>2 DEF Again, Call, c
  <2> QED BY <2>1, <1>5 DEF Ownership, Fresh
<1> QED
  BY <1>6, <1>7, <1>8 DEF Ownership

(* The return of cmd: no slot holds the argument that goes out of scope.   *)
LEMMA CmdReturnOwn ==
  ASSUME TInv, Ownership, NEW t \in Thread, CmdReturn(t)
  PROVE  Ownership'
<1> USE RedisEventAssumption
<1> DEFINE c == th[t].call
<1>1. /\ th[t].pc = "resume" /\ th' = [th EXCEPT ![t] = Idle]
      /\ carg' = [d \in Call |-> IF d = c \/ Again(d) = c THEN DeadArg("sync") ELSE carg[d]]
      /\ UNCHANGED <<replies, cfg, req, ncall>>
  BY DEF CmdReturn
<1>2. Issued(c, "sync") /\ \A d \in Call : Again(d) = c => Issued(d, "sync")
  BY <1>1 DEF Ownership, OwnStacks
<1>3. DeadArg("sync").kind = "sync" /\ DeadArg("sync").st = "dead"
  BY DEF DeadArg, NoArg
<1>4. KeepsCalls
  <2>1. \A d \in Call : /\ carg'[d].st = "unused" <=> carg[d].st = "unused"
                        /\ carg'[d].kind = carg[d].kind
    BY <1>1, <1>2, <1>3 DEF Issued
  <2>2. \A u \in Thread : th'[u].pc # "idle" => u # t
    BY <1>1 DEF TInv, TypeOK, Idle
  <2>3. \A u \in Thread : u # t => th'[u] = th[u]
    BY <1>1 DEF TInv, TypeOK
  <2> QED BY <1>1, <2>1, <2>2, <2>3 DEF KeepsCalls, Pending
<1>5. OwnSlots'
  <2> SUFFICES ASSUME NEW s \in Slot, cfg[s].d # NULL
               PROVE  /\ carg'[cfg[s].d].st = "live"
                      /\ carg'[cfg[s].d].kind = "sync" =>
                           \E u \in Thread : /\ th'[u].pc \in {"wait", "timeout"}
                                             /\ th'[u].call = cfg[s].d
                                             /\ th'[u].slot = s
    BY <1>1 DEF Ownership, OwnSlots
  <2> DEFINE d == cfg[s].d
  <2>1. d \in Call /\ carg[d].st = "live"
    BY DEF TInv, TypeOK, CFlag, Ownership, OwnSlots
  <2>2. CASE carg[d].kind = "sync"
    <3>1. PICK u \in Thread : /\ th[u].pc \in {"wait", "timeout"}
                              /\ th[u].call = d /\ th[u].slot = s
      BY <2>2 DEF Ownership, OwnSlots
    <3>2. u # t /\ d # c /\ Again(d) # c
      BY <1>1, <3>1 DEF Ownership, OwnStacks
    <3>3. th'[u] = th[u] /\ carg'[d] = carg[d]
      BY <1>1, <2>1, <3>2 DEF TInv, TypeOK
    <3> QED BY <2>1, <3>1, <3>3
  <2>3. CASE carg[d].kind # "sync"
    <3>1. carg'[d] = carg[d]
      BY <1>1, <1>2, <2>1, <2>3 DEF Issued
    <3> QED BY <2>1, <2>3, <3>1
  <2> QED BY <2>2, <2>3
<1> QED
  BY <1>4, <1>5, KeepOwn DEF Ownership

(* The end of the wait by a timeout, and the reset of cf.                  *)
LEMMA WaitOwn ==
  ASSUME TInv, Ownership, NEW t \in Thread, CmdTimeout(t) \/ CmdReset(t)
  PROVE  Ownership'
<1> DEFINE s0 == th[t].slot
<1>1. /\ UNCHANGED <<replies, req, carg, ncall>>
      /\ \/ cfg' = cfg /\ th[t].pc = "wait"
            /\ th' = [th EXCEPT ![t].pc = "timeout", ![t].tmo = TRUE]
         \/ cfg' = [cfg EXCEPT ![s0] = Empty] /\ th[t].pc = "timeout"
            /\ th' = [th EXCEPT ![t].pc = "resume"]
  BY DEF CmdTimeout, CmdReset
<1>2. th[t] \in Local /\ s0 \in Slot
  BY DEF TInv, TypeOK, Local
<1>3. \A u \in Thread : u # t => th'[u] = th[u]
  BY <1>1 DEF TInv, TypeOK
<1>4. th'[t].call = th[t].call /\ th'[t].lua = th[t].lua /\ th'[t].slot = s0 /\ th[t].pc # "idle"
  BY <1>1, <1>2 DEF Local, TInv, TypeOK
<1>5. /\ \A s \in Slot : s # s0 => cfg'[s] = cfg[s]
      /\ (cfg'[s0] = cfg[s0] /\ th'[t].pc = "timeout") \/ cfg'[s0].d = NULL
  BY <1>1, <1>2 DEF TInv, TypeOK, Local, Empty
<1> HIDE DEF s0
<1>6. \A s \in Slot : cfg'[s].d \in {NULL, cfg[s].d}
  BY <1>5
<1>7. KeepsCalls
  BY <1>1, <1>3, <1>4, <1>6 DEF KeepsCalls, Pending
<1>8. OwnSlots'
  <2> SUFFICES ASSUME NEW s \in Slot, cfg'[s].d # NULL
               PROVE  /\ carg[cfg'[s].d].st = "live"
                      /\ \A u \in Slot : cfg'[u].d = cfg'[s].d => u = s
                      /\ carg[cfg'[s].d].kind = "sync" =>
                           \E u \in Thread : /\ th'[u].pc \in {"wait", "timeout"}
                                             /\ th'[u].call = cfg'[s].d
                                             /\ th'[u].slot = s
    BY <1>1 DEF OwnSlots
  <2>1. cfg'[s].d = cfg[s].d /\ (s # s0 \/ th'[t].pc = "timeout")
    BY <1>5, <1>6
  <2>2. \A u \in Slot : cfg'[u].d = cfg'[s].d => u = s
    BY <1>6, <2>1 DEF Ownership, OwnSlots
  <2>3. ASSUME carg[cfg[s].d].kind = "sync"
        PROVE  \E u \in Thread : /\ th'[u].pc \in {"wait", "timeout"}
                                 /\ th'[u].call = cfg[s].d
                                 /\ th'[u].slot = s
    <3>1. PICK u \in Thread : /\ th[u].pc \in {"wait", "timeout"}
                              /\ th[u].call = cfg[s].d /\ th[u].slot = s
      BY <2>1, <2>3 DEF Ownership, OwnSlots
    <3>2. CASE u = t
      BY <2>1, <3>1, <3>2, <1>4 DEF s0
    <3>3. CASE u # t
      BY <3>1, <3>3, <1>3
    <3> QED BY <3>2, <3>3
  <2> QED BY <2>1, <2>2, <2>3 DEF Ownership, OwnSlots
<1> QED
  BY <1>7, <1>8, KeepOwn DEF Ownership

(* redis_cmd_cb and redis_cmd_async_cb.                                    *)
LEMMA CallbackOwn ==
  ASSUME TInv, Ownership, NEW a \in Addr, NEW r, replies[a] # <<>>,
         RunCallback(a, r), ncall' = ncall
  PROVE  Ownership'
<1> DEFINE e == Head(replies[a])
<1>1. e \in Entry /\ e.slot \in Slot /\ e.cb \in Kind
      /\ \A b \in Addr : Pending(b)' \subseteq Pending(b)
  BY TailPending DEF RunCallback, TInv, Entry
<1>2. CASE Unwanted(e.slot) /\ UNCHANGED <<cfg, carg, th, req>>
  <2>1. KeepsCalls
    BY <1>1, <1>2 DEF KeepsCalls
  <2>2. OwnSlots'
    BY <1>2 DEF Ownership, OwnSlots
  <2> QED BY <2>1, <2>2, KeepOwn DEF Ownership
<1>3. CASE /\ ~Unwanted(e.slot) /\ Usable(cfg[e.slot].d, e.cb) /\ Decrement(e.slot)
           /\ IF e.cb = "sync" THEN SyncCb(e, a, r) ELSE AsyncCb(e, a, r)
  <2> DEFINE s0 == e.slot
             last == cfg[s0].f = 1
  <2>0. PICK c : c = cfg[s0].d
    OBVIOUS
  <2>1. c \in Call /\ c # NULL /\ Usable(c, e.cb)
    BY <1>1, <1>3, <2>0 DEF Unwanted, TInv, TypeOK, CFlag
  <2>2. /\ \A s \in Slot : s # s0 => cfg'[s] = cfg[s]
        /\ cfg'[s0].d = IF last THEN NULL ELSE c
    BY <1>1, <1>3, <2>0 DEF Decrement, Empty, TInv, TypeOK
  <2>3. \A k \in Kind : AddReply(c, a, k, r).st = carg[c].st
                        /\ AddReply(c, a, k, r).kind = carg[c].kind
    BY <2>1 DEF AddReply, TInv, TypeOK, Arg
  <2>4. /\ carg'[c].kind = carg[c].kind
        /\ carg'[c].st = (IF last /\ e.cb # "sync" THEN "dead" ELSE "live")
        /\ \A d \in Call : d # c => carg'[d] = carg[d]
        /\ req' \subseteq req
    <3>1. CASE e.cb = "sync"
      <4>1. carg' = [carg EXCEPT ![c] = AddReply(c, a, "sync", r)] /\ req' = req
        BY <1>3, <2>0, <3>1 DEF SyncCb
      <4> QED BY <3>1, <4>1, <2>1, <2>3 DEF Usable, Kind, TInv, TypeOK
    <3>2. CASE e.cb # "sync"
      <4>1. /\ req' \subseteq req
            /\ carg' = [carg EXCEPT ![c] = IF last THEN DeadArg("async")
                                           ELSE AddReply(c, a, "async", r)]
        BY <1>3, <2>0, <3>2 DEF AsyncCb
      <4>2. DeadArg("async").kind = "async" /\ DeadArg("async").st = "dead"
        BY DEF DeadArg, NoArg
      <4>3. e.cb = "async"
        BY <1>1, <3>2 DEF Kind
      <4> QED BY <4>1, <4>2, <4>3, <2>1, <2>3 DEF Usable, Kind, TInv, TypeOK
    <3> QED BY <3>1, <3>2
  <2>5. \A t \in Thread :
          /\ th'[t].call = th[t].call /\ th'[t].lua = th[t].lua /\ th'[t].slot = th[t].slot
          /\ th'[t].pc # "idle" => th[t].pc # "idle"
          /\ th[t].call # c \/ ~last => th'[t] = th[t]
    <3>1. th' = th \/ (last /\ Notify(c))
      BY <1>3, <2>0 DEF SyncCb, AsyncCb
    <3>2. CASE th' = th
      BY <3>2
    <3>3. CASE last /\ Notify(c)
      <4>1. \A t \in Thread :
              th'[t] = IF th[t].pc = "wait" /\ th[t].call = c
                       THEN [th[t] EXCEPT !.pc = "resume"] ELSE th[t]
        BY <3>3 DEF Notify
      <4>2. \A t \in Thread : th[t] \in Local
        BY DEF TInv, TypeOK
      <4> QED BY <3>3, <4>1, <4>2 DEF Local
    <3> QED BY <3>1, <3>2, <3>3
  <2>6. KeepsCalls
    <3>1. \A d \in Call : /\ carg'[d].st = "unused" <=> carg[d].st = "unused"
                          /\ carg'[d].kind = carg[d].kind
      BY <2>1, <2>4 DEF Usable
    <3>2. \A s \in Slot : cfg'[s].d \in {NULL, cfg[s].d}
      BY <2>0, <2>2
    <3> QED BY <1>1, <2>4, <2>5, <3>1, <3>2 DEF KeepsCalls
  <2>7. OwnSlots'
    <3> HIDE DEF e, last
    <3> SUFFICES ASSUME NEW s \in Slot, cfg'[s].d # NULL
                 PROVE  /\ carg'[cfg'[s].d].st = "live"
                        /\ \A u \in Slot : cfg'[u].d = cfg'[s].d => u = s
                        /\ carg'[cfg'[s].d].kind = "sync" =>
                             \E t \in Thread : /\ th'[t].pc \in {"wait", "timeout"}
                                               /\ th'[t].call = cfg'[s].d
                                               /\ th'[t].slot = s
      BY DEF OwnSlots
    <3>1. cfg'[s].d = cfg[s].d /\ cfg[s].d \in Call
      BY <2>0, <2>1, <2>2 DEF TInv, TypeOK, CFlag
    <3>2. s = s0 => ~last
      BY <2>2
    <3>3. s # s0 => cfg[s].d # c
      BY <1>1, <2>0, <2>1, <3>1 DEF Ownership, OwnSlots
    <3>4. \A u \in Slot : cfg'[u].d = cfg'[s].d => u = s
      BY <3>1, <2>0, <2>2 DEF Ownership, OwnSlots
    <3>5. carg'[cfg[s].d].st = "live" /\ carg'[cfg[s].d].kind = carg[cfg[s].d].kind
      BY <3>1, <3>2, <3>3, <2>0, <2>4 DEF Ownership, OwnSlots
    <3>6. ASSUME carg[cfg[s].d].kind = "sync"
          PROVE  \E t \in Thread : /\ th'[t].pc \in {"wait", "timeout"}
                                   /\ th'[t].call = cfg[s].d
                                   /\ th'[t].slot = s
      <4>1. PICK t \in Thread : /\ th[t].pc \in {"wait", "timeout"}
                                /\ th[t].call = cfg[s].d /\ th[t].slot = s
        BY <3>1, <3>6 DEF Ownership, OwnSlots
      <4> QED BY <4>1, <2>0, <2>5, <3>2, <3>3
    <3> QED BY <3>1, <3>4, <3>5, <3>6
  <2> QED BY <2>6, <2>7, KeepOwn DEF Ownership
<1> QED
  BY <1>2, <1>3 DEF RunCallback

(* AsynReqCheck::timeout_callback.                                         *)
LEMMA ExpireOwn ==
  ASSUME TInv, Ownership, NEW q \in req, Expire(q)
  PROVE  Ownership'
<1>0. q.slot \in Slot /\ UNCHANGED <<replies, th, ncall>> /\ req' \subseteq req
  BY PendingType DEF Expire, TInv
<1>1. CASE UNCHANGED <<cfg, carg>>
  <2>1. KeepsCalls
    BY <1>0, <1>1 DEF KeepsCalls, Pending
  <2>2. OwnSlots'
    BY <1>0, <1>1 DEF Ownership, OwnSlots
  <2> QED BY <2>1, <2>2, KeepOwn DEF Ownership
<1>2. CASE /\ ~Unwanted(q.slot) /\ Usable(cfg[q.slot].d, "async")
           /\ cfg' = [cfg EXCEPT ![q.slot] = Empty]
           /\ carg' = [carg EXCEPT ![cfg[q.slot].d] = DeadArg("async")]
  <2>0. PICK c : c = cfg[q.slot].d
    OBVIOUS
  <2>1. c \in Call /\ carg[c].st = "live" /\ carg[c].kind = "async"
    BY <1>0, <1>2, <2>0 DEF Unwanted, Usable, TInv, TypeOK, CFlag
  <2>2. DeadArg("async").kind = "async" /\ DeadArg("async").st = "dead"
    BY DEF DeadArg, NoArg
  <2>3. /\ carg'[c].kind = "async" /\ carg'[c].st = "dead"
        /\ \A d \in Call : d # c => carg'[d] = carg[d]
    BY <1>2, <2>0, <2>1, <2>2 DEF TInv, TypeOK
  <2>4. cfg'[q.slot].d = NULL /\ \A s \in Slot : s # q.slot => cfg'[s] = cfg[s]
    BY <1>0, <1>2 DEF TInv, TypeOK, Empty
  <2>5. KeepsCalls
    <3>1. \A d \in Call : /\ carg'[d].st = "unused" <=> carg[d].st = "unused"
                          /\ carg'[d].kind = carg[d].kind
      BY <2>1, <2>3
    <3>2. \A s \in Slot : cfg'[s].d \in {NULL, cfg[s].d}
      BY <2>4
    <3> QED BY <1>0, <3>1, <3>2 DEF KeepsCalls, Pending
  <2>6. OwnSlots'
    <3> SUFFICES ASSUME NEW s \in Slot, cfg'[s].d # NULL
                 PROVE  /\ carg'[cfg'[s].d].st = "live"
                        /\ \A u \in Slot : cfg'[u].d = cfg'[s].d => u = s
                        /\ carg'[cfg'[s].d].kind = "sync" =>
                             \E t \in Thread : /\ th[t].pc \in {"wait", "timeout"}
                                               /\ th[t].call = cfg'[s].d
                                               /\ th[t].slot = s
      BY <1>0 DEF OwnSlots
    <3>1. s # q.slot /\ cfg'[s] = cfg[s] /\ cfg[s].d \in Call
      BY <2>4 DEF TInv, TypeOK, CFlag
    <3>2. cfg[s].d # c
      BY <1>0, <2>0, <3>1 DEF Ownership, OwnSlots
    <3>3. carg'[cfg[s].d] = carg[cfg[s].d]
      BY <2>3, <3>1, <3>2
    <3>4. \A u \in Slot : cfg'[u].d = cfg[s].d => u = s
      BY <2>4, <3>1 DEF Ownership, OwnSlots
    <3> QED BY <3>1, <3>3, <3>4 DEF Ownership, OwnSlots
  <2> QED BY <2>5, <2>6, KeepOwn DEF Ownership
<1> QED
  BY <1>1, <1>2 DEF Expire

(* Every step under the calm load keeps Ownership.                         *)
LEMMA OwnershipStep == TInv /\ Ownership /\ [CalmNext]_vars => Ownership'
<1> SUFFICES ASSUME TInv, Ownership, [CalmNext]_vars PROVE Ownership'
  OBVIOUS
<1>1. ASSUME Quiet(NextIdx), Allocate PROVE Ownership'
  BY <1>1, CmdOwn, CmdRetryOwn, CmdAsyncOwn DEF Allocate
<1>2. CASE Waiters
  BY <1>2, CmdReturnOwn, WaitOwn DEF Waiters
<1>3. ASSUME UNCHANGED <<replies, cfg, req, carg, ncall, th>> PROVE Ownership'
  <2>1. KeepsCalls
    BY <1>3 DEF KeepsCalls, Pending
  <2>2. OwnSlots'
    BY <1>3 DEF Ownership, OwnSlots
  <2> QED BY <2>1, <2>2, KeepOwn DEF Ownership
<1>4. ASSUME NEW a \in Addr, ConnectOk(a) \/ ConnectFail(a) \/ Disconnect(a) \/ Cleanup(a)
      PROVE  Ownership'
  BY <1>3, <1>4 DEF ConnectOk, ConnectFail, Disconnect, Cleanup
<1>5. ASSUME NEW a \in Addr, NEW r, Reply(a, r) PROVE Ownership'
  BY <1>5, CallbackOwn DEF Reply
<1>6. ASSUME NEW a \in Addr, NullReply(a) PROVE Ownership'
  BY <1>6, CallbackOwn DEF NullReply
<1>7. CASE Loop
  BY <1>4, <1>5, <1>6, <1>7, ExpireOwn DEF Loop
<1>8. CASE UNCHANGED vars
  BY <1>3, <1>8 DEF vars
<1> QED
  BY <1>1, <1>2, <1>7, <1>8 DEF CalmNext

-----------------------------------------------------------------------------

(* The invariant the code relies on holds at every step of any number of   *)
(* threads, servers and slots (Ownership).                                 *)
THEOREM OwnershipCorrect == CalmSpec => []Ownership
<1>1. Init => TInv
  BY InitType
<1>2. Init => Ownership
  <2> SUFFICES ASSUME Init PROVE Ownership
    OBVIOUS
  <2>1. OwnReplies /\ OwnDeadlines /\ OwnSlots
    BY DEF Init, OwnReplies, OwnDeadlines, OwnSlots, Pending, Empty
  <2>2. OwnStacks
    BY DEF Init, OwnStacks, Idle
  <2>3. Fresh
    BY RedisEventAssumption DEF Init, Fresh, NoArg, Call, Again
  <2> QED BY <2>1, <2>2, <2>3 DEF Ownership
<1>3. TInv /\ [CalmNext]_vars => TInv'
  BY TypeStep
<1>4. TInv /\ Ownership /\ [CalmNext]_vars => Ownership'
  BY OwnershipStep
<1> QED
  BY <1>1, <1>2, <1>3, <1>4, PTL DEF CalmSpec

(* "check ok, can use cf->d() pointer" is true under the calm load: a      *)
(* callback finds in its slot its own call's argument, alive and of the    *)
(* type it casts to, or nothing (CanUseD).                                 *)
THEOREM CanUseDCorrect == CalmSpec => []CanUseD
<1>1. TypeOK /\ Ownership => CanUseD
  <2> SUFFICES ASSUME TypeOK, Ownership PROVE CanUseD
    OBVIOUS
  <2>1. ASSUME NEW a \in Addr, NEW e \in Pending(a), ~Unwanted(e.slot)
        PROVE  cfg[e.slot].d = e.call /\ Usable(e.call, e.cb)
    BY <2>1, PendingType DEF Unwanted, Ownership, OwnReplies, OwnSlots, Issued, Usable
  <2>2. ASSUME NEW q \in req, ~Unwanted(q.slot)
        PROVE  cfg[q.slot].d = q.call /\ Usable(q.call, "async")
    BY <2>2, PendingType DEF Unwanted, Ownership, OwnDeadlines, OwnSlots, Issued, Usable
  <2> QED BY <2>1, <2>2 DEF CanUseD, RepliesCanUseD, DeadlinesCanUseD
<1> QED
  BY <1>1, TypeCorrect, OwnershipCorrect, PTL
===============================================================================
