------------------------------ MODULE RedisEvent ------------------------------
(***************************************************************************)
(* The request multiplexer of src/RedisEvent.cpp: caller threads issue     *)
(* commands to several Redis servers at once, either blocking (cmd) or     *)
(* with a callback (cmd_async), and one event-loop thread connects, runs   *)
(* the reply callbacks and times out asynchronous calls.                   *)
(*                                                                         *)
(* mutex_ is held by a caller from get_cf to the end of its sends, and by  *)
(* the loop thread whenever it is not blocked in the kernel (l_acquire and *)
(* l_release), so each of those sections is one step.  Freeing a lost      *)
(* connection runs many callbacks under one hold of mutex_; it is split    *)
(* into steps and `freeing' stands for the mutex being held meanwhile.     *)
(*                                                                         *)
(* Abstractions: a command is only the server it goes to and whether it is *)
(* an EVALSHA; a reply is only its class; the stamp of an asynchronous     *)
(* call in AsynReqCheck::req_ is the identity of the call, and any entry   *)
(* may be the next one whose deadline has passed.                          *)
(***************************************************************************)
EXTENDS Integers, Sequences, FiniteSets

CONSTANTS Addr,          \* Redis servers: the keys of an addr_cmd map
          Thread,        \* threads that call RedisEvent::cmd
          CUR_CALL_NUM,  \* userdata_t::CUR_CALL_NUM, slots in cfg_
          MaxCalls,      \* bound: calls issued in a behaviour
          NULL

Slot == 0 .. CUR_CALL_NUM - 1

(* Identities of cmd_arg_t and cmd_async_arg_t objects.  cmd may call      *)
(* itself once, with a cmd_arg_t of its own: Again(c) for the call c.      *)
Call == 1 .. 2 * MaxCalls
Again(c) == MaxCalls + c

ASSUME RedisEventAssumption ==
  /\ CUR_CALL_NUM \in Nat \ {0}
  /\ MaxCalls \in Nat
  /\ IsFiniteSet(Addr)
  /\ NULL \notin Addr
  /\ NULL \notin Call

VARIABLES
  ctx,      \* userdata_t::ctxs_ with redisLibevEvents::status
  replies,  \* hiredis: callbacks waiting for a reply, one queue per connection
  freeing,  \* the server whose context the loop is freeing, or NULL
  idx,      \* userdata_t::idx_
  cfg,      \* userdata_t::cfg_, the cflag_t slots
  req,      \* AsynReqCheck::req_
  carg,     \* the call arguments the slots point to; `to' is not in the
            \* code: the servers the command was sent to
  ncall,    \* calls issued so far
  th        \* the threads inside RedisEvent::cmd

vars == <<ctx, replies, freeing, idx, cfg, req, carg, ncall, th>>

Kind  == {"sync", "async"}
Entry == [slot : Slot, call : Call, cb : Kind, sha : BOOLEAN]
CFlag == [f : Nat, d : Call \cup {NULL}]
Arg   == [st : {"unused", "live", "dead"}, kind : Kind,
          to : SUBSET Addr, rv : SUBSET Addr, nos : SUBSET Addr]
Local == [pc : {"idle", "wait", "timeout", "resume"}, call : Call \cup {NULL},
          slot : Slot, lua : BOOLEAN, tmo : BOOLEAN]

Empty == [f |-> 0, d |-> NULL]     \* cflag_t::reset
Idle  == [pc |-> "idle", call |-> NULL, slot |-> 0, lua |-> FALSE, tmo |-> FALSE]
NoArg == [st |-> "unused", kind |-> "sync", to |-> {}, rv |-> {}, nos |-> {}]
NewArg(kind, A)  == [NoArg EXCEPT !.st = "live", !.kind = kind, !.to = A]
DeadArg(kind)    == [NoArg EXCEPT !.st = "dead", !.kind = kind]

TypeOK ==
  /\ ctx \in [Addr -> {"none", "attach", "establish"}]
  /\ replies \in [Addr -> Seq(Entry)]
  /\ freeing \in Addr \cup {NULL}
  /\ idx \in 0 .. CUR_CALL_NUM
  /\ cfg \in [Slot -> CFlag]
  /\ req \subseteq [call : Call, slot : Slot]
  /\ carg \in [Call -> Arg]
  /\ ncall \in 0 .. MaxCalls
  /\ th \in [Thread -> Local]

(* The constructor leaves idx_ uninitialised.  CUR_CALL_NUM stands for     *)
(* every value it may hold outside the array.                              *)
Init ==
  /\ ctx = [a \in Addr |-> "none"]
  /\ replies = [a \in Addr |-> <<>>]
  /\ freeing = NULL
  /\ idx \in 0 .. CUR_CALL_NUM
  /\ cfg = [s \in Slot |-> Empty]
  /\ req = {}
  /\ carg = [c \in Call |-> NoArg]
  /\ ncall = 0
  /\ th = [t \in Thread |-> Idle]

(* The replies the server a owes, in no order.                             *)
Pending(a) == {replies[a][i] : i \in DOMAIN replies[a]}

-----------------------------------------------------------------------------
(* Issuing commands, with mutex_ held.                                     *)

(* userdata_t::get_cf                                                      *)
NextIdx == IF idx + 1 >= CUR_CALL_NUM THEN 0 ELSE idx + 1

(* The connections on which a command can be sent at once.                 *)
Ready(A) == {a \in A : ctx[a] = "establish"}

(* RedisEvent::connect for every server of A that has no context.  A       *)
(* context that hiredis cannot create (c->err) is not kept.                *)
Connect(A) ==
  \E K \in SUBSET {a \in A : ctx[a] = "none"} :
    ctx' = [a \in Addr |-> IF a \in K THEN "attach" ELSE ctx[a]]

(* redisAsyncCommandArgv on every ready connection of A.                   *)
Send(A, e) ==
  replies' = [a \in Addr |-> IF a \in Ready(A) THEN Append(replies[a], e)
                                               ELSE replies[a]]

(* Mutant: wsz counts the commands of addr_cmd, not the ones sent.         *)
SetFlagAll(A, s, c) ==
  cfg' = IF Ready(A) = {} THEN cfg
         ELSE [cfg EXCEPT ![s] = [f |-> Cardinality(A), d |-> c]]

(* cf->set_f(wsz), cf->set_d(carg): only when something was sent.          *)
SetFlag(A, s, c) ==
  cfg' = IF Ready(A) = {} THEN cfg
         ELSE [cfg EXCEPT ![s] = [f |-> Cardinality(Ready(A)), d |-> c]]

(* What cmd and cmd_async do under mutex_: take the next slot, connect     *)
(* where there is no connection, send where there is one.                  *)
Issue(A, c, cb, sha) ==
  /\ freeing = NULL
  /\ idx' = NextIdx
  /\ Connect(A)
  /\ Send(A, [slot |-> NextIdx, call |-> c, cb |-> cb, sha |-> sha])
  /\ SetFlag(A, NextIdx, c)
  /\ UNCHANGED freeing

(* RedisEvent::cmd up to the wait.  L: commands that are not sent, having  *)
(* ARGV_MAX_LEN arguments or more.  carg.mux is taken before mutex_ is     *)
(* released and given up only by the wait, so no callback can notify       *)
(* before the thread waits.                                                *)
Cmd(t, A, L, lua) ==
  /\ th[t].pc = "idle"
  /\ A # {}
  /\ ncall < MaxCalls
  /\ LET c == ncall + 1 IN
       /\ ncall' = c
       /\ Issue(A \ L, c, "sync", lua)
       /\ carg' = [carg EXCEPT ![c] = NewArg("sync", Ready(A \ L))]
       /\ th' = [th EXCEPT ![t] =
                   [pc   |-> IF Ready(A \ L) = {} THEN "resume" ELSE "wait",
                    call |-> c, slot |-> NextIdx, lua |-> lua, tmo |-> FALSE]]
  /\ UNCHANGED req

(* Mutant: iseval is forgotten, the retry is the same EVALSHA again.       *)
CmdRetrySha(t) ==
  LET c == th[t].call
      A == carg[c].nos
  IN
  /\ th[t].pc = "resume"
  /\ th[t].lua
  /\ A # {}
  /\ Issue(A, Again(c), "sync", TRUE)
  /\ carg' = [carg EXCEPT ![Again(c)] = NewArg("sync", Ready(A))]
  /\ th' = [th EXCEPT ![t] =
              [pc   |-> IF Ready(A) = {} THEN "resume" ELSE "wait",
               call |-> Again(c), slot |-> NextIdx, lua |-> TRUE, tmo |-> FALSE]]
  /\ UNCHANGED <<req, ncall>>

(* The end of RedisEvent::cmd when servers answered NOSCRIPT: the function *)
(* calls itself for those servers, as EVAL with the script's source.  EVAL *)
(* is never answered NOSCRIPT, so there is no third round.                 *)
CmdRetry(t) ==
  LET c == th[t].call
      A == carg[c].nos
  IN
  /\ th[t].pc = "resume"
  /\ th[t].lua
  /\ A # {}
  /\ Issue(A, Again(c), "sync", FALSE)
  /\ carg' = [carg EXCEPT ![Again(c)] = NewArg("sync", Ready(A))]
  /\ th' = [th EXCEPT ![t] =
              [pc   |-> IF Ready(A) = {} THEN "resume" ELSE "wait",
               call |-> Again(c), slot |-> NextIdx, lua |-> FALSE, tmo |-> FALSE]]
  /\ UNCHANGED <<req, ncall>>

(* RedisEvent::cmd returns: its cmd_arg_t, and that of the call it was     *)
(* made from, go out of scope.                                             *)
CmdReturn(t) ==
  LET c == th[t].call IN
  /\ th[t].pc = "resume"
  /\ ~(th[t].lua /\ carg[c].nos # {})
  /\ carg' = [d \in Call |-> IF d = c \/ Again(d) = c THEN DeadArg("sync") ELSE carg[d]]
  /\ th' = [th EXCEPT ![t] = Idle]
  /\ UNCHANGED <<ctx, replies, freeing, idx, cfg, req, ncall>>

(* RedisEvent::cmd_async.  The call is entered in req_check_ whether or    *)
(* not anything is sent; when nothing is, the callback runs at once.  The  *)
(* callback is given, and carg deleted after it ran.                       *)
CmdAsync(A, L) ==
  /\ A # {}
  /\ ncall < MaxCalls
  /\ LET c == ncall + 1 IN
       /\ ncall' = c
       /\ Issue(A \ L, c, "async", FALSE)
       /\ req' = req \cup {[call |-> c, slot |-> NextIdx]}
       /\ carg' = [carg EXCEPT ![c] =
                     IF Ready(A \ L) = {} THEN DeadArg("async")
                     ELSE NewArg("async", Ready(A \ L))]
  /\ UNCHANGED th

-----------------------------------------------------------------------------
(* The wait in RedisEvent::cmd.                                            *)

(* Mutant: wait in place of timed_wait.                                    *)
CmdTimeoutNever(t) ==
  /\ FALSE
  /\ UNCHANGED vars

(* Mutant: the waiter goes on without taking mutex_ to reset cf.           *)
CmdTimeoutNoReset(t) ==
  /\ th[t].pc = "wait"
  /\ th' = [th EXCEPT ![t].pc = "resume", ![t].tmo = TRUE]
  /\ UNCHANGED <<ctx, replies, freeing, idx, cfg, req, carg, ncall>>

(* timed_wait gives up.  carg.mux is released before mutex_ is requested.  *)
CmdTimeout(t) ==
  /\ th[t].pc = "wait"
  /\ th' = [th EXCEPT ![t].pc = "timeout", ![t].tmo = TRUE]
  /\ UNCHANGED <<ctx, replies, freeing, idx, cfg, req, carg, ncall>>

(* Mutant: cf->reset() is forgotten.                                       *)
CmdResetKeeps(t) ==
  /\ th[t].pc = "timeout"
  /\ freeing = NULL
  /\ th' = [th EXCEPT ![t].pc = "resume"]
  /\ UNCHANGED <<ctx, replies, freeing, idx, cfg, req, carg, ncall>>

(* if (is_timeout) cf->reset(), under mutex_.                              *)
CmdReset(t) ==
  /\ th[t].pc = "timeout"
  /\ freeing = NULL
  /\ cfg' = [cfg EXCEPT ![th[t].slot] = Empty]
  /\ th' = [th EXCEPT ![t].pc = "resume"]
  /\ UNCHANGED <<ctx, replies, freeing, idx, req, carg, ncall>>

(* timed_wait without a predicate may also return true though nobody       *)
(* called notify_one: is_timeout is then false and cf is not reset.        *)
SpuriousWake(t) ==
  /\ th[t].pc = "wait"
  /\ th' = [th EXCEPT ![t].pc = "resume"]
  /\ UNCHANGED <<ctx, replies, freeing, idx, cfg, req, carg, ncall>>

-----------------------------------------------------------------------------
(* The event loop.                                                         *)

(* connect_cb                                                              *)
ConnectOk(a) ==
  /\ freeing = NULL
  /\ ctx[a] = "attach"
  /\ ctx' = [ctx EXCEPT ![a] = "establish"]
  /\ UNCHANGED <<replies, freeing, idx, cfg, req, carg, ncall, th>>

(* connect_cb with an error; hiredis then frees the context and            *)
(* redisLibevCleanup removes it from ctxs_.                                *)
ConnectFail(a) ==
  /\ freeing = NULL
  /\ ctx[a] = "attach"
  /\ ctx' = [ctx EXCEPT ![a] = "none"]
  /\ UNCHANGED <<replies, freeing, idx, cfg, req, carg, ncall, th>>

(* carg->cond.notify_one(): wakes the thread if it is still waiting.       *)
Notify(c) ==
  th' = [t \in Thread |->
           IF th[t].pc = "wait" /\ th[t].call = c
           THEN [th[t] EXCEPT !.pc = "resume"] ELSE th[t]]

(* cf->f() == 0 || cf->d() == NULL: nobody is waiting for this reply.      *)
Unwanted(s) == cfg[s].f = 0 \/ cfg[s].d = NULL

(* The object cf->d() points to exists and has the type the callback cf    *)
(* belongs to casts it to.  Where it is not so the code has undefined      *)
(* behaviour, and the model has no step.                                   *)
Usable(c, kind) == carg[c].st = "live" /\ carg[c].kind = kind

(* redisrp_redisrvs and redisrp_redisrvs2: an error reply is a result only *)
(* of an asynchronous call; a null reply is never one.                     *)
AddReply(c, a, kind, r) ==
  [carg[c] EXCEPT
     !.rv  = IF r = "ok" \/ (kind = "async" /\ r # "null") THEN @ \cup {a} ELSE @,
     !.nos = IF kind = "sync" /\ r = "noscript" THEN @ \cup {a} ELSE @]

(* Mutant: cf->reset() is forgotten when the counter reaches 0.            *)
DecrementKeeps(s) ==
  cfg' = [cfg EXCEPT ![s] = [f |-> @.f - 1, d |-> @.d]]

(* cf->d_f(), and cf->reset() when it reaches 0.                           *)
Decrement(s) ==
  cfg' = [cfg EXCEPT ![s] = IF @.f = 1 THEN Empty ELSE [f |-> @.f - 1, d |-> @.d]]

(* Mutant: every reply notifies, not the last one only.                    *)
SyncCbEach(e, a, r) ==
  LET c == cfg[e.slot].d IN
  /\ carg' = [carg EXCEPT ![c] = AddReply(c, a, "sync", r)]
  /\ Notify(c)
  /\ UNCHANGED req

(* redis_cmd_cb                                                            *)
SyncCb(e, a, r) ==
  LET c == cfg[e.slot].d IN
  /\ carg' = [carg EXCEPT ![c] = AddReply(c, a, "sync", r)]
  /\ IF cfg[e.slot].f = 1 THEN Notify(c) ELSE UNCHANGED th
  /\ UNCHANGED req

(* Mutant: async_erase on every reply, not on the last one only.           *)
AsyncCbErase(e, a, r) ==
  LET c == cfg[e.slot].d IN
  /\ req' = req \ {[call |-> c, slot |-> e.slot]}
  /\ carg' = [carg EXCEPT ![c] = IF cfg[e.slot].f = 1 THEN DeadArg("async")
                                 ELSE AddReply(c, a, "async", r)]
  /\ UNCHANGED th

(* redis_cmd_async_cb                                                      *)
AsyncCb(e, a, r) ==
  LET c == cfg[e.slot].d IN
  /\ IF cfg[e.slot].f = 1
     THEN /\ req' = req \ {[call |-> c, slot |-> e.slot]}
          /\ carg' = [carg EXCEPT ![c] = DeadArg("async")]
     ELSE /\ carg' = [carg EXCEPT ![c] = AddReply(c, a, "async", r)]
          /\ UNCHANGED req
  /\ UNCHANGED th

(* hiredis runs the callback of the oldest command sent to a.              *)
RunCallback(a, r) ==
  LET e == Head(replies[a]) IN
  /\ replies' = [replies EXCEPT ![a] = Tail(@)]
  /\ \/ /\ Unwanted(e.slot)
        /\ UNCHANGED <<cfg, carg, th, req>>
     \/ /\ ~Unwanted(e.slot)
        /\ Usable(cfg[e.slot].d, e.cb)
        /\ Decrement(e.slot)
        /\ IF e.cb = "sync" THEN SyncCb(e, a, r) ELSE AsyncCb(e, a, r)

(* Redis answers NOSCRIPT to EVALSHA only.                                 *)
Reply(a, r) ==
  /\ freeing = NULL
  /\ replies[a] # <<>>
  /\ r = "noscript" => Head(replies[a]).sha
  /\ RunCallback(a, r)
  /\ UNCHANGED <<ctx, freeing, idx, ncall>>

(* A connection is lost.  hiredis answers every pending command with a     *)
(* null reply and then calls redisLibevCleanup.                            *)
Disconnect(a) ==
  /\ freeing = NULL
  /\ ctx[a] = "establish"
  /\ freeing' = a
  /\ UNCHANGED <<ctx, replies, idx, cfg, req, carg, ncall, th>>

NullReply(a) ==
  /\ freeing = a
  /\ replies[a] # <<>>
  /\ RunCallback(a, "null")
  /\ UNCHANGED <<ctx, freeing, idx, ncall>>

Cleanup(a) ==
  /\ freeing = a
  /\ replies[a] = <<>>
  /\ ctx' = [ctx EXCEPT ![a] = "none"]
  /\ freeing' = NULL
  /\ UNCHANGED <<replies, idx, cfg, req, carg, ncall, th>>

(* Mutant: the slot is freed and the callback is not run.                  *)
ExpireSilent(q) ==
  /\ freeing = NULL
  /\ q \in req
  /\ req' = req \ {q}
  /\ cfg' = [cfg EXCEPT ![q.slot] = IF Unwanted(q.slot) THEN @ ELSE Empty]
  /\ UNCHANGED <<carg, ctx, replies, freeing, idx, ncall, th>>

(* One entry of AsynReqCheck::timeout_callback, run by the periodic timer. *)
Expire(q) ==
  LET cf == cfg[q.slot] IN
  /\ freeing = NULL
  /\ q \in req
  /\ req' = req \ {q}
  /\ \/ /\ Unwanted(q.slot)
        /\ UNCHANGED <<cfg, carg>>
     \/ /\ ~Unwanted(q.slot)
        /\ Usable(cf.d, "async")
        /\ cfg' = [cfg EXCEPT ![q.slot] = Empty]
        /\ carg' = [carg EXCEPT ![cf.d] = DeadArg("async")]
  /\ UNCHANGED <<ctx, replies, freeing, idx, ncall, th>>

-----------------------------------------------------------------------------
(* The specifications.                                                     *)

Allocate ==
  \/ \E t \in Thread, A \in SUBSET Addr, lua \in BOOLEAN :
       \E L \in SUBSET A : Cmd(t, A, L, lua)
  \/ \E t \in Thread : CmdRetry(t)
  \/ \E A \in SUBSET Addr : \E L \in SUBSET A : CmdAsync(A, L)

Waiters == \E t \in Thread : CmdReturn(t) \/ CmdTimeout(t) \/ CmdReset(t)

Loop ==
  \/ \E a \in Addr :
       \/ ConnectOk(a) \/ ConnectFail(a)
       \/ \E r \in {"ok", "err", "noscript"} : Reply(a, r)
       \/ Disconnect(a) \/ NullReply(a) \/ Cleanup(a)
  \/ \E q \in req : Expire(q)

(* Nothing refers to slot s any more.                                      *)
Quiet(s) ==
  /\ cfg[s] = Empty
  /\ \A a \in Addr : \A e \in Pending(a) : e.slot # s
  /\ \A q \in req : q.slot # s
  /\ \A t \in Thread : th[t].pc \in {"wait", "timeout"} => th[t].slot # s

(* The load the slot table is made for: fewer than CUR_CALL_NUM calls are  *)
(* issued while a reply or a deadline is outstanding, so the slot get_cf   *)
(* returns is quiet; and the condition variable does not wake on its own.  *)
CalmNext == (Quiet(NextIdx) /\ Allocate) \/ Waiters \/ Loop

CalmSpec == Init /\ [][CalmNext]_vars

(* The same without the limit on the load.                                 *)
BusySpec == Init /\ [][Allocate \/ Waiters \/ Loop]_vars

(* The limited load, with a condition variable that may wake on its own.   *)
WakeSpec == Init /\ [][CalmNext \/ \E t \in Thread : SpuriousWake(t)]_vars

(* The loop thread runs as long as the process does, its periodic timer    *)
(* fires every 5 ms, the kernel ends every wait and every connect.  Only   *)
(* the answers of a server, and the arrival of calls, are not promised.    *)
Fairness ==
  /\ \A t \in Thread : WF_vars(CmdReturn(t)) /\ WF_vars(CmdTimeout(t))
                       /\ WF_vars(CmdReset(t))
                       /\ WF_vars(Quiet(NextIdx) /\ CmdRetry(t))
  /\ \A a \in Addr : WF_vars(NullReply(a)) /\ WF_vars(Cleanup(a))
  /\ WF_vars(\E q \in req : Expire(q))

FairCalmSpec == CalmSpec /\ Fairness

-----------------------------------------------------------------------------
(* Properties.                                                             *)

(* The servers from which the call c is still owed a reply through slot s. *)
Owed(s, c) ==
  {a \in Addr : \E e \in Pending(a) : e.slot = s /\ e.call = c}

(* "check ok, can use cf->d() pointer" (redis_cmd_cb, redis_cmd_async_cb): *)
(* whenever a reply is still to come through a slot that is in use, the    *)
(* slot holds the argument of the very call that reply belongs to, the     *)
(* argument still exists and has the type the callback casts it to.        *)
RepliesCanUseD ==
  \A a \in Addr : \A e \in Pending(a) :
    ~Unwanted(e.slot) => cfg[e.slot].d = e.call /\ Usable(e.call, e.cb)

(* The same of timeout_callback, whenever a deadline is still to pass.     *)
DeadlinesCanUseD ==
  \A q \in req :
    ~Unwanted(q.slot) => cfg[q.slot].d = q.call /\ Usable(q.call, "async")

(* Neither a reply nor a deadline takes the argument of another call, or   *)
(* one that is gone, for its own.                                          *)
CanUseD == RepliesCanUseD /\ DeadlinesCanUseD

(* What the code relies on for CanUseD, as an inductive invariant.         *)
(* Issued(c, k): the call c was issued, and is of kind k.                  *)
Issued(c, k) == carg[c].st # "unused" /\ carg[c].kind = k

(* A slot points to its own call or to nothing, seen from a pending reply  *)
(* and from a deadline in req_.                                            *)
OwnReplies ==
  \A a \in Addr : \A e \in Pending(a) :
    Issued(e.call, e.cb) /\ cfg[e.slot].d \in {NULL, e.call}

OwnDeadlines ==
  \A q \in req : Issued(q.call, "async") /\ cfg[q.slot].d \in {NULL, q.call}

(* A slot points to an argument that exists, no other slot points to it,   *)
(* and the argument of cmd is on the stack of a thread that has not yet    *)
(* left the wait.                                                          *)
OwnSlots ==
  \A s \in Slot :
    cfg[s].d # NULL =>
      /\ carg[cfg[s].d].st = "live"
      /\ \A u \in Slot : cfg[u].d = cfg[s].d => u = s
      /\ carg[cfg[s].d].kind = "sync" =>
           \E t \in Thread : /\ th[t].pc \in {"wait", "timeout"}
                             /\ th[t].call = cfg[s].d
                             /\ th[t].slot = s

(* The arguments on the stacks of two threads differ, those of a retry     *)
(* included, and a thread that may retry has not yet done so.              *)
OwnStacks ==
  \A t \in Thread :
    th[t].pc # "idle" =>
      /\ Issued(th[t].call, "sync")
      /\ th[t].lua => carg[Again(th[t].call)].st = "unused"
      /\ \A c \in Call : Again(c) = th[t].call => Issued(c, "sync")
      /\ \A u \in Thread \ {t} :
           th[u].pc # "idle" =>
             th[u].call # th[t].call /\ th[u].call # Again(th[t].call)

(* Calls are numbered as they are issued.                                  *)
Fresh ==
  \A c \in 1 .. MaxCalls :
    c > ncall => carg[c].st = "unused" /\ carg[Again(c)].st = "unused"

(* The slots, the threads' stacks, the queues of replies and the deadlines *)
(* agree on who owns which call.                                           *)
Ownership == OwnReplies /\ OwnDeadlines /\ OwnSlots /\ OwnStacks /\ Fresh

(* The counter of a slot in use (cf->f, set from wsz and decremented by    *)
(* redis_cmd_cb and redis_cmd_async_cb) is the number of servers that      *)
(* still owe a reply; each of them was sent the command, and none of them  *)
(* already has a result or a NOSCRIPT noted.                               *)
Accounted ==
  \A s \in Slot :
    ~Unwanted(s) =>
      LET c == cfg[s].d IN
      /\ cfg[s].f = Cardinality(Owed(s, c))
      /\ Owed(s, c) \subseteq carg[c].to \ (carg[c].rv \cup carg[c].nos)

(* RedisEvent::cmd goes on without a timeout only when no server owes it a *)
(* reply: each one answered or was disconnected.                           *)
CompleteUnlessTimeout ==
  \A t \in Thread :
    th[t].pc = "resume" /\ ~th[t].tmo => \A s \in Slot : Owed(s, th[t].call) = {}

(* A call of cmd_async whose callback has not run is reachable both from a *)
(* slot and from req_, so that a reply or the deadline will run it.        *)
AsyncTracked ==
  \A c \in Call :
    carg[c].st = "live" /\ carg[c].kind = "async" =>
      \E s \in Slot : cfg[s].d = c /\ [call |-> c, slot |-> s] \in req

(* What Accounted, CompleteUnlessTimeout and AsyncTracked rest on, as an   *)
(* inductive invariant together with Ownership.                            *)

(* A server owes one reply per call, which comes through the slot the call *)
(* has, and a server that owes one was asked and has not been heard of.    *)
OneReply ==
  \A a \in Addr : \A i, j \in DOMAIN replies[a] :
    replies[a][i].call = replies[a][j].call => i = j

OneSlot ==
  \A s \in Slot, a \in Addr : \A e \in Pending(a) : cfg[s].d = e.call => e.slot = s

Unheard ==
  \A a \in Addr : \A e \in Pending(a) :
    cfg[e.slot].d = e.call =>
      a \in carg[e.call].to \ (carg[e.call].rv \cup carg[e.call].nos)

(* cf->f counts them; it is 0 in the slots that are not in use.            *)
Counted ==
  \A s \in Slot : /\ cfg[s].d = NULL <=> cfg[s].f = 0
                  /\ cfg[s].d # NULL => cfg[s].f = Cardinality(Owed(s, cfg[s].d))

(* A thread that waits has its slot to itself; a call has one deadline.    *)
OwnWaits ==
  \A t \in Thread :
    /\ th[t].pc \in {"wait", "timeout"} => cfg[th[t].slot].d \in {NULL, th[t].call}
    /\ th[t].pc = "timeout" => th[t].tmo

OneDeadline == \A p, q \in req : p.call = q.call => p = q

(* The arguments on the stacks of threads inside cmd exist.                *)
LiveStacks ==
  \A t \in Thread :
    th[t].pc # "idle" =>
      \A c \in Call : th[t].call \in {c, Again(c)} => carg[c].st = "live"

Accounting ==
  /\ OneReply /\ OneSlot /\ Unheard /\ Counted
  /\ OwnWaits /\ OneDeadline /\ LiveStacks

(* Once a thread in RedisEvent::cmd is running again, the loop thread no   *)
(* longer writes its results: cmd reads them after the wait without a lock. *)
ResultFrozen ==
  [][\A t \in Thread :
       th[t].pc = "resume" /\ th'[t].pc = "resume"
         => carg'[th[t].call] = carg[th[t].call]]_vars

(* RedisEvent implements Gather: a reply is taken by the call it was sent  *)
(* for and by no other, once per server, and never after the call has been *)
(* closed by its last reply or by the end of its time; no thread returns   *)
(* with, and no callback is left with, a call that still collects.         *)
Collecting == {c \in Call : \E s \in Slot : cfg[s].d = c}
G == INSTANCE Gather WITH call <- carg, open <- Collecting
Gathered == G!Spec

(* The callback of every call of cmd_async runs, answered or not.          *)
AsyncCalledBack ==
  \A c \in Call :
    (carg[c].st = "live" /\ carg[c].kind = "async") ~> (carg[c].st = "dead")

(* Every call of RedisEvent::cmd returns, whatever the servers do.         *)
CmdReturns ==
  \A t \in Thread : (th[t].pc # "idle") ~> (th[t].pc = "idle")
===============================================================================
