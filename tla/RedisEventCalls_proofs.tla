------------------------- MODULE RedisEventCalls_proofs ------------------------
(***************************************************************************)
(* Proofs about the results of calls, for any number of servers, threads   *)
(* and slots under the calm load: the counter of a slot is the number of   *)
(* replies still owed, cmd goes on only with all of them or after a        *)
(* timeout, no callback of cmd_async is lost, results are not written once *)
(* they are read, and RedisEvent implements Gather.  Ownership, proved in  *)
(* RedisEvent_proofs, says whose a slot is; Accounting adds what the       *)
(* queues of replies and the counters have to do with it.                  *)
(***************************************************************************)
EXTENDS RedisEvent_proofs

-----------------------------------------------------------------------------
(* Queues.                                                                 *)

(* What a queue owes before and after its oldest entry has been answered:  *)
(* the same without that entry, whose call it does not owe twice.          *)
LEMMA TailOwes ==
  ASSUME TypeOK, OneReply, NEW a \in Addr, replies[a] # <<>>,
         replies' = [replies EXCEPT ![a] = Tail(@)]
  PROVE  /\ OneReply'
         /\ \A b \in Addr : \A e \in Pending(b)' :
              e \in Pending(b) /\ (b = a => e.call # Head(replies[a]).call)
         /\ \A b \in Addr : \A e \in Pending(b) :
              e \in Pending(b)' \/ (b = a /\ e = Head(replies[a]))
<1> DEFINE q == replies[a]
<1>1. q \in Seq(Entry) /\ q # <<>> /\ Len(q) \in Nat \ {0} /\ DOMAIN q = 1 .. Len(q)
  BY DEF TypeOK
<1>2. Tail(q) \in Seq(Entry) /\ Len(Tail(q)) = Len(q) - 1 /\ Head(q) = q[1]
      /\ DOMAIN Tail(q) = 1 .. Len(q) - 1
  BY <1>1
<1>3. \A i \in DOMAIN Tail(q) : i + 1 \in DOMAIN q /\ Tail(q)[i] = q[i + 1]
  BY <1>1, TailElement
<1>4. replies'[a] = Tail(q) /\ \A b \in Addr : b # a => replies'[b] = replies[b]
  BY DEF TypeOK
<1>5. \A i, j \in DOMAIN q : q[i].call = q[j].call => i = j
  BY DEF OneReply
<1> HIDE DEF q
<1>6. OneReply'
  <2> SUFFICES ASSUME NEW b \in Addr, NEW i \in DOMAIN replies'[b], NEW j \in DOMAIN replies'[b],
                      replies'[b][i].call = replies'[b][j].call
               PROVE  i = j
    BY DEF OneReply
  <2>1. CASE b # a
    BY <2>1, <1>4 DEF OneReply
  <2>2. CASE b = a
    <3>1. i \in DOMAIN Tail(q) /\ j \in DOMAIN Tail(q) /\ Tail(q)[i].call = Tail(q)[j].call
      BY <2>2, <1>4
    <3>2. i + 1 = j + 1
      BY <3>1, <1>3, <1>5
    <3> QED BY <3>1, <3>2, <1>2
  <2> QED BY <2>1, <2>2
<1>7. ASSUME NEW i \in DOMAIN Tail(q)
      PROVE  /\ \E k \in DOMAIN q : Tail(q)[i] = q[k]
             /\ Tail(q)[i].call # Head(q).call
  <2>1. i + 1 \in DOMAIN q /\ Tail(q)[i] = q[i + 1] /\ i + 1 # 1 /\ 1 \in DOMAIN q
    BY <1>1, <1>2, <1>3
  <2>2. q[i + 1].call # q[1].call
    BY <2>1, <1>5
  <2> QED BY <2>1, <2>2, <1>2
<1>8. ASSUME NEW k \in DOMAIN q, q[k] # Head(q)
      PROVE  \E i \in DOMAIN Tail(q) : Tail(q)[i] = q[k]
  <2>1. k # 1 /\ k - 1 \in DOMAIN Tail(q) /\ (k - 1) + 1 = k
    BY <1>1, <1>2, <1>8
  <2>2. Tail(q)[k - 1] = q[k]
    BY <2>1, <1>3
  <2> QED BY <2>1, <2>2
<1>9. Pending(a) = {q[i] : i \in DOMAIN q} /\ Pending(a)' = {Tail(q)[i] : i \in DOMAIN Tail(q)}
  BY <1>4 DEF Pending, q
<1>10. \A b \in Addr : b # a => Pending(b)' = Pending(b)
  BY <1>4 DEF Pending
<1>11. \A e \in Pending(a)' : e \in Pending(a) /\ e.call # Head(q).call
  BY <1>7, <1>9
<1>12. \A e \in Pending(a) : e \in Pending(a)' \/ e = Head(q)
  BY <1>8, <1>9
<1> QED
  BY <1>6, <1>10, <1>11, <1>12 DEF q

(* What the queues owe after a new call has been sent.                     *)
LEMMA SendOwes ==
  ASSUME TypeOK, OneReply, NEW A \in SUBSET Addr, NEW e0 \in Entry, Send(A, e0),
         \A a \in Addr : \A e \in Pending(a) : e.call # e0.call
  PROVE  /\ OneReply'
         /\ \A a \in Addr : Pending(a)' = IF a \in Ready(A) THEN Pending(a) \cup {e0}
                                          ELSE Pending(a)
<1>1. \A a \in Addr : replies'[a] = IF a \in Ready(A) THEN Append(replies[a], e0) ELSE replies[a]
  BY DEF Send
<1>2. ASSUME NEW a \in Addr, a \in Ready(A)
      PROVE  /\ \A i, j \in DOMAIN replies'[a] : replies'[a][i].call = replies'[a][j].call => i = j
             /\ Pending(a)' = Pending(a) \cup {e0}
  <2>1. PICK q : q = replies[a] /\ q \in Seq(Entry)
    BY DEF TypeOK
  <2>2. PICK r : r = replies'[a] /\ r = Append(q, e0)
    BY <1>1, <1>2, <2>1
  <2>3. /\ DOMAIN q = 1 .. Len(q) /\ Len(q) \in Nat /\ DOMAIN r = 1 .. Len(q) + 1
        /\ r[Len(q) + 1] = e0 /\ \A i \in 1 .. Len(q) : r[i] = q[i]
    BY <2>1, <2>2
  <2>4. \A i, j \in DOMAIN q : q[i].call = q[j].call => i = j
    BY <2>1 DEF OneReply
  <2>5. \A i \in DOMAIN q : q[i].call # e0.call
    BY <2>1 DEF Pending
  <2>6. \A i, j \in DOMAIN r : r[i].call = r[j].call => i = j
    <3> SUFFICES ASSUME NEW i \in DOMAIN r, NEW j \in DOMAIN r, r[i].call = r[j].call
                 PROVE  i = j
      OBVIOUS
    <3>1. CASE i \in DOMAIN q /\ j \in DOMAIN q
      BY <3>1, <2>3, <2>4
    <3>2. CASE i \notin DOMAIN q \/ j \notin DOMAIN q
      <4>1. i = Len(q) + 1 \/ j = Len(q) + 1
        BY <3>2, <2>3
      <4> QED BY <4>1, <2>3, <2>5
    <3> QED BY <3>1, <3>2
  <2>7. Pending(a) = {q[i] : i \in DOMAIN q} /\ Pending(a)' = {r[i] : i \in DOMAIN r}
    BY <2>1, <2>2 DEF Pending
  <2>8. {r[i] : i \in DOMAIN r} = {q[i] : i \in DOMAIN q} \cup {e0}
    BY <2>3
  <2> QED BY <2>2, <2>6, <2>7, <2>8
<1>3. ASSUME NEW a \in Addr, a \notin Ready(A)
      PROVE  /\ \A i, j \in DOMAIN replies'[a] : replies'[a][i].call = replies'[a][j].call => i = j
             /\ Pending(a)' = Pending(a)
  BY <1>1, <1>3 DEF OneReply, Pending
<1> QED
  BY <1>2, <1>3 DEF OneReply

-----------------------------------------------------------------------------
(* Accounting is inductive.                                                *)

(* What cmd, its retry and cmd_async do: besides Issuing, the argument is  *)
(* new, an asynchronous call gets its deadline, and the thread that asks   *)
(* waits if anything was sent.                                             *)
AskingAnew(A, c, cb, sha) ==
  /\ Issuing(A, c, cb, sha)
  /\ carg' = [carg EXCEPT ![c] = IF Ready(A) = {} /\ cb = "async" THEN DeadArg("async")
                                 ELSE NewArg(cb, Ready(A))]
  /\ req' = IF cb = "async" THEN req \cup {[call |-> c, slot |-> NextIdx]} ELSE req
  /\ \A t \in Thread :
       \/ th'[t] = th[t]
       \/ /\ th'[t].call = c /\ th'[t].slot = NextIdx /\ cb = "sync"
          /\ th'[t].pc = IF Ready(A) = {} THEN "resume" ELSE "wait"
          /\ \A d \in Call : Again(d) = c => carg[d].st = "live"

(* The servers that owe a reply after a step.                              *)
OwedThen(s, c) == {a \in Addr : \E e \in Pending(a)' : e.slot = s /\ e.call = c}

LEMMA CountedThen ==
  ASSUME \A s \in Slot : /\ cfg'[s].d = NULL <=> cfg'[s].f = 0
                         /\ cfg'[s].d # NULL => cfg'[s].f = Cardinality(OwedThen(s, cfg'[s].d))
  PROVE  Counted'
  BY DEF Counted, Owed, OwedThen

LEMMA AskAccounting ==
  ASSUME TypeOK, Ownership, Accounting, Quiet(NextIdx),
         NEW A \in SUBSET Addr, NEW c \in Call, NEW cb \in Kind, NEW sha \in BOOLEAN,
         AskingAnew(A, c, cb, sha)
  PROVE  Accounting'
<1> USE RedisEventAssumption DEF AskingAnew, Issuing
<1> DEFINE s0 == NextIdx
           e0 == [slot |-> s0, call |-> c, cb |-> cb, sha |-> sha]
<1>1. s0 \in Slot /\ e0 \in Entry /\ e0.slot = s0 /\ e0.call = c
  BY NextIdxSlot DEF Entry
<1>2. \A a \in Addr : \A e \in Pending(a) : e.slot \in Slot /\ e.call \in Call /\ e.call # c
  BY PendingType DEF Ownership, OwnReplies, Issued
<1>3. /\ OneReply'
      /\ \A a \in Addr : Pending(a)' = IF a \in Ready(A) THEN Pending(a) \cup {e0} ELSE Pending(a)
  <2>1. Send(A, e0)
    BY DEF Issue
  <2>2. OneReply /\ \A a \in Addr : \A e \in Pending(a) : e.call # e0.call
    BY <1>1, <1>2 DEF Accounting
  <2> HIDE DEF e0
  <2> QED BY <1>1, <2>1, <2>2, SendOwes
<1>4. cfg[s0] = Empty /\ cfg[s0].d = NULL /\ cfg[s0].f = 0
  BY DEF Quiet, Empty
<1>5. /\ \A s \in Slot : s # s0 => cfg'[s] = cfg[s]
      /\ Ready(A) = {} => cfg'[s0] = cfg[s0]
      /\ Ready(A) # {} => cfg'[s0].d = c /\ cfg'[s0].f = Cardinality(Ready(A))
  BY <1>1 DEF Issue, SetFlag, TypeOK
<1>6. \A s \in Slot : cfg[s].d # NULL => cfg[s].d \in Call /\ cfg[s].d # c
  BY DEF Ownership, OwnSlots, TypeOK, CFlag
<1>7. \A a \in Addr : \A e \in Pending(a) : e.slot # s0
  BY DEF Quiet
<1>8. \A d \in Call : d # c => carg'[d] = carg[d]
  OBVIOUS
<1>9. /\ Ready(A) # {} => carg'[c].to = Ready(A) /\ carg'[c].rv = {} /\ carg'[c].nos = {}
      /\ Ready(A) \subseteq Addr /\ c # NULL
      /\ cb = "sync" => carg'[c].st = "live"
  BY ReadyFinite DEF NewArg, NoArg, TypeOK
<1>h. /\ \A q \in req' : q \in req \/ q = [call |-> c, slot |-> s0]
      /\ \A t \in Thread : th'[t].pc \in {"wait", "timeout"} =>
           \/ th'[t] = th[t]
           \/ th'[t].pc = "wait" /\ th'[t].call = c /\ th'[t].slot = s0
  OBVIOUS
<1>q. \A t \in Thread : th[t].pc \in {"wait", "timeout"} => th[t].slot # s0 /\ th[t].slot \in Slot
  BY DEF Quiet, TypeOK, Local
<1> HIDE DEF s0, e0
<1>10. OneSlot'
  <2> SUFFICES ASSUME NEW s \in Slot, NEW a \in Addr, NEW e \in Pending(a)', cfg'[s].d = e.call
               PROVE  e.slot = s
    BY DEF OneSlot
  <2>1. CASE e = e0
    BY <2>1, <1>1, <1>4, <1>5, <1>6, <1>9
  <2>2. CASE e \in Pending(a)
    BY <2>2, <1>2, <1>4, <1>5, <1>9 DEF Accounting, OneSlot
  <2> QED BY <2>1, <2>2, <1>3
<1>11. Unheard'
  <2> SUFFICES ASSUME NEW a \in Addr, NEW e \in Pending(a)', cfg'[e.slot].d = e.call
               PROVE  a \in carg'[e.call].to \ (carg'[e.call].rv \cup carg'[e.call].nos)
    BY DEF Unheard
  <2>1. CASE e = e0
    BY <2>1, <1>1, <1>2, <1>3, <1>9
  <2>2. CASE e \in Pending(a)
    BY <2>2, <1>2, <1>5, <1>7, <1>8 DEF Accounting, Unheard
  <2> QED BY <2>1, <2>2, <1>3
<1>12. Counted'
  <2> SUFFICES ASSUME NEW s \in Slot
               PROVE  /\ cfg'[s].d = NULL <=> cfg'[s].f = 0
                      /\ cfg'[s].d # NULL => cfg'[s].f = Cardinality(OwedThen(s, cfg'[s].d))
    BY CountedThen
  <2>1. CASE s # s0 \/ Ready(A) = {}
    <3>1. cfg'[s] = cfg[s]
      BY <2>1, <1>5
    <3>2. ASSUME cfg[s].d # NULL PROVE OwedThen(s, cfg[s].d) = Owed(s, cfg[s].d)
      <4>1. s # s0 /\ cfg[s].d # c
        BY <2>1, <3>2, <1>4, <1>6
      <4>2. \A a \in Addr : \A e : e.slot = s => (e \in Pending(a)' <=> e \in Pending(a))
        BY <4>1, <1>1, <1>3
      <4> QED BY <4>2 DEF Owed, OwedThen
    <3> QED BY <3>1, <3>2 DEF Accounting, Counted
  <2>2. CASE s = s0 /\ Ready(A) # {}
    <3>1. OwedThen(s0, c) = Ready(A)
      <4>1. \A a \in Addr : (\E e \in Pending(a)' : e.slot = s0 /\ e.call = c) <=> a \in Ready(A)
        BY <1>1, <1>2, <1>3
      <4> QED BY <4>1, <1>9 DEF OwedThen
    <3>2. Cardinality(Ready(A)) \in Nat /\ Cardinality(Ready(A)) # 0
      BY <2>2, ReadyFinite, FS_EmptySet
    <3> QED BY <2>2, <3>1, <3>2, <1>5, <1>9
  <2> QED BY <2>1, <2>2
<1>13. OwnWaits'
  <2> SUFFICES ASSUME NEW t \in Thread
               PROVE  /\ th'[t].pc \in {"wait", "timeout"} =>
                           cfg'[th'[t].slot].d \in {NULL, th'[t].call}
                      /\ th'[t].pc = "timeout" => th'[t].tmo
    BY DEF OwnWaits
  <2>1. CASE th'[t].pc \in {"wait", "timeout"} /\ th'[t] = th[t]
    BY <2>1, <1>q, <1>5 DEF Accounting, OwnWaits
  <2>2. CASE th'[t].pc = "wait" /\ th'[t].call = c /\ th'[t].slot = s0
    BY <2>2, <1>4, <1>5
  <2> QED BY <2>1, <2>2, <1>h
<1>14. OneDeadline'
  <2>1. \A q \in req : q.call # c
    BY DEF Ownership, OwnDeadlines, Issued
  <2> QED BY <2>1, <1>h DEF Accounting, OneDeadline
<1>15. LiveStacks'
  <2> SUFFICES ASSUME NEW t \in Thread, th'[t].pc # "idle",
                      NEW d \in Call, th'[t].call \in {d, Again(d)}
               PROVE  carg'[d].st = "live"
    BY DEF LiveStacks
  <2>1. carg[c].st = "unused" /\ "unused" # "live"
    OBVIOUS
  <2>2. CASE th'[t] = th[t]
    <3>1. carg[d].st = "live"
      BY <2>2 DEF Accounting, LiveStacks
    <3> QED BY <2>1, <3>1, <1>8
  <2>3. CASE /\ th'[t].call = c /\ cb = "sync"
             /\ \A k \in Call : Again(k) = c => carg[k].st = "live"
    <3>1. CASE d = c
      BY <2>3, <3>1, <1>9
    <3>2. CASE d # c
      <4>1. Again(d) = c
        BY <2>3, <3>2
      <4>2. carg[d].st = "live"
        BY <2>3, <4>1
      <4> QED BY <3>2, <4>2, <1>8
    <3> QED BY <3>1, <3>2
  <2> QED BY <2>2, <2>3
<1> QED
  BY <1>3, <1>10, <1>11, <1>12, <1>13, <1>14, <1>15 DEF Accounting

(* A step that takes no reply, empties slots at most, leaves the arguments *)
(* it does not end, and makes nobody wait or go on without a timeout.      *)
Forgets ==
  /\ UNCHANGED replies /\ req' \subseteq req
  /\ \A s \in Slot : cfg'[s] \in {cfg[s], Empty}
  /\ \A s \in Slot : cfg'[s].d # NULL => carg'[cfg[s].d] = carg[cfg[s].d]
  /\ \A c \in Call : carg'[c].st = "live" =>
       /\ carg'[c] = carg[c]
       /\ carg[c].kind = "async" =>
            \A s \in Slot : cfg[s].d = c /\ [call |-> c, slot |-> s] \in req =>
                             cfg'[s] = cfg[s] /\ [call |-> c, slot |-> s] \in req'
  /\ \A t \in Thread : th'[t].pc # "idle" =>
       /\ th[t].pc # "idle" /\ th'[t].call = th[t].call
       /\ \A c \in Call : th[t].call \in {c, Again(c)} => carg'[c] = carg[c]
       /\ th'[t].pc \in {"wait", "timeout"} =>
            th[t].pc \in {"wait", "timeout"} /\ th'[t].slot = th[t].slot
       /\ th'[t].pc = "timeout" => th'[t].tmo
       /\ th'[t].pc = "resume" => th'[t] = th[t] \/ th'[t].tmo

LEMMA ForgetAccounting ==
  ASSUME TypeOK, Accounting, Forgets
  PROVE  Accounting'
<1> USE RedisEventAssumption
<1>1. \A a \in Addr : Pending(a)' = Pending(a)
  BY DEF Forgets, Pending
<1>2. \A s \in Slot : cfg'[s] = cfg[s] \/ (cfg'[s].d = NULL /\ cfg'[s].f = 0)
  <2> SUFFICES ASSUME NEW s \in Slot, cfg'[s] # cfg[s]
               PROVE  cfg'[s].d = NULL /\ cfg'[s].f = 0
    OBVIOUS
  <2>1. cfg'[s] = Empty
    BY DEF Forgets
  <2> QED BY <2>1 DEF Empty
<1>3. \A a \in Addr : \A e \in Pending(a) : e.slot \in Slot /\ e.call \in Call /\ e.call # NULL
  BY PendingType
<1>4. OneReply'
  BY DEF Forgets, Accounting, OneReply
<1>5. OneSlot'
  BY <1>1, <1>2, <1>3 DEF Accounting, OneSlot
<1>6. Unheard'
  BY <1>1, <1>2, <1>3 DEF Accounting, Unheard, Forgets
<1>7. Counted'
  <2>1. \A s, c : OwedThen(s, c) = Owed(s, c)
    BY <1>1 DEF Owed, OwedThen
  <2>2. \A s \in Slot : /\ cfg'[s].d = NULL <=> cfg'[s].f = 0
                        /\ cfg'[s].d # NULL => cfg'[s].f = Cardinality(OwedThen(s, cfg'[s].d))
    BY <1>2, <2>1 DEF Accounting, Counted
  <2> QED BY <2>2, CountedThen
<1>8. OwnWaits'
  <2>1. \A t \in Thread : th[t].slot \in Slot
    BY DEF TypeOK, Local
  <2> QED BY <1>2, <2>1 DEF Forgets, Accounting, OwnWaits
<1>9. OneDeadline'
  BY DEF Forgets, Accounting, OneDeadline
<1>10. LiveStacks'
  BY DEF Forgets, Accounting, LiveStacks
<1> QED
  BY <1>4, <1>5, <1>6, <1>7, <1>8, <1>9, <1>10 DEF Accounting

(* What a callback does that is wanted: it is for the call in the slot,    *)
(* whose argument it may only add the server to, and the last one ends     *)
(* the use of the slot.                                                    *)
LEMMA CallbackWanted ==
  ASSUME TInv, Ownership, Accounting, NEW a \in Addr, NEW r, replies[a] # <<>>,
         RunCallback(a, r), ncall' = ncall,
         NEW e, e = Head(replies[a]), ~ Unwanted(e.slot)
  PROVE  LET s == e.slot
             c == e.call
             last == cfg[s].f = 1
         IN /\ s \in Slot /\ c \in Call /\ c # NULL /\ cfg[s].d = c /\ carg[c].st = "live"
            /\ carg[c].kind = e.cb /\ e.cb \in Kind
            /\ a \in Owed(s, c) /\ a \in carg[c].to \ (carg[c].rv \cup carg[c].nos)
            /\ cfg[s].f \in Nat \ {0}
            /\ cfg'[s] = IF last THEN Empty ELSE [f |-> cfg[s].f - 1, d |-> c]
            /\ \A u \in Slot : u # s => cfg'[u] = cfg[u] /\ cfg[u].d # c
            /\ \A d \in Call : d # c => carg'[d] = carg[d]
            /\ IF e.cb = "async" /\ last
               THEN carg'[c] = DeadArg("async") /\ req' = req \ {[call |-> c, slot |-> s]}
               ELSE carg'[c] = AddReply(c, a, e.cb, r) /\ req' = req
            /\ IF e.cb = "sync" /\ last THEN Notify(c) ELSE th' = th
<1> USE RedisEventAssumption
<1>1. e \in Pending(a) /\ e \in Entry /\ e.slot \in Slot /\ e.call \in Call /\ e.cb \in Kind
  <2>1. replies' = [replies EXCEPT ![a] = Tail(@)] /\ TypeOK
    BY DEF RunCallback, TInv
  <2>2. e \in Pending(a)
    BY <2>1, TailPending
  <2> QED BY <2>1, <2>2, PendingType
<1>2. cfg[e.slot].d = e.call /\ carg[e.call].st = "live" /\ carg[e.call].kind = e.cb
      /\ cfg[e.slot].f # 0
  BY <1>1 DEF Unwanted, Ownership, OwnReplies, OwnSlots, Issued
<1>3. /\ Decrement(e.slot)
      /\ IF e.cb = "sync" THEN SyncCb(e, a, r) ELSE AsyncCb(e, a, r)
  BY DEF RunCallback
<1>4. a \in Owed(e.slot, e.call) /\ a \in carg[e.call].to \ (carg[e.call].rv \cup carg[e.call].nos)
  BY <1>1, <1>2 DEF Owed, Accounting, Unheard
<1>5. cfg[e.slot].f \in Nat \ {0}
  BY <1>1, <1>2 DEF TInv, TypeOK, CFlag
<1>6. /\ cfg'[e.slot] = IF cfg[e.slot].f = 1 THEN Empty ELSE [f |-> cfg[e.slot].f - 1, d |-> e.call]
      /\ \A u \in Slot : u # e.slot => cfg'[u] = cfg[u]
  BY <1>1, <1>2, <1>3 DEF Decrement, TInv, TypeOK
<1>7. \A u \in Slot : u # e.slot => cfg[u].d # e.call
  BY <1>1, <1>2 DEF Ownership, OwnSlots
<1>8. CASE e.cb = "sync"
  <2>1. /\ carg' = [carg EXCEPT ![e.call] = AddReply(e.call, a, "sync", r)] /\ req' = req
        /\ IF cfg[e.slot].f = 1 THEN Notify(e.call) ELSE th' = th
    BY <1>2, <1>3, <1>8 DEF SyncCb
  <2> QED BY <1>1, <1>2, <1>4, <1>5, <1>6, <1>7, <1>8, <2>1 DEF TInv, TypeOK
<1>9. CASE e.cb # "sync"
  <2>1. e.cb = "async"
    BY <1>1, <1>9 DEF Kind
  <2>2. /\ IF cfg[e.slot].f = 1
           THEN req' = req \ {[call |-> e.call, slot |-> e.slot]}
                /\ carg' = [carg EXCEPT ![e.call] = DeadArg("async")]
           ELSE carg' = [carg EXCEPT ![e.call] = AddReply(e.call, a, "async", r)] /\ req' = req
        /\ th' = th
    BY <1>2, <1>3, <2>1 DEF AsyncCb
  <2> QED BY <1>1, <1>2, <1>4, <1>5, <1>6, <1>7, <2>1, <2>2 DEF TInv, TypeOK
<1> QED
  BY <1>8, <1>9

(* An answer is noted as a result, as a missing script, or not at all.     *)
NotedNow(c, a) ==
  {carg[c], [carg[c] EXCEPT !.rv = @ \cup {a}], [carg[c] EXCEPT !.nos = @ \cup {a}]}

LEMMA AddReplyFields ==
  ASSUME TypeOK, NEW c \in Call, NEW a \in Addr, NEW k \in Kind, NEW r
  PROVE  LET v == AddReply(c, a, k, r)
         IN /\ v \in NotedNow(c, a)
            /\ v.st = carg[c].st /\ v.kind = carg[c].kind /\ v.to = carg[c].to
            /\ v.rv \subseteq carg[c].rv \cup {a} /\ v.nos \subseteq carg[c].nos \cup {a}
<1>1. carg[c] \in Arg
  BY DEF TypeOK
<1> DEFINE v == AddReply(c, a, k, r)
           x == IF r = "ok" \/ (k = "async" /\ r # "null") THEN carg[c].rv \cup {a} ELSE carg[c].rv
           y == IF k = "sync" /\ r = "noscript" THEN carg[c].nos \cup {a} ELSE carg[c].nos
<1>2. v = [st |-> carg[c].st, kind |-> carg[c].kind, to |-> carg[c].to, rv |-> x, nos |-> y]
  <2>1. v = [carg[c] EXCEPT !.rv = x, !.nos = y]
    BY DEF AddReply
  <2> HIDE DEF v, x, y
  <2> QED BY <1>1, <2>1 DEF Arg
<1>3. \/ x = carg[c].rv /\ y = carg[c].nos
      \/ x = carg[c].rv \cup {a} /\ y = carg[c].nos
      \/ x = carg[c].rv /\ y = carg[c].nos \cup {a}
  OBVIOUS
<1> HIDE DEF v, x, y
<1>4. v \in NotedNow(c, a)
  BY <1>1, <1>2, <1>3 DEF Arg, NotedNow
<1>5. /\ v.st = carg[c].st /\ v.kind = carg[c].kind /\ v.to = carg[c].to
      /\ v.rv \subseteq carg[c].rv \cup {a} /\ v.nos \subseteq carg[c].nos \cup {a}
  BY <1>2, <1>3
<1> QED
  BY <1>4, <1>5 DEF v

(* redis_cmd_cb and redis_cmd_async_cb.                                    *)
LEMMA CallbackAccounting ==
  ASSUME TInv, Ownership, Accounting, NEW a \in Addr, NEW r, replies[a] # <<>>,
         RunCallback(a, r), ncall' = ncall
  PROVE  Accounting'
<1> USE RedisEventAssumption
<1>0. PICK e : e = Head(replies[a])
  OBVIOUS
<1>1. e \in Pending(a) /\ e.slot \in Slot /\ e.call \in Call
  <2>1. replies' = [replies EXCEPT ![a] = Tail(@)] /\ TypeOK
    BY DEF RunCallback, TInv
  <2>2. e \in Pending(a)
    BY <1>0, <2>1, TailPending
  <2> QED BY <2>1, <2>2, PendingType
<1>2. /\ OneReply'
      /\ \A b \in Addr : \A f \in Pending(b)' : f \in Pending(b) /\ (b = a => f.call # e.call)
      /\ \A b \in Addr : \A f \in Pending(b) : f \in Pending(b)' \/ (b = a /\ f = e)
  <2>1. replies' = [replies EXCEPT ![a] = Tail(@)] /\ TypeOK /\ OneReply
    BY DEF RunCallback, TInv, Accounting
  <2> QED BY <1>0, <2>1, TailOwes
<1>3. \A b \in Addr : \A f \in Pending(b) : f.slot \in Slot /\ f.call \in Call /\ f.call # NULL
  BY PendingType DEF TInv
<1>4. \A c : \A s \in Slot : s # e.slot \/ c # e.call => OwedThen(s, c) = Owed(s, c)
  BY <1>2 DEF Owed, OwedThen
<1>5. CASE Unwanted(e.slot)
  <2>1. UNCHANGED <<cfg, carg, th, req>>
    BY <1>0, <1>5 DEF RunCallback
  <2>2. cfg[e.slot].d = NULL
    BY <1>1, <1>5 DEF Unwanted, Accounting, Counted
  <2>3. OneSlot'
    BY <1>2, <2>1 DEF Accounting, OneSlot
  <2>4. Unheard'
    BY <1>2, <2>1 DEF Accounting, Unheard
  <2>5. Counted'
    <3>1. \A s \in Slot : /\ cfg'[s].d = NULL <=> cfg'[s].f = 0
                          /\ cfg'[s].d # NULL => cfg'[s].f = Cardinality(OwedThen(s, cfg'[s].d))
      BY <1>4, <2>1, <2>2 DEF Accounting, Counted
    <3> QED BY <3>1, CountedThen
  <2>6. OwnWaits' /\ OneDeadline' /\ LiveStacks'
    BY <2>1 DEF Accounting, OwnWaits, OneDeadline, LiveStacks
  <2> QED BY <1>2, <2>3, <2>4, <2>5, <2>6 DEF Accounting
<1>6. CASE ~ Unwanted(e.slot)
  <2> DEFINE s0 == e.slot
             c == e.call
             n == cfg[s0].f
  <2>1. /\ cfg[s0].d = c /\ c # NULL /\ carg[c].kind = e.cb /\ e.cb \in Kind
        /\ a \in Owed(s0, c)
        /\ n \in Nat \ {0}
        /\ cfg'[s0] = IF n = 1 THEN Empty ELSE [f |-> n - 1, d |-> c]
        /\ \A u \in Slot : u # s0 => cfg'[u] = cfg[u] /\ cfg[u].d # c
        /\ \A d \in Call : d # c => carg'[d] = carg[d]
        /\ n # 1 => carg'[c] = AddReply(c, a, e.cb, r)
        /\ req' \subseteq req
        /\ Notify(c) \/ th' = th
    BY <1>0, <1>6, CallbackWanted
  <2>2. /\ n = 1 => cfg'[s0].d = NULL /\ cfg'[s0].f = 0
        /\ n # 1 => cfg'[s0].d = c /\ cfg'[s0].f = n - 1
    BY <2>1 DEF Empty
  <2>3. n # 1 => /\ carg'[c].to = carg[c].to
                 /\ carg'[c].rv \subseteq carg[c].rv \cup {a}
                 /\ carg'[c].nos \subseteq carg[c].nos \cup {a}
    BY <1>1, <2>1, AddReplyFields DEF TInv
  <2>4. \A t \in Thread : /\ th'[t].call = th[t].call /\ th'[t].slot = th[t].slot
                          /\ th'[t].tmo = th[t].tmo
                          /\ th'[t].pc = th[t].pc \/ (th[t].pc = "wait" /\ th'[t].pc = "resume")
                          /\ th[t] \in Local
    <3>1. \A t \in Thread : th'[t] = th[t] \/ (th[t].pc = "wait" /\ th'[t] = [th[t] EXCEPT !.pc = "resume"])
      BY <2>1 DEF Notify
    <3>2. \A t \in Thread : th[t] \in Local
      BY DEF TInv, TypeOK
    <3> TAKE t \in Thread
    <3>3. CASE th'[t] = th[t]
      BY <3>2, <3>3
    <3>4. CASE th[t].pc = "wait" /\ th'[t] = [th[t] EXCEPT !.pc = "resume"]
      BY <3>2, <3>4 DEF Local
    <3> QED BY <3>1, <3>3, <3>4
  <2> HIDE DEF s0, c, n
  <2>5. \A s \in Slot : cfg'[s].d # NULL => cfg'[s].d = cfg[s].d
    BY <1>1, <2>1, <2>2 DEF s0
  <2>6. OneSlot'
    BY <1>2, <1>3, <2>5 DEF Accounting, OneSlot
  <2>7. Unheard'
    <3> SUFFICES ASSUME NEW b \in Addr, NEW f \in Pending(b)', cfg'[f.slot].d = f.call
                 PROVE  b \in carg'[f.call].to \ (carg'[f.call].rv \cup carg'[f.call].nos)
      BY DEF Unheard
    <3>1. /\ f \in Pending(b) /\ f.slot \in Slot /\ f.call \in Call /\ f.call # NULL
          /\ b = a => f.call # c
      BY <1>2, <1>3 DEF c
    <3>2. /\ cfg[f.slot].d = f.call
          /\ b \in carg[f.call].to \ (carg[f.call].rv \cup carg[f.call].nos)
      BY <2>5, <3>1 DEF Accounting, Unheard
    <3>3. CASE f.call = c
      <4>1. f.slot = s0 /\ n # 1 /\ b # a
        BY <1>1, <2>1, <2>2, <3>1, <3>2, <3>3 DEF s0
      <4> QED BY <2>3, <3>2, <3>3, <4>1
    <3>4. CASE f.call # c
      BY <2>1, <3>1, <3>2, <3>4
    <3> QED BY <3>3, <3>4
  <2>8. Counted'
    <3> SUFFICES ASSUME NEW s \in Slot
                 PROVE  /\ cfg'[s].d = NULL <=> cfg'[s].f = 0
                        /\ cfg'[s].d # NULL => cfg'[s].f = Cardinality(OwedThen(s, cfg'[s].d))
      BY CountedThen
    <3>1. CASE s # s0
      BY <1>4, <2>1, <3>1 DEF Accounting, Counted, s0
    <3>2. CASE s = s0 /\ n = 1
      BY <2>2, <3>2
    <3>3. CASE s = s0 /\ n # 1
      <4>1. OwedThen(s0, c) = Owed(s0, c) \ {a}
        <5>1. \A b \in Addr : b # a =>
                ((\E f \in Pending(b)' : f.slot = s0 /\ f.call = c)
                   <=> (\E f \in Pending(b) : f.slot = s0 /\ f.call = c))
          BY <1>2
        <5>2. ~ \E f \in Pending(a)' : f.slot = s0 /\ f.call = c
          BY <1>2 DEF c
        <5> QED BY <5>1, <5>2 DEF Owed, OwedThen
      <4>2. IsFiniteSet(Owed(s0, c))
        <5>1. Owed(s0, c) \subseteq Addr
          BY DEF Owed
        <5> QED BY <5>1, FS_Subset
      <4>3. n = Cardinality(Owed(s0, c))
        BY <1>1, <2>1 DEF Accounting, Counted, s0, n
      <4>4. Cardinality(Owed(s0, c) \ {a}) = n - 1
        BY <2>1, <4>2, <4>3, FS_RemoveElement
      <4>5. n - 1 # 0
        BY <2>1, <3>3
      <4> QED BY <2>1, <2>2, <3>3, <4>1, <4>4, <4>5
    <3> QED BY <3>1, <3>2, <3>3
  <2>9. OwnWaits'
    <3> SUFFICES ASSUME NEW t \in Thread
                 PROVE  /\ th'[t].pc \in {"wait", "timeout"} =>
                             cfg'[th'[t].slot].d \in {NULL, th'[t].call}
                        /\ th'[t].pc = "timeout" => th'[t].tmo
      BY DEF OwnWaits
    <3>1. th[t].slot \in Slot
      BY <2>4 DEF Local
    <3> QED BY <2>4, <2>5, <3>1 DEF Accounting, OwnWaits
  <2>10. OneDeadline'
    BY <2>1 DEF Accounting, OneDeadline
  <2>11. LiveStacks'
    <3> SUFFICES ASSUME NEW t \in Thread, th'[t].pc # "idle",
                        NEW d \in Call, th'[t].call \in {d, Again(d)}
                 PROVE  carg'[d].st = "live"
      BY DEF LiveStacks
    <3>1. th[t].pc # "idle" /\ th[t].call = th'[t].call
      BY <2>4
    <3>2. carg[d].st = "live" /\ carg[d].kind = "sync"
      BY <3>1 DEF Accounting, LiveStacks, Ownership, OwnStacks, Issued
    <3>3. CASE d = c
      <4>1. carg'[c].st = carg[c].st
        BY <1>0, <1>1, <1>6, <2>1, <3>2, <3>3, CallbackWanted, AddReplyFields DEF c, s0, n, TInv
      <4> QED BY <3>2, <3>3, <4>1
    <3>4. CASE d # c
      BY <2>1, <3>2, <3>4
    <3> QED BY <3>3, <3>4
  <2> QED BY <1>2, <2>6, <2>7, <2>8, <2>9, <2>10, <2>11 DEF Accounting
<1> QED
  BY <1>5, <1>6

(* cmd, its retry and cmd_async ask anew.                                  *)
LEMMA AllocateAsks ==
  ASSUME TInv, Ownership, Accounting, Allocate
  PROVE  \E A \in SUBSET Addr, c \in Call, cb \in Kind, sha \in BOOLEAN : AskingAnew(A, c, cb, sha)
<1> USE RedisEventAssumption
<1>1. ASSUME NEW t \in Thread, NEW A \in SUBSET Addr, NEW L \in SUBSET A,
             NEW lua \in BOOLEAN, Cmd(t, A, L, lua)
      PROVE  AskingAnew(A \ L, ncall + 1, "sync", lua) /\ ncall + 1 \in Call
  <2> DEFINE c == ncall + 1
             B == A \ L
  <2>1. /\ Issue(B, c, "sync", lua) /\ carg' = [carg EXCEPT ![c] = NewArg("sync", Ready(B))]
        /\ th[t].pc = "idle" /\ ncall < MaxCalls /\ req' = req
        /\ th' = [th EXCEPT ![t] =
                    [pc   |-> IF Ready(B) = {} THEN "resume" ELSE "wait",
                     call |-> c, slot |-> NextIdx, lua |-> lua, tmo |-> FALSE]]
    BY <1>1 DEF Cmd
  <2>2. c \in 1 .. MaxCalls /\ c \in Call /\ ncall \in Nat /\ \A d \in Call : Again(d) # c
    BY <2>1 DEF TInv, TypeOK, Call, Again
  <2>3. carg[c].st = "unused"
    BY <2>2 DEF Ownership, Fresh
  <2> HIDE DEF c, B
  <2>4. /\ th'[t].pc = (IF Ready(B) = {} THEN "resume" ELSE "wait")
        /\ th'[t].call = c /\ th'[t].slot = NextIdx
        /\ \A u \in Thread : u # t => th'[u] = th[u]
    BY <2>1 DEF TInv, TypeOK
  <2>5. /\ carg'[c].kind = "sync" /\ carg'[c].st = "live"
        /\ \A d \in Call : d # c => carg'[d] = carg[d]
    BY <2>1, <2>2 DEF NewArg, NoArg, TInv, TypeOK
  <2>6. Issuing(B, c, "sync", lua)
    BY <2>1, <2>3, <2>4, <2>5 DEF Issuing
  <2>7. AskingAnew(B, c, "sync", lua)
    BY <2>1, <2>2, <2>4, <2>6 DEF AskingAnew
  <2> QED BY <2>2, <2>7 DEF B, c
<1>2. ASSUME NEW t \in Thread, CmdRetry(t)
      PROVE  /\ AskingAnew(carg[th[t].call].nos, Again(th[t].call), "sync", FALSE)
             /\ Again(th[t].call) \in Call /\ carg[th[t].call].nos \in SUBSET Addr
  <2> DEFINE b == th[t].call
             c == Again(b)
             B == carg[b].nos
  <2>1. /\ th[t].pc = "resume" /\ th[t].lua
        /\ Issue(B, c, "sync", FALSE) /\ carg' = [carg EXCEPT ![c] = NewArg("sync", Ready(B))]
        /\ req' = req
        /\ th' = [th EXCEPT ![t] =
                    [pc   |-> IF Ready(B) = {} THEN "resume" ELSE "wait",
                     call |-> c, slot |-> NextIdx, lua |-> FALSE, tmo |-> FALSE]]
    BY <1>2 DEF CmdRetry
  <2>2. b \in 1 .. MaxCalls /\ b \in Call /\ c \in Call /\ \A d \in Call : Again(d) = c => d = b
    BY <2>1 DEF TInv, CallOK, Call, Again
  <2>3. carg[c].st = "unused" /\ B \in SUBSET Addr
    BY <2>1, <2>2 DEF Ownership, OwnStacks, TInv, TypeOK, Arg
  <2>4. carg[b].st = "live"
    BY <2>1, <2>2 DEF Accounting, LiveStacks
  <2> HIDE DEF b, c, B
  <2>5. /\ th'[t].pc = (IF Ready(B) = {} THEN "resume" ELSE "wait")
        /\ th'[t].call = c /\ th'[t].slot = NextIdx
        /\ \A u \in Thread : u # t => th'[u] = th[u]
    BY <2>1 DEF TInv, TypeOK
  <2>6. /\ carg'[c].kind = "sync" /\ carg'[c].st = "live"
        /\ \A d \in Call : d # c => carg'[d] = carg[d]
    BY <2>1, <2>2 DEF NewArg, NoArg, TInv, TypeOK
  <2>7. Issuing(B, c, "sync", FALSE)
    BY <2>1, <2>3, <2>5, <2>6 DEF Issuing
  <2>8. AskingAnew(B, c, "sync", FALSE)
    BY <2>1, <2>2, <2>4, <2>5, <2>7 DEF AskingAnew
  <2> QED BY <2>2, <2>3, <2>8 DEF b, c, B
<1>3. ASSUME NEW A \in SUBSET Addr, NEW L \in SUBSET A, CmdAsync(A, L)
      PROVE  AskingAnew(A \ L, ncall + 1, "async", FALSE) /\ ncall + 1 \in Call
  <2> DEFINE c == ncall + 1
             B == A \ L
             v == IF Ready(B) = {} THEN DeadArg("async") ELSE NewArg("async", Ready(B))
  <2>1. /\ Issue(B, c, "async", FALSE) /\ carg' = [carg EXCEPT ![c] = v]
        /\ ncall < MaxCalls /\ th' = th
        /\ req' = req \cup {[call |-> c, slot |-> NextIdx]}
    BY <1>3 DEF CmdAsync
  <2>2. c \in 1 .. MaxCalls /\ c \in Call /\ ncall \in Nat
    BY <2>1 DEF TInv, TypeOK, Call
  <2>3. carg[c].st = "unused"
    BY <2>2 DEF Ownership, Fresh
  <2>4. v.kind = "async" /\ v.st # "unused" /\ (Ready(B) # {} => v.st = "live")
    BY DEF NewArg, DeadArg, NoArg
  <2> HIDE DEF c, B
  <2>5. carg'[c] = v /\ \A d \in Call : d # c => carg'[d] = carg[d]
    BY <2>1, <2>2 DEF TInv, TypeOK
  <2>6. Issuing(B, c, "async", FALSE)
    <3> HIDE DEF v
    <3> QED BY <2>1, <2>3, <2>4, <2>5 DEF Issuing
  <2>7. AskingAnew(B, c, "async", FALSE)
    BY <2>1, <2>6 DEF AskingAnew
  <2> QED BY <2>2, <2>7 DEF B, c
<1>4. "sync" \in Kind /\ "async" \in Kind
  BY DEF Kind
<1>5. CASE \E t \in Thread, A \in SUBSET Addr, lua \in BOOLEAN :
             \E L \in SUBSET A : Cmd(t, A, L, lua)
  <2>1. PICK t \in Thread, A \in SUBSET Addr, lua \in BOOLEAN :
          \E L \in SUBSET A : Cmd(t, A, L, lua)
    BY <1>5
  <2>2. PICK L \in SUBSET A : Cmd(t, A, L, lua)
    BY <2>1
  <2>3. A \ L \in SUBSET Addr
    OBVIOUS
  <2>4. AskingAnew(A \ L, ncall + 1, "sync", lua) /\ ncall + 1 \in Call /\ lua \in BOOLEAN
    BY <1>1, <2>2
  <2> QED BY <1>4, <2>3, <2>4, Zenon
<1>6. CASE \E t \in Thread : CmdRetry(t)
  BY <1>2, <1>4, <1>6
<1>7. CASE \E A \in SUBSET Addr : \E L \in SUBSET A : CmdAsync(A, L)
  <2>1. PICK A \in SUBSET Addr : \E L \in SUBSET A : CmdAsync(A, L)
    BY <1>7
  <2>2. PICK L \in SUBSET A : CmdAsync(A, L)
    BY <2>1
  <2>3. A \ L \in SUBSET Addr
    OBVIOUS
  <2> QED BY <1>3, <1>4, <2>2, <2>3
<1> QED
  BY <1>5, <1>6, <1>7 DEF Allocate

(* No slot holds the arguments of a thread that returns from cmd.          *)
LEMMA ReturnUnheld ==
  ASSUME TInv, Ownership, NEW t \in Thread, th[t].pc = "resume",
         NEW d \in Call, th[t].call \in {d, Again(d)}, NEW s \in Slot
  PROVE  cfg[s].d # d
<1> SUFFICES ASSUME cfg[s].d = d PROVE FALSE
  OBVIOUS
<1>1. d # NULL /\ Issued(d, "sync")
  BY RedisEventAssumption DEF Ownership, OwnStacks
<1>2. PICK u \in Thread : th[u].pc \in {"wait", "timeout"} /\ th[u].call = d
  BY <1>1 DEF Ownership, OwnSlots, Issued
<1>3. u # t /\ th[u].pc # "idle"
  BY <1>2
<1>4. th[t].call # th[u].call /\ th[t].call # Again(th[u].call)
  BY <1>3 DEF Ownership, OwnStacks
<1> QED
  BY <1>2, <1>4

(* The end of cmd.                                                         *)
LEMMA ReturnForgets ==
  ASSUME TInv, Ownership, Accounting, NEW t \in Thread, CmdReturn(t)
  PROVE  Forgets
<1> DEFINE c == th[t].call
<1>1. /\ th[t].pc = "resume" /\ th' = [th EXCEPT ![t] = Idle]
      /\ carg' = [d \in Call |-> IF d = c \/ Again(d) = c THEN DeadArg("sync") ELSE carg[d]]
      /\ UNCHANGED <<replies, cfg, req>>
  BY DEF CmdReturn
<1>2. \A s \in Slot : cfg[s].d # NULL => carg'[cfg[s].d] = carg[cfg[s].d]
  <2> SUFFICES ASSUME NEW s \in Slot, cfg[s].d # NULL
               PROVE  carg'[cfg[s].d] = carg[cfg[s].d]
    OBVIOUS
  <2>1. cfg[s].d \in Call
    BY DEF TInv, TypeOK, CFlag
  <2>2. c # cfg[s].d /\ c # Again(cfg[s].d)
    BY <1>1, <2>1, ReturnUnheld
  <2> QED BY <1>1, <2>1, <2>2
<1>3. DeadArg("sync").st = "dead"
  BY DEF DeadArg, NoArg
<1>4. \A d \in Call : carg'[d].st = "live" => carg'[d] = carg[d]
  BY <1>1, <1>3
<1>5. \A u \in Thread : th'[u].pc # "idle" =>
        /\ u # t /\ th'[u] = th[u]
        /\ \A d \in Call : th[u].call \in {d, Again(d)} => carg'[d] = carg[d]
  <2> SUFFICES ASSUME NEW u \in Thread, th'[u].pc # "idle"
               PROVE  /\ u # t /\ th'[u] = th[u]
                      /\ \A d \in Call : th[u].call \in {d, Again(d)} => carg'[d] = carg[d]
    OBVIOUS
  <2>1. u # t /\ th'[u] = th[u] /\ th[t].pc # "idle"
    BY <1>1 DEF TInv, TypeOK, Idle
  <2>2. /\ th[u].call # c /\ th[u].call # Again(c) /\ c # Again(th[u].call)
    BY <2>1 DEF Ownership, OwnStacks
  <2>3. \A d \in Call : th[u].call = Again(d) /\ Again(d) = c => FALSE
    BY <2>2
  <2>4. \A d \in Call : th[u].call \in {d, Again(d)} => d # c /\ Again(d) # c
    BY <2>2
  <2> QED BY <1>1, <2>1, <2>4
<1>6. \A u \in Thread : th'[u].pc = "timeout" => th'[u].tmo
  BY <1>5 DEF Accounting, OwnWaits
<1> QED
  BY <1>1, <1>2, <1>4, <1>5, <1>6 DEF Forgets

(* The end of the wait by a timeout, and the reset of cf.                  *)
LEMMA WaitForgets ==
  ASSUME TInv, Ownership, Accounting, NEW t \in Thread, CmdTimeout(t) \/ CmdReset(t)
  PROVE  Forgets
<1> DEFINE s0 == th[t].slot
<1>1. /\ UNCHANGED <<replies, req, carg>>
      /\ \/ cfg' = cfg /\ th[t].pc = "wait"
            /\ th' = [th EXCEPT ![t].pc = "timeout", ![t].tmo = TRUE]
         \/ cfg' = [cfg EXCEPT ![s0] = Empty] /\ th[t].pc = "timeout"
            /\ th' = [th EXCEPT ![t].pc = "resume"]
  BY DEF CmdTimeout, CmdReset
<1>2. th[t] \in Local /\ s0 \in Slot /\ th \in [Thread -> Local] /\ cfg \in [Slot -> CFlag]
  BY DEF TInv, TypeOK, Local
<1>3. /\ th[t].pc \in {"wait", "timeout"} => cfg[s0].d \in {NULL, th[t].call}
      /\ th[t].pc = "timeout" => th[t].tmo
  BY DEF Accounting, OwnWaits
<1>4. \A u \in Thread : u # t => th'[u] = th[u]
  BY <1>1, <1>2
<1>5. /\ th'[t].call = th[t].call /\ th'[t].slot = s0 /\ th[t].pc # "idle"
      /\ th[t].pc \in {"wait", "timeout"} /\ th'[t].tmo
  BY <1>1, <1>2, <1>3 DEF Local
<1>6. \A s \in Slot : cfg'[s] = cfg[s] \/ (s = s0 /\ cfg'[s] = Empty)
  BY <1>1, <1>2
<1>7. carg[th[t].call].kind = "sync"
  BY <1>5 DEF Ownership, OwnStacks, Issued
<1> HIDE DEF s0
<1>8. \A c \in Call : carg[c].kind = "async" =>
        \A s \in Slot : cfg[s].d = c => cfg'[s] = cfg[s]
  BY <1>3, <1>5, <1>6, <1>7, RedisEventAssumption
<1>9. \A u \in Thread : th'[u].pc # "idle" =>
        /\ th[u].pc # "idle" /\ th'[u].call = th[u].call
        /\ th'[u].pc \in {"wait", "timeout"} =>
             th[u].pc \in {"wait", "timeout"} /\ th'[u].slot = th[u].slot
        /\ th'[u].pc = "timeout" => th'[u].tmo
        /\ th'[u].pc = "resume" => th'[u] = th[u] \/ th'[u].tmo
  <2> SUFFICES ASSUME NEW u \in Thread, th'[u].pc # "idle"
               PROVE  /\ th[u].pc # "idle" /\ th'[u].call = th[u].call
                      /\ th'[u].pc \in {"wait", "timeout"} =>
                           th[u].pc \in {"wait", "timeout"} /\ th'[u].slot = th[u].slot
                      /\ th'[u].pc = "timeout" => th'[u].tmo
                      /\ th'[u].pc = "resume" => th'[u] = th[u] \/ th'[u].tmo
    OBVIOUS
  <2>1. CASE u = t
    BY <2>1, <1>5 DEF s0
  <2>2. CASE u # t
    BY <2>2, <1>4 DEF Accounting, OwnWaits
  <2> QED BY <2>1, <2>2
<1>10. \A s \in Slot : cfg'[s] \in {cfg[s], Empty}
  BY <1>6
<1> QED
  BY <1>1, <1>8, <1>9, <1>10 DEF Forgets

(* One entry of AsynReqCheck::timeout_callback.                            *)
LEMMA ExpireForgets ==
  ASSUME TInv, Ownership, Accounting, NEW q \in req, Expire(q)
  PROVE  Forgets
<1>0. /\ q \in [call : Call, slot : Slot] /\ q.slot \in Slot /\ q.call \in Call
      /\ UNCHANGED <<replies, th>> /\ req' = req \ {q}
  BY DEF Expire, TInv, TypeOK
<1>1. \A t \in Thread : th'[t].pc = "timeout" => th'[t].tmo
  BY <1>0 DEF Accounting, OwnWaits
<1>2. CASE Unwanted(q.slot) /\ UNCHANGED <<cfg, carg>>
  <2>1. cfg[q.slot].d = NULL
    BY <1>0, <1>2 DEF Unwanted, Accounting, Counted
  <2>2. \A c \in Call, s \in Slot : cfg[s].d = c => [call |-> c, slot |-> s] # q
    BY <2>1, RedisEventAssumption
  <2> QED BY <1>0, <1>1, <1>2, <2>2 DEF Forgets
<1>3. CASE /\ ~Unwanted(q.slot) /\ Usable(cfg[q.slot].d, "async")
           /\ cfg' = [cfg EXCEPT ![q.slot] = Empty]
           /\ carg' = [carg EXCEPT ![cfg[q.slot].d] = DeadArg("async")]
  <2>0. PICK c : c = cfg[q.slot].d
    OBVIOUS
  <2>1. c \in Call /\ c # NULL /\ carg[c].st = "live" /\ carg[c].kind = "async"
    BY <1>0, <1>3, <2>0 DEF Unwanted, Usable, TInv, TypeOK, CFlag
  <2>2. carg'[c].st = "dead" /\ \A d \in Call : d # c => carg'[d] = carg[d]
    BY <1>3, <2>0, <2>1 DEF TInv, TypeOK, DeadArg, NoArg
  <2>3. cfg'[q.slot] = Empty /\ \A s \in Slot : s # q.slot => cfg'[s] = cfg[s]
    BY <1>0, <1>3 DEF TInv, TypeOK
  <2>4. \A s \in Slot : s # q.slot => cfg[s].d # c
    BY <1>0, <2>0, <2>1 DEF Ownership, OwnSlots
  <2>5. \A s \in Slot : cfg'[s].d # NULL =>
          s # q.slot /\ cfg[s].d \in Call /\ carg'[cfg[s].d] = carg[cfg[s].d]
    <3> SUFFICES ASSUME NEW s \in Slot, cfg'[s].d # NULL
                 PROVE  s # q.slot /\ cfg[s].d \in Call /\ carg'[cfg[s].d] = carg[cfg[s].d]
      OBVIOUS
    <3>1. s # q.slot
      BY <2>3 DEF Empty
    <3>2. cfg[s].d \in Call
      BY <2>3, <3>1 DEF TInv, TypeOK, CFlag
    <3> QED BY <2>2, <2>4, <3>1, <3>2
  <2>6. \A d \in Call : carg'[d].st = "live" =>
          /\ d # c /\ carg'[d] = carg[d]
          /\ \A s \in Slot : cfg[s].d = d /\ [call |-> d, slot |-> s] \in req =>
                              cfg'[s] = cfg[s] /\ [call |-> d, slot |-> s] \in req'
    <3> SUFFICES ASSUME NEW d \in Call, carg'[d].st = "live"
                 PROVE  /\ d # c /\ carg'[d] = carg[d]
                        /\ \A s \in Slot : cfg[s].d = d /\ [call |-> d, slot |-> s] \in req =>
                              cfg'[s] = cfg[s] /\ [call |-> d, slot |-> s] \in req'
      OBVIOUS
    <3>1. d # c /\ carg'[d] = carg[d]
      BY <2>2
    <3>2. ASSUME NEW s \in Slot, cfg[s].d = d, [call |-> d, slot |-> s] \in req
          PROVE  cfg'[s] = cfg[s] /\ [call |-> d, slot |-> s] \in req'
      <4>1. s # q.slot
        BY <2>0, <3>1, <3>2
      <4> QED BY <1>0, <2>3, <3>2, <4>1
    <3> QED BY <3>1, <3>2
  <2>7. \A t \in Thread : th[t].pc # "idle" =>
          \A d \in Call : th[t].call \in {d, Again(d)} => carg'[d] = carg[d]
    BY <2>1, <2>2 DEF Ownership, OwnStacks, Issued
  <2>8. \A s \in Slot : cfg'[s] \in {cfg[s], Empty}
    BY <2>3
  <2> QED BY <1>0, <1>1, <2>5, <2>6, <2>7, <2>8 DEF Forgets
<1> QED
  BY <1>2, <1>3 DEF Expire

(* The three things a step can be, to the calls: asking, taking a reply,   *)
(* or neither.                                                             *)
Asks ==
  /\ Quiet(NextIdx)
  /\ \E A \in SUBSET Addr, c \in Call, cb \in Kind, sha \in BOOLEAN : AskingAnew(A, c, cb, sha)

Takes(a, r) == replies[a] # <<>> /\ RunCallback(a, r) /\ ncall' = ncall

LEMMA StepKinds ==
  ASSUME TInv, Ownership, Accounting, [CalmNext]_vars
  PROVE  Asks \/ Forgets \/ \E a \in Addr : \E r : Takes(a, r)
<1>1. ASSUME Quiet(NextIdx), Allocate PROVE Asks
  BY <1>1, AllocateAsks DEF Asks
<1>2. CASE Waiters
  BY <1>2, ReturnForgets, WaitForgets DEF Waiters
<1>3. ASSUME UNCHANGED <<replies, cfg, req, carg, th>> PROVE Forgets
  BY <1>3 DEF Forgets, Accounting, OwnWaits
<1>4. ASSUME NEW a \in Addr, ConnectOk(a) \/ ConnectFail(a) \/ Disconnect(a) \/ Cleanup(a)
      PROVE  Forgets
  BY <1>3, <1>4 DEF ConnectOk, ConnectFail, Disconnect, Cleanup
<1>5. ASSUME NEW a \in Addr, NEW r, Reply(a, r) PROVE Takes(a, r)
  BY <1>5 DEF Reply, Takes
<1>6. ASSUME NEW a \in Addr, NullReply(a) PROVE Takes(a, "null")
  BY <1>6 DEF NullReply, Takes
<1>7. CASE Loop
  <2>1. CASE \E a \in Addr : ConnectOk(a) \/ ConnectFail(a) \/ Disconnect(a) \/ Cleanup(a)
    BY <1>4, <2>1
  <2>2. CASE \E a \in Addr : \E r \in {"ok", "err", "noscript"} : Reply(a, r)
    BY <1>5, <2>2
  <2>3. CASE \E a \in Addr : NullReply(a)
    BY <1>6, <2>3
  <2>4. CASE \E q \in req : Expire(q)
    BY <2>4, ExpireForgets
  <2> QED BY <1>7, <2>1, <2>2, <2>3, <2>4 DEF Loop
<1>8. CASE UNCHANGED vars
  BY <1>3, <1>8 DEF vars
<1> QED
  BY <1>1, <1>2, <1>7, <1>8 DEF CalmNext

(* Every step under the calm load keeps Accounting.                        *)
LEMMA AccountingStep == TInv /\ Ownership /\ Accounting /\ [CalmNext]_vars => Accounting'
<1> SUFFICES ASSUME TInv, Ownership, Accounting, [CalmNext]_vars PROVE Accounting'
  OBVIOUS
<1>1. TypeOK
  BY DEF TInv
<1>2. CASE Asks
  BY <1>1, <1>2, AskAccounting DEF Asks
<1>3. CASE Forgets
  BY <1>1, <1>3, ForgetAccounting
<1>4. CASE \E a \in Addr : \E r : Takes(a, r)
  BY <1>4, CallbackAccounting DEF Takes
<1> QED
  BY <1>2, <1>3, <1>4, StepKinds

LEMMA AccountingInit == Init => Accounting
<1> SUFFICES ASSUME Init PROVE Accounting
  OBVIOUS
<1>1. OneReply /\ OneSlot /\ Unheard
  BY DEF Init, OneReply, OneSlot, Unheard, Pending
<1>2. Counted
  BY DEF Init, Counted, Empty
<1>3. OwnWaits /\ OneDeadline /\ LiveStacks
  BY DEF Init, OwnWaits, OneDeadline, LiveStacks, Idle
<1> QED
  BY <1>1, <1>2, <1>3 DEF Accounting

(* Whatever is issued, answered, lost or timed out: the queues of replies, *)
(* the counters, the waits and the deadlines agree (Accounting).           *)
THEOREM AccountingCorrect == CalmSpec => []Accounting
<1>1. Init => TInv
  BY InitType
<1>2. TInv /\ [CalmNext]_vars => TInv'
  BY TypeStep
<1> QED
  BY <1>1, <1>2, OwnershipCorrect, AccountingInit, AccountingStep, PTL DEF CalmSpec

(* The counter cf->f of a slot in use is the number of servers that still  *)
(* owe a reply, each of them asked and not yet heard of (Accounted): no    *)
(* call is closed early, and none waits for a reply that cannot come.      *)
THEOREM AccountedCorrect == CalmSpec => []Accounted
<1>1. TypeOK /\ Accounting => Accounted
  <2> SUFFICES ASSUME TypeOK, Accounting, NEW s \in Slot, ~ Unwanted(s)
               PROVE  /\ cfg[s].f = Cardinality(Owed(s, cfg[s].d))
                      /\ Owed(s, cfg[s].d) \subseteq
                           carg[cfg[s].d].to \ (carg[cfg[s].d].rv \cup carg[cfg[s].d].nos)
    BY DEF Accounted
  <2>1. cfg[s].d # NULL
    BY DEF Unwanted
  <2>2. cfg[s].f = Cardinality(Owed(s, cfg[s].d))
    BY <2>1 DEF Accounting, Counted
  <2>3. Owed(s, cfg[s].d) \subseteq
          carg[cfg[s].d].to \ (carg[cfg[s].d].rv \cup carg[cfg[s].d].nos)
    BY DEF Owed, Accounting, Unheard
  <2> QED BY <2>2, <2>3
<1> QED
  BY <1>1, TypeCorrect, AccountingCorrect, PTL

-----------------------------------------------------------------------------
(* What follows from Accounting about the threads and the callbacks.       *)

(* What a reply that is taken leaves of the replies owed.                  *)
LEMMA TakeOwes ==
  ASSUME TInv, Accounting, NEW a \in Addr, NEW r, Takes(a, r)
  PROVE  /\ Head(replies[a]) \in Pending(a)
         /\ \A b \in Addr : \A f \in Pending(b)' :
              f \in Pending(b) /\ (b = a => f.call # Head(replies[a]).call)
<1>1. replies' = [replies EXCEPT ![a] = Tail(@)] /\ TypeOK /\ OneReply /\ replies[a] # <<>>
  BY DEF Takes, RunCallback, TInv, Accounting
<1>2. Head(replies[a]) \in Pending(a)
  BY <1>1, TailPending
<1> QED
  BY <1>1, <1>2, TailOwes

(* A reply that wakes a thread is the last one of a call that waits.       *)
LEMMA TakeNotifies ==
  ASSUME TInv, Ownership, Accounting, NEW b \in Addr, NEW r, Takes(b, r), th' # th,
         NEW e, e = Head(replies[b])
  PROVE  /\ e.slot \in Slot /\ cfg[e.slot].d = e.call /\ e.call # NULL
         /\ b \in Owed(e.slot, e.call)
         /\ cfg[e.slot].f = 1 /\ Notify(e.call)
<1>1. replies[b] # <<>> /\ RunCallback(b, r) /\ ncall' = ncall
  BY DEF Takes
<1>2. ~ Unwanted(e.slot)
  BY <1>1 DEF RunCallback
<1>3. /\ e.slot \in Slot /\ cfg[e.slot].d = e.call /\ e.call # NULL
      /\ b \in Owed(e.slot, e.call)
      /\ IF e.cb = "sync" /\ cfg[e.slot].f = 1 THEN Notify(e.call) ELSE th' = th
  BY <1>1, <1>2, CallbackWanted
<1> QED
  BY <1>3

(* Nobody but the thread that waits runs again.                            *)
LEMMA CompleteStep ==
  TInv /\ Ownership /\ Accounting /\ CompleteUnlessTimeout /\ [CalmNext]_vars
    => CompleteUnlessTimeout'
<1> SUFFICES ASSUME TInv, Ownership, Accounting, CompleteUnlessTimeout, [CalmNext]_vars,
                    NEW t \in Thread, th'[t].pc = "resume", ~ th'[t].tmo,
                    NEW s \in Slot, NEW a \in Addr, NEW f \in Pending(a)',
                    f.slot = s, f.call = th'[t].call
             PROVE  FALSE
  BY DEF CompleteUnlessTimeout, Owed
<1>1. TypeOK
  BY DEF TInv
<1>2. th[t].pc = "resume" /\ ~ th[t].tmo =>
        \A b \in Addr : \A e \in Pending(b) : e.slot \in Slot => e.call # th[t].call
  BY DEF CompleteUnlessTimeout, Owed
<1>3. ASSUME Asks PROVE FALSE
  <2>1. PICK A \in SUBSET Addr, c \in Call, cb \in Kind, sha \in BOOLEAN : AskingAnew(A, c, cb, sha)
    BY <1>3 DEF Asks
  <2> DEFINE e0 == [slot |-> NextIdx, call |-> c, cb |-> cb, sha |-> sha]
  <2>2. /\ Send(A, e0) /\ e0 \in Entry /\ e0.call = c /\ carg[c].st = "unused"
        /\ \/ th'[t] = th[t]
           \/ th'[t].call = c /\ th'[t].pc = IF Ready(A) = {} THEN "resume" ELSE "wait"
    BY <1>1, <2>1, NextIdxSlot DEF AskingAnew, Issuing, Issue, Entry
  <2>3. \A b \in Addr : \A e \in Pending(b) : e.slot \in Slot /\ e.call # c
    BY <1>1, <2>2, PendingType DEF Ownership, OwnReplies, Issued
  <2> HIDE DEF e0
  <2>4. \A b \in Addr : Pending(b)' = IF b \in Ready(A) THEN Pending(b) \cup {e0} ELSE Pending(b)
    <3>1. OneReply /\ \A b \in Addr : \A e \in Pending(b) : e.call # e0.call
      BY <2>2, <2>3 DEF Accounting
    <3> QED BY <1>1, <2>2, <3>1, SendOwes
  <2>5. CASE th'[t] = th[t]
    <3>1. th[t].call # c
      BY <2>2, <2>5 DEF Ownership, OwnStacks, Issued
    <3> QED BY <1>2, <2>2, <2>3, <2>4, <2>5, <3>1
  <2>6. CASE th'[t].call = c /\ Ready(A) = {}
    BY <2>3, <2>4, <2>6
  <2> QED BY <2>2, <2>5, <2>6
<1>4. ASSUME Forgets PROVE FALSE
  <2>1. th'[t] = th[t] /\ f \in Pending(a)
    BY <1>4 DEF Forgets, Pending
  <2> QED BY <1>2, <2>1
<1>5. ASSUME NEW b \in Addr, NEW r, Takes(b, r) PROVE FALSE
  <2>0. PICK e : e = Head(replies[b])
    OBVIOUS
  <2>1. /\ e \in Pending(b) /\ f \in Pending(a)
        /\ a = b => f.call # e.call
    BY <1>5, <2>0, TakeOwes
  <2>2. th'[t] # th[t]
    BY <1>2, <2>1
  <2>4. /\ e.slot \in Slot /\ cfg[e.slot].d = e.call /\ e.call # NULL
        /\ b \in Owed(e.slot, e.call)
        /\ cfg[e.slot].f = 1 /\ Notify(e.call)
    <3>1. th' # th
      BY <2>2
    <3> QED BY <1>5, <2>0, <3>1, TakeNotifies
  <2>6. th[t].call = e.call /\ th'[t].call = e.call
    <3>1. th'[t] = [th[t] EXCEPT !.pc = "resume"] /\ th[t].call = e.call
      BY <2>2, <2>4 DEF Notify
    <3>2. th[t] \in Local
      BY DEF TInv, TypeOK
    <3> QED BY <3>1, <3>2 DEF Local
  <2>7. f.slot = e.slot
    BY <2>1, <2>4, <2>6 DEF Accounting, OneSlot
  <2>8. a \in Owed(e.slot, e.call)
    BY <2>1, <2>6, <2>7 DEF Owed
  <2>9. Cardinality(Owed(e.slot, e.call)) = 1
    BY <2>4 DEF Accounting, Counted
  <2>10. IsFiniteSet(Owed(e.slot, e.call))
    <3>1. Owed(e.slot, e.call) \subseteq Addr
      BY DEF Owed
    <3> QED BY <3>1, RedisEventAssumption, FS_Subset
  <2>11. a = b
    <3>1. PICK x : Owed(e.slot, e.call) = {x}
      BY <2>9, <2>10, FS_Singleton
    <3> QED BY <2>4, <2>8, <3>1
  <2> QED BY <2>1, <2>6, <2>11
<1> QED
  BY <1>3, <1>4, <1>5, StepKinds

(* RedisEvent::cmd goes on without a timeout only when every server it     *)
(* asked has answered or been lost (CompleteUnlessTimeout).                *)
THEOREM CompleteUnlessTimeoutCorrect == CalmSpec => []CompleteUnlessTimeout
<1>1. Init => TInv
  BY InitType
<1>2. Init => CompleteUnlessTimeout
  BY DEF Init, CompleteUnlessTimeout, Idle
<1>3. TInv /\ [CalmNext]_vars => TInv'
  BY TypeStep
<1> QED
  BY <1>1, <1>2, <1>3, OwnershipCorrect, AccountingCorrect, CompleteStep, PTL DEF CalmSpec

(* What a step does to the arguments and slots of the calls, if it takes a *)
(* reply.                                                                  *)
LEMMA TakeArgs ==
  ASSUME TInv, Ownership, Accounting, NEW a \in Addr, NEW r, Takes(a, r)
  PROVE  \/ UNCHANGED <<cfg, carg, th, req>>
         \/ \E c \in Call, s \in Slot :
              /\ cfg[s].d = c /\ carg[c].st = "live"
              /\ a \in carg[c].to \ (carg[c].rv \cup carg[c].nos)
              /\ cfg'[s] = Empty \/ (cfg'[s].d = c /\ req' = req)
              /\ \A u \in Slot : u # s => cfg'[u] = cfg[u] /\ cfg[u].d # c
              /\ \A d \in Call : d # c => carg'[d] = carg[d]
              /\ \/ /\ carg[c].kind = "async" /\ cfg'[s] = Empty
                    /\ carg'[c] = DeadArg("async") /\ req' = req \ {[call |-> c, slot |-> s]}
                 \/ /\ carg[c].kind = "async" => cfg'[s].d = c
                    /\ req' = req
                    /\ carg'[c] \in NotedNow(c, a)
                    /\ carg'[c].st = "live" /\ carg'[c].kind = carg[c].kind
<1>1. replies[a] # <<>> /\ RunCallback(a, r) /\ ncall' = ncall
  BY DEF Takes
<1>2. PICK e : e = Head(replies[a])
  OBVIOUS
<1>3. CASE Unwanted(e.slot)
  BY <1>1, <1>2, <1>3 DEF RunCallback
<1>4. CASE ~ Unwanted(e.slot)
  <2> DEFINE s == e.slot
             c == e.call
             last == cfg[s].f = 1
  <2>1. /\ s \in Slot /\ c \in Call /\ c # NULL /\ cfg[s].d = c /\ carg[c].st = "live"
        /\ carg[c].kind = e.cb /\ e.cb \in Kind
        /\ a \in carg[c].to \ (carg[c].rv \cup carg[c].nos)
        /\ cfg'[s] = IF last THEN Empty ELSE [f |-> cfg[s].f - 1, d |-> c]
        /\ \A u \in Slot : u # s => cfg'[u] = cfg[u] /\ cfg[u].d # c
        /\ \A d \in Call : d # c => carg'[d] = carg[d]
        /\ IF e.cb = "async" /\ last
           THEN carg'[c] = DeadArg("async") /\ req' = req \ {[call |-> c, slot |-> s]}
           ELSE carg'[c] = AddReply(c, a, e.cb, r) /\ req' = req
    BY <1>1, <1>2, <1>4, CallbackWanted
  <2> HIDE DEF s, c, last
  <2>2. ~ last => cfg'[s].d = c
    BY <2>1
  <2>3. CASE e.cb = "async" /\ last
    BY <2>1, <2>3
  <2>4. CASE ~ (e.cb = "async" /\ last)
    <3>1. carg'[c] = AddReply(c, a, e.cb, r) /\ req' = req
      BY <2>1, <2>4
    <3>2. /\ carg'[c] \in NotedNow(c, a)
          /\ carg'[c].st = "live" /\ carg'[c].kind = carg[c].kind
      BY <2>1, <3>1, AddReplyFields DEF TInv
    <3>3. carg[c].kind = "async" => cfg'[s].d = c
      BY <2>1, <2>2, <2>4
    <3>4. cfg'[s] = Empty \/ (cfg'[s].d = c /\ req' = req)
      BY <2>1, <2>2, <3>1
    <3> QED BY <2>1, <3>1, <3>2, <3>3, <3>4
  <2> QED BY <2>3, <2>4
<1> QED
  BY <1>3, <1>4

(* No callback of cmd_async is lost.                                       *)
LEMMA TrackedStep ==
  TInv /\ Ownership /\ Accounting /\ AsyncTracked /\ [CalmNext]_vars => AsyncTracked'
<1> SUFFICES ASSUME TInv, Ownership, Accounting, AsyncTracked, [CalmNext]_vars,
                    NEW d \in Call, carg'[d].st = "live", carg'[d].kind = "async"
             PROVE  \E s \in Slot : cfg'[s].d = d /\ [call |-> d, slot |-> s] \in req'
  BY DEF AsyncTracked
<1>0. TypeOK /\ d # NULL
  BY RedisEventAssumption DEF TInv
<1>1. ASSUME carg[d].st = "live", carg[d].kind = "async"
      PROVE  \E s \in Slot : cfg[s].d = d /\ [call |-> d, slot |-> s] \in req
  BY <1>1 DEF AsyncTracked
<1>2. ASSUME Asks
      PROVE  \E s \in Slot : cfg'[s].d = d /\ [call |-> d, slot |-> s] \in req'
  <2>1. PICK A \in SUBSET Addr, c \in Call, cb \in Kind, sha \in BOOLEAN : AskingAnew(A, c, cb, sha)
    BY <1>2 DEF Asks
  <2>2. /\ SetFlag(A, NextIdx, c) /\ NextIdx \in Slot /\ cfg[NextIdx].d = NULL
        /\ \A x \in Call : x # c => carg'[x] = carg[x]
        /\ carg'[c].kind = cb /\ (Ready(A) = {} /\ cb = "async" => carg'[c].st = "dead")
        /\ req \subseteq req'
        /\ cb = "async" => [call |-> c, slot |-> NextIdx] \in req'
    <3>1. SetFlag(A, NextIdx, c) /\ \A x \in Call : x # c => carg'[x] = carg[x]
      BY <2>1 DEF AskingAnew, Issuing, Issue
    <3>2. NextIdx \in Slot /\ cfg[NextIdx].d = NULL
      BY <1>0, <1>2, NextIdxSlot DEF Asks, Quiet, Empty
    <3>3. carg'[c].kind = cb
      BY <2>1 DEF AskingAnew, Issuing
    <3>4. Ready(A) = {} /\ cb = "async" => carg'[c].st = "dead"
      BY <1>0, <2>1 DEF AskingAnew, DeadArg, NoArg, TypeOK
    <3>5. req \subseteq req' /\ (cb = "async" => [call |-> c, slot |-> NextIdx] \in req')
      BY <2>1 DEF AskingAnew
    <3> QED BY <3>1, <3>2, <3>3, <3>4, <3>5
  <2>3. CASE d = c
    <3>1. Ready(A) # {} /\ cb = "async"
      BY <2>2, <2>3
    <3>2. cfg'[NextIdx].d = c
      BY <1>0, <2>2, <3>1 DEF SetFlag, TypeOK
    <3> QED BY <2>2, <2>3, <3>1, <3>2
  <2>4. CASE d # c
    <3>1. PICK s \in Slot : cfg[s].d = d /\ [call |-> d, slot |-> s] \in req
      BY <1>1, <2>2, <2>4
    <3>2. s # NextIdx
      BY <1>0, <2>2, <3>1
    <3>3. cfg'[s] = cfg[s]
      BY <1>0, <2>2, <3>2 DEF SetFlag, TypeOK
    <3> QED BY <2>2, <3>1, <3>3
  <2> QED BY <2>3, <2>4
<1>3. ASSUME Forgets
      PROVE  \E s \in Slot : cfg'[s].d = d /\ [call |-> d, slot |-> s] \in req'
  <2>1. carg'[d] = carg[d]
    BY <1>3 DEF Forgets
  <2>2. PICK s \in Slot : cfg[s].d = d /\ [call |-> d, slot |-> s] \in req
    BY <1>1, <2>1
  <2> QED BY <1>3, <2>1, <2>2 DEF Forgets
<1>4. ASSUME NEW a \in Addr, NEW r, Takes(a, r)
      PROVE  \E s \in Slot : cfg'[s].d = d /\ [call |-> d, slot |-> s] \in req'
  <2>1. CASE UNCHANGED <<cfg, carg, th, req>>
    BY <1>1, <2>1
  <2>2. CASE ~ UNCHANGED <<cfg, carg, th, req>>
    <3>1. PICK c \in Call : \E s \in Slot :
            /\ cfg[s].d = c /\ carg[c].st = "live"
            /\ \A u \in Slot : u # s => cfg'[u] = cfg[u] /\ cfg[u].d # c
            /\ \A x \in Call : x # c => carg'[x] = carg[x]
            /\ \/ carg'[c] = DeadArg("async") /\ req' = req \ {[call |-> c, slot |-> s]}
               \/ /\ carg[c].kind = "async" => cfg'[s].d = c
                  /\ req' = req /\ carg'[c].kind = carg[c].kind
      BY <1>4, <2>2, TakeArgs
    <3>2. PICK s \in Slot :
            /\ cfg[s].d = c /\ carg[c].st = "live"
            /\ \A u \in Slot : u # s => cfg'[u] = cfg[u] /\ cfg[u].d # c
            /\ \A x \in Call : x # c => carg'[x] = carg[x]
            /\ \/ carg'[c] = DeadArg("async") /\ req' = req \ {[call |-> c, slot |-> s]}
               \/ /\ carg[c].kind = "async" => cfg'[s].d = c
                  /\ req' = req /\ carg'[c].kind = carg[c].kind
      BY <3>1
    <3>3. carg[d].st = "live" /\ carg[d].kind = "async"
      BY <3>2 DEF DeadArg, NoArg
    <3>4. PICK u \in Slot : cfg[u].d = d /\ [call |-> d, slot |-> u] \in req
      BY <1>1, <3>3
    <3>5. CASE d = c
      <4>1. carg'[c] # DeadArg("async")
        BY <3>5 DEF DeadArg, NoArg
      <4> QED BY <3>2, <3>3, <3>4, <3>5, <4>1
    <3>6. CASE d # c
      <4>1. u # s
        BY <3>2, <3>4, <3>6
      <4>2. [call |-> d, slot |-> u] # [call |-> c, slot |-> s]
        BY <3>6
      <4> QED BY <3>2, <3>4, <4>1, <4>2
    <3> QED BY <3>5, <3>6
  <2> QED BY <2>1, <2>2
<1> QED
  BY <1>2, <1>3, <1>4, StepKinds

(* A call of cmd_async whose callback has not run is in a slot and in      *)
(* req_ (AsyncTracked): a reply or the deadline will find it.              *)
THEOREM AsyncTrackedCorrect == CalmSpec => []AsyncTracked
<1>1. Init => TInv
  BY InitType
<1>2. Init => AsyncTracked
  BY DEF Init, AsyncTracked, NoArg
<1>3. TInv /\ [CalmNext]_vars => TInv'
  BY TypeStep
<1> QED
  BY <1>1, <1>2, <1>3, OwnershipCorrect, AccountingCorrect, TrackedStep, PTL DEF CalmSpec

(* Once a thread in cmd runs again, its results are no longer written      *)
(* (ResultFrozen), though it reads them without a lock.                    *)
THEOREM ResultFrozenCorrect == CalmSpec => ResultFrozen
<1>1. ASSUME TInv, Ownership, Accounting, [CalmNext]_vars,
             NEW t \in Thread, th[t].pc = "resume", th'[t].pc = "resume"
      PROVE  carg'[th[t].call] = carg[th[t].call]
  <2> DEFINE c == th[t].call
  <2>1. c \in Call /\ Issued(c, "sync")
    BY <1>1 DEF TInv, CallOK, Ownership, OwnStacks
  <2> HIDE DEF c
  <2>2. CASE Asks
    <3>1. PICK A \in SUBSET Addr, d \in Call, cb \in Kind, sha \in BOOLEAN : AskingAnew(A, d, cb, sha)
      BY <2>2 DEF Asks
    <3> QED BY <2>1, <3>1 DEF AskingAnew, Issuing, Issued, c
  <2>3. CASE Forgets
    BY <1>1, <2>1, <2>3 DEF Forgets, c
  <2>4. ASSUME NEW a \in Addr, NEW r, Takes(a, r) PROVE carg'[c] = carg[c]
    <3>1. \A s \in Slot : cfg[s].d # c
      BY <1>1, <2>1, ReturnUnheld DEF c
    <3> QED BY <1>1, <2>1, <2>4, <3>1, TakeArgs
  <2> QED BY <1>1, <2>2, <2>3, <2>4, StepKinds DEF c
<1>2. TInv /\ Ownership /\ Accounting /\ [CalmNext]_vars =>
        [\A t \in Thread : th[t].pc = "resume" /\ th'[t].pc = "resume"
           => carg'[th[t].call] = carg[th[t].call]]_vars
  BY <1>1
<1>3. Init => TInv
  BY InitType
<1>4. TInv /\ [CalmNext]_vars => TInv'
  BY TypeStep
<1> QED
  BY <1>2, <1>3, <1>4, OwnershipCorrect, AccountingCorrect, PTL DEF CalmSpec, ResultFrozen

-----------------------------------------------------------------------------
(* RedisEvent implements Gather.                                           *)

(* The end of the use of a slot ends the collecting of its call.           *)
LEMMA EmptySlot ==
  ASSUME Ownership, NEW s \in Slot, NEW c \in Call, cfg[s].d = c, cfg'[s] = Empty,
         \A u \in Slot : u # s => cfg'[u] = cfg[u]
  PROVE  c \in Collecting /\ Collecting' = Collecting \ {c}
<1>1. c # NULL /\ NULL \notin Call
  BY RedisEventAssumption
<1>2. \A u \in Slot : cfg[u].d = c => u = s
  BY <1>1 DEF Ownership, OwnSlots
<1>3. cfg'[s].d = NULL
  BY DEF Empty
<1>4. \A d \in Call : (\E u \in Slot : cfg'[u].d = d) <=> d # c /\ \E u \in Slot : cfg[u].d = d
  BY <1>1, <1>2, <1>3
<1> QED
  BY <1>4 DEF Collecting

LEMMA SameSlots ==
  ASSUME \A s \in Slot : cfg'[s].d = cfg[s].d
  PROVE  Collecting' = Collecting
BY DEF Collecting

(* cmd, its retry and cmd_async.                                           *)
LEMMA AskGather ==
  ASSUME TInv, Ownership, Asks
  PROVE  \E c \in Call : \E kind \in {"sync", "async"}, A \in SUBSET Addr : G!Ask(c, kind, A)
<1> USE RedisEventAssumption
<1>1. PICK A \in SUBSET Addr, c \in Call, cb \in Kind, sha \in BOOLEAN : AskingAnew(A, c, cb, sha)
  BY DEF Asks
<1>2. /\ carg[c].st = "unused" /\ SetFlag(A, NextIdx, c)
      /\ carg' = [carg EXCEPT ![c] = IF Ready(A) = {} /\ cb = "async" THEN DeadArg("async")
                                     ELSE NewArg(cb, Ready(A))]
  BY <1>1 DEF AskingAnew, Issuing, Issue
<1>3. NextIdx \in Slot /\ cfg[NextIdx].d = NULL /\ cfg \in [Slot -> CFlag]
  BY NextIdxSlot DEF Asks, Quiet, Empty, TInv, TypeOK
<1>4. Collecting' = IF Ready(A) = {} THEN Collecting ELSE Collecting \cup {c}
  <2>1. CASE Ready(A) = {}
    BY <1>2, <2>1, SameSlots DEF SetFlag
  <2>2. CASE Ready(A) # {}
    <3>1. cfg'[NextIdx].d = c /\ \A s \in Slot : s # NextIdx => cfg'[s] = cfg[s]
      BY <1>2, <1>3, <2>2 DEF SetFlag
    <3>2. \A d \in Call : (\E s \in Slot : cfg'[s].d = d) <=> d = c \/ \E s \in Slot : cfg[s].d = d
      BY <1>3, <3>1
    <3> QED BY <2>2, <3>2 DEF Collecting
  <2> QED BY <2>1, <2>2
<1>5. /\ DeadArg("async") = G!Over("async")
      /\ NewArg(cb, Ready(A)) = G!Asking(cb, Ready(A))
  BY DEF DeadArg, NewArg, NoArg, G!Over, G!Asking, G!Blank
<1>6. G!Ask(c, cb, Ready(A))
  BY <1>2, <1>4, <1>5 DEF G!Ask
<1>7. Ready(A) \in SUBSET Addr /\ cb \in {"sync", "async"}
  BY ReadyFinite DEF Kind
<1> QED
  BY <1>6, <1>7

(* The return of cmd.                                                      *)
LEMMA ReturnGather ==
  ASSUME TInv, Ownership, Accounting, NEW t \in Thread, CmdReturn(t)
  PROVE  \E c, d \in Call : G!Return({c, d})
<1> DEFINE c == th[t].call
<1>1. /\ th[t].pc = "resume" /\ cfg' = cfg
      /\ carg' = [d \in Call |-> IF d = c \/ Again(d) = c THEN DeadArg("sync") ELSE carg[d]]
  BY DEF CmdReturn
<1>2. c \in Call
  BY <1>1 DEF TInv, CallOK
<1>3. \A d \in Call : c \in {d, Again(d)} =>
        carg[d].st = "live" /\ carg[d].kind = "sync" /\ d \notin Collecting
  <2> SUFFICES ASSUME NEW d \in Call, c \in {d, Again(d)}
               PROVE  carg[d].st = "live" /\ carg[d].kind = "sync" /\ d \notin Collecting
    OBVIOUS
  <2>1. carg[d].st = "live" /\ carg[d].kind = "sync"
    BY <1>1 DEF Accounting, LiveStacks, Ownership, OwnStacks, Issued
  <2>2. \A s \in Slot : cfg[s].d # d
    BY <1>1, ReturnUnheld
  <2> QED BY <2>1, <2>2 DEF Collecting
<1>4. DeadArg("sync") = G!Over("sync")
  BY DEF DeadArg, NoArg, G!Over, G!Blank
<1>5. Collecting' = Collecting
  BY <1>1, SameSlots
<1> HIDE DEF c
<1>6. PICK e \in Call : \A d \in Call : (d = c \/ Again(d) = c) <=> d \in {c, e}
  <2>1. CASE \E d \in Call : Again(d) = c
    <3>1. PICK d \in Call : Again(d) = c
      BY <2>1
    <3>2. \A x \in Call : Again(x) = c => x = d
      BY <3>1, RedisEventAssumption DEF Again, Call
    <3> QED BY <3>1, <3>2
  <2>2. CASE ~ \E d \in Call : Again(d) = c
    BY <1>2, <2>2
  <2> QED BY <2>1, <2>2
<1>7. carg' = [d \in Call |-> IF d \in {c, e} THEN G!Over("sync") ELSE carg[d]]
  BY <1>1, <1>4, <1>6
<1>8. \A d \in {c, e} : carg[d].st = "live" /\ carg[d].kind = "sync" /\ d \notin Collecting
  BY <1>2, <1>3, <1>6
<1>9. G!Return({c, e})
  BY <1>5, <1>7, <1>8 DEF G!Return
<1> QED
  BY <1>2, <1>9

(* The reset of cf after a timeout.                                        *)
LEMMA ResetGather ==
  ASSUME TInv, Ownership, Accounting, NEW t \in Thread, CmdReset(t)
  PROVE  (\E c \in Call : G!Close(c)) \/ UNCHANGED <<carg, Collecting>>
<1> DEFINE s == th[t].slot
<1>1. /\ th[t].pc = "timeout" /\ carg' = carg /\ cfg' = [cfg EXCEPT ![s] = Empty]
  BY DEF CmdReset
<1>2. s \in Slot /\ cfg[s].d \in {NULL, th[t].call}
  BY <1>1 DEF TInv, TypeOK, Local, Accounting, OwnWaits
<1>3. cfg'[s] = Empty /\ \A u \in Slot : u # s => cfg'[u] = cfg[u]
  BY <1>1, <1>2 DEF TInv, TypeOK
<1>4. th[t].call \in Call /\ carg[th[t].call].kind = "sync"
  BY <1>1 DEF TInv, CallOK, Ownership, OwnStacks, Issued
<1> HIDE DEF s
<1>5. CASE cfg[s].d = NULL
  <2>1. \A u \in Slot : cfg'[u].d = cfg[u].d
    BY <1>3, <1>5 DEF Empty
  <2> QED BY <1>1, <2>1, SameSlots
<1>6. CASE cfg[s].d = th[t].call
  <2>1. th[t].call \in Collecting /\ Collecting' = Collecting \ {th[t].call}
    BY <1>2, <1>3, <1>4, <1>6, EmptySlot
  <2>2. G!Close(th[t].call)
    BY <1>1, <1>4, <2>1 DEF G!Close
  <2> QED BY <1>4, <2>2
<1> QED
  BY <1>2, <1>5, <1>6

(* AsynReqCheck::timeout_callback.                                         *)
LEMMA ExpireGather ==
  ASSUME TInv, Ownership, NEW q \in req, Expire(q)
  PROVE  (\E c \in Call : G!Close(c)) \/ UNCHANGED <<carg, Collecting>>
<1>1. q.slot \in Slot
  BY DEF TInv, TypeOK
<1>2. CASE UNCHANGED <<cfg, carg>>
  BY <1>2, SameSlots
<1>3. CASE /\ ~Unwanted(q.slot) /\ Usable(cfg[q.slot].d, "async")
           /\ cfg' = [cfg EXCEPT ![q.slot] = Empty]
           /\ carg' = [carg EXCEPT ![cfg[q.slot].d] = DeadArg("async")]
  <2>0. PICK c : c = cfg[q.slot].d
    OBVIOUS
  <2>1. c \in Call /\ carg[c].kind = "async"
    BY <1>1, <1>3, <2>0 DEF Unwanted, Usable, TInv, TypeOK, CFlag
  <2>2. cfg'[q.slot] = Empty /\ \A u \in Slot : u # q.slot => cfg'[u] = cfg[u]
    BY <1>1, <1>3 DEF TInv, TypeOK
  <2>3. c \in Collecting /\ Collecting' = Collecting \ {c}
    BY <1>1, <2>0, <2>1, <2>2, EmptySlot
  <2>4. DeadArg("async") = G!Over("async")
    BY DEF DeadArg, NoArg, G!Over, G!Blank
  <2>5. carg' = [carg EXCEPT ![c] = G!Over("async")]
    BY <1>3, <2>0, <2>4
  <2>6. G!Close(c)
    BY <2>1, <2>3, <2>5 DEF G!Close
  <2> QED BY <2>1, <2>6
<1> QED
  BY <1>2, <1>3 DEF Expire

(* redis_cmd_cb and redis_cmd_async_cb.                                    *)
LEMMA TakeGather ==
  ASSUME TInv, TInv', Ownership, Accounting, NEW a \in Addr, NEW r, Takes(a, r)
  PROVE  (\E c \in Call : G!Answer(c) \/ G!Close(c)) \/ UNCHANGED <<carg, Collecting>>
<1>1. CASE UNCHANGED <<cfg, carg, th, req>>
  BY <1>1, SameSlots
<1>2. CASE ~ UNCHANGED <<cfg, carg, th, req>>
  <2> DEFINE Did(c, s) ==
        /\ cfg[s].d = c
        /\ a \in carg[c].to \ (carg[c].rv \cup carg[c].nos)
        /\ cfg'[s] = Empty \/ cfg'[s].d = c
        /\ \A u \in Slot : u # s => cfg'[u] = cfg[u]
        /\ \A d \in Call : d # c => carg'[d] = carg[d]
        /\ \/ carg[c].kind = "async" /\ cfg'[s] = Empty /\ carg'[c] = DeadArg("async")
           \/ (carg[c].kind = "async" => cfg'[s].d = c) /\ carg'[c] \in NotedNow(c, a)
  <2>1. PICK c \in Call : \E s \in Slot : Did(c, s)
    BY <1>2, TakeArgs
  <2>2. PICK s \in Slot : Did(c, s)
    BY <2>1
  <2>3. PICK v : v = carg'[c]
    OBVIOUS
  <2>4. carg' = [carg EXCEPT ![c] = v]
    <3>1. carg \in [Call -> Arg] /\ carg' \in [Call -> Arg]
      BY DEF TInv, TypeOK
    <3> QED BY <2>2, <2>3, <3>1
  <2>5. DeadArg("async") = G!Over("async") /\ NotedNow(c, a) = G!Noted(c, a)
    BY DEF DeadArg, NoArg, G!Over, G!Blank, NotedNow, G!Noted
  <2>6. c # NULL
    BY RedisEventAssumption
  <2>7. carg[c].kind \in Kind /\ a \in Addr
    BY DEF TInv, TypeOK, Arg
  <2>8. CASE cfg'[s] = Empty
    <3>1. c \in Collecting /\ Collecting' = Collecting \ {c}
      BY <2>2, <2>8, EmptySlot
    <3>2. cfg'[s].d # c
      BY <2>6, <2>8 DEF Empty
    <3>3. \/ carg[c].kind = "async" /\ v = G!Over("async")
          \/ carg[c].kind = "sync" /\ v \in G!Noted(c, a)
      BY <2>2, <2>3, <2>5, <2>7, <3>2 DEF Kind
    <3>4. a \in carg[c].to \ (carg[c].rv \cup carg[c].nos)
      BY <2>2
    <3> HIDE DEF Did
    <3>5. G!Close(c)
      BY <2>4, <3>1, <3>3, <3>4 DEF G!Close
    <3> QED BY <3>5
  <2>9. CASE cfg'[s].d = c
    <3>1. \A u \in Slot : cfg'[u].d = cfg[u].d
      BY <2>2, <2>9
    <3>2. c \in Collecting /\ Collecting' = Collecting
      BY <2>2, <3>1, SameSlots DEF Collecting
    <3>3. cfg'[s] # Empty
      BY <2>6, <2>9 DEF Empty
    <3>4. v \in G!Noted(c, a) /\ a \in carg[c].to \ (carg[c].rv \cup carg[c].nos)
      BY <2>2, <2>3, <2>5, <3>3
    <3> HIDE DEF Did
    <3>5. G!Answer(c)
      BY <2>4, <3>2, <3>4 DEF G!Answer
    <3> QED BY <3>5
  <2> QED BY <2>2, <2>8, <2>9
<1> QED
  BY <1>1, <1>2

(* RedisEvent implements Gather (Gathered): an answer is taken by the call *)
(* it was sent for and by no other, once per server, and never after the   *)
(* call was closed, whatever the slots have been used for since.           *)
THEOREM GatheredCorrect == CalmSpec => Gathered
<1>1. ASSUME Init PROVE G!Init
  <2>1. Collecting = {}
    BY <1>1, RedisEventAssumption DEF Init, Collecting, Empty
  <2>2. carg = [c \in Call |-> G!Blank]
    BY <1>1 DEF Init, NoArg, G!Blank
  <2> QED BY <2>1, <2>2 DEF G!Init
<1>2. ASSUME TInv, TInv', Ownership, Accounting, [CalmNext]_vars
      PROVE  [G!Next]_<<carg, Collecting>>
  <2>1. ASSUME Quiet(NextIdx), Allocate PROVE G!Next
    <3>1. Asks
      BY <1>2, <2>1, AllocateAsks DEF Asks
    <3> QED BY <1>2, <3>1, AskGather DEF G!Next
  <2>2. CASE UNCHANGED <<carg, cfg>>
    BY <2>2, SameSlots
  <2>3. CASE Waiters
    <3>1. ASSUME NEW t \in Thread, CmdReturn(t) PROVE G!Next
      BY <1>2, <3>1, ReturnGather DEF G!Next
    <3>2. ASSUME NEW t \in Thread, CmdTimeout(t) PROVE UNCHANGED <<carg, cfg>>
      BY <3>2 DEF CmdTimeout
    <3>3. ASSUME NEW t \in Thread, CmdReset(t) PROVE G!Next \/ UNCHANGED <<carg, Collecting>>
      BY <1>2, <3>3, ResetGather DEF G!Next
    <3> QED BY <2>2, <2>3, <3>1, <3>2, <3>3 DEF Waiters
  <2>4. ASSUME NEW a \in Addr, NEW r, Takes(a, r)
        PROVE  G!Next \/ UNCHANGED <<carg, Collecting>>
    BY <1>2, <2>4, TakeGather DEF G!Next
  <2>5. CASE Loop
    <3>1. ASSUME NEW a \in Addr, ConnectOk(a) \/ ConnectFail(a) \/ Disconnect(a) \/ Cleanup(a)
          PROVE  UNCHANGED <<carg, cfg>>
      BY <3>1 DEF ConnectOk, ConnectFail, Disconnect, Cleanup
    <3>2. ASSUME NEW a \in Addr, NEW r, Reply(a, r) PROVE Takes(a, r)
      BY <3>2 DEF Reply, Takes
    <3>3. ASSUME NEW a \in Addr, NullReply(a) PROVE Takes(a, "null")
      BY <3>3 DEF NullReply, Takes
    <3>4. ASSUME NEW q \in req, Expire(q) PROVE G!Next \/ UNCHANGED <<carg, Collecting>>
      BY <1>2, <3>4, ExpireGather DEF G!Next
    <3>5. CASE \E q \in req : Expire(q)
      BY <3>4, <3>5
    <3>6. CASE \E a \in Addr : ConnectOk(a) \/ ConnectFail(a) \/ Disconnect(a) \/ Cleanup(a)
      BY <2>2, <3>1, <3>6
    <3>7. CASE \E a \in Addr : NullReply(a) \/ \E r \in {"ok", "err", "noscript"} : Reply(a, r)
      BY <2>4, <3>2, <3>3, <3>7
    <3> QED BY <2>5, <3>5, <3>6, <3>7 DEF Loop
  <2>6. CASE UNCHANGED vars
    BY <2>2, <2>6 DEF vars
  <2> QED BY <1>2, <2>1, <2>3, <2>5, <2>6 DEF CalmNext
<1>3. Init => TInv
  BY InitType
<1>4. TInv /\ [CalmNext]_vars => TInv'
  BY TypeStep
<1> QED
  BY <1>1, <1>2, <1>3, <1>4, OwnershipCorrect, AccountingCorrect, PTL
  DEF CalmSpec, Gathered, G!Spec

================================================================================
