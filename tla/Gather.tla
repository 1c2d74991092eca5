--------------------------------- MODULE Gather --------------------------------
(***************************************************************************)
(* What RedisEvent promises to the code that calls it, without slots,      *)
(* connections, counters or deadlines: a call asks some servers, collects  *)
(* at most one answer of each while it is open, is closed once and for     *)
(* all, and its result is then handed over as it is: to the thread that    *)
(* waits (cmd, which may ask again by a call of its own) or to the         *)
(* callback (cmd_async), which runs at the moment of closing.              *)
(***************************************************************************)
CONSTANTS Call, Addr

VARIABLES
  call,  \* a call: unused, live or dead, sync or async, the servers asked,
         \* those with a result and those without the script
  open   \* the calls that still collect answers

Blank == [st |-> "unused", kind |-> "sync", to |-> {}, rv |-> {}, nos |-> {}]
Asking(kind, A) == [Blank EXCEPT !.st = "live", !.kind = kind, !.to = A]
Over(kind) == [Blank EXCEPT !.st = "dead", !.kind = kind]

Init == call = [c \in Call |-> Blank] /\ open = {}

(* A call to the servers A; with none of them it is closed at once.        *)
Ask(c, kind, A) ==
  /\ call[c].st = "unused"
  /\ call' = [call EXCEPT ![c] = IF A = {} /\ kind = "async" THEN Over(kind)
                                 ELSE Asking(kind, A)]
  /\ open' = IF A = {} THEN open ELSE open \cup {c}

(* The server a has answered, with a result, without the script, or not.   *)
Noted(c, a) ==
  {call[c], [call[c] EXCEPT !.rv = @ \cup {a}], [call[c] EXCEPT !.nos = @ \cup {a}]}

(* A server that was asked and has not been heard of answers.              *)
Answer(c) ==
  /\ c \in open
  /\ \E a \in call[c].to \ (call[c].rv \cup call[c].nos) :
       \E v \in Noted(c, a) : call' = [call EXCEPT ![c] = v]
  /\ UNCHANGED open

(* The last answer, or the end of the time.                                *)
Close(c) ==
  /\ c \in open
  /\ open' = open \ {c}
  /\ \/ call[c].kind = "async" /\ call' = [call EXCEPT ![c] = Over("async")]
     \/ call[c].kind = "sync" /\ UNCHANGED call
     \/ /\ call[c].kind = "sync"
        /\ \E a \in call[c].to \ (call[c].rv \cup call[c].nos) :
             \E v \in Noted(c, a) : call' = [call EXCEPT ![c] = v]

(* A thread takes the result of closed calls: one, or two when it has      *)
(* asked again.                                                            *)
Return(C) ==
  /\ C \cap open = {}
  /\ \A c \in C : call[c].st = "live" /\ call[c].kind = "sync"
  /\ call' = [c \in Call |-> IF c \in C THEN Over("sync") ELSE call[c]]
  /\ UNCHANGED open

Next ==
  \/ \E c \in Call : \/ \E kind \in {"sync", "async"}, A \in SUBSET Addr : Ask(c, kind, A)
                     \/ Answer(c) \/ Close(c)
  \/ \E c, d \in Call : Return({c, d})

Spec == Init /\ [][Next]_<<call, open>>
================================================================================
