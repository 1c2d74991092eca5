----------------------------- MODULE MCRedisEvent -----------------------------
(* RedisEvent for TLC: servers and threads are interchangeable.            *)
EXTENDS RedisEvent, TLC

Symmetry == Permutations(Addr) \cup Permutations(Thread)
===============================================================================
