----------------------------- MODULE MCRedisHash ------------------------------
(* Instances of RedisHash for TLC.                                         *)
EXTENDS RedisHash

(* Users whose hash values meet every remainder of one and of two.         *)
HashDef == [u \in User |-> u]
===============================================================================
