---------------------------- MODULE MCRedisService ----------------------------
(* Instances of RedisService for TLC.                                      *)
EXTENDS RedisService, TLC

(* A cluster of two servers and a cluster of one.                          *)
ConfigDef == 0 :> {1, 2} @@ 1 :> {3}

(* Users whose hash values meet every remainder of one and of two.         *)
HashDef == [u \in User |-> u]
================================================================================
