---------------------------- MODULE MCRedisClient ----------------------------
(***************************************************************************)
(* Instances of RedisClient: two queries, one of them HGETALL, and one     *)
(* store, two callers.                                                     *)
(***************************************************************************)
EXTENDS RedisClient
=============================================================================
