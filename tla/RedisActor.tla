------------------------------ MODULE RedisActor ------------------------------
(***************************************************************************)
(* actor/RedisActor.go: keeps the key stream_count@<box_ip>.  The client   *)
(* is made on start and, when the ping fails, again at the next update.    *)
(* A value that cannot be written is logged and dropped.                   *)
(***************************************************************************)
EXTENDS Messages

CONSTANTS
  RedisEnabled,  \* redis.addr is set (config.Load then insists on an interval)
  NoValue        \* the key does not exist

ASSUME RedisAssumption == NoValue \notin Nat

VARIABLE redis     \* connected: a.client # nil; key: the value in Redis

(* Started: getClient pings at once, and may fail.                         *)
RedisInit ==
  redis \in [connected : IF RedisEnabled THEN BOOLEAN ELSE {FALSE}, key : {NoValue}]

RedisUpdates == Gets("redis", "UpdateStreamCount") /\ RedisEnabled

RedisDisabled ==
  /\ Gets("redis", "UpdateStreamCount")
  /\ ~RedisEnabled
  /\ box' = Taken("redis")
  /\ UNCHANGED <<sleeping, redis>>

(* getClient: there is no client yet and the ping fails.                   *)
RedisPingFails ==
  /\ RedisUpdates
  /\ ~redis.connected
  /\ box' = Taken("redis")
  /\ UNCHANGED <<sleeping, redis>>

(* Mutant: a value that cannot be written is kept for another try.         *)
RedisSetFails_Retries ==
  /\ RedisUpdates
  /\ redis' = [redis EXCEPT !.connected = TRUE]
  /\ box' = Post(Taken("redis"), "redis", <<Msg("redis")>>)
  /\ UNCHANGED sleeping

(* The client exists or is made now, and Set fails without effect; a Set   *)
(* that takes effect although it fails is RedisSets, whose error is logged. *)
RedisSetFails ==
  /\ RedisUpdates
  /\ redis' = [redis EXCEPT !.connected = TRUE]
  /\ box' = Taken("redis")
  /\ UNCHANGED sleeping

RedisSets ==
  /\ RedisUpdates
  /\ redis' = [connected |-> TRUE, key |-> Msg("redis").aliveStreams]
  /\ box' = Taken("redis")
  /\ UNCHANGED sleeping

RedisNext ==
  \/ RedisDisabled
  \/ RedisPingFails
  \/ RedisSetFails
  \/ RedisSets
===============================================================================
