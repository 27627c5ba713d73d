----------------------------- MODULE CacheService -----------------------------
(***************************************************************************)
(* services/cacheService.js: keys in Redis, or in the process's memory     *)
(* while Redis does not answer.  The two stores are not reconciled: what   *)
(* was set in one is not seen while the other is in use.                   *)
(***************************************************************************)
EXTENDS Integers

CONSTANT CacheKeys

VARIABLE cache   \* the keys of the two stores, and which of them is in use

CacheStates == [redis : SUBSET CacheKeys, memory : SUBSET CacheKeys, ready : BOOLEAN]
CacheInit == cache = [redis |-> {}, memory |-> {}, ready |-> TRUE]

CacheHas(key) == IF cache.ready THEN key \in cache.redis ELSE key \in cache.memory

CacheSet(key) ==
  cache' = IF cache.ready THEN [cache EXCEPT !.redis = @ \cup {key}]
                          ELSE [cache EXCEPT !.memory = @ \cup {key}]

(* A call that fails while Redis is in use: a key that is there is not seen,  *)
(* and a key that is set goes to the memory.                                  *)
CacheMisses(key) == cache.ready /\ key \in cache.redis
CacheSetAside(key) ==
  /\ cache.ready
  /\ cache' = [cache EXCEPT !.memory = @ \cup {key}]

(* A key's time to live runs out.  *)
DropKey(key) ==
  /\ key \in cache.redis \cup cache.memory
  /\ cache' = [cache EXCEPT !.redis = @ \ {key}, !.memory = @ \ {key}]

(* The client's "ready" and "error" events.  *)
SwitchStore == cache' = [cache EXCEPT !.ready = ~@]
==============================================================================
