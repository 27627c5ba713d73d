----------------------------- MODULE LockManager -----------------------------
(***************************************************************************)
(* Locks in Redis: services/lockManager.js, and the plain lock of          *)
(* workers/escrowIndexer.js.  A lock is a key set if absent with a time to *)
(* live; its owner deletes it, or extends it, only if the key still holds  *)
(* the owner's token.                                                      *)
(*                                                                         *)
(* A token is the node that made it: a node asks for a key again only      *)
(* after it let go of the lock or died, and the dead do not release.       *)
(***************************************************************************)
EXTENDS Integers

CONSTANTS Nodes, Keys,
          Ttl      \* [Keys -> Nat]: the time to live a key is set with

Nobody == "nobody"

ASSUME LockAssumption ==
  /\ Nobody \notin Nodes
  /\ Ttl \in [Keys -> Nat \ {0}]

VARIABLE redis     \* [Keys -> [owner, left]]: the token and the time it has left

FreeKey == [owner |-> Nobody, left |-> 0]
RedisInit == redis = [k \in Keys |-> FreeKey]

Owns(k, n) == redis[k].owner = n
IsFree(k) == Owns(k, Nobody)

(* SET key token PX ttl NX  *)
SetIfAbsent(k, n) ==
  /\ IsFree(k)
  /\ redis' = [redis EXCEPT ![k] = [owner |-> n, left |-> Ttl[k]]]

(* RELEASE_SCRIPT: compare and delete.  *)
(* mutant: delete without the comparison *)
ReleaseScriptBlind(k, n) == redis' = [redis EXCEPT ![k] = FreeKey]
ReleaseScript(k, n) == redis' = IF Owns(k, n) THEN [redis EXCEPT ![k] = FreeKey] ELSE redis

(* RENEW_SCRIPT: compare and extend.  *)
RenewScript(k, n) == redis' = IF Owns(k, n) THEN [redis EXCEPT ![k].left = Ttl[k]] ELSE redis

(* Time passes, and Redis drops what has no time left.  *)
(* mutant: keys set without PX, which stay *)
RedisTickKeeps ==
  redis' = [k \in Keys |-> IF redis[k].left <= 1 THEN redis[k]
                           ELSE [redis[k] EXCEPT !.left = @ - 1]]
RedisTick ==
  redis' = [k \in Keys |-> IF redis[k].left <= 1 THEN FreeKey
                           ELSE [redis[k] EXCEPT !.left = @ - 1]]

(* The renewal timer of lockManager.js runs at half the time to live.  *)
RenewalDue(k, n) == Owns(k, n) /\ 2 * redis[k].left <= Ttl[k]

RedisTypeOK == redis \in [Keys -> [owner : Nodes \cup {Nobody}, left : Nat]]
==============================================================================
