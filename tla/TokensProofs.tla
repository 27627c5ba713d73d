---------------------------- MODULE TokensProofs ----------------------------
(***************************************************************************)
(* Proofs about the refresh tokens of a user, for any number of requests   *)
(* under way, of tokens, of faults, and any limit of active tokens.        *)
(***************************************************************************)
EXTENDS RefreshTokens, FiniteSetTheorems, TLAPS

(* There are finitely many tokens and requests. *)
LEMMA Finite ==
  /\ \A S \in SUBSET Tokens : IsFiniteSet(S) /\ Cardinality(S) \in Nat
  /\ \A S \in SUBSET Requests : IsFiniteSet(S) /\ Cardinality(S) \in Nat
  <1>1. IsFiniteSet(Tokens) /\ IsFiniteSet(Requests)
    BY TokenAssumption, FS_Interval DEF Tokens
  <1>2. ASSUME NEW T, IsFiniteSet(T), NEW S \in SUBSET T
        PROVE  IsFiniteSet(S) /\ Cardinality(S) \in Nat
    BY <1>2, FS_Subset, FS_CardinalityType
  <1> QED BY <1>1, <1>2

(***************************************************************************)
(* Types.                                                                  *)
(***************************************************************************)

(* What a step does to a request keeps it one. *)
LEMMA RefuseType ==
  ASSUME TypeOK, NEW r \in Requests, Refuse(r)
  PROVE  request' \in [Requests -> RequestStates]
  BY DEF TypeOK, Refuse, RequestStates, Idle

LEMMA GoType ==
  ASSUME TypeOK, NEW r \in Requests,
         NEW pc \in {"checkAll", "find", "user", "blacklist", "deactivate", "touch", "clean",
                     "count", "insert", "deactivateAll"},
         Go(r, pc)
  PROVE  request' \in [Requests -> RequestStates]
  BY DEF TypeOK, Go, RequestStates

LEMMA CacheType ==
  ASSUME TypeOK, TokenAssumption
  PROVE  /\ \A key \in CacheKeys : CacheSet(key) => cache' \in CacheStates
         /\ \A key \in CacheKeys : CacheSetAside(key) => cache' \in CacheStates
         /\ \A key \in CacheKeys : DropKey(key) => cache' \in CacheStates
         /\ SwitchStore => cache' \in CacheStates
  <1>1. cache \in CacheStates
    BY DEF TypeOK
  <1>2. ASSUME NEW key \in CacheKeys, CacheSet(key)
        PROVE  cache' \in CacheStates
    BY <1>1, <1>2 DEF CacheStates, CacheSet
  <1>5. ASSUME NEW key \in CacheKeys, CacheSetAside(key)
        PROVE  cache' \in CacheStates
    BY <1>1, <1>5 DEF CacheStates, CacheSetAside
  <1>3. ASSUME NEW key \in CacheKeys, DropKey(key)
        PROVE  cache' \in CacheStates
    BY <1>1, <1>3 DEF CacheStates, DropKey
  <1>4. ASSUME SwitchStore
        PROVE  cache' \in CacheStates
    <2> DEFINE ready == ~cache.ready
    <2>1. ready \in BOOLEAN
      OBVIOUS
    <2>2. cache' = [cache EXCEPT !.ready = ready]
      BY <1>4 DEF SwitchStore
    <2> HIDE DEF ready
    <2> QED BY <1>1, <2>1, <2>2 DEF CacheStates
  <1> QED BY <1>2, <1>3, <1>4, <1>5

LEMMA ClearedType ==
  ASSUME NEW state \in RowStates, NEW by \in {"rotated", "revoked", "dropped"}
  PROVE  /\ Cleared(state, by) \in RowStates
         /\ Cleared(state, by) # "active"
         /\ Cleared(state, by) = "none" <=> state = "none"
         /\ Cleared(state, by) = "rotated" => by = "rotated"
  BY DEF Cleared, RowStates

-------------------------------------------------------------------------------
(* What the proofs need to know of the tokens a request names: those it was *)
(* given have been made.                                                    *)
Given(r) == request[r].op \in {"auto", "explicit", "useCookie", "revoke"}

Shape ==
  /\ held \subseteq Made /\ dead \subseteq Made /\ cookie \in Made \cup {None}
  /\ \A r \in Requests :
       /\ Given(r) => request[r].token \in Made
       /\ request[r].pc \in {"check", "checkAll", "find", "user", "blacklist", "deactivate",
                           "touch"} => Given(r)
       /\ At(r, "respond") => request[r].token \in Made
       /\ At(r, "idle") => request[r] = Idle

Counts == [requests : 0 .. MaxRequests, failures : 0 .. MaxFaults, redis : 0 .. MaxFaults]

LEMMA CountType ==
  ASSUME TypeOK, RedisFault \/ UNCHANGED count
  PROVE  count' \in Counts /\ count'.failures = count.failures
  BY TokenAssumption DEF TypeOK, RedisFault, Counts

LEMMA StepTypes ==
  ASSUME TypeOK, Shape, NEW r \in Requests, Step(r)
  PROVE  TypeOK'
  <1>1. CASE BeginRequest(r)
    <2>1. ASSUME NEW op \in Operations, NEW t \in Tokens \cup {None},
                 NEW pc \in {"check", "blacklist", "clean", "blacklistAll"}, Begin(r, op, t, pc)
          PROVE  TypeOK'
      <3> DEFINE late == t \in dead
      <3>1. late \in BOOLEAN
        OBVIOUS
      <3>2. request' = [request EXCEPT ![r] =
              [Idle EXCEPT !.pc = pc, !.op = op, !.token = t, !.late = late]]
        BY <2>1 DEF Begin
      <3> HIDE DEF late
      <3>4. [Idle EXCEPT !.pc = pc, !.op = op, !.token = t, !.late = late] \in RequestStates
        BY <3>1 DEF Idle, RequestStates
      <3>5. request' \in [Requests -> RequestStates]
        BY <3>2, <3>4 DEF TypeOK
      <3>3. count' \in [requests : 0 .. MaxRequests, failures : 0 .. MaxFaults,
                        redis : 0 .. MaxFaults]
        BY <2>1, TokenAssumption DEF Begin, TypeOK
      <3> QED BY <2>1, <3>3, <3>5 DEF Begin, TypeOK
    <2>2. held \subseteq Tokens /\ cookie \in Tokens \cup {None}
      BY DEF TypeOK
    <2> QED BY <1>1, <2>1, <2>2 DEF BeginRequest, Operations
  <1>2. CASE CheckBlacklist(r) \/ CheckUserListed(r) \/ FindRecord(r) \/ CheckUser(r)
    <2>1. /\ UNCHANGED <<cache, token, held, dead, cookie>>
          /\ RedisFault \/ UNCHANGED count
          /\ \/ Refuse(r) \/ Go(r, "checkAll") \/ Go(r, "find") \/ Go(r, "user")
             \/ Go(r, "blacklist")
      BY <1>2 DEF CheckBlacklist, CheckUserListed, FindRecord, CheckUser, Absent, RefuseListed
    <2>2. request' \in [Requests -> RequestStates]
      BY <2>1, RefuseType, GoType
    <2>3. count' \in Counts
      BY <2>1, CountType
    <2> QED BY <2>1, <2>2, <2>3 DEF TypeOK, Counts
  <1>3. CASE BlacklistToken(r) \/ BlacklistAllUserTokens(r)
    <2>1. /\ UNCHANGED <<token, held, dead, cookie>>
          /\ RedisFault \/ UNCHANGED count
          /\ Go(r, "deactivate") \/ Go(r, "deactivateAll")
      BY <1>3 DEF BlacklistToken, BlacklistAllUserTokens, Enter
    <2>2. request' \in [Requests -> RequestStates]
      BY <2>1, GoType
    <2>3. \E key \in CacheKeys : CacheSet(key) \/ CacheSetAside(key)
      BY <1>3, TokenAssumption DEF BlacklistToken, BlacklistAllUserTokens, Enter, Shape, Given,
         At, Made, TypeOK, RequestStates, User
    <2>4. cache' \in CacheStates
      BY <2>3, CacheType, TokenAssumption
    <2>5. count' \in Counts
      BY <2>1, CountType
    <2> QED BY <2>1, <2>2, <2>4, <2>5 DEF TypeOK, Counts
  <1>4. CASE Deactivate(r)
    <2>1. request' \in [Requests -> RequestStates]
      BY <1>4, RefuseType, GoType DEF Deactivate
    <2>2. request[r].token \in Tokens
      BY <1>4 DEF Deactivate, At, Shape, Given, Made
    <2>3. token' \in [Tokens -> TokenRows]
      <3>1. \A by \in {"rotated", "revoked"} :
              [token EXCEPT ![request[r].token].state = Cleared(@, by)] \in [Tokens -> TokenRows]
        BY <2>2, ClearedType DEF TypeOK, TokenRows
      <3> QED BY <1>4, <3>1 DEF Deactivate, TypeOK
    <2> QED BY <1>4, <2>1, <2>2, <2>3 DEF Deactivate, TypeOK
  <1>5. CASE TouchLastUsed(r)
    <2>1. request' \in [Requests -> RequestStates]
      BY <1>5, RefuseType, GoType DEF TouchLastUsed
    <2>2. token' \in [Tokens -> TokenRows]
      <3>1. token \in [Tokens -> TokenRows]
        BY DEF TypeOK
      <3>2. CASE UNCHANGED token
        BY <3>1, <3>2
      <3>3. CASE token' = [token EXCEPT ![request[r].token].used = TRUE]
        <4>1. ASSUME NEW t \in Tokens PROVE token'[t] \in TokenRows
          <5>1. token'[t] = token[t] \/ token'[t] = [token[t] EXCEPT !.used = TRUE]
            BY <3>1, <3>3
          <5> QED BY <3>1, <5>1 DEF TokenRows
        <4>2. token' = [t \in Tokens |-> token'[t]]
          BY <3>1, <3>3
        <4> HIDE <3>3
        <4> QED BY <4>1, <4>2
      <3> QED BY <1>5, <3>2, <3>3 DEF TouchLastUsed
    <2> QED BY <1>5, <2>1, <2>2 DEF TouchLastUsed, TypeOK
  <1>6. CASE CountActive(r)
    <2> DEFINE excess == Excess(Cardinality(LiveTokens))
    <2>1. excess \in Nat
      <3>1. Cardinality(LiveTokens) \in Nat /\ MaxActive \in Nat
        BY Finite, TokenAssumption DEF LiveTokens
      <3> QED BY <3>1 DEF Excess
    <2>2. \E pc \in {"victims", "insert"} :
            request' = [request EXCEPT ![r].pc = pc, ![r].excess = excess]
      BY <1>6 DEF CountActive
    <2> HIDE DEF excess
    <2>3. request' \in [Requests -> RequestStates]
      <3>1. PICK pc \in {"victims", "insert"} :
              request' = [request EXCEPT ![r] = [request[r] EXCEPT !.pc = pc, !.excess = excess]]
        BY <2>2
      <3>2. [request[r] EXCEPT !.pc = pc, !.excess = excess] \in RequestStates
        <4>1. request[r] \in RequestStates
          BY DEF TypeOK
        <4> QED BY <2>1, <4>1 DEF RequestStates
      <3> QED BY <3>1, <3>2 DEF TypeOK
    <2> QED BY <1>6, <2>3 DEF CountActive, TypeOK
  <1>7. CASE FindOldest(r)
    <2>1. PICK S \in SUBSET Tokens :
            request' = [request EXCEPT ![r].pc = "drop", ![r].victims = S]
      BY <1>7 DEF FindOldest, LiveTokens
    <2>2. request' \in [Requests -> RequestStates]
      <3>1. request' = [request EXCEPT ![r] = [request[r] EXCEPT !.pc = "drop", !.victims = S]]
        BY <2>1
      <3>2. [request[r] EXCEPT !.pc = "drop", !.victims = S] \in RequestStates
        <4>1. request[r] \in RequestStates
          BY DEF TypeOK
        <4> QED BY <4>1 DEF RequestStates
      <3> QED BY <3>1, <3>2 DEF TypeOK
    <2> QED BY <1>7, <2>2 DEF FindOldest, TypeOK
  <1>8. CASE DropOldest(r)
    <2>1. request' \in [Requests -> RequestStates]
      BY <1>8, GoType DEF DropOldest
    <2>2. token' \in [Tokens -> TokenRows]
      BY <1>8, ClearedType DEF DropOldest, TypeOK, TokenRows
    <2> QED BY <1>8, <2>1, <2>2 DEF DropOldest, TypeOK
  <1>9. CASE InsertToken(r)
    <2>1. PICK t \in Tokens :
            /\ token' = [token EXCEPT ![t].state = "active"]
            /\ request' = [request EXCEPT ![r].pc = "respond", ![r].token = t]
      BY <1>9 DEF InsertToken
    <2>2. request' \in [Requests -> RequestStates]
      <3>1. request' = [request EXCEPT ![r] = [request[r] EXCEPT !.pc = "respond", !.token = t]]
        BY <2>1
      <3>2. [request[r] EXCEPT !.pc = "respond", !.token = t] \in RequestStates
        BY DEF TypeOK, RequestStates
      <3> QED BY <3>1, <3>2 DEF TypeOK
    <2>3. token' \in [Tokens -> TokenRows]
      BY <2>1 DEF TypeOK, TokenRows, RowStates
    <2>4. dead' \subseteq Tokens
      BY <1>9 DEF InsertToken, TypeOK, Shape, Given, Rotating, Made
    <2> QED BY <1>9, <2>2, <2>3, <2>4 DEF InsertToken, TypeOK
  <1>10. CASE Respond(r)
    <2>1. request' \in [Requests -> RequestStates]
      BY <1>10, RefuseType DEF Respond
    <2>2. request[r].token \in Tokens
      BY <1>10 DEF Respond, At, Shape, Given, Made, TypeOK, RequestStates
    <2> QED BY <1>10, <2>1, <2>2 DEF Respond, TypeOK
  <1>11. CASE DeactivateAll(r)
    <2>1. request' \in [Requests -> RequestStates]
      BY <1>11, RefuseType DEF DeactivateAll
    <2>2. token' \in [Tokens -> TokenRows]
      BY <1>11 DEF DeactivateAll, TypeOK, TokenRows, RowStates
    <2> QED BY <1>11, <2>1, <2>2 DEF DeactivateAll, TypeOK, Made
  <1>12. CASE FailRequest(r)
    <2>1. request' \in [Requests -> RequestStates]
      BY <1>12, RefuseType DEF FailRequest
    <2>2. count' \in [requests : 0 .. MaxRequests, failures : 0 .. MaxFaults,
                      redis : 0 .. MaxFaults]
      BY <1>12, TokenAssumption DEF FailRequest, TypeOK
    <2> QED BY <1>12, <2>1, <2>2 DEF FailRequest, TypeOK
  <1>13. CASE CleanupExpiredTokens(r)
    <2>1. request' \in [Requests -> RequestStates]
      BY <1>13, GoType DEF CleanupExpiredTokens
    <2>2. token' \in [Tokens -> TokenRows]
      BY <1>13 DEF CleanupExpiredTokens, TypeOK, TokenRows, RowStates
    <2> QED BY <1>13, <2>1, <2>2 DEF CleanupExpiredTokens, TypeOK
  <1> QED BY <1>1, <1>2, <1>3, <1>4, <1>5, <1>6, <1>7, <1>8, <1>9, <1>10, <1>11, <1>12, <1>13
      DEF Step

(* The steps that no request takes. *)
Outside == LapseUserKey \/ SwitchRedis \/ \E t \in Tokens : ExpireToken(t)

LEMMA OutsideTypes ==
  ASSUME TypeOK, Outside
  PROVE  TypeOK'
  <1>1. CASE LapseUserKey
    BY <1>1, CacheType, TokenAssumption DEF LapseUserKey, TypeOK
  <1>2. CASE SwitchRedis
    <2>1. count' \in Counts
      BY <1>2, CountType DEF SwitchRedis
    <2> QED BY <1>2, <2>1, CacheType, TokenAssumption DEF SwitchRedis, TypeOK, Counts
  <1>3. CASE \E t \in Tokens : ExpireToken(t)
    <2>1. token' \in [Tokens -> TokenRows]
      BY <1>3 DEF ExpireToken, TypeOK, TokenRows, RowStates
    <2> QED BY <1>3, <2>1 DEF ExpireToken, TypeOK
  <1> QED BY <1>1, <1>2, <1>3 DEF Outside

-------------------------------------------------------------------------------
(* What a step of a request may do: it touches no other request, a token that *)
(* was made stays made, only an insertion makes a token live, and only a      *)
(* rotation at "deactivate" makes one rotated.                                *)
LEMMA StepEffects ==
  ASSUME TypeOK, Shape, NEW r \in Requests, Step(r)
  PROVE  /\ \A s \in Requests \ {r} : request'[s] = request[s]
         /\ \A t \in Tokens :
              /\ token[t].state # "none" => token'[t].state # "none"
              /\ token'[t].state = "active" =>
                   token[t].state = "active" \/ (At(r, "insert") /\ token[t].state = "none")
              /\ token'[t].state = "rotated" =>
                   \/ token[t].state = "rotated"
                   \/ At(r, "deactivate") /\ Rotating(r) /\ t = request[r].token
  <1>1. \A s \in Requests \ {r} : request'[s] = request[s]
    BY DEF Refuse, RefuseListed, Go, TypeOK, Step, BeginRequest, Begin, CheckBlacklist,
       CheckUserListed, FindRecord, CheckUser, BlacklistToken, Deactivate, TouchLastUsed,
       CleanupExpiredTokens, CountActive, FindOldest, DropOldest, InsertToken, Respond,
       BlacklistAllUserTokens, DeactivateAll, FailRequest
  <1>2. ASSUME NEW t \in Tokens
        PROVE  /\ token[t].state # "none" => token'[t].state # "none"
               /\ token'[t].state = "active" =>
                    token[t].state = "active" \/ (At(r, "insert") /\ token[t].state = "none")
               /\ token'[t].state = "rotated" =>
                    \/ token[t].state = "rotated"
                    \/ At(r, "deactivate") /\ Rotating(r) /\ t = request[r].token
    <2>0. token \in [Tokens -> TokenRows] /\ token[t].state \in RowStates
      BY DEF TypeOK, TokenRows
    <2>1. CASE token' = token
      BY <2>1
    <2>2. CASE Deactivate(r)
      <3>1. request[r].token \in Tokens
        BY <2>2 DEF Deactivate, At, Shape, Given, Made
      <3>2. token' = token \/ \E by \in {"rotated", "revoked"} :
              /\ by = "rotated" => Rotating(r)
              /\ token' = [token EXCEPT ![request[r].token].state = Cleared(@, by)]
        BY <2>2 DEF Deactivate
      <3>3. CASE \E by \in {"rotated", "revoked"} :
              /\ by = "rotated" => Rotating(r)
              /\ token' = [token EXCEPT ![request[r].token].state = Cleared(@, by)]
        BY <2>0, <2>2, <3>1, <3>3, ClearedType DEF Deactivate, TokenRows
      <3> QED BY <2>1, <3>2, <3>3
    <2>3. CASE TouchLastUsed(r)
      BY <2>0, <2>3 DEF TouchLastUsed, TokenRows
    <2>4. CASE CleanupExpiredTokens(r)
      BY <2>0, <2>4 DEF CleanupExpiredTokens, TokenRows
    <2>5. CASE DropOldest(r)
      BY <2>0, <2>5, ClearedType DEF DropOldest, TokenRows
    <2>6. CASE InsertToken(r)
      BY <2>0, <2>6 DEF InsertToken, TokenRows
    <2>7. CASE DeactivateAll(r)
      BY <2>0, <2>7 DEF DeactivateAll, TokenRows
    <2>8. \/ token' = token \/ Deactivate(r) \/ TouchLastUsed(r) \/ CleanupExpiredTokens(r)
          \/ DropOldest(r) \/ InsertToken(r) \/ DeactivateAll(r)
      BY DEF Step, BeginRequest, Begin, CheckBlacklist, CheckUserListed, FindRecord, CheckUser,
         BlacklistToken, CountActive, FindOldest, Respond, BlacklistAllUserTokens, FailRequest
    <2> QED BY <2>1, <2>2, <2>3, <2>4, <2>5, <2>6, <2>7, <2>8
  <1> QED BY <1>1, <1>2

LEMMA OutsideEffects ==
  ASSUME TypeOK, Outside
  PROVE  /\ UNCHANGED <<request, held, dead, cookie>>
         /\ count'.failures = count.failures
         /\ \A t \in Tokens : token'[t].state # token[t].state =>
              token[t].state # "none" /\ token'[t].state = "expired"
  <1>1. CASE LapseUserKey \/ SwitchRedis
    BY <1>1, CountType DEF LapseUserKey, SwitchRedis
  <1>2. CASE \E t \in Tokens : ExpireToken(t)
    BY <1>2 DEF ExpireToken, TypeOK, TokenRows
  <1> QED BY <1>1, <1>2 DEF Outside

(* A request's steps keep the shape of what is named. *)
LEMMA StepShape ==
  ASSUME TypeOK, Shape, NEW r \in Requests, Step(r)
  PROVE  Shape'
  <1>1. Made \subseteq Made'
    BY StepEffects DEF Made
  <1>2. held' \subseteq Made' /\ dead' \subseteq Made' /\ cookie' \in Made' \cup {None}
    <2>1. CASE Deactivate(r)
      BY <1>1, <2>1 DEF Deactivate, Shape, Given, At
    <2>2. CASE InsertToken(r)
      BY <1>1, <2>2 DEF InsertToken, Shape, Given, Rotating
    <2>3. CASE Respond(r)
      BY <1>1, <2>3 DEF Respond, Shape
    <2>4. CASE DeactivateAll(r)
      BY <1>1, <2>4 DEF DeactivateAll, Shape
    <2>5. \/ UNCHANGED <<held, dead, cookie>>
          \/ Deactivate(r) \/ InsertToken(r) \/ Respond(r) \/ DeactivateAll(r)
      BY DEF Step, BeginRequest, Begin, CheckBlacklist, CheckUserListed, FindRecord, CheckUser,
         BlacklistToken, TouchLastUsed, CleanupExpiredTokens, CountActive, FindOldest, DropOldest,
         BlacklistAllUserTokens, FailRequest
    <2> QED BY <1>1, <2>1, <2>2, <2>3, <2>4, <2>5 DEF Shape
  <1> DEFINE Names(s) ==
               /\ Given(s) => request[s].token \in Made
               /\ request[s].pc \in {"check", "checkAll", "find", "user", "blacklist", "deactivate",
                                   "touch"} => Given(s)
               /\ At(s, "respond") => request[s].token \in Made
               /\ At(s, "idle") => request[s] = Idle
  <1>3. ASSUME NEW s \in Requests \ {r}
        PROVE  Names(s)'
    BY <1>1, StepEffects DEF Shape, Given, At
  <1>4. Names(r)'
    <2>1. CASE BeginRequest(r)
      <3>1. PICK op \in Operations, t \in Tokens \cup {None},
                 pc \in {"check", "blacklist", "clean", "blacklistAll"} :
              /\ Begin(r, op, t, pc)
              /\ op \in {"auto", "explicit", "useCookie", "revoke"} => t \in Made
              /\ pc \in {"check", "blacklist"} =>
                   op \in {"auto", "explicit", "useCookie", "revoke"}
        BY <2>1 DEF BeginRequest, Shape, Made, Operations
      <3> DEFINE late == t \in dead
      <3>2. request'[r] = [pc |-> pc, op |-> op, token |-> t, late |-> late,
                           excess |-> 0, victims |-> {}]
        BY <3>1 DEF Begin, Idle, TypeOK
      <3> HIDE DEF late
      <3> QED BY <1>1, <3>1, <3>2 DEF Given, At
    <2>2. CASE Refuse(r)
      BY <2>2 DEF Refuse, Idle, TypeOK, Given, At
    <2>3. CASE \E pc : Go(r, pc) /\ pc \in {"checkAll", "find", "user", "blacklist", "deactivate", "touch"}
                      /\ Given(r)
      BY <1>1, <2>3 DEF Go, TypeOK, RequestStates, Given, At, Shape
    <2>4. CASE Go(r, "insert") \/ Go(r, "clean") \/ Go(r, "count") \/ Go(r, "deactivateAll")
      BY <1>1, <2>4 DEF Go, TypeOK, RequestStates, Given, At, Shape
    <2>5. CASE CountActive(r) \/ FindOldest(r)
      BY <1>1, <2>5 DEF CountActive, FindOldest, TypeOK, RequestStates, Given, At, Shape
    <2>6. CASE InsertToken(r)
      BY <2>6 DEF InsertToken, TypeOK, RequestStates, TokenRows, Given, At, Made
    <2>7. \/ BeginRequest(r) \/ Refuse(r)
          \/ \E pc : Go(r, pc) /\ pc \in {"checkAll", "find", "user", "blacklist", "deactivate", "touch"}
                     /\ Given(r)
          \/ Go(r, "insert") \/ Go(r, "clean") \/ Go(r, "count") \/ Go(r, "deactivateAll")
          \/ CountActive(r) \/ FindOldest(r) \/ InsertToken(r)
      BY DEF Step, CheckBlacklist, CheckUserListed, FindRecord, CheckUser, RefuseListed,
         BlacklistToken, Deactivate, TouchLastUsed, CleanupExpiredTokens, DropOldest, Respond,
         BlacklistAllUserTokens, DeactivateAll, FailRequest, Shape, At
    <2> QED BY <2>1, <2>2, <2>3, <2>4, <2>5, <2>6, <2>7
  <1> QED BY <1>2, <1>3, <1>4 DEF Shape

LEMMA OutsideShape ==
  ASSUME TypeOK, Shape, Outside
  PROVE  Shape'
  BY OutsideEffects DEF Shape, Made, Given, At

(* The initial state. *)
LEMMA InitTypes ==
  ASSUME Init
  PROVE  TypeOK /\ Shape
  <1>1. 1 \in Tokens
    BY TokenAssumption DEF Tokens
  <1>2. token \in [Tokens -> TokenRows] /\ Made = {1}
    BY <1>1 DEF Init, TokenRows, RowStates, Made
  <1>3. cache \in CacheStates
    BY DEF Init, CacheInit, CacheStates
  <1>4. Idle \in RequestStates
    BY DEF Idle, RequestStates
  <1>5. request \in [Requests -> RequestStates]
    BY <1>4 DEF Init
  <1>6. count \in [requests : 0 .. MaxRequests, failures : 0 .. MaxFaults,
                   redis : 0 .. MaxFaults]
    BY TokenAssumption DEF Init
  <1>7. TypeOK
    BY <1>1, <1>2, <1>3, <1>5, <1>6 DEF Init, TypeOK
  <1>8. Shape
    BY <1>1, <1>2 DEF Init, Shape, Given, At, Idle, None
  <1> QED BY <1>7, <1>8

LEMMA NextTypes ==
  TypeOK /\ Shape /\ [Next]_vars => (TypeOK /\ Shape)'
  <1> SUFFICES ASSUME TypeOK, Shape, [Next]_vars
               PROVE  (TypeOK /\ Shape)'
    OBVIOUS
  <1>1. ASSUME NEW r \in Requests, Step(r)
        PROVE  (TypeOK /\ Shape)'
    BY <1>1, StepTypes, StepShape
  <1>2. CASE Outside
    BY <1>2, OutsideTypes, OutsideShape
  <1>3. CASE UNCHANGED vars
    BY <1>3 DEF vars, TypeOK, Shape, Made, Given, At
  <1> QED BY <1>1, <1>2, <1>3 DEF Next, Outside

(* Every state has the shape that TypeOK states: the rows, the requests, the  *)
(* cache of tokenBlacklistService.js and what clients hold are of their types. *)
THEOREM TokenTypes == Spec => []TypeOK
  <1>1. Init => TypeOK /\ Shape
    BY InitTypes
  <1> QED BY <1>1, NextTypes, PTL DEF Spec

(***************************************************************************)
(* What was rotated or revoked is dead.                                    *)
(***************************************************************************)

(* A request that comes late passes neither of the two guards: the blacklist  *)
(* may have forgotten its token, but the row is not live, for what made the   *)
(* token dead had cleared the row before, and no step makes a row live again. *)
Rotation(r) ==
  Rotating(r) =>
    /\ request[r].pc \in {"touch", "clean", "count", "victims", "drop", "insert"} =>
         ~Live(request[r].token)
    /\ request[r].late =>
         request[r].pc \in {"check", "checkAll", "find"} /\ request[r].token \in dead

DeadInv ==
  /\ \A t \in dead : ~Live(t)
  /\ \A r \in Requests : Rotation(r)

LEMMA StepDead ==
  ASSUME TypeOK, Shape, DeadInv, NEW r \in Requests, Step(r)
  PROVE  DeadInv'
  <1>1. dead \subseteq dead'
    BY DEF Step, BeginRequest, Begin, CheckBlacklist, CheckUserListed, FindRecord, CheckUser,
       BlacklistToken, Deactivate, TouchLastUsed, CleanupExpiredTokens, CountActive, FindOldest,
       DropOldest, InsertToken, Respond, BlacklistAllUserTokens, DeactivateAll, FailRequest
  <1>2. \A t \in Made : Live(t)' => Live(t)
    BY StepEffects DEF Made, Live
  <1>3. \A t \in dead' : ~Live(t)'
    <2>1. CASE dead' = dead
      BY <1>2, <2>1 DEF DeadInv, Shape
    <2>2. CASE Deactivate(r) /\ ~Rotating(r)
      <3>1. request[r].token \in Made
        BY <2>2 DEF Deactivate, At, Shape, Given
      <3>2. token'[request[r].token].state = Cleared(token[request[r].token].state, "revoked")
        BY <2>2, <3>1 DEF Deactivate, TypeOK, TokenRows, Made
      <3>3. ~(token'[request[r].token].state = "active")
        BY <3>1, <3>2, ClearedType DEF TypeOK, TokenRows, Made
      <3>4. dead' = dead \cup {request[r].token}
        BY <2>2 DEF Deactivate
      <3> QED BY <1>2, <3>3, <3>4 DEF DeadInv, Shape, Live
    <2>3. CASE InsertToken(r) /\ Rotating(r)
      <3>1. request[r].token \in Made /\ ~Live(request[r].token)
        BY <2>3 DEF InsertToken, At, Shape, Given, Rotating, DeadInv, Rotation
      <3> QED BY <1>2, <2>3, <3>1 DEF InsertToken, DeadInv, Shape
    <2>4. CASE DeactivateAll(r)
      BY <2>4 DEF DeactivateAll, Live, Made, Shape, TypeOK, TokenRows
    <2>5. dead' = dead \/ Deactivate(r) \/ InsertToken(r) \/ DeactivateAll(r)
      BY DEF Step, BeginRequest, Begin, CheckBlacklist, CheckUserListed, FindRecord, CheckUser,
         BlacklistToken, TouchLastUsed, CleanupExpiredTokens, CountActive, FindOldest, DropOldest,
         Respond, BlacklistAllUserTokens, FailRequest
    <2>6. /\ Deactivate(r) /\ Rotating(r) => dead' = dead
          /\ InsertToken(r) /\ ~Rotating(r) => dead' = dead
      BY DEF Deactivate, InsertToken
    <2> QED BY <2>1, <2>2, <2>3, <2>4, <2>5, <2>6
  <1>4. ASSUME NEW s \in Requests \ {r}
        PROVE  Rotation(s)'
    <2>1. request'[s] = request[s] /\ Rotation(s)
      BY StepEffects DEF DeadInv
    <2>2. Rotating(s) => request[s].token \in Made
      BY DEF Shape, Given, Rotating
    <2> QED BY <1>1, <1>2, <2>1, <2>2 DEF Rotation, Rotating, Live
  <1>5. Rotation(r)'
    <2>1. CASE BeginRequest(r)
      <3>1. PICK op \in Operations, t \in Tokens \cup {None},
                 pc \in {"check", "blacklist", "clean", "blacklistAll"} :
              /\ Begin(r, op, t, pc)
              /\ op \in {"auto", "explicit", "useCookie"} => pc = "check"
        BY <2>1 DEF BeginRequest, TypeOK, Operations
      <3> DEFINE late == t \in dead
      <3>2. request'[r] = [pc |-> pc, op |-> op, token |-> t, late |-> late,
                           excess |-> 0, victims |-> {}]
        BY <3>1 DEF Begin, Idle, TypeOK
      <3> HIDE DEF late
      <3>3. late => t \in dead
        BY DEF late
      <3> QED BY <1>1, <3>1, <3>2, <3>3 DEF Rotation, Rotating
    <2>2. CASE Refuse(r)
      BY <2>2 DEF Refuse, Idle, TypeOK, Rotation, Rotating
    <2>3. CASE \/ CheckBlacklist(r) \/ CheckUserListed(r) \/ FindRecord(r) \/ CheckUser(r)
               \/ BlacklistToken(r)
      <3>1. CASE /\ \/ Go(r, "checkAll") /\ At(r, "check")
                    \/ Go(r, "find") /\ At(r, "checkAll")
                 /\ dead' = dead
        BY <3>1 DEF Go, At, TypeOK, RequestStates, DeadInv, Rotation, Rotating
      <3>2. CASE /\ Go(r, "user") /\ At(r, "find") /\ Live(request[r].token)
        BY <3>2 DEF Go, At, TypeOK, RequestStates, DeadInv, Rotation, Rotating
      <3>3. CASE \/ Go(r, "blacklist") /\ At(r, "user")
                 \/ Go(r, "deactivate") /\ At(r, "blacklist")
        BY <3>3 DEF Go, At, TypeOK, RequestStates, DeadInv, Rotation, Rotating
      <3>4. \/ Refuse(r)
            \/ Go(r, "checkAll") /\ At(r, "check") /\ dead' = dead
            \/ Go(r, "find") /\ At(r, "checkAll") /\ dead' = dead
            \/ Go(r, "user") /\ At(r, "find") /\ Live(request[r].token)
            \/ Go(r, "blacklist") /\ At(r, "user")
            \/ Go(r, "deactivate") /\ At(r, "blacklist")
        BY <2>3 DEF CheckBlacklist, CheckUserListed, FindRecord, CheckUser, BlacklistToken,
           Absent, RefuseListed
      <3> QED BY <2>2, <3>1, <3>2, <3>3, <3>4
    <2>4. CASE Deactivate(r) /\ ~Refuse(r)
      <3>1. request[r].token \in Made /\ Rotating(r) /\ ~request[r].late
        BY <2>4 DEF Deactivate, At, Shape, Given, DeadInv, Rotation
      <3>2. token'[request[r].token].state = Cleared(token[request[r].token].state, "rotated")
        BY <2>4, <3>1 DEF Deactivate, TypeOK, TokenRows, Made
      <3>3. ~(token'[request[r].token].state = "active")
        BY <3>1, <3>2, ClearedType DEF TypeOK, TokenRows, Made
      <3>4. request'[r].token = request[r].token /\ request'[r].late = request[r].late
        BY <2>4 DEF Deactivate, Go, TypeOK, RequestStates
      <3> QED BY <3>1, <3>3, <3>4 DEF Rotation, Live
    <2>5. CASE \E old \in {"touch", "clean", "count", "victims", "drop"} :
                 \E new \in {"clean", "count", "victims", "drop", "insert"} :
                 /\ At(r, old) /\ request'[r].pc = new
                 /\ request'[r].op = request[r].op
                 /\ request'[r].token = request[r].token
                 /\ request'[r].late = request[r].late
      <3>1. Rotating(r) => request[r].token \in Made
        BY DEF Shape, Given, Rotating
      <3> QED BY <1>2, <2>5, <3>1 DEF At, DeadInv, Rotation, Rotating, Live
    <2>6. CASE InsertToken(r)
      <3>1. Rotating(r) => ~request[r].late
        BY <2>6 DEF InsertToken, At, DeadInv, Rotation
      <3>2. /\ request'[r].pc = "respond" /\ request'[r].op = request[r].op
            /\ request'[r].late = request[r].late
        BY <2>6 DEF InsertToken, TypeOK, RequestStates
      <3> QED BY <3>1, <3>2 DEF Rotation, Rotating
    <2>7. CASE BlacklistAllUserTokens(r)
      <3>1. ~Rotating(r) \/ ~request[r].late
        BY <2>7 DEF BlacklistAllUserTokens, At, DeadInv, Rotation
      <3>2. /\ request'[r].pc = "deactivateAll" /\ request'[r].op = request[r].op
            /\ request'[r].late = request[r].late
        BY <2>7 DEF BlacklistAllUserTokens, Go, TypeOK, RequestStates
      <3> QED BY <3>1, <3>2 DEF Rotation, Rotating
    <2>8. CASE \/ TouchLastUsed(r) \/ CleanupExpiredTokens(r) \/ CountActive(r)
               \/ FindOldest(r) \/ DropOldest(r)
      <3>1. \/ Refuse(r)
            \/ \E old \in {"touch", "clean", "count", "victims", "drop"} :
                 \E new \in {"clean", "count", "victims", "drop", "insert"} :
                 /\ At(r, old) /\ request'[r].pc = new
                 /\ request'[r].op = request[r].op
                 /\ request'[r].token = request[r].token
                 /\ request'[r].late = request[r].late
        BY <2>8 DEF TouchLastUsed, CleanupExpiredTokens, CountActive, FindOldest, DropOldest, Go,
           TypeOK, RequestStates
      <3> QED BY <2>2, <2>5, <3>1
    <2> QED BY <2>1, <2>2, <2>3, <2>4, <2>6, <2>7, <2>8 DEF Step, Respond, DeactivateAll,
         FailRequest
  <1> QED BY <1>3, <1>4, <1>5 DEF DeadInv

LEMMA OutsideDead ==
  ASSUME TypeOK, Shape, DeadInv, Outside
  PROVE  DeadInv'
  <1>1. \A t \in Made : Live(t)' => Live(t)
    BY OutsideEffects DEF Made, Live
  <1>2. UNCHANGED <<request, dead>>
    BY OutsideEffects
  <1>3. ASSUME NEW r \in Requests
        PROVE  Rotation(r)'
    <2>1. Rotating(r) => request[r].token \in Made
      BY DEF Shape, Given, Rotating
    <2> QED BY <1>1, <1>2, <2>1 DEF DeadInv, Rotation, Rotating, Live
  <1> QED BY <1>1, <1>2, <1>3 DEF DeadInv, Shape

LEMMA NextDead ==
  TypeOK /\ Shape /\ DeadInv /\ [Next]_vars => DeadInv'
  <1>1. ASSUME TypeOK, Shape, DeadInv, NEW r \in Requests, Step(r)
        PROVE  DeadInv'
    BY <1>1, StepDead
  <1>2. ASSUME TypeOK, Shape, DeadInv, Outside
        PROVE  DeadInv'
    BY <1>2, OutsideDead
  <1>3. ASSUME DeadInv, UNCHANGED vars
        PROVE  DeadInv'
    BY <1>3 DEF vars, DeadInv, Rotation, Rotating, Live
  <1> QED BY <1>1, <1>2, <1>3 DEF Next, Outside

(* rotateRefreshToken and revokeRefreshToken: once a request answered that it *)
(* rotated or revoked a token, none that comes later rotates it, however      *)
(* Redis comes and goes and whatever of the blacklist is lost with it.        *)
THEOREM DeadTokensStayDead == Spec => []DeadStaysDead
  <1>1. Init => TypeOK /\ Shape
    BY InitTypes
  <1>2. Init => DeadInv
    BY DEF Init, DeadInv, Rotation, Rotating, Idle
  <1>3. DeadInv => DeadStaysDead
    BY DEF DeadInv, Rotation, DeadStaysDead
  <1> QED BY <1>1, <1>2, <1>3, NextTypes, NextDead, PTL DEF Spec

(***************************************************************************)
(* The browser's session survives.                                         *)
(***************************************************************************)

(* A new token is on its way to one client only: nobody holds it, no other    *)
(* request names it, and it cannot have been rotated.                         *)
Fresh(r) ==
  /\ request[r].token \notin held \cup {cookie}
  /\ \A s \in Requests \ {r} : request[s].token # request[r].token
  /\ token[request[r].token].state # "rotated"

Naming(r) ==
  /\ At(r, "respond") => Fresh(r)
  /\ request[r].op \in {"explicit", "useCookie"} /\ ~At(r, "respond") =>
       request[r].token \in held
  /\ request[r].op \in {"login", "revokeAll", "none"} /\ ~At(r, "respond") =>
       request[r].token = None

(* A request of the browser that rotated the cookie's token, or any that has  *)
(* come so far: unless it fails it answers with a new cookie.                 *)
Returning(r) ==
  /\ request[r].op = "auto"
  /\ \/ At(r, "touch") /\ request[r].token = cookie
     \/ request[r].pc \in {"clean", "count", "victims", "drop", "insert", "respond"}

OnlyCookie == cookie \notin held \cup {None}

SessionInv ==
  /\ \A r \in Requests : Naming(r)
  /\ OnlyCookie /\ token[cookie].state = "rotated" /\ count.failures = 0 =>
       \E r \in Requests : Returning(r)

(* A step that keeps what its request is about. *)
Keeps(r) ==
  /\ request'[r].op = request[r].op /\ request'[r].token = request[r].token
  /\ ~At(r, "respond") /\ request'[r].pc # "respond"

LEMMA StepKinds ==
  ASSUME TypeOK, NEW r \in Requests, Step(r)
  PROVE  BeginRequest(r) \/ Refuse(r) \/ InsertToken(r) \/ Keeps(r)
  <1>1. ASSUME NEW from, NEW to, At(r, from), Go(r, to), from # "respond", to # "respond"
        PROVE  Keeps(r)
    BY <1>1 DEF Go, At, Keeps, TypeOK, RequestStates
  <1>2. CASE CheckBlacklist(r) \/ CheckUserListed(r) \/ FindRecord(r) \/ CheckUser(r)
    <2>1. \/ Refuse(r)
          \/ At(r, "check") /\ Go(r, "checkAll")
          \/ At(r, "checkAll") /\ Go(r, "find")
          \/ At(r, "find") /\ Go(r, "user")
          \/ At(r, "user") /\ Go(r, "blacklist")
      BY <1>2 DEF CheckBlacklist, CheckUserListed, FindRecord, CheckUser, RefuseListed
    <2> QED BY <1>1, <2>1
  <1>3. CASE BlacklistToken(r) \/ Deactivate(r) \/ TouchLastUsed(r)
    <2>1. \/ Refuse(r)
          \/ At(r, "blacklist") /\ Go(r, "deactivate")
          \/ At(r, "deactivate") /\ Go(r, "touch")
          \/ At(r, "touch") /\ Go(r, "clean")
      BY <1>3 DEF BlacklistToken, Deactivate, TouchLastUsed
    <2> QED BY <1>1, <2>1
  <1>4. CASE CountActive(r)
    BY <1>4 DEF CountActive, At, Keeps, TypeOK, RequestStates
  <1>5. CASE FindOldest(r)
    BY <1>5 DEF FindOldest, At, Keeps, TypeOK, RequestStates
  <1>6. CASE CleanupExpiredTokens(r) \/ DropOldest(r) \/ BlacklistAllUserTokens(r)
    <2>1. \/ At(r, "clean") /\ Go(r, "count")
          \/ At(r, "drop") /\ Go(r, "insert")
          \/ At(r, "blacklistAll") /\ Go(r, "deactivateAll")
      BY <1>6 DEF CleanupExpiredTokens, DropOldest, BlacklistAllUserTokens
    <2> QED BY <1>1, <2>1
  <1>7. CASE Respond(r) \/ DeactivateAll(r) \/ FailRequest(r)
    BY <1>7 DEF Respond, DeactivateAll, FailRequest
  <1> QED BY <1>2, <1>3, <1>4, <1>5, <1>6, <1>7 DEF Step

(* What a step does to what clients hold. *)
LEMMA StepHolds ==
  ASSUME NEW r \in Requests, Step(r)
  PROVE  \/ UNCHANGED <<held, cookie>>
         \/ /\ At(r, "respond") /\ request[r].op = "auto" /\ UNCHANGED <<token, held>>
            /\ cookie' = request[r].token
         \/ /\ At(r, "respond") /\ request[r].op # "auto" /\ UNCHANGED token
            /\ held' = held \cup {request[r].token}
            /\ \/ request[r].op # "useCookie" /\ UNCHANGED cookie
               \/ request[r].op = "useCookie" /\ cookie' = request[r].token
  BY DEF Step, BeginRequest, Begin, CheckBlacklist, CheckUserListed, FindRecord, CheckUser,
     BlacklistToken, Deactivate, TouchLastUsed, CleanupExpiredTokens, CountActive, FindOldest,
     DropOldest, InsertToken, Respond, BlacklistAllUserTokens, DeactivateAll, FailRequest

LEMMA BeginKinds ==
  ASSUME TypeOK, NEW r \in Requests, BeginRequest(r)
  PROVE  /\ request'[r].pc \in {"check", "blacklist", "clean", "blacklistAll"}
         /\ request'[r].op # "none"
         /\ request'[r].token \in held \cup {cookie, None}
         /\ request'[r].op \in {"explicit", "useCookie"} => request'[r].token \in held
         /\ request'[r].op \in {"login", "revokeAll"} => request'[r].token = None
  <1>1. PICK op \in Operations, t \in held \cup {cookie, None},
             pc \in {"check", "blacklist", "clean", "blacklistAll"} :
          /\ Begin(r, op, t, pc)
          /\ op \in {"explicit", "useCookie"} => t \in held
          /\ op \in {"login", "revokeAll"} => t = None
    BY DEF BeginRequest, Operations
  <1>2. request'[r].pc = pc /\ request'[r].op = op /\ request'[r].token = t
    BY <1>1 DEF Begin, Idle, TypeOK
  <1> QED BY <1>1, <1>2 DEF Operations

LEMMA InsertKinds ==
  ASSUME TypeOK, Shape, NEW r \in Requests, InsertToken(r)
  PROVE  /\ request'[r].op = request[r].op /\ request'[r].pc = "respond"
         /\ request'[r].token \in Tokens \ Made
         /\ token'[request'[r].token].state = "active"
  BY DEF InsertToken, TypeOK, RequestStates, TokenRows, Made

LEMMA StepSession ==
  ASSUME TypeOK, Shape, SessionInv, NEW r \in Requests, Step(r)
  PROVE  SessionInv'
  <1>0. /\ request[r].op \in Operations \cup {"none"}
        /\ \A s \in Requests : request'[s].pc # request[s].pc => s = r
        /\ \A s \in Requests \ {r} : request'[s] = request[s]
    BY StepEffects DEF TypeOK, RequestStates
  (* The names that other requests use. *)
  <1>2. \A s \in Requests : request[s].token \in Made \cup {None}
    <2> SUFFICES ASSUME NEW s \in Requests
                 PROVE  request[s].token \in Made \cup {None}
      OBVIOUS
    <2>1. Naming(s) /\ request[s].op \in Operations \cup {"none"}
      BY DEF SessionInv, TypeOK, RequestStates
    <2>2. CASE At(s, "respond") \/ Given(s)
      BY <2>2 DEF Shape
    <2>3. CASE ~At(s, "respond") /\ request[s].op \in {"login", "revokeAll"}
      BY <2>1, <2>3 DEF Naming
    <2>4. CASE ~At(s, "respond") /\ request[s].op = "none"
      BY <2>1, <2>4 DEF Naming
    <2> QED BY <2>1, <2>2, <2>3, <2>4 DEF Given, Operations
  <1>3. request'[r].token \in {request[r].token, None, cookie} \cup held \cup (Tokens \ Made)
    <2>1. CASE Refuse(r)
      BY <2>1 DEF Refuse, Idle, TypeOK
    <2> QED BY <2>1, StepKinds, BeginKinds, InsertKinds DEF Keeps
  <1>4. ASSUME NEW s \in Requests \ {r}
        PROVE  Naming(s)'
    <2>1. request'[s] = request[s] /\ Naming(s)
      BY StepEffects DEF SessionInv
    <2>2. CASE At(s, "respond")
      <3>1. Fresh(s) /\ request[s].token \in Made /\ request[s].token # None
        BY <2>1, <2>2 DEF Naming, Shape, Made, Tokens, None
      <3>2. request[s].token \notin held' \cup {cookie'}
        BY <3>1, StepHolds DEF Fresh
      <3>3. \A q \in Requests \ {s} : request'[q].token # request[s].token
        BY <1>0, <1>3, <3>1 DEF Fresh
      <3>4. token'[request[s].token].state # "rotated"
        BY <3>1, StepEffects DEF Fresh, Made
      <3> QED BY <2>1, <2>2, <3>2, <3>3, <3>4 DEF Naming, Fresh, At
    <2> QED BY <2>1, <2>2, StepHolds DEF Naming, At
  <1>5. Naming(r)'
    <2>1. CASE BeginRequest(r)
      <3>1. held' = held
        BY <2>1 DEF BeginRequest, Begin
      <3> QED BY <2>1, <3>1, BeginKinds DEF Naming, At
    <2>2. CASE Refuse(r)
      BY <2>2 DEF Refuse, Idle, TypeOK, Naming, At
    <2>3. CASE InsertToken(r)
      <3>1. /\ request'[r].pc = "respond" /\ request'[r].token \in Tokens \ Made
            /\ token'[request'[r].token].state = "active" /\ UNCHANGED <<held, cookie>>
        BY <2>3, InsertKinds DEF InsertToken
      <3>2. \A s \in Requests \ {r} : request'[s].token # request'[r].token
        BY <1>0, <1>2, <3>1 DEF Tokens, None
      <3> QED BY <3>1, <3>2 DEF Naming, Fresh, At, Shape, Tokens, None
    <2>4. CASE Keeps(r)
      BY <2>4, StepHolds DEF Keeps, Naming, At, SessionInv
    <2> QED BY <2>1, <2>2, <2>3, <2>4, StepKinds
  <1>6. ASSUME OnlyCookie', token'[cookie'].state = "rotated", count'.failures = 0
        PROVE  \E s \in Requests : Returning(s)'
    <2>1. ~FailRequest(r) /\ count.failures = 0
      <3>1. CASE FailRequest(r)
        <4>1. count'.failures = count.failures + 1 /\ count.failures \in 0 .. MaxFaults
          BY <3>1 DEF FailRequest, TypeOK
        <4> QED BY <1>6, <4>1, TokenAssumption
      <3>2. CASE BeginRequest(r)
        <4>1. count'.failures = count.failures
          BY <3>2 DEF BeginRequest, Begin, TypeOK
        <4> QED BY <1>6, <3>1, <4>1
      <3>3. CASE RedisFault \/ UNCHANGED count
        BY <1>6, <3>1, <3>3, CountType
      <3>4. FailRequest(r) \/ BeginRequest(r) \/ RedisFault \/ UNCHANGED count
        BY DEF Step, CheckBlacklist, CheckUserListed, FindRecord, CheckUser, Absent, RefuseListed,
           BlacklistToken, Enter, Deactivate, TouchLastUsed, CleanupExpiredTokens, CountActive,
           FindOldest, DropOldest, InsertToken, Respond, BlacklistAllUserTokens, DeactivateAll
      <3> QED BY <3>1, <3>2, <3>3, <3>4
    <2>2. cookie' = cookie /\ OnlyCookie
      BY <1>6, StepHolds DEF SessionInv, Naming, Fresh, OnlyCookie
    <2>3. CASE token[cookie].state # "rotated"
      <3>1. At(r, "deactivate") /\ Rotating(r) /\ cookie = request[r].token
        BY <1>6, <2>2, <2>3, StepEffects DEF TypeOK, OnlyCookie
      <3>2. request[r].op = "auto"
        BY <2>2, <3>1 DEF SessionInv, Naming, Rotating, OnlyCookie, At
      <3>3. Deactivate(r)
        BY <2>1, <3>1 DEF Step, BeginRequest, Begin, CheckBlacklist, CheckUserListed, FindRecord,
           CheckUser, BlacklistToken, TouchLastUsed, CleanupExpiredTokens, CountActive, FindOldest,
           DropOldest, InsertToken, Respond, BlacklistAllUserTokens, DeactivateAll, At
      <3>4. Go(r, "touch")
        BY <1>6, <2>2, <3>1, <3>3 DEF Deactivate
      <3> QED BY <2>2, <3>1, <3>2, <3>4 DEF Go, Returning, At, TypeOK, RequestStates
    <2>4. CASE token[cookie].state = "rotated"
      <3>1. PICK s \in Requests : Returning(s)
        BY <2>1, <2>2, <2>4 DEF SessionInv
      <3>2. CASE s # r
        BY <1>0, <2>2, <3>1, <3>2 DEF Returning, At
      <3>3. CASE s = r /\ At(r, "touch")
        <4>1. TouchLastUsed(r)
          BY <2>1, <3>3 DEF Step, BeginRequest, Begin, CheckBlacklist, CheckUserListed,
             FindRecord, CheckUser, BlacklistToken, Deactivate, CleanupExpiredTokens, CountActive,
             FindOldest, DropOldest, InsertToken, Respond, BlacklistAllUserTokens, DeactivateAll, At
        <4>2. Go(r, "clean")
          BY <2>4, <3>1, <3>3, <4>1 DEF TouchLastUsed, Returning, At
        <4> QED BY <3>1, <3>3, <4>2 DEF Go, Returning, At, TypeOK, RequestStates
      <3>4. CASE s = r /\ request[r].pc \in {"clean", "count", "victims", "drop", "insert"}
        <4>1. \/ CleanupExpiredTokens(r) \/ CountActive(r) \/ FindOldest(r) \/ DropOldest(r)
              \/ InsertToken(r)
          BY <2>1, <3>4 DEF Step, BeginRequest, Begin, CheckBlacklist, CheckUserListed,
             FindRecord, CheckUser, BlacklistToken, Deactivate, TouchLastUsed, Respond,
             BlacklistAllUserTokens, DeactivateAll, At
        <4>2. /\ request'[r].op = request[r].op
              /\ request'[r].pc \in {"count", "victims", "drop", "insert", "respond"}
          BY <4>1 DEF CleanupExpiredTokens, CountActive, FindOldest, DropOldest, InsertToken, Go,
             TypeOK, RequestStates
        <4> QED BY <3>1, <3>4, <4>2 DEF Returning, At
      <3>5. CASE s = r /\ At(r, "respond")
        <4>1. Respond(r)
          BY <2>1, <3>5 DEF Step, BeginRequest, Begin, CheckBlacklist, CheckUserListed,
             FindRecord, CheckUser, BlacklistToken, Deactivate, TouchLastUsed, CleanupExpiredTokens,
             CountActive, FindOldest, DropOldest, InsertToken, BlacklistAllUserTokens, DeactivateAll,
             At
        <4>2. cookie' = request[r].token
          BY <3>1, <3>5, <4>1 DEF Respond, Returning
        <4> QED BY <2>2, <3>5, <4>2 DEF SessionInv, Naming, Fresh
      <3> QED BY <3>1, <3>2, <3>3, <3>4, <3>5 DEF Returning, At
    <2> QED BY <2>3, <2>4
  <1>7. \A s \in Requests : Naming(s)'
    BY <1>4, <1>5
  <1> QED BY <1>6, <1>7 DEF SessionInv

LEMMA OutsideSession ==
  ASSUME TypeOK, Shape, SessionInv, Outside
  PROVE  SessionInv'
  <1>1. /\ UNCHANGED <<request, held, dead, cookie>>
        /\ count'.failures = count.failures
    BY OutsideEffects
  <1>2. \A t \in Tokens : token'[t].state = "rotated" => token[t].state = "rotated"
    BY OutsideEffects
  <1>3. ASSUME NEW r \in Requests
        PROVE  Naming(r)'
    <2>1. Naming(r)
      BY DEF SessionInv
    <2>2. At(r, "respond") => request[r].token \in Tokens
      BY DEF Shape, Made
    <2> QED BY <1>1, <1>2, <2>1, <2>2 DEF Naming, Fresh, At
  <1>4. OnlyCookie' => OnlyCookie
    BY <1>1 DEF OnlyCookie
  <1>5. OnlyCookie /\ token'[cookie].state = "rotated" => token[cookie].state = "rotated"
    BY <1>2 DEF TypeOK, OnlyCookie
  <1> QED BY <1>1, <1>3, <1>4, <1>5 DEF SessionInv, Returning, At

LEMMA NextSession ==
  TypeOK /\ Shape /\ SessionInv /\ [Next]_vars => SessionInv'
  <1>1. ASSUME TypeOK, Shape, SessionInv, NEW r \in Requests, Step(r)
        PROVE  SessionInv'
    BY <1>1, StepSession
  <1>2. ASSUME TypeOK, Shape, SessionInv, Outside
        PROVE  SessionInv'
    BY <1>2, OutsideSession
  <1>3. ASSUME SessionInv, UNCHANGED vars
        PROVE  SessionInv'
    BY <1>3 DEF vars, SessionInv, OnlyCookie, Naming, Fresh, Returning, At
  <1> QED BY <1>1, <1>2, <1>3 DEF Next, Outside

(* autoRefresh.js: requests of one browser that refresh at the same time      *)
(* leave it a cookie that none of them rotated, unless a call failed or the   *)
(* body of an answer carried the cookie's token, as useCookie's does.         *)
THEOREM TheSessionSurvives == Spec => []SessionSurvives
  <1>1. Init => TypeOK /\ Shape
    BY InitTypes
  <1>2. Init => SessionInv
    <2>1. 1 \in Tokens
      BY TokenAssumption DEF Tokens
    <2> QED BY <2>1 DEF Init, SessionInv, OnlyCookie, Naming, Idle, At
  <1>3. SessionInv => SessionSurvives
    BY DEF SessionInv, OnlyCookie, Returning, SessionSurvives, Quiet, At
  <1> QED BY <1>1, <1>2, <1>3, NextTypes, NextSession, PTL DEF Spec

(***************************************************************************)
(* The limit of active tokens.                                             *)
(***************************************************************************)

(* Between its count and its insertion a request has made room for one token, *)
(* and all that wait to insert have made theirs.  Of any of those that are    *)
(* about to drop the oldest, one leaves enough room for them all: the last to *)
(* drop need not be the one that counted most.                                *)
Away == {r \in Requests : ~At(r, "insert")}
Dropping == {r \in Requests : request[r].pc \in {"victims", "drop"}}
Room == MaxActive - 1 + Cardinality(Away)
Left(r) == IF At(r, "drop") THEN Cardinality(LiveTokens \ request[r].victims)
           ELSE Cardinality(LiveTokens) - request[r].excess

LimitInv ==
  /\ Cardinality(LiveTokens) <= Room
  /\ \A Q \in SUBSET Dropping : Q # {} => \E r \in Q : Left(r) + Cardinality(Q) <= Room

LEMMA Smaller ==
  ASSUME NEW T, T \subseteq Tokens \/ T \subseteq Requests, NEW S \in SUBSET T
  PROVE  Cardinality(S) \in Nat /\ Cardinality(T) \in Nat /\ Cardinality(S) <= Cardinality(T)
  BY Finite, FS_Subset

LEMMA OneMore ==
  ASSUME NEW S, S \subseteq Tokens \/ S \subseteq Requests, NEW x, x \notin S
  PROVE  Cardinality(S \cup {x}) = Cardinality(S) + 1
  BY Finite, FS_AddElement

LeftBounded == \A r \in Requests : Left(r) \in Int /\ Left(r) <= Cardinality(LiveTokens)

LEMMA LeftBound == TypeOK => LeftBounded
  <1> USE DEF LeftBounded
  <1> SUFFICES ASSUME TypeOK, NEW r \in Requests
               PROVE  Left(r) \in Int /\ Left(r) <= Cardinality(LiveTokens)
    OBVIOUS
  <1>1. /\ Cardinality(LiveTokens) \in Nat
        /\ Cardinality(LiveTokens \ request[r].victims) \in Nat
        /\ Cardinality(LiveTokens \ request[r].victims) <= Cardinality(LiveTokens)
    BY Smaller DEF LiveTokens
  <1>2. request[r].excess \in Nat
    BY DEF TypeOK, RequestStates
  <1> QED BY <1>1, <1>2 DEF Left

LEMMA RoomType == Room \in Nat /\ Cardinality(Away) \in Nat /\ MaxActive \in Nat \ {0}
  <1>1. Cardinality(Away) \in Nat
    BY Smaller DEF Away
  <1> QED BY <1>1, TokenAssumption DEF Room

(* Fewer live tokens leave fewer. *)
LEMMA LeftShrinks ==
  ASSUME TypeOK, TypeOK', LiveTokens' \subseteq LiveTokens, NEW r \in Requests,
         request'[r] = request[r]
  PROVE  Left(r)' \in Int /\ Left(r)' <= Left(r)
  <1>1. LiveTokens \subseteq Tokens
    BY DEF LiveTokens
  <1>2. /\ Cardinality(LiveTokens') \in Nat /\ Cardinality(LiveTokens) \in Nat
        /\ Cardinality(LiveTokens') <= Cardinality(LiveTokens)
    BY <1>1, Smaller
  <1>3. /\ Cardinality(LiveTokens' \ request[r].victims) \in Nat
        /\ Cardinality(LiveTokens \ request[r].victims) \in Nat
        /\ Cardinality(LiveTokens' \ request[r].victims)
             <= Cardinality(LiveTokens \ request[r].victims)
    <2> DEFINE S == LiveTokens' \ request[r].victims
               T == LiveTokens \ request[r].victims
    <2>1. S \subseteq T /\ T \subseteq Tokens
      BY <1>1
    <2> HIDE DEF S, T
    <2>2. Cardinality(S) \in Nat /\ Cardinality(T) \in Nat /\ Cardinality(S) <= Cardinality(T)
      BY <2>1, Smaller
    <2> QED BY <2>2 DEF S, T
  <1>4. request[r].excess \in Nat
    BY DEF TypeOK, RequestStates
  <1> QED BY <1>2, <1>3, <1>4 DEF Left, At

(* A step that makes no token live and no request drop or insert. *)
Relaxing ==
  /\ LiveTokens' \subseteq LiveTokens /\ Away \subseteq Away' /\ Dropping' \subseteq Dropping
  /\ \A r \in Dropping' : request'[r] = request[r]

LEMMA RelaxingLimit ==
  ASSUME TypeOK, TypeOK', LimitInv, Relaxing
  PROVE  LimitInv'
  <1>1. Room \in Nat /\ Room' \in Nat /\ Room <= Room'
    <2>1. Away \subseteq Away' /\ Away' \subseteq Requests
      BY DEF Relaxing, Away
    <2>2. /\ Cardinality(Away) \in Nat /\ Cardinality(Away') \in Nat
          /\ Cardinality(Away) <= Cardinality(Away')
      BY <2>1, Smaller
    <2>3. MaxActive \in Nat \ {0}
      BY TokenAssumption
    <2> QED BY <2>2, <2>3 DEF Room
  <1>2. Cardinality(LiveTokens') <= Room'
    <2>1. LiveTokens' \subseteq LiveTokens /\ LiveTokens \subseteq Tokens
      BY DEF Relaxing, LiveTokens
    <2>2. /\ Cardinality(LiveTokens') \in Nat /\ Cardinality(LiveTokens) \in Nat
          /\ Cardinality(LiveTokens') <= Cardinality(LiveTokens)
      BY <2>1, Smaller
    <2> QED BY <1>1, <2>2 DEF LimitInv
  <1>3. ASSUME NEW Q \in SUBSET Dropping', Q # {}
        PROVE  \E r \in Q : (Left(r) + Cardinality(Q) <= Room)'
    <2>1. Q \subseteq Dropping /\ Q \subseteq Requests
      BY <1>3 DEF Relaxing, Dropping
    <2>2. PICK r \in Q : Left(r) + Cardinality(Q) <= Room
      BY <1>3, <2>1 DEF LimitInv
    <2>3. r \in Requests /\ request'[r] = request[r] /\ LiveTokens' \subseteq LiveTokens
      BY <1>3, <2>1 DEF Relaxing
    <2>4. Left(r)' \in Int /\ Left(r)' <= Left(r)
      BY <2>3, LeftShrinks
    <2>5. Left(r) \in Int /\ Cardinality(Q) \in Nat
      BY <2>1, <2>3, LeftBound, Finite DEF LeftBounded
    <2>6. Left(r)' + Cardinality(Q) <= Room'
      BY <1>1, <2>2, <2>4, <2>5
    <2> QED BY <2>6
  <1> QED BY <1>2, <1>3 DEF LimitInv

LEMMA StepRelaxing ==
  ASSUME TypeOK, Shape, NEW r \in Requests, Step(r)
  PROVE  Relaxing \/ CountActive(r) \/ FindOldest(r) \/ DropOldest(r) \/ InsertToken(r)
  <1> SUFFICES ASSUME ~CountActive(r), ~FindOldest(r), ~DropOldest(r), ~InsertToken(r)
               PROVE  Relaxing
    OBVIOUS
  <1>1. request'[r].pc \notin {"victims", "drop", "insert"}
    <2>1. CASE BeginRequest(r)
      BY <2>1, BeginKinds
    <2>2. CASE Refuse(r)
      BY <2>2 DEF Refuse, Idle, TypeOK
    <2>3. CASE \E pc : Go(r, pc) /\ pc \notin {"victims", "drop", "insert"}
      BY <2>3 DEF Go, TypeOK, RequestStates
    <2>4. BeginRequest(r) \/ Refuse(r)
          \/ \E pc : Go(r, pc) /\ pc \notin {"victims", "drop", "insert"}
      BY DEF Step, CheckBlacklist, CheckUserListed, FindRecord, CheckUser, RefuseListed,
         BlacklistToken, Deactivate, TouchLastUsed, CleanupExpiredTokens, Respond,
         BlacklistAllUserTokens, DeactivateAll, FailRequest
    <2> QED BY <2>1, <2>2, <2>3, <2>4
  <1>2. LiveTokens' \subseteq LiveTokens
    <2>1. At(r, "insert") => FailRequest(r)
      BY DEF Step, BeginRequest, Begin, CheckBlacklist, CheckUserListed, FindRecord, CheckUser,
         BlacklistToken, Deactivate, TouchLastUsed, CleanupExpiredTokens, Respond,
         BlacklistAllUserTokens, DeactivateAll, At
    <2>2. At(r, "insert") => token' = token
      BY <2>1 DEF FailRequest
    <2> QED BY <2>2, StepEffects DEF LiveTokens, Live
  <1>3. \A s \in Requests \ {r} : request'[s] = request[s]
    BY StepEffects
  <1> QED BY <1>1, <1>2, <1>3 DEF Relaxing, Away, Dropping, At

(* Who counts fewer tokens than the limit goes to insert.  *)
LEMMA CountLimit ==
  ASSUME TypeOK, TypeOK', LimitInv, NEW r \in Requests, CountActive(r)
  PROVE  LimitInv'
  <1> DEFINE n == Cardinality(LiveTokens)
  <1>1. n \in Nat /\ MaxActive \in Nat \ {0}
    BY Finite, TokenAssumption DEF LiveTokens
  <1>2. LiveTokens' = LiveTokens
    BY DEF CountActive, LiveTokens, Live, TypeOK, TokenRows
  <1>3. /\ At(r, "count") /\ \A s \in Requests \ {r} : request'[s] = request[s]
        /\ request'[r].pc = IF Excess(n) > 0 THEN "victims" ELSE "insert"
        /\ request'[r].excess = Excess(n)
    BY DEF CountActive, TypeOK, RequestStates
  <1> HIDE DEF n
  <1>4. \A s \in Requests \ {r} : Left(s)' = Left(s)
    BY <1>2, <1>3 DEF Left, At
  <1>5. CASE n < MaxActive
    <2>1. request'[r].pc = "insert"
      BY <1>1, <1>3, <1>5 DEF Excess
    <2>2. Away' = Away \ {r} /\ Dropping' = Dropping
      BY <1>3, <2>1 DEF Away, Dropping, At
    <2>3. Cardinality(Away') \in Nat
      BY <2>2, Finite DEF Away
    <2>4. Room' = MaxActive - 1 + Cardinality(Away')
      BY DEF Room
    <2>5. Cardinality(LiveTokens') <= Room'
      BY <1>1, <1>2, <1>5, <2>3, <2>4 DEF n
    <2>6. ASSUME NEW Q \in SUBSET Dropping', Q # {}
          PROVE  \E s \in Q : (Left(s) + Cardinality(Q) <= Room)'
      <3>1. PICK s \in Q : TRUE
        BY <2>6
      <3>2. s \in Requests \ {r}
        BY <1>3, <2>2, <3>1 DEF Dropping, At
      <3>3. Left(s) \in Int /\ Left(s) <= n
        BY <3>2, LeftBound DEF LeftBounded, n
      <3>4. Q \subseteq Away' /\ Away' \subseteq Requests
        BY <2>2, <1>3 DEF Dropping, Away, At
      <3>5. Cardinality(Q) \in Nat /\ Cardinality(Q) <= Cardinality(Away')
        BY <3>4, Smaller
      <3>6. Left(s)' = Left(s)
        BY <1>4, <3>2
      <3>7. (Left(s) + Cardinality(Q) <= Room)'
        BY <1>1, <1>5, <2>3, <2>4, <3>3, <3>5, <3>6
      <3> QED BY <3>7
    <2> QED BY <2>5, <2>6 DEF LimitInv
  <1>6. CASE n >= MaxActive
    <2>1. request'[r].pc = "victims" /\ request'[r].excess = n - MaxActive + 1
      BY <1>1, <1>3, <1>6 DEF Excess
    <2>2. Away' = Away /\ Dropping' = Dropping \cup {r}
      BY <1>3, <2>1 DEF Away, Dropping, At
    <2>3. Room' = Room /\ Room = MaxActive - 1 + Cardinality(Away)
      BY <2>2 DEF Room
    <2>4. Left(r)' = MaxActive - 1
      <3>1. Left(r)' = Cardinality(LiveTokens') - request'[r].excess
        BY <2>1 DEF Left, At
      <3> QED BY <1>1, <1>2, <2>1, <3>1 DEF n
    <2>5. ASSUME NEW Q \in SUBSET Dropping', Q # {}
          PROVE  \E s \in Q : (Left(s) + Cardinality(Q) <= Room)'
      <3>1. CASE r \in Q
        <4>1. Q \subseteq Away /\ Away \subseteq Requests
          BY <2>2, <1>3 DEF Dropping, Away, At
        <4>2. /\ Cardinality(Q) \in Nat /\ Cardinality(Away) \in Nat
              /\ Cardinality(Q) <= Cardinality(Away)
          BY <4>1, Smaller
        <4>3. (Left(r) + Cardinality(Q) <= Room)'
          BY <1>1, <2>3, <2>4, <4>2
        <4> QED BY <3>1, <4>3
      <3>2. CASE r \notin Q
        <4>1. PICK s \in Q : Left(s) + Cardinality(Q) <= Room
          BY <2>2, <2>5, <3>2 DEF LimitInv
        <4>2. s \in Requests \ {r}
          BY <2>2, <3>2 DEF Dropping
        <4>3. (Left(s) + Cardinality(Q) <= Room)'
          BY <1>4, <2>3, <4>1, <4>2
        <4> QED BY <4>3
      <3> QED BY <3>1, <3>2
    <2> QED BY <1>2, <2>3, <2>5 DEF LimitInv
  <1> QED BY <1>1, <1>5, <1>6

(* Who looks for the oldest finds as many as it counted too many, or all.  *)
LEMMA FindLimit ==
  ASSUME TypeOK, TypeOK', LimitInv, NEW r \in Requests, FindOldest(r)
  PROVE  LimitInv'
  <1>1. PICK S \in SUBSET LiveTokens :
          /\ Cardinality(S) = IF request[r].excess < Cardinality(LiveTokens)
                              THEN request[r].excess ELSE Cardinality(LiveTokens)
          /\ request' = [request EXCEPT ![r].pc = "drop", ![r].victims = S]
    BY DEF FindOldest
  <1>2. /\ At(r, "victims") /\ \A s \in Requests \ {r} : request'[s] = request[s]
        /\ request'[r].pc = "drop" /\ request'[r].victims = S
    BY <1>1 DEF FindOldest, TypeOK, RequestStates
  <1>3. LiveTokens' = LiveTokens
    BY DEF FindOldest, LiveTokens, Live
  <1>4. Away' = Away /\ Dropping' = Dropping /\ r \in Dropping
    BY <1>2 DEF Away, Dropping, At
  <1>5. Room' = Room /\ Room = MaxActive - 1 + Cardinality(Away) /\ MaxActive \in Nat \ {0}
    BY <1>4, TokenAssumption DEF Room
  <1>6. \A s \in Requests \ {r} : Left(s)' = Left(s)
    BY <1>2, <1>3 DEF Left, At
  <1>7. Left(r)' = Cardinality(LiveTokens \ S) /\ Left(r) = Cardinality(LiveTokens) - request[r].excess
    BY <1>2, <1>3 DEF Left, At
  <1>8. Cardinality(LiveTokens \ S) = Cardinality(LiveTokens) - Cardinality(S)
    <2>1. IsFiniteSet(LiveTokens)
      BY Finite DEF LiveTokens
    <2>2. LiveTokens \cap S = S
      OBVIOUS
    <2> QED BY <2>1, <2>2, FS_Difference
  <1>9. request[r].excess \in Nat /\ Cardinality(LiveTokens) \in Nat /\ Cardinality(Away) \in Nat
    BY Finite DEF LiveTokens, Away, TypeOK, RequestStates
  <1>10. Left(r)' = Left(r) \/ Left(r)' = 0
    BY <1>1, <1>7, <1>8, <1>9
  <1>11. ASSUME NEW Q \in SUBSET Dropping', Q # {}
         PROVE  \E s \in Q : (Left(s) + Cardinality(Q) <= Room)'
    <2>1. PICK s \in Q : Left(s) + Cardinality(Q) <= Room
      BY <1>4, <1>11 DEF LimitInv
    <2>2. s \in Requests
      BY <1>4 DEF Dropping
    <2>3. CASE s # r \/ Left(r)' = Left(r)
      <3>1. (Left(s) + Cardinality(Q) <= Room)'
        BY <1>5, <1>6, <2>1, <2>2, <2>3
      <3> QED BY <3>1
    <2>4. CASE s = r /\ Left(r)' = 0
      <3>1. Q \subseteq Away /\ Away \subseteq Requests
        BY <1>4 DEF Dropping, Away, At
      <3>2. Cardinality(Q) \in Nat /\ Cardinality(Q) <= Cardinality(Away)
        BY <3>1, Smaller
      <3>3. (Left(s) + Cardinality(Q) <= Room)'
        BY <1>5, <1>9, <2>4, <3>2
      <3> QED BY <3>3
    <2> QED BY <1>10, <2>3, <2>4
  <1> QED BY <1>3, <1>5, <1>11 DEF LimitInv

(* Who drops leaves what its claim said, also to the others: theirs with its *)
(* own leave one room more than theirs need.                                 *)
LEMMA DropLimit ==
  ASSUME TypeOK, TypeOK', LimitInv, NEW r \in Requests, DropOldest(r)
  PROVE  LimitInv'
  <1>1. /\ At(r, "drop") /\ \A s \in Requests \ {r} : request'[s] = request[s]
        /\ request'[r].pc = "insert"
    BY DEF DropOldest, Go, TypeOK, RequestStates
  <1>2. LiveTokens' = LiveTokens \ request[r].victims
    <2>1. \A t \in Tokens : token'[t].state =
            IF t \in request[r].victims THEN Cleared(token[t].state, "dropped")
                                        ELSE token[t].state
      BY DEF DropOldest, TypeOK, TokenRows
    <2>2. \A t \in Tokens : Cleared(token[t].state, "dropped") # "active"
      BY ClearedType DEF TypeOK, TokenRows
    <2> QED BY <2>1, <2>2 DEF LiveTokens, Live
  <1>3. Away' = Away \ {r} /\ r \in Away /\ Dropping' = Dropping \ {r} /\ r \in Dropping
    BY <1>1 DEF Away, Dropping, At
  <1>4. Room' = Room - 1 /\ Room \in Nat
    <2>1. Away = Away' \cup {r} /\ r \notin Away' /\ Away' \subseteq Requests
      BY <1>3 DEF Away
    <2>2. Cardinality(Away) = Cardinality(Away') + 1 /\ Cardinality(Away') \in Nat
      BY <2>1, OneMore, Smaller
    <2>3. Room' = MaxActive - 1 + Cardinality(Away')
      BY DEF Room
    <2> QED BY <2>2, <2>3, RoomType DEF Room
  <1>5. Left(r) = Cardinality(LiveTokens') /\ Left(r) \in Int
    BY <1>1, <1>2, LeftBound DEF LeftBounded, Left
  <1>6. Cardinality(LiveTokens') <= Room'
    <2>1. {r} \in SUBSET Dropping /\ Cardinality({r}) = 1
      BY <1>3, FS_Singleton
    <2>2. Left(r) + 1 <= Room
      BY <2>1 DEF LimitInv
    <2> QED BY <1>4, <1>5, <2>2
  <1>7. ASSUME NEW Q \in SUBSET Dropping', Q # {}
        PROVE  \E s \in Q : (Left(s) + Cardinality(Q) <= Room)'
    <2>1. Q \cup {r} \in SUBSET Dropping /\ r \notin Q /\ Q \subseteq Requests
      BY <1>3 DEF Dropping
    <2>2. Cardinality(Q \cup {r}) = Cardinality(Q) + 1 /\ Cardinality(Q) \in Nat
      BY <2>1, OneMore, Finite
    <2>3. PICK s \in Q \cup {r} : Left(s) + (Cardinality(Q) + 1) <= Room
      <3>1. \E s \in Q \cup {r} : Left(s) + Cardinality(Q \cup {r}) <= Room
        BY <2>1 DEF LimitInv
      <3> QED BY <2>2, <3>1
    <2>4. LiveTokens' \subseteq LiveTokens
      BY <1>2
    <2>5. CASE s \in Q
      <3>1. s \in Requests /\ request'[s] = request[s]
        BY <1>1, <2>1, <2>5
      <3>2. Left(s)' \in Int /\ Left(s)' <= Left(s) /\ Left(s) \in Int
        BY <2>4, <3>1, LeftShrinks, LeftBound DEF LeftBounded
      <3>3. (Left(s) + Cardinality(Q) <= Room)'
        BY <1>4, <2>2, <2>3, <3>2
      <3> QED BY <2>5, <3>3
    <2>6. CASE s = r
      <3>1. PICK q \in Q : TRUE
        BY <1>7
      <3>2. q \in Requests /\ request'[q] = request[q]
        BY <1>1, <2>1
      <3>3. Left(q)' \in Int /\ Left(q)' <= Cardinality(LiveTokens')
        <4>1. LeftBounded'
          BY LeftBound, PTL
        <4> QED BY <3>2, <4>1 DEF LeftBounded
      <3>4. (Left(q) + Cardinality(Q) <= Room)'
        BY <1>4, <1>5, <2>2, <2>3, <2>6, <3>3
      <3> QED BY <3>4
    <2> QED BY <2>3, <2>5, <2>6
  <1> QED BY <1>6, <1>7 DEF LimitInv

(* An insertion takes the room its request had kept.  *)
LEMMA InsertLimit ==
  ASSUME TypeOK, TypeOK', LimitInv, NEW r \in Requests, InsertToken(r)
  PROVE  LimitInv'
  <1>1. PICK t \in Tokens :
          /\ token[t].state = "none" /\ token' = [token EXCEPT ![t].state = "active"]
          /\ request' = [request EXCEPT ![r].pc = "respond", ![r].token = t]
    BY DEF InsertToken
  <1>2. /\ At(r, "insert") /\ \A s \in Requests \ {r} : request'[s] = request[s]
        /\ request'[r].pc = "respond"
    BY <1>1 DEF InsertToken, TypeOK, RequestStates
  <1>3. LiveTokens' = LiveTokens \cup {t} /\ t \notin LiveTokens
    BY <1>1 DEF LiveTokens, Live, TypeOK, TokenRows
  <1>4. Away' = Away \cup {r} /\ r \notin Away /\ Dropping' = Dropping /\ r \notin Dropping
    BY <1>2 DEF Away, Dropping, At
  <1>5. Room' = Room + 1 /\ Room \in Nat
    <2>1. Cardinality(Away') = Cardinality(Away) + 1
      BY <1>4, OneMore DEF Away
    <2>2. Room' = MaxActive - 1 + Cardinality(Away')
      BY DEF Room
    <2> QED BY <2>1, <2>2, RoomType DEF Room
  <1>6. /\ Cardinality(LiveTokens') = Cardinality(LiveTokens) + 1
        /\ Cardinality(LiveTokens) \in Nat
    BY <1>3, OneMore, Finite DEF LiveTokens
  <1>7. ASSUME NEW s \in Dropping
        PROVE  Left(s)' \in Int /\ Left(s)' <= Left(s) + 1 /\ Left(s) \in Int
    <2>1. s \in Requests /\ request'[s] = request[s]
      BY <1>2, <1>4 DEF Dropping
    <2>2. CASE ~At(s, "drop")
      <3>1. Left(s)' = Cardinality(LiveTokens') - request[s].excess
        BY <2>1, <2>2 DEF Left, At
      <3>2. Left(s) = Cardinality(LiveTokens) - request[s].excess /\ request[s].excess \in Nat
        BY <2>1, <2>2 DEF Left, TypeOK, RequestStates
      <3> QED BY <1>6, <3>1, <3>2
    <2>3. CASE At(s, "drop")
      <3> DEFINE S == LiveTokens \ request[s].victims
                 T == LiveTokens' \ request[s].victims
      <3>1. T \subseteq S \cup {t} /\ S \subseteq Tokens /\ t \notin S
        BY <1>3 DEF LiveTokens
      <3>2. Left(s) = Cardinality(S) /\ Left(s)' = Cardinality(T)
        BY <2>1, <2>3 DEF Left, At
      <3> HIDE DEF S, T
      <3>3. Cardinality(S \cup {t}) = Cardinality(S) + 1 /\ Cardinality(S) \in Nat
        BY <3>1, OneMore, Finite
      <3>4. Cardinality(T) \in Nat /\ Cardinality(T) <= Cardinality(S \cup {t})
        <4>1. S \cup {t} \subseteq Tokens
          BY <3>1
        <4> QED BY <3>1, <4>1, Smaller
      <3> QED BY <3>2, <3>3, <3>4
    <2> QED BY <2>2, <2>3
  <1>8. Cardinality(LiveTokens') <= Room'
    BY <1>5, <1>6 DEF LimitInv
  <1>9. ASSUME NEW Q \in SUBSET Dropping', Q # {}
        PROVE  \E s \in Q : (Left(s) + Cardinality(Q) <= Room)'
    <2>1. PICK s \in Q : Left(s) + Cardinality(Q) <= Room
      BY <1>4, <1>9 DEF LimitInv
    <2>2. Cardinality(Q) \in Nat
      BY <1>4, Finite DEF Dropping
    <2>3. (Left(s) + Cardinality(Q) <= Room)'
      BY <1>4, <1>5, <1>7, <2>1, <2>2
    <2> QED BY <2>3
  <1> QED BY <1>8, <1>9 DEF LimitInv

LEMMA OutsideRelaxing ==
  ASSUME TypeOK, Outside
  PROVE  Relaxing
  <1>1. request' = request /\ \A t \in Tokens : token'[t].state = "active" =>
          token[t].state = "active"
    BY OutsideEffects
  <1> QED BY <1>1 DEF Relaxing, LiveTokens, Live, Away, Dropping, At

LEMMA NextLimit ==
  TypeOK /\ Shape /\ LimitInv /\ [Next]_vars => LimitInv'
  <1> SUFFICES ASSUME TypeOK, Shape, LimitInv, [Next]_vars
               PROVE  LimitInv'
    OBVIOUS
  <1>1. TypeOK'
    BY NextTypes
  <1>2. ASSUME NEW r \in Requests, Step(r)
        PROVE  LimitInv'
    <2>1. Relaxing \/ CountActive(r) \/ FindOldest(r) \/ DropOldest(r) \/ InsertToken(r)
      BY <1>2, StepRelaxing
    <2> QED BY <1>1, <2>1, RelaxingLimit, CountLimit, FindLimit, DropLimit, InsertLimit
  <1>3. CASE Outside
    BY <1>1, <1>3, OutsideRelaxing, RelaxingLimit
  <1>4. CASE UNCHANGED vars
    BY <1>4 DEF vars, LimitInv, LiveTokens, Live, Dropping, Room, Away, Left, At
  <1> QED BY <1>2, <1>3, <1>4 DEF Next, Outside

(* createRefreshToken: requests that create tokens at the same time exceed    *)
(* MAX_ACTIVE_TOKENS_PER_USER by one for each of the others at most, however   *)
(* their counts, deactivations and insertions interleave.                     *)
THEOREM TheLimitHolds == Spec => []LimitHolds
  <1>1. Init => TypeOK /\ Shape
    BY InitTypes
  <1>2. Init => LimitInv
    <2> SUFFICES ASSUME Init
                 PROVE  LimitInv
      OBVIOUS
    <2>1. Dropping = {}
      BY DEF Init, Dropping, Idle
    <2>2. 1 \in Tokens /\ LiveTokens = {1}
      BY TokenAssumption DEF Init, Tokens, LiveTokens, Live
    <2>3. Cardinality(LiveTokens) = 1
      BY <2>2, FS_Singleton
    <2>4. Away = Requests
      BY DEF Init, Away, At, Idle
    <2>5. Cardinality(Requests) \in Nat /\ Cardinality(Requests) # 0
      BY TokenAssumption, FS_CardinalityType, FS_EmptySet
    <2> QED BY <2>1, <2>3, <2>4, <2>5, TokenAssumption DEF LimitInv, Room
  <1>3. LimitInv => LimitHolds
    <2>1. Away \subseteq Requests /\ Requests \subseteq Requests
      BY DEF Away
    <2>2. /\ Cardinality(Away) \in Nat /\ Cardinality(Requests) \in Nat
          /\ Cardinality(Away) <= Cardinality(Requests)
      BY <2>1, Smaller
    <2>3. Cardinality(LiveTokens) \in Nat /\ MaxActive \in Nat
      BY Finite, TokenAssumption DEF LiveTokens
    <2> QED BY <2>2, <2>3 DEF LimitInv, LimitHolds, Room
  <1> QED BY <1>1, <1>2, <1>3, NextTypes, NextLimit, PTL DEF Spec
==============================================================================
