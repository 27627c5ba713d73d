---------------------------- MODULE RefreshTokens ----------------------------
(***************************************************************************)
(* The refresh tokens of one user: services/refreshTokenService.js,        *)
(* services/tokenBlacklistService.js and the two doors to them in          *)
(* api/middleware/autoRefresh.js.  Every await ends a step, and several    *)
(* requests are under way at once.                                         *)
(***************************************************************************)
EXTENDS CacheService, FiniteSets

CONSTANTS
  Requests,     \* the request handlers under way
  MaxTokens,    \* bound: tokens that are made
  MaxActive,    \* MAX_ACTIVE_TOKENS_PER_USER
  MaxRequests,  \* bound: requests that come
  MaxFaults     \* bound: failed calls and lost answers, and times Redis goes, comes
                \* or fails a call

Tokens == 1 .. MaxTokens    \* in the order of their creation
User == 0                   \* the key of the user's own blacklist entry
None == 0                   \* no token

ASSUME TokenAssumption ==
  /\ CacheKeys = Tokens \cup {User}
  /\ {MaxTokens, MaxActive} \subseteq Nat \ {0}
  /\ {MaxRequests, MaxFaults} \subseteq Nat /\ IsFiniteSet(Requests) /\ Requests # {}

VARIABLES
  token,   \* the rows of refresh_tokens
  request, \* the requests under way
  held,    \* the tokens that came in the body of an answer
  dead,    \* the tokens that were rotated or revoked by a request that answered
  cookie,  \* the refresh token in the browser's cookie, or None
  count    \* requests, failures and faults of Redis so far

vars == <<cache, token, request, held, dead, cookie, count>>

(* is_active is "active"; other states say which update cleared it, or that   *)
(* the row's time is up, whatever is_active says then.                        *)
RowStates == {"none", "active", "rotated", "revoked", "dropped", "expired", "deleted"}
TokenRows == [state : RowStates, used : BOOLEAN]

(* useCookie: an explicit refresh that asks for the cookie as well.  *)
Operations == {"auto", "explicit", "useCookie", "login", "revoke", "revokeAll"}
RequestStates ==
  [pc     : {"idle", "check", "checkAll", "find", "user", "blacklist", "deactivate", "touch",
             "clean", "count", "victims", "drop", "insert", "respond", "blacklistAll",
             "deactivateAll"},
   op     : Operations \cup {"none"},
   token  : Tokens \cup {None},     \* the token given, then the token made
   late   : BOOLEAN,                \* was the token dead when the request came
   excess : Nat,                    \* take: of the oldest tokens
   victims : SUBSET Tokens]
Idle == [pc |-> "idle", op |-> "none", token |-> None, late |-> FALSE, excess |-> 0, victims |-> {}]

Live(t) == token[t].state = "active"
Made == {t \in Tokens : token[t].state # "none"}
TimeUp(t) == token[t].state \in {"expired", "deleted"}
LiveTokens == {t \in Tokens : Live(t)}
Rotating(r) == request[r].op \in {"auto", "explicit", "useCookie"}
At(r, pc) == request[r].pc = pc
Go(r, pc) == request' = [request EXCEPT ![r].pc = pc]
Quiet == \A r \in Requests : At(r, "idle")

-------------------------------------------------------------------------------
(* A request comes.  By the way, the browser's requests refresh the cookie's  *)
(* token, or one from their body when they have no cookie; the other requests *)
(* send any token that came in a body, old ones too.                          *)
Begin(r, op, t, pc) ==
  /\ At(r, "idle")
  /\ request' = [request EXCEPT ![r] =
       [Idle EXCEPT !.pc = pc, !.op = op, !.token = t, !.late = t \in dead]]
  /\ count.requests < MaxRequests
  /\ count' = [count EXCEPT !.requests = @ + 1]
  /\ UNCHANGED <<cache, token, held, dead, cookie>>

BeginRequest(r) ==
  \/ \E t \in IF cookie # None THEN {cookie} ELSE held : Begin(r, "auto", t, "check")
  \/ \E t \in held : Begin(r, "explicit", t, "check") \/ Begin(r, "useCookie", t, "check")
  \/ \E t \in (held \cup {cookie}) \ {None} : Begin(r, "revoke", t, "blacklist")
  \/ Begin(r, "login", None, "clean")
  \/ Begin(r, "revokeAll", None, "blacklistAll")

(* The request is refused; autoRefresh goes on with the token it had.  *)
Refuse(r) == request' = [request EXCEPT ![r] = Idle]

RedisFault ==
  /\ count.failures + count.redis < MaxFaults
  /\ count' = [count EXCEPT !.redis = @ + 1]

(* A lookup ends the request when it finds the key; a call that Redis fails  *)
(* finds nothing.                                                            *)
Absent(key) ==
  \/ ~CacheHas(key) /\ UNCHANGED count
  \/ CacheMisses(key) /\ RedisFault
RefuseListed(r, key) == CacheHas(key) /\ Refuse(r) /\ UNCHANGED count

(* isTokenBlacklisted looks for the token's entry, then for the user's; then *)
(* jwt.verify refuses an expired token.                                      *)
CheckBlacklist(r) ==
  /\ At(r, "check")
  /\ \/ Absent(request[r].token) /\ Go(r, "checkAll")
     \/ RefuseListed(r, request[r].token)
  /\ UNCHANGED <<cache, token, held, dead, cookie>>
CheckUserListed(r) ==
  /\ At(r, "checkAll")
  /\ \/ Absent(User) /\ (IF TimeUp(request[r].token) THEN Refuse(r) ELSE Go(r, "find"))
     \/ RefuseListed(r, User)
  /\ UNCHANGED <<cache, token, held, dead, cookie>>

(* mutant: the row is found by its hash alone *)
FindRecordAny(r) ==
  /\ At(r, "find")
  /\ IF token[request[r].token].state # "deleted" THEN Go(r, "user") ELSE Refuse(r)
  /\ UNCHANGED <<cache, token, held, dead, cookie, count>>
FindRecord(r) ==
  /\ At(r, "find")
  /\ IF Live(request[r].token) THEN Go(r, "user") ELSE Refuse(r)
  /\ UNCHANGED <<cache, token, held, dead, cookie, count>>

CheckUser(r) ==
  /\ At(r, "user")
  /\ \/ Absent(User) /\ Go(r, "blacklist")
     \/ RefuseListed(r, User)
  /\ UNCHANGED <<cache, token, held, dead, cookie>>

Enter(key) ==
  \/ CacheSet(key) /\ UNCHANGED count
  \/ CacheSetAside(key) /\ RedisFault

BlacklistToken(r) ==
  /\ At(r, "blacklist")
  /\ Enter(request[r].token)
  /\ Go(r, "deactivate")
  /\ UNCHANGED <<token, held, dead, cookie>>

(* mutant: the row of an expired token is marked as well *)
ClearedFlag(state, by) == "inactive"
Cleared(state, by) == IF state \in {"none", "expired", "deleted"} THEN state ELSE by

(* update of one row, which a rotation needs to exist.  *)
Deactivate(r) ==
  LET t == request[r].token IN
  /\ At(r, "deactivate")
  /\ \/ /\ token[t].state = "deleted" /\ Rotating(r)
        /\ Refuse(r) /\ UNCHANGED <<token, dead>>
     \/ /\ token[t].state # "deleted" /\ Rotating(r)
        /\ token' = [token EXCEPT ![t].state = Cleared(@, "rotated")]
        /\ Go(r, "touch") /\ UNCHANGED dead
     \/ /\ ~Rotating(r)
        /\ token' = [token EXCEPT ![t].state = Cleared(@, "revoked")]
        /\ dead' = dead \cup {t}
        /\ Refuse(r)
  /\ UNCHANGED <<cache, held, cookie, count>>

TouchLastUsed(r) ==
  LET t == request[r].token IN
  /\ At(r, "touch")
  /\ IF token[t].state = "deleted"
     THEN Refuse(r) /\ UNCHANGED token
     ELSE Go(r, "clean") /\ token' = [token EXCEPT ![t].used = TRUE]
  /\ UNCHANGED <<cache, held, dead, cookie, count>>

-------------------------------------------------------------------------------
(* createRefreshToken: expired rows go, unless their deletion fails, and the *)
(* active ones are counted.                                                  *)
CleanupExpiredTokens(r) ==
  /\ At(r, "clean")
  /\ \/ token' = [t \in Tokens |->
          IF token[t].state = "expired" THEN [token[t] EXCEPT !.state = "deleted"] ELSE token[t]]
     \/ UNCHANGED token
  /\ Go(r, "count")
  /\ UNCHANGED <<cache, held, dead, cookie, count>>

(* mutant: room is made for the tokens there are, not for the new one *)
ExcessWithoutNew(n) == IF n >= MaxActive THEN n - MaxActive ELSE 0
Excess(n) == IF n >= MaxActive THEN n - MaxActive + 1 ELSE 0
CountActive(r) ==
  /\ At(r, "count")
  /\ LET excess == Excess(Cardinality(LiveTokens)) IN
     request' = [request EXCEPT ![r].pc = IF excess > 0 THEN "victims" ELSE "insert",
                                ![r].excess = excess]
  /\ UNCHANGED <<cache, token, held, dead, cookie, count>>

(* ORDER BY last_used_at ASC puts NULL last, and rows of equal rank come in  *)
(* any order.                                                                *)
FindOldest(r) ==
  /\ At(r, "victims")
  /\ \E S \in SUBSET LiveTokens :
       /\ Cardinality(S) = IF request[r].excess < Cardinality(LiveTokens)
                           THEN request[r].excess ELSE Cardinality(LiveTokens)
       /\ \A s \in S, o \in LiveTokens \ S : token[o].used => token[s].used
       /\ request' = [request EXCEPT ![r].pc = "drop", ![r].victims = S]
  /\ UNCHANGED <<cache, token, held, dead, cookie, count>>

DropOldest(r) ==
  /\ At(r, "drop")
  /\ token' = [t \in Tokens |->
       [token[t] EXCEPT !.state = IF t \in request[r].victims THEN Cleared(@, "dropped") ELSE @]]
  /\ Go(r, "insert")
  /\ UNCHANGED <<cache, held, dead, cookie, count>>

InsertToken(r) ==
  /\ At(r, "insert")
  /\ \E t \in Tokens :
       /\ token[t].state = "none" /\ \A o \in 1 .. (t - 1) : token[o].state # "none"
       /\ token' = [token EXCEPT ![t].state = "active"]
       /\ dead' = IF Rotating(r) THEN dead \cup {request[r].token} ELSE dead
       /\ request' = [request EXCEPT ![r].pc = "respond", ![r].token = t]
  /\ UNCHANGED <<cache, held, cookie, count>>

(* The answer arrives.  Auto refresh's has the new token in the cookie only;  *)
(* the others have it in the body, and useCookie's in the cookie too.         *)
(* mutant: the new token goes to the body of every answer, never to the cookie *)
RespondInBody(r) ==
  /\ At(r, "respond")
  /\ held' = held \cup {request[r].token}
  /\ Refuse(r)
  /\ UNCHANGED <<cache, token, dead, cookie, count>>
Respond(r) ==
  /\ At(r, "respond")
  /\ cookie' = IF request[r].op \in {"auto", "useCookie"} THEN request[r].token ELSE cookie
  /\ held' = IF request[r].op = "auto" THEN held ELSE held \cup {request[r].token}
  /\ Refuse(r)
  /\ UNCHANGED <<cache, token, dead, count>>

-------------------------------------------------------------------------------
BlacklistAllUserTokens(r) ==
  /\ At(r, "blacklistAll")
  /\ Enter(User)
  /\ Go(r, "deactivateAll")
  /\ UNCHANGED <<token, held, dead, cookie>>

DeactivateAll(r) ==
  /\ At(r, "deactivateAll")
  /\ token' = [t \in Tokens |->
       IF token[t].state = "active" THEN [token[t] EXCEPT !.state = "revoked"] ELSE token[t]]
  /\ dead' = dead \cup Made
  /\ Refuse(r)
  /\ UNCHANGED <<cache, held, cookie, count>>

-------------------------------------------------------------------------------
(* A call of the database fails, or the answer is lost: the request ends      *)
(* where it is.                                                               *)
FailRequest(r) ==
  /\ request[r].pc \in {"find", "deactivate", "touch", "count", "victims", "drop", "insert",
                        "respond", "deactivateAll"}
  /\ count.failures + count.redis < MaxFaults
  /\ count' = [count EXCEPT !.failures = @ + 1]
  /\ Refuse(r)
  /\ UNCHANGED <<cache, token, held, dead, cookie>>

ExpireToken(t) ==
  /\ token[t].state \notin {"none", "expired", "deleted"}
  /\ token' = [token EXCEPT ![t].state = "expired"]
  /\ UNCHANGED <<cache, request, held, dead, cookie, count>>

(* The user's entry lapses before the tokens made since; a token's own entry *)
(* outlives the token.                                                       *)
LapseUserKey ==
  /\ DropKey(User)
  /\ UNCHANGED <<token, request, held, dead, cookie, count>>

SwitchRedis ==
  /\ RedisFault
  /\ SwitchStore
  /\ UNCHANGED <<token, request, held, dead, cookie>>

(* The first token came in a cookie or in a body.  *)
Init ==
  /\ CacheInit
  /\ token = [t \in Tokens |-> [state |-> IF t = 1 THEN "active" ELSE "none",
                                used |-> FALSE]]
  /\ request = [r \in Requests |-> Idle]
  /\ dead = {}
  /\ \/ held = {} /\ cookie = 1
     \/ held = {1} /\ cookie = None
  /\ count = [requests |-> 0, failures |-> 0, redis |-> 0]

Step(r) ==
  \/ BeginRequest(r) \/ CheckBlacklist(r) \/ CheckUserListed(r) \/ FindRecord(r) \/ CheckUser(r)
  \/ BlacklistToken(r) \/ Deactivate(r) \/ TouchLastUsed(r)
  \/ CleanupExpiredTokens(r) \/ CountActive(r) \/ FindOldest(r) \/ DropOldest(r)
  \/ InsertToken(r) \/ Respond(r)
  \/ BlacklistAllUserTokens(r) \/ DeactivateAll(r) \/ FailRequest(r)

Next ==
  \/ LapseUserKey \/ SwitchRedis
  \/ \E t \in Tokens : ExpireToken(t)
  \/ \E r \in Requests : Step(r)

Spec == Init /\ [][Next]_vars

-------------------------------------------------------------------------------
TypeOK ==
  /\ cache \in CacheStates
  /\ token \in [Tokens -> TokenRows]
  /\ request \in [Requests -> RequestStates]
  /\ held \subseteq Tokens /\ dead \subseteq Tokens /\ cookie \in Tokens \cup {None}
  /\ count \in [requests : 0 .. MaxRequests, failures : 0 .. MaxFaults, redis : 0 .. MaxFaults]

(* A token that was rotated or revoked, or was out when all were revoked, is  *)
(* not rotated by a request that comes after the answer, whatever the cache   *)
(* has lost: the blacklist and the row's is_active stand in for each other.   *)
DeadStaysDead ==
  \A r \in Requests :
    /\ Rotating(r)
    /\ request[r].pc \in {"user", "blacklist", "deactivate", "touch", "count", "victims",
                          "clean", "drop", "insert"}
    => ~request[r].late

(* Requests that count at the same time exceed the limit of active tokens,   *)
(* but by one for each of them only, and the excess does not add up.         *)
LimitHolds == Cardinality(LiveTokens) <= MaxActive + Cardinality(Requests) - 1

(* Tabs that refresh at the same time do not end the browser's session: once  *)
(* all have answered, the cookie is not a token that one of them rotated.     *)
(* This is for a cookie whose token no body has carried: a copy can be        *)
(* rotated by a request that leaves the cookie alone.                         *)
SessionSurvives ==
  Quiet /\ count.failures = 0 /\ cookie \notin held \cup {None}
    => token[cookie].state # "rotated"

(* "Deactivate oldest tokens if limit exceeded" (refreshTokenService.js:55).  *)
OldestDropped ==
  [][\A t \in Tokens :
       (token[t].state = "active" /\ token'[t].state = "dropped") =>
         \A o \in 1 .. (t - 1) : ~(Live(o) /\ token'[o].state = "active")]_vars

(* "Replay Attacks: Blacklist prevents token reuse"                           *)
(* (docs/refresh-token-implementation.md:285).                                *)
RotatedOnce ==
  \A r, s \in Requests :
    r # s /\ Rotating(r) /\ Rotating(s) /\ At(r, "insert") /\ At(s, "insert") =>
      request[r].token # request[s].token

(* "Provides seamless UX without requiring manual token refresh"              *)
(* (api/middleware/autoRefresh.js:5).                                         *)
CookieSurvives ==
  Quiet /\ count.failures = 0 /\ cookie # None => token[cookie].state # "rotated"
==============================================================================
