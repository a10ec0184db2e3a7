----------------------------- MODULE AuthSession -----------------------------
(***************************************************************************)
(* Refresh sessions of AuthService (modules/auth/auth.service.ts) and of   *)
(* SessionService (modules/session/session.service.ts): login, token       *)
(* refresh, logout, and the revocation that password changes and           *)
(* DELETE /sessions/users/:id share.                                       *)
(*                                                                         *)
(* A request is a process.  Every await on Redis or on the database ends   *)
(* a step, so the steps of two requests interleave as the Node event loop  *)
(* interleaves them.  Any request may stop at any await (Abort): a Redis   *)
(* or database error, or a client that never gets the answer.              *)
(*                                                                         *)
(* A signed token is its payload: JwtHelperService puts no random id in    *)
(* it, so a token is determined by the user, the claims and the second it  *)
(* was signed in.  The access and the refresh token of one pair have the   *)
(* same payload and are one Token here; they differ in their lifetimes.    *)
(* Left out: presence (module Presence), audit rows, the OTP and password  *)
(* checks that precede a login, and the key refresh_token:<user>, which    *)
(* no code reads.                                                          *)
(***************************************************************************)
EXTENDS Integers, FiniteSets

CONSTANTS
    Users,          \* users of the platform
    Requests,       \* slots for requests in flight at the same time
    NoToken,        \* "no token in this field"
    AccessLife,     \* jwt.expiresIn, in seconds
    RefreshLife,    \* jwt.refreshExpiresIn, in seconds
    SessionTTL,     \* getRefreshTtlSeconds()
    Fallback,       \* TRUE: RedisService runs on its in-memory map
    MaxTime,        \* bound: the last second modelled
    MaxClaims       \* bound: how often a user's roles change

Token == [sub : Users, claims : 0..MaxClaims, iat : 0..MaxTime]

ASSUME LifeAssumption ==
    /\ AccessLife \in Nat \ {0}
    /\ RefreshLife \in Nat \ {0}
    /\ SessionTTL \in Nat \ {0}
ASSUME ModeAssumption == Fallback \in BOOLEAN
ASSUME BoundAssumption == MaxTime \in Nat /\ MaxClaims \in Nat
ASSUME NoTokenAssumption == NoToken \notin Token
ASSUME UserAssumption == Users # {}

VARIABLES
    now,        \* the clock, in seconds
    claims,     \* user -> version of the roles and permissions in the database
    sessions,   \* token -> second its key session:refresh:... expires, 0 if absent
    blacklist,  \* token -> second its key blacklist:access:... expires, 0 if absent
    issued,     \* token pairs that reached a client
    req         \* request slot -> the local variables of its handler

(* History variables: no action reads them. *)
VARIABLES
    floor,      \* request -> claims of its user when the request began
    since,      \* request -> tokens stored since its revocation listed the keys
    lost,       \* request -> its old or new session was deleted by someone else
    crossed,    \* request -> a logout of its user ended before it stored a session
    refused,    \* request -> Redis rejected its blacklist entry
    loggedOut   \* access tokens of answered logouts by Authorization header,
                \* but for those whose blacklist entry was rejected

store   == <<sessions, blacklist>>
history == <<floor, since, lost, crossed, refused, loggedOut>>
vars    == <<now, claims, store, issued, req, history>>

(* What a handler keeps across its awaits.  pc names the await it is at.   *)
Request ==
    [ pc        : {"idle", "claims", "store", "drop", "respond",
                   "scan", "delete", "return"},
      op        : {"none", "login", "refresh", "logout", "revoke"},
      user      : Users,
      presented : Token \cup {NoToken},   \* the token the client sent
      minted    : Token \cup {NoToken},   \* the pair issueTokens signed
      access    : Token \cup {NoToken},   \* ctx.accessToken of a logout
      todo      : SUBSET Token ]          \* session keys still to delete

Idle ==
    [ pc |-> "idle", op |-> "none", user |-> CHOOSE u \in Users : TRUE,
      presented |-> NoToken, minted |-> NoToken, access |-> NoToken, todo |-> {} ]

TypeOK ==
    /\ now \in 0..MaxTime
    /\ claims \in [Users -> 0..MaxClaims]
    /\ sessions \in [Token -> Nat]
    /\ blacklist \in [Token -> Nat]
    /\ issued \subseteq Token
    /\ req \in [Requests -> Request]
    /\ floor \in [Requests -> 0..MaxClaims]
    /\ since \in [Requests -> SUBSET Token]
    /\ lost \in [Requests -> BOOLEAN]
    /\ crossed \in [Requests -> BOOLEAN]
    /\ refused \in [Requests -> BOOLEAN]
    /\ loggedOut \subseteq Token
------------------------------------------------------------------------------
Live(t) == sessions[t] # 0

SessionsOf(u) == {t \in Token : t.sub = u /\ Live(t)}

(* The second at which a key set now expires; MaxTime + 1 stands for any   *)
(* time after the modelled one.  The in-memory map of RedisService ignores *)
(* the TTL.                                                                *)
ExpiryOf(ttl) == IF Fallback \/ now + ttl > MaxTime THEN MaxTime + 1 ELSE now + ttl

(* jsonwebtoken rejects a token from its exp second on. *)
RefreshValid(t) == now < t.iat + RefreshLife
AccessValid(t)  == now < t.iat + AccessLife

(* AuthGuard.canActivate: the signature and lifetime, then the blacklist. *)
GuardAccepts(t) == AccessValid(t) /\ blacklist[t] = 0

(* History bookkeeping shared by the actions that store or delete a key.   *)
NoteStored(t) ==
    since' = [q \in Requests |->
        IF req[q].pc \in {"delete", "return"} THEN since[q] \cup {t} ELSE since[q]]
NoteDeleted(gone, by) ==
    lost' = [q \in Requests |->
        \/ lost[q]
        \/ q \notin by /\ req[q].op = "refresh" /\ {req[q].presented, req[q].minted} \cap gone # {}]

Init ==
    /\ now = 0
    /\ claims = [u \in Users |-> 0]
    /\ sessions = [t \in Token |-> 0]
    /\ blacklist = [t \in Token |-> 0]
    /\ issued = {}
    /\ req = [r \in Requests |-> Idle]
    /\ floor = [r \in Requests |-> 0]
    /\ since = [r \in Requests |-> {}]
    /\ lost = [r \in Requests |-> FALSE]
    /\ crossed = [r \in Requests |-> FALSE]
    /\ refused = [r \in Requests |-> FALSE]
    /\ loggedOut = {}
------------------------------------------------------------------------------
(* A request enters its handler with these locals. *)
Begin(r, local) ==
    /\ req[r].pc = "idle"
    /\ req' = [req EXCEPT ![r] = local]
    /\ floor' = [floor EXCEPT ![r] = claims[local.user]]
    /\ UNCHANGED <<now, claims, store, issued, since, lost, crossed, refused, loggedOut>>

(* A request leaves its handler: its locals are gone. *)
End(r) ==
    /\ req' = [req EXCEPT ![r] = Idle]
    /\ floor' = [floor EXCEPT ![r] = 0]
    /\ since' = [since EXCEPT ![r] = {}]
    /\ lost' = [lost EXCEPT ![r] = FALSE]
    /\ refused' = [refused EXCEPT ![r] = FALSE]

(* login, verifyOtp and loginWithOAuthProvider, once the credentials are   *)
(* accepted: the request goes on to issueTokens.                           *)
StartLogin(r, u) ==
    Begin(r, [Idle EXCEPT !.pc = "claims", !.op = "login", !.user = u])

(* Mutant of StartRefresh: the old session is spent before the new pair is *)
(* stored.                                                                 *)
StartRefreshSpendsFirst(r, t) ==
    /\ t \in issued /\ RefreshValid(t) /\ Live(t)
    /\ req[r].pc = "idle"
    /\ sessions' = [sessions EXCEPT ![t] = 0]
    /\ req' = [req EXCEPT ![r] = [Idle EXCEPT !.pc = "claims", !.op = "refresh",
                                              !.user = t.sub, !.presented = t]]
    /\ NoteDeleted({t}, {r})
    /\ UNCHANGED <<now, claims, blacklist, issued, floor, since, crossed, refused, loggedOut>>

(* refreshTokens: verify the JWT, then ask Redis whether its session       *)
(* exists.  A token that fails either test is answered 401 and changes     *)
(* nothing.                                                                *)
StartRefresh(r, t) ==
    /\ t \in issued
    /\ RefreshValid(t)
    /\ Live(t)
    /\ Begin(r, [Idle EXCEPT !.pc = "claims", !.op = "refresh",
                             !.user = t.sub, !.presented = t])

(* What is signed for a user now, with the roles and permissions that      *)
(* buildAuthorizationClaims reads.                                         *)
Signed(u) == [sub |-> u, claims |-> claims[u], iat |-> now]

(* Mutant of MintTokens: a refresh copies the claims of the old token. *)
MintTokensFromPayload(r) ==
    /\ req[r].pc = "claims"
    /\ LET u == req[r].user
           c == IF req[r].op = "refresh" THEN req[r].presented.claims ELSE claims[u]
       IN req' = [req EXCEPT ![r].pc = "store",
                             ![r].minted = [sub |-> u, claims |-> c, iat |-> now]]
    /\ UNCHANGED <<now, claims, store, issued, history>>

(* issueTokens up to its first write: read the claims, sign the pair. *)
MintTokens(r) ==
    /\ req[r].pc = "claims"
    /\ req' = [req EXCEPT ![r].pc = "store", ![r].minted = Signed(req[r].user)]
    /\ UNCHANGED <<now, claims, store, issued, history>>

(* issueTokens: setJson of session:refresh:<user>:<hash> with its TTL. *)
StoreSession(r) ==
    /\ req[r].pc = "store"
    /\ sessions' = [sessions EXCEPT ![req[r].minted] = ExpiryOf(SessionTTL)]
    /\ req' = [req EXCEPT ![r].pc = IF req[r].op = "refresh" THEN "drop" ELSE "respond"]
    /\ NoteStored(req[r].minted)
    /\ UNCHANGED <<now, claims, blacklist, issued, floor, lost, crossed, refused, loggedOut>>

(* Mutant of DropOld: the user's other sessions go too. *)
DropOldAndOthers(r) ==
    LET gone == SessionsOf(req[r].user) \ {req[r].minted}
    IN
    /\ req[r].pc = "drop"
    /\ sessions' = [t \in Token |-> IF t \in gone THEN 0 ELSE sessions[t]]
    /\ req' = [req EXCEPT ![r].pc = "respond"]
    /\ NoteDeleted(gone, {r})
    /\ UNCHANGED <<now, claims, blacklist, issued, floor, since, crossed, refused, loggedOut>>

(* refreshTokens: delete the session of the token that was presented. *)
DropOld(r) ==
    /\ req[r].pc = "drop"
    /\ sessions' = [sessions EXCEPT ![req[r].presented] = 0]
    /\ req' = [req EXCEPT ![r].pc = "respond"]
    /\ NoteDeleted({req[r].presented}, {r})
    /\ UNCHANGED <<now, claims, blacklist, issued, floor, since, crossed, refused, loggedOut>>

(* The pair reaches the client. *)
Respond(r) ==
    /\ req[r].pc = "respond"
    /\ issued' = issued \cup {req[r].minted}
    /\ crossed' = [crossed EXCEPT ![r] = FALSE]
    /\ End(r)
    /\ UNCHANGED <<now, claims, store, loggedOut>>
------------------------------------------------------------------------------
(* logout, behind AuthGuard.  The guard takes the access token from the    *)
(* Authorization header or from a cookie; the controller passes it on to   *)
(* AuthService only when it came in the header.                            *)
StartLogout(r, t, inHeader) ==
    /\ t \in issued
    /\ GuardAccepts(t)
    /\ Begin(r, [Idle EXCEPT !.pc = "scan", !.op = "logout", !.user = t.sub,
                             !.presented = t,
                             !.access = IF inHeader THEN t ELSE NoToken])

(* resetPassword and changePassword after their update of the user row,    *)
(* and SessionService.revokeAll: revoke every session of the user.         *)
StartRevoke(r, u) ==
    Begin(r, [Idle EXCEPT !.pc = "scan", !.op = "revoke", !.user = u])

(* Mutant of Scan: the session of the presented token is left out. *)
ScanKeepsPresented(r) ==
    /\ req[r].pc = "scan"
    /\ req' = [req EXCEPT ![r].pc = "delete",
                          ![r].todo = SessionsOf(req[r].user) \ {req[r].presented}]
    /\ since' = [since EXCEPT ![r] = {}]
    /\ UNCHANGED <<now, claims, store, issued, floor, lost, crossed, refused, loggedOut>>

(* Mutant of Scan: the key of the presented token is deleted in any case,  *)
(* as if every revocation came from a logout.                              *)
ScanAndPresented(r) ==
    /\ req[r].pc = "scan"
    /\ req' = [req EXCEPT ![r].pc = "delete",
                          ![r].todo = SessionsOf(req[r].user) \cup {req[r].presented}]
    /\ since' = [since EXCEPT ![r] = {}]
    /\ UNCHANGED <<now, claims, store, issued, floor, lost, crossed, refused, loggedOut>>

(* revokeUserSessions: list the keys session:refresh:<user>:*. *)
Scan(r) ==
    /\ req[r].pc = "scan"
    /\ req' = [req EXCEPT ![r].pc = "delete", ![r].todo = SessionsOf(req[r].user)]
    /\ since' = [since EXCEPT ![r] = {}]
    /\ UNCHANGED <<now, claims, store, issued, floor, lost, crossed, refused, loggedOut>>

(* Mutant of DeleteOne: the keys are listed again until there are none. *)
DeleteOneThenRelist(r, t) ==
    /\ req[r].pc = "delete"
    /\ t \in req[r].todo
    /\ sessions' = [sessions EXCEPT ![t] = 0]
    /\ req' = [req EXCEPT ![r].todo = req[r].todo \ {t},
                          ![r].pc = IF req[r].todo = {t} THEN "scan" ELSE "delete"]
    /\ NoteDeleted({t}, {})
    /\ UNCHANGED <<now, claims, blacklist, issued, floor, since, crossed, refused, loggedOut>>

(* revokeUserSessions: the body of the loop, one await per key. *)
DeleteOne(r, t) ==
    /\ req[r].pc = "delete"
    /\ t \in req[r].todo
    /\ sessions' = [sessions EXCEPT ![t] = 0]
    /\ req' = [req EXCEPT ![r].todo = req[r].todo \ {t}]
    /\ NoteDeleted({t}, {})
    /\ UNCHANGED <<now, claims, blacklist, issued, floor, since, crossed, refused, loggedOut>>

(* Mutant of BlacklistAccess: the entry ends a second early. *)
BlacklistAccessShort(r) ==
    LET t == req[r].access
        left == (t.iat + AccessLife) - now
    IN
    /\ req[r].pc = "delete"
    /\ req[r].todo = {}
    /\ t # NoToken
    /\ \/ /\ AccessValid(t)
          /\ blacklist' = [blacklist EXCEPT ![t] = ExpiryOf(IF left > 1 THEN left - 1 ELSE 1)]
          /\ UNCHANGED refused
       \/ ~AccessValid(t) /\ UNCHANGED <<blacklist, refused>>
       \/ /\ AccessValid(t) /\ ~Fallback
          /\ refused' = [refused EXCEPT ![r] = TRUE]
          /\ UNCHANGED blacklist
    /\ req' = [req EXCEPT ![r].pc = "return"]
    /\ UNCHANGED <<now, claims, sessions, issued, floor, since, lost, crossed, loggedOut>>

(* blacklistAccessToken: the rest of the token's life, at least one        *)
(* second.  Verification and SET share one try block whose catch says      *)
(* nothing, so a token that no longer verifies and a SET that Redis        *)
(* rejects are both left alone, and the logout goes on.                    *)
BlacklistAccess(r) ==
    LET t == req[r].access
        left == (t.iat + AccessLife) - now
    IN
    /\ req[r].pc = "delete"
    /\ req[r].todo = {}
    /\ t # NoToken
    /\ \/ /\ AccessValid(t)
          /\ blacklist' = [blacklist EXCEPT ![t] = ExpiryOf(IF left > 1 THEN left ELSE 1)]
          /\ UNCHANGED refused
       \/ ~AccessValid(t) /\ UNCHANGED <<blacklist, refused>>
       \/ /\ AccessValid(t) /\ ~Fallback
          /\ refused' = [refused EXCEPT ![r] = TRUE]
          /\ UNCHANGED blacklist
    /\ req' = [req EXCEPT ![r].pc = "return"]
    /\ UNCHANGED <<now, claims, sessions, issued, floor, since, lost, crossed, loggedOut>>

(* The revoking request is answered. *)
Return(r) ==
    LET logout == req[r].op = "logout"
        byHeader == req[r].access # NoToken
    IN
    /\ \/ req[r].pc = "return"
       \/ req[r].pc = "delete" /\ req[r].todo = {} /\ ~byHeader
    /\ loggedOut' = IF byHeader /\ ~refused[r] THEN loggedOut \cup {req[r].access} ELSE loggedOut
    /\ crossed' = [q \in Requests |->
           /\ q # r
           /\ \/ crossed[q]
              \/ /\ logout
                 /\ req[q].op = "refresh"
                 /\ req[q].user = req[r].user
                 /\ req[q].pc \in {"claims", "store"}]
    /\ End(r)
    /\ UNCHANGED <<now, claims, store, issued>>
------------------------------------------------------------------------------
(* A Redis or database command rejects, or the answer is lost: the handler *)
(* ends where it is and what it wrote stays.                               *)
Abort(r) ==
    /\ req[r].pc # "idle"
    /\ crossed' = [crossed EXCEPT ![r] = FALSE]
    /\ End(r)
    /\ UNCHANGED <<now, claims, store, issued, loggedOut>>

(* An administrator changes the roles of a user. *)
ChangeClaims(u) ==
    /\ claims[u] < MaxClaims
    /\ claims' = [claims EXCEPT ![u] = @ + 1]
    /\ UNCHANGED <<now, store, issued, req, history>>

(* A second passes: Redis drops the keys whose TTL has run out.  Tokens    *)
(* that no longer verify are forgotten: presenting one changes nothing.    *)
Tick ==
    /\ now < MaxTime
    /\ now' = now + 1
    /\ sessions'  = [t \in Token |-> IF sessions[t] <= now + 1 THEN 0 ELSE sessions[t]]
    /\ blacklist' = [t \in Token |-> IF blacklist[t] <= now + 1 THEN 0 ELSE blacklist[t]]
    /\ issued' = {t \in issued : \/ now + 1 < t.iat + RefreshLife
                                 \/ now + 1 < t.iat + AccessLife}
    /\ NoteDeleted({t \in Token : sessions[t] <= now + 1}, {})
    /\ loggedOut' = {t \in loggedOut : now + 1 < t.iat + AccessLife}
    /\ UNCHANGED <<claims, req, floor, since, crossed, refused>>

(* The process restarts.  Its requests die with it, and so does the        *)
(* in-memory map when that is the store.                                   *)
Restart ==
    /\ \E r \in Requests : req[r].pc # "idle"
    /\ req' = [r \in Requests |-> Idle]
    /\ sessions' = IF Fallback THEN [t \in Token |-> 0] ELSE sessions
    /\ blacklist' = IF Fallback THEN [t \in Token |-> 0] ELSE blacklist
    /\ floor' = [r \in Requests |-> 0]
    /\ since' = [r \in Requests |-> {}]
    /\ lost' = [r \in Requests |-> FALSE]
    /\ crossed' = [r \in Requests |-> FALSE]
    /\ refused' = [r \in Requests |-> FALSE]
    /\ UNCHANGED <<now, claims, issued, loggedOut>>

(* The next await of a handler that is under way. *)
Step(r) ==
    \/ MintTokens(r)
    \/ StoreSession(r)
    \/ DropOld(r)
    \/ Respond(r)
    \/ Scan(r)
    \/ \E t \in req[r].todo : DeleteOne(r, t)
    \/ BlacklistAccess(r)
    \/ Return(r)

Start(r) ==
    \/ \E u \in Users : StartLogin(r, u) \/ StartRevoke(r, u)
    \/ \E t \in issued : StartRefresh(r, t)
    \/ \E t \in issued, inHeader \in BOOLEAN : StartLogout(r, t, inHeader)

Next ==
    \/ \E r \in Requests : Start(r) \/ Step(r) \/ Abort(r)
    \/ \E u \in Users : ChangeClaims(u)
    \/ Tick
    \/ Restart

Spec == Init /\ [][Next]_vars

(* Redis commands settle (maxRetriesPerRequest 1, no offline queue), so    *)
(* every handler that is under way goes on.  Clients and time are free.    *)
Fairness == \A r \in Requests : WF_vars(Step(r))
FairSpec == Spec /\ Fairness
------------------------------------------------------------------------------
(* A revocation deletes every session that existed when it listed the keys *)
(* (revokeUserSessions): whatever of the user is live behind its loop was  *)
(* stored by another request after the listing.                            *)
RevocationComplete ==
    \A r \in Requests :
        req[r].pc \in {"delete", "return"} =>
            SessionsOf(req[r].user) \subseteq req[r].todo \cup since[r]

(* A logout that sent its access token in the header ends that token:      *)
(* AuthGuard refuses it for the rest of its life, although the blacklist   *)
(* entry has a TTL of its own.  Excepted is the logout whose SET Redis     *)
(* rejects: blacklistAccessToken swallows the error, the logout is         *)
(* answered and its token stays good (loggedOut leaves it out).  In-memory *)
(* mode is excluded: a restart forgets the map.                            *)
LoggedOutTokenRefused ==
    Fallback \/ \A t \in loggedOut : ~GuardAccepts(t)

(* What the client of a refresh has when it ends: a live session, the one  *)
(* it presented or the one it was answered.  Excepted are the answer that  *)
(* is lost after the old session was deleted; a session that another       *)
(* request or the TTL took; the in-memory map that dies with the process;  *)
(* and a pair that is the presented token (see RefreshedSessionLives).     *)
RefreshLeaves(r) ==
    LET x == req[r]
        answered == x.minted \in issued'
    IN (x.op = "refresh" /\ req'[r].pc = "idle" /\ ~lost[r]) =>
        \/ sessions'[x.presented] # 0
        \/ x.pc = "respond" /\ ~answered
        \/ x.pc = "respond" /\ (x.minted = x.presented \/ sessions'[x.minted] # 0)
        \/ Fallback /\ \A q \in Requests : req'[q].pc = "idle"

(* refreshTokens stores the new session, deletes the old one and answers,  *)
(* in this order, so a refresh that ends at any await strands its client   *)
(* in one case only: the answer itself is lost.                            *)
OnlyLostAnswerStrands == [][\A r \in Requests : RefreshLeaves(r)]_vars

(* A pair carries claims at least as new as those in force when its        *)
(* request began: buildAuthorizationClaims reads the database, never the   *)
(* token that is being refreshed.                                          *)
ClaimsAreCurrent ==
    \A r \in Requests :
        req[r].minted # NoToken => req[r].minted.claims >= floor[r]

(* A request under way ends, whatever the other requests do meanwhile: no  *)
(* handler waits for another, and the deletion loop runs over the keys it  *)
(* listed once.                                                            *)
EveryRequestEnds ==
    \A r \in Requests : req[r].pc # "idle" ~> req[r].pc = "idle"
------------------------------------------------------------------------------
(* The registry of sessions as others see it.  A request may open one      *)
(* session from its admission until it has stored a pair, and may close    *)
(* what it has still to drop or delete.                                    *)
Entry == [r \in Requests |->
    IF req[r].pc \in {"claims", "store"} THEN {req[r].user} ELSE {}]
Basis == [r \in Requests |->
    IF req[r].pc \in {"claims", "store"} /\ req[r].op = "refresh"
    THEN {req[r].presented} ELSE {}]
Closing == [r \in Requests |->
    CASE req[r].pc = "drop"   -> {req[r].presented}
      [] req[r].pc = "delete" -> req[r].todo
      [] OTHER                -> {}]

Registry == INSTANCE SessionRegistry WITH
    Slots <- Requests, Volatile <- Fallback,
    open <- sessions, entry <- Entry, basis <- Basis, closing <- Closing

(* Every change of the session keys is one of these: an admission opens    *)
(* its one session, of its own user; a refresh closes the session it was   *)
(* admitted on, after that; a revocation closes what its user had when it  *)
(* listed the keys; the TTL or a crash takes the rest.                     *)
KeepsRegistry == Registry!RegistrySpec
------------------------------------------------------------------------------
(* What the documentation and the response messages say, and the code does *)
(* not keep.                                                               *)

(* "Tokens refreshed successfully": the session of the pair a refresh      *)
(* returns exists, unless another request or the TTL deleted it.           *)
RefreshedSessionLives ==
    \A r \in Requests :
        (req[r].op = "refresh" /\ req[r].pc = "respond" /\ ~lost[r])
            => Live(req[r].minted)

(* "Your session has been terminated": once a logout is answered, no       *)
(* refresh admitted on a session it terminated opens a new one.            *)
LogoutEndsRefresh ==
    \A r \in Requests : req[r].pc \in {"drop", "respond"} => ~crossed[r]
==============================================================================
