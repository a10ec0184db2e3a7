-------------------------- MODULE AuthSession_proofs --------------------------
(* Safety of AuthSession for any users, request slots, lifetimes and bounds. *)
EXTENDS AuthSession, FiniteSetTheorems, TLAPS

USE LifeAssumption, ModeAssumption, BoundAssumption, NoTokenAssumption, UserAssumption

(* The locals of an idle slot have their types. *)
LEMMA IdleType == Idle \in Request
  BY DEF Idle, Request

(* A key that is set has an expiry time, and is there. *)
LEMMA ExpiryType ==
    ASSUME TypeOK, NEW ttl \in Nat \ {0}
    PROVE  ExpiryOf(ttl) \in Nat \ {0}
  BY DEF ExpiryOf, TypeOK

(* A handler's locals keep their types from one await to the next. *)
LEMMA RequestType ==
    ASSUME TypeOK, NEW r \in Requests
    PROVE  /\ req[r] \in Request
           /\ req[r].minted \in Token \cup {NoToken}
           /\ req[r].presented \in Token \cup {NoToken}
           /\ req[r].access \in Token \cup {NoToken}
           /\ req[r].user \in Users
           /\ req[r].todo \subseteq Token
  BY DEF TypeOK, Request

(* What the deletions note is of its type. *)
LEMMA NotedType ==
    ASSUME NEW gone, NEW by, NoteDeleted(gone, by)
    PROVE  lost' \in [Requests -> BOOLEAN]
<1> DEFINE noted(q) == \/ lost[q]
                       \/ /\ q \notin by /\ req[q].op = "refresh"
                          /\ {req[q].presented, req[q].minted} \cap gone # {}
<1>1. lost' = [q \in Requests |-> noted(q)]
  BY DEF NoteDeleted
<1>2. \A q \in Requests : noted(q) \in BOOLEAN
  OBVIOUS
<1> HIDE DEF noted
<1> QED BY <1>1, <1>2

(* The types alone are not inductive: StoreSession and Respond use what    *)
(* MintTokens signed, so they need that a handler past it has a pair.      *)
PairSigned ==
    \A r \in Requests :
        req[r].pc \in {"store", "drop", "respond"} => req[r].minted \in Token

Typed == TypeOK /\ PairSigned

(* Every step of every action keeps the types. *)
LEMMA TypeStep == Typed /\ [Next]_vars => TypeOK'
<1> SUFFICES ASSUME TypeOK, PairSigned, [Next]_vars PROVE TypeOK'
  BY DEF Typed
<1> USE DEF TypeOK, store, history
<1>1. ASSUME NEW r \in Requests, NEW local \in Request, Begin(r, local) PROVE TypeOK'
  BY <1>1 DEF Begin, Request
<1>2. ASSUME NEW r \in Requests, Start(r) PROVE TypeOK'
  <2>1. ASSUME NEW u \in Users, StartLogin(r, u) PROVE TypeOK'
    <3>1. [Idle EXCEPT !.pc = "claims", !.op = "login", !.user = u] \in Request
      BY IdleType DEF Request
    <3> QED BY <1>1, <2>1, <3>1 DEF StartLogin
  <2>2. ASSUME NEW u \in Users, StartRevoke(r, u) PROVE TypeOK'
    <3>1. [Idle EXCEPT !.pc = "scan", !.op = "revoke", !.user = u] \in Request
      BY IdleType DEF Request
    <3> QED BY <1>1, <2>2, <3>1 DEF StartRevoke
  <2>3. ASSUME NEW t \in issued, StartRefresh(r, t) PROVE TypeOK'
    <3>1. [Idle EXCEPT !.pc = "claims", !.op = "refresh",
                       !.user = t.sub, !.presented = t] \in Request
      BY IdleType DEF Request, Token
    <3> QED BY <1>1, <2>3, <3>1 DEF StartRefresh
  <2>4. ASSUME NEW t \in issued, NEW inHeader \in BOOLEAN, StartLogout(r, t, inHeader)
        PROVE  TypeOK'
    <3>1. [Idle EXCEPT !.pc = "scan", !.op = "logout", !.user = t.sub, !.presented = t,
                       !.access = IF inHeader THEN t ELSE NoToken] \in Request
      BY IdleType DEF Request, Token
    <3> QED BY <1>1, <2>4, <3>1 DEF StartLogout
  <2> QED BY <1>2, <2>1, <2>2, <2>3, <2>4 DEF Start
<1>3. ASSUME NEW r \in Requests, End(r)
      PROVE  req' \in [Requests -> Request] /\ floor' \in [Requests -> 0..MaxClaims]
             /\ since' \in [Requests -> SUBSET Token] /\ lost' \in [Requests -> BOOLEAN]
             /\ refused' \in [Requests -> BOOLEAN]
  BY <1>3, IdleType DEF End
<1>4. ASSUME NEW r \in Requests, Step(r) PROVE TypeOK'
  <2> req[r] \in Request
    BY RequestType
  <2>1. CASE MintTokens(r)
    <3> DEFINE t == [sub |-> req[r].user, claims |-> claims[req[r].user], iat |-> now]
               x == [req[r] EXCEPT !.pc = "store", !.minted = t]
    <3>1. t \in Token
      BY RequestType DEF Token
    <3>2. x \in Request
      BY <3>1 DEF Request
    <3>3. req' = [req EXCEPT ![r] = x]
      BY <2>1 DEF MintTokens, Signed
    <3> QED BY <2>1, <3>2, <3>3 DEF MintTokens, Signed
  <2>2. CASE StoreSession(r)
    <3> DEFINE x == [req[r] EXCEPT !.pc = IF req[r].op = "refresh" THEN "drop" ELSE "respond"]
    <3>1. x \in Request
      BY DEF Request
    <3>2. req' = [req EXCEPT ![r] = x] /\ sessions' \in [Token -> Nat]
      BY <2>2, ExpiryType DEF StoreSession
    <3>3. req[r].minted \in Token
      BY <2>2 DEF StoreSession, PairSigned
    <3>4. since' \in [Requests -> SUBSET Token]
      <4>1. since' = [q \in Requests |-> IF req[q].pc \in {"delete", "return"}
                                         THEN since[q] \cup {req[r].minted} ELSE since[q]]
        BY <2>2 DEF StoreSession, NoteStored
      <4> QED BY <3>3, <4>1
    <3>5. UNCHANGED <<now, claims, blacklist, issued, floor, lost, crossed, refused, loggedOut>>
      BY <2>2 DEF StoreSession
    <3> QED BY <3>1, <3>2, <3>4, <3>5
  <2>3. CASE DropOld(r)
    <3> DEFINE x == [req[r] EXCEPT !.pc = "respond"]
    <3>1. x \in Request
      BY DEF Request
    <3>2. req' = [req EXCEPT ![r] = x]
      BY <2>3 DEF DropOld
    <3>3. lost' \in [Requests -> BOOLEAN]
      BY <2>3, NotedType DEF DropOld
    <3>4. sessions' \in [Token -> Nat]
      BY <2>3 DEF DropOld
    <3> HIDE DEF x
    <3>5. req' \in [Requests -> Request]
      BY <3>1, <3>2
    <3>6. UNCHANGED <<now, claims, blacklist, issued, floor, since, crossed, refused, loggedOut>>
      BY <2>3 DEF DropOld
    <3> QED BY <3>3, <3>4, <3>5, <3>6
  <2>4. CASE Respond(r)
    BY <2>4, <1>3 DEF Respond, PairSigned
  <2>5. CASE Scan(r)
    <3> DEFINE x == [req[r] EXCEPT !.pc = "delete", !.todo = SessionsOf(req[r].user)]
    <3>1. x \in Request
      BY DEF Request, SessionsOf
    <3>2. req' = [req EXCEPT ![r] = x]
      BY <2>5 DEF Scan
    <3>3. req' \in [Requests -> Request] /\ since' \in [Requests -> SUBSET Token]
      BY <2>5, <3>1, <3>2 DEF Scan
    <3>4. UNCHANGED <<now, claims, store, issued, floor, lost, crossed, refused, loggedOut>>
      BY <2>5 DEF Scan
    <3> QED BY <3>3, <3>4
  <2>6. ASSUME NEW t \in req[r].todo, DeleteOne(r, t) PROVE TypeOK'
    <3> DEFINE x == [req[r] EXCEPT !.todo = req[r].todo \ {t}]
    <3>1. x \in Request
      BY DEF Request
    <3>2. req' = [req EXCEPT ![r] = x]
      BY <2>6 DEF DeleteOne
    <3>3. lost' \in [Requests -> BOOLEAN]
      BY <2>6, NotedType DEF DeleteOne
    <3>4. sessions' \in [Token -> Nat]
      BY <2>6 DEF DeleteOne
    <3> HIDE DEF x
    <3>5. req' \in [Requests -> Request]
      BY <3>1, <3>2
    <3>6. UNCHANGED <<now, claims, blacklist, issued, floor, since, crossed, refused, loggedOut>>
      BY <2>6 DEF DeleteOne
    <3> QED BY <3>3, <3>4, <3>5, <3>6
  <2>7. CASE BlacklistAccess(r)
    <3> DEFINE t == req[r].access
               left == (t.iat + AccessLife) - now
               x == [req[r] EXCEPT !.pc = "return"]
    <3>1. x \in Request
      BY DEF Request
    <3>2. req' = [req EXCEPT ![r] = x]
      BY <2>7 DEF BlacklistAccess
    <3>3. t \in Token /\ left \in Int
      BY <2>7, RequestType DEF BlacklistAccess, Token
    <3>4. ExpiryOf(IF left > 1 THEN left ELSE 1) \in Nat
      BY <3>3, ExpiryType
    <3>5. blacklist' \in [Token -> Nat]
      BY <2>7, <3>3, <3>4 DEF BlacklistAccess
    <3>6. refused' \in [Requests -> BOOLEAN]
      BY <2>7 DEF BlacklistAccess
    <3>7. UNCHANGED <<now, claims, sessions, issued, floor, since, lost, crossed, loggedOut>>
      BY <2>7 DEF BlacklistAccess
    <3> QED BY <3>1, <3>2, <3>5, <3>6, <3>7
  <2>8. CASE Return(r)
    BY <2>8, <1>3, RequestType DEF Return
  <2> QED BY <1>4, <2>1, <2>2, <2>3, <2>4, <2>5, <2>6, <2>7, <2>8 DEF Step
<1>5. ASSUME NEW r \in Requests, Abort(r) PROVE TypeOK'
  BY <1>5, <1>3 DEF Abort
<1>6. ASSUME NEW u \in Users, ChangeClaims(u) PROVE TypeOK'
  BY <1>6 DEF ChangeClaims
<1>7. CASE Tick
  BY <1>7 DEF Tick, NoteDeleted
<1>8. CASE Restart
  BY <1>8, IdleType DEF Restart
<1>9. CASE UNCHANGED vars
  BY <1>9 DEF vars
<1> QED BY <1>2, <1>4, <1>5, <1>6, <1>7, <1>8, <1>9 DEF Next

(* Only MintTokens leads to the steps that use the pair. *)
LEMMA PairSignedStep == Typed /\ [Next]_vars => PairSigned'
<1> SUFFICES ASSUME TypeOK, PairSigned, [Next]_vars, NEW q \in Requests,
                    req'[q].pc \in {"store", "drop", "respond"}
             PROVE  req'[q].minted \in Token
  BY DEF Typed, PairSigned
<1> USE DEF PairSigned
<1>0. req \in [Requests -> Request] /\ Idle.pc = "idle"
  BY DEF TypeOK, Idle
<1>1. ASSUME NEW r \in Requests, End(r) PROVE req'[q].minted \in Token
  BY <1>0, <1>1 DEF End
<1>2. ASSUME NEW r \in Requests, Start(r) PROVE req'[q].minted \in Token
  <2>1. ASSUME NEW local, Begin(r, local), local.pc \in {"claims", "scan"}
        PROVE  req'[q].minted \in Token
    BY <1>0, <2>1 DEF Begin
  <2> QED BY <1>2, <2>1, IdleType DEF Start, StartLogin, StartRevoke, StartRefresh, StartLogout, Request
<1>3. ASSUME NEW r \in Requests, Step(r) PROVE req'[q].minted \in Token
  <2>1. CASE MintTokens(r)
    <3>1. [sub |-> req[r].user, claims |-> claims[req[r].user], iat |-> now] \in Token
      BY <1>0 DEF TypeOK, Token, Request
    <3> QED BY <1>0, <2>1, <3>1 DEF MintTokens, Signed, Request
  <2>2. CASE StoreSession(r)
    BY <1>0, <2>2 DEF StoreSession, Request
  <2>3. CASE DropOld(r)
    BY <1>0, <2>3 DEF DropOld, Request
  <2>4. CASE Respond(r) \/ Return(r)
    BY <1>1, <2>4 DEF Respond, Return
  <2>5. CASE Scan(r)
    BY <1>0, <2>5 DEF Scan, Request
  <2>7. ASSUME NEW t \in req[r].todo, DeleteOne(r, t) PROVE req'[q].minted \in Token
    BY <1>0, <2>7 DEF DeleteOne, Request
  <2>6. CASE BlacklistAccess(r)
    BY <1>0, <2>6 DEF BlacklistAccess, Request
  <2> QED BY <1>3, <2>1, <2>2, <2>3, <2>4, <2>5, <2>6, <2>7 DEF Step
<1>4. ASSUME NEW r \in Requests, Abort(r) PROVE req'[q].minted \in Token
  BY <1>1, <1>4 DEF Abort
<1>5. CASE Tick \/ Restart \/ UNCHANGED vars \/ \E u \in Users : ChangeClaims(u)
  BY <1>0, <1>5 DEF Tick, Restart, vars, ChangeClaims
<1> QED BY <1>2, <1>3, <1>4, <1>5 DEF Next

LEMMA TypedInvariant == Spec => []Typed
<1>1. Init => Typed
  <2> SUFFICES ASSUME Init PROVE TypeOK /\ PairSigned
    BY DEF Typed
  <2>1. TypeOK
    BY IdleType DEF Init, TypeOK
  <2>2. PairSigned
    BY DEF Init, PairSigned, Idle
  <2> QED BY <2>1, <2>2
<1>2. Typed /\ [Next]_vars => Typed'
  BY TypeStep, PairSignedStep DEF Typed
<1> QED BY <1>1, <1>2, PTL DEF Spec

(* Every variable of the session service keeps its type. *)
THEOREM TypeCorrect == Spec => []TypeOK
<1>1. Typed => TypeOK
  BY DEF Typed
<1> QED BY <1>1, TypedInvariant, PTL
------------------------------------------------------------------------------
(* A revocation misses no session that was there when it listed the keys.  *)
(* RevocationComplete is inductive given the types: sessions appear only   *)
(* in StoreSession, which the history of every revocation records.         *)
THEOREM RevocationCorrect == Spec => []RevocationComplete
<1>1. Init => RevocationComplete
  BY DEF Init, RevocationComplete, Idle
<1>2. Typed /\ RevocationComplete /\ [Next]_vars => RevocationComplete'
  <2> SUFFICES ASSUME Typed, RevocationComplete, [Next]_vars,
                      NEW q \in Requests, req'[q].pc \in {"delete", "return"},
                      NEW t \in Token, t.sub = req'[q].user, sessions'[t] # 0
               PROVE  t \in req'[q].todo \cup since'[q]
    BY DEF RevocationComplete, SessionsOf, Live
  <2> DEFINE Goal == t \in req'[q].todo \cup since'[q]
  <2>0. /\ req \in [Requests -> Request] /\ since \in [Requests -> SUBSET Token]
        /\ sessions \in [Token -> Nat] /\ Idle.pc = "idle"
    BY DEF Typed, TypeOK, Idle
  <2>1. ASSUME req'[q].user = req[q].user, req[q].pc \in {"delete", "return"},
               sessions[t] # 0, since[q] \subseteq since'[q],
               t \in req[q].todo => t \in req'[q].todo
        PROVE  Goal
    BY <2>1 DEF RevocationComplete, SessionsOf, Live
  <2>2. ASSUME NEW r \in Requests, End(r), sessions' = sessions PROVE Goal
    BY <2>0, <2>1, <2>2 DEF End
  <2>3. ASSUME NEW r \in Requests, Start(r) PROVE Goal
    <3>1. ASSUME NEW local, Begin(r, local), local.pc \in {"claims", "scan"} PROVE Goal
      BY <2>0, <2>1, <3>1 DEF Begin, store
    <3> QED BY <2>3, <3>1, IdleType DEF Start, StartLogin, StartRevoke, StartRefresh, StartLogout, Request
  <2>4. ASSUME NEW r \in Requests, Step(r) PROVE Goal
    <3>1. CASE MintTokens(r)
      <4>1. q # r
        BY <2>0, <3>1 DEF MintTokens, Signed, Request
      <4> QED BY <2>0, <2>1, <3>1, <4>1 DEF MintTokens, Signed, store, history
    <3>2. CASE StoreSession(r)
      <4>1. q # r
        BY <2>0, <3>2 DEF StoreSession, Request
      <4>2. req'[q] = req[q]
        BY <2>0, <3>2, <4>1 DEF StoreSession
      <4>3. since'[q] = since[q] \cup {req[r].minted}
        BY <2>0, <3>2, <4>2 DEF StoreSession, NoteStored
      <4>4. t = req[r].minted \/ sessions[t] # 0
        BY <2>0, <3>2 DEF StoreSession
      <4> QED BY <2>1, <4>2, <4>3, <4>4
    <3>3. CASE DropOld(r)
      <4>1. q # r
        BY <2>0, <3>3 DEF DropOld, Request
      <4> QED BY <2>0, <2>1, <3>3, <4>1 DEF DropOld
    <3>4. CASE Respond(r)
      BY <2>2, <3>4 DEF Respond, store
    <3>5. CASE Scan(r)
      <4>1. CASE q = r
        <5>1. req'[q].todo = SessionsOf(req[q].user) /\ req'[q].user = req[q].user
          BY <2>0, <3>5, <4>1 DEF Scan, Request
        <5>2. sessions' = sessions
          BY <3>5 DEF Scan, store
        <5> QED BY <5>1, <5>2 DEF SessionsOf, Live
      <4>2. CASE q # r
        BY <2>0, <2>1, <3>5, <4>2 DEF Scan, store
      <4> QED BY <4>1, <4>2
    <3>6. ASSUME NEW d \in req[r].todo, DeleteOne(r, d) PROVE Goal
      <4>1. sessions[t] # 0 /\ t # d /\ since' = since
        <5>1. d \in Token
          BY <2>0, <3>6 DEF Request
        <5> QED BY <2>0, <3>6, <5>1 DEF DeleteOne
      <4>2. CASE q = r
        <5>1. /\ req[q].pc = "delete" /\ req'[q].user = req[q].user
              /\ req'[q].todo = req[q].todo \ {d}
          BY <2>0, <3>6, <4>2 DEF DeleteOne, Request
        <5> QED BY <2>1, <4>1, <5>1
      <4>3. CASE q # r
        BY <2>0, <2>1, <3>6, <4>1, <4>3 DEF DeleteOne
      <4> QED BY <4>2, <4>3
    <3>7. CASE BlacklistAccess(r)
      <4>1. sessions' = sessions /\ since' = since
        BY <3>7 DEF BlacklistAccess, history
      <4>2. /\ req'[q].user = req[q].user /\ req'[q].todo = req[q].todo
            /\ req[q].pc \in {"delete", "return"}
        BY <2>0, <3>7 DEF BlacklistAccess, Request
      <4> QED BY <2>1, <4>1, <4>2
    <3>8. CASE Return(r)
      BY <2>2, <3>8 DEF Return, store
    <3> QED BY <2>4, <3>1, <3>2, <3>3, <3>4, <3>5, <3>6, <3>7, <3>8 DEF Step
  <2>5. ASSUME NEW r \in Requests, Abort(r) PROVE Goal
    BY <2>2, <2>5 DEF Abort, store
  <2>6. CASE Tick
    BY <2>0, <2>1, <2>6 DEF Tick
  <2>7. CASE Restart
    BY <2>0, <2>7 DEF Restart
  <2>8. CASE UNCHANGED vars \/ \E u \in Users : ChangeClaims(u)
    BY <2>1, <2>8 DEF vars, ChangeClaims, store, history
  <2> QED BY <2>3, <2>4, <2>5, <2>6, <2>7, <2>8 DEF Next
<1> QED BY <1>1, <1>2, TypedInvariant, PTL DEF Spec
------------------------------------------------------------------------------
(* A token AuthGuard refuses for good: it has expired, or its blacklist    *)
(* entry outlives it, or outlives the modelled time.                       *)
Barred(t) ==
    \/ now >= t.iat + AccessLife
    \/ blacklist[t] >= t.iat + AccessLife
    \/ blacklist[t] > MaxTime

(* The strengthening of LoggedOutTokenRefused: the logout that is about to *)
(* be answered has barred its token too, unless its entry was rejected.    *)
LogoutBars ==
    Fallback \/ /\ \A t \in loggedOut : Barred(t)
                /\ \A r \in Requests :
                       req[r].pc = "return" /\ ~refused[r] =>
                           req[r].access \in Token /\ Barred(req[r].access)

(* BlacklistAccess bars the token of its logout, unless its SET is         *)
(* rejected.                                                               *)
LEMMA BlacklistBars ==
    ASSUME Typed, ~Fallback, NEW r \in Requests, BlacklistAccess(r),
           NEW t, t = req[r].access, blacklist' # blacklist \/ ~refused'[r]
    PROVE  t \in Token /\ Barred(t)'
<1> DEFINE left == (t.iat + AccessLife) - now
<1>1. /\ t \in Token /\ blacklist \in [Token -> Nat] /\ now \in 0..MaxTime /\ now' = now
      /\ refused \in [Requests -> BOOLEAN]
  BY RequestType DEF Typed, TypeOK, BlacklistAccess
<1>2. t.iat \in Nat /\ left \in Int
  BY <1>1 DEF Token
<1>3. CASE AccessValid(t)
  <2>1. left >= 1 /\ (IF left > 1 THEN left ELSE 1) = left
    BY <1>1, <1>2, <1>3 DEF AccessValid
  <2>2. blacklist'[t] = ExpiryOf(left)
    <3>1. refused' = [refused EXCEPT ![r] = TRUE] => refused'[r]
      BY <1>1
    <3> QED BY <1>1, <1>3, <2>1, <3>1 DEF BlacklistAccess
  <2>3. ExpiryOf(left) > MaxTime \/ ExpiryOf(left) = t.iat + AccessLife
    BY <1>1, <1>2 DEF ExpiryOf
  <2> QED BY <1>1, <1>2, <2>2, <2>3 DEF Barred
<1>4. CASE ~AccessValid(t)
  BY <1>1, <1>2, <1>4 DEF AccessValid, Barred
<1> QED BY <1>1, <1>3, <1>4

(* No step lifts the bar: a blacklist entry goes only when its time, and   *)
(* with it the token's, is over.                                           *)
LEMMA BarStays ==
    ASSUME Typed, ~Fallback, [Next]_vars, NEW t \in Token, Barred(t)
    PROVE  Barred(t)'
<1>0. blacklist \in [Token -> Nat] /\ now \in 0..MaxTime /\ t.iat \in Nat
  BY DEF Typed, TypeOK, Token
<1>1. CASE blacklist' = blacklist /\ now' = now
  BY <1>1 DEF Barred
<1>2. ASSUME NEW r \in Requests, BlacklistAccess(r) PROVE Barred(t)'
  <2>1. CASE t = req[r].access /\ blacklist' # blacklist
    BY <1>2, <2>1, BlacklistBars
  <2>2. CASE t # req[r].access \/ blacklist' = blacklist
    <3>1. blacklist'[t] = blacklist[t] /\ now' = now
      BY <1>0, <1>2, <2>2 DEF BlacklistAccess
    <3> QED BY <3>1 DEF Barred
  <2> QED BY <2>1, <2>2
<1>3. CASE Tick
  <2>1. /\ now' = now + 1 /\ now < MaxTime
        /\ blacklist'[t] = IF blacklist[t] <= now + 1 THEN 0 ELSE blacklist[t]
    BY <1>0, <1>3 DEF Tick
  <2> QED BY <1>0, <2>1 DEF Barred
<1>4. CASE Restart
  BY <1>1, <1>4 DEF Restart
<1>5. ASSUME NEW r \in Requests, Start(r) \/ Abort(r) PROVE Barred(t)'
  BY <1>1, <1>5 DEF Start, StartLogin, StartRevoke, StartRefresh, StartLogout, Begin, Abort, store
<1>6. ASSUME NEW r \in Requests, Step(r), ~BlacklistAccess(r) PROVE Barred(t)'
  BY <1>1, <1>6 DEF Step, MintTokens, Signed, StoreSession, DropOld, Respond, Scan, DeleteOne, Return, store
<1>7. CASE UNCHANGED vars \/ \E u \in Users : ChangeClaims(u)
  BY <1>1, <1>7 DEF vars, ChangeClaims, store
<1> QED BY <1>2, <1>3, <1>4, <1>5, <1>6, <1>7 DEF Next

(* After a logout by header whose blacklist entry Redis accepted, AuthGuard *)
(* refuses the access token for the rest of its life, whatever the         *)
(* lifetimes are.                                                          *)
THEOREM LogoutCorrect == Spec => []LoggedOutTokenRefused
<1>1. Init => LogoutBars
  BY DEF Init, LogoutBars, Idle
<1>2. Typed /\ LogoutBars /\ [Next]_vars => LogoutBars'
  <2> SUFFICES ASSUME Typed, LogoutBars, [Next]_vars, ~Fallback
               PROVE  LogoutBars'
    BY ModeAssumption DEF LogoutBars
  <2>0. /\ req \in [Requests -> Request] /\ Idle.pc = "idle" /\ loggedOut \subseteq Token
        /\ refused \in [Requests -> BOOLEAN]
    BY DEF Typed, TypeOK, Idle
  <2> DEFINE Same == \A q \in Requests :
                         req'[q].pc = "return" => req'[q] = req[q] /\ refused'[q] = refused[q]
  <2>1. ASSUME loggedOut' \subseteq loggedOut, Same
        PROVE  LogoutBars'
    BY <2>0, <2>1, BarStays DEF LogoutBars
  <2>2. ASSUME NEW r \in Requests, Start(r) PROVE LogoutBars'
    <3>1. ASSUME NEW local, Begin(r, local), local.pc \in {"claims", "scan"} PROVE LogoutBars'
      BY <2>0, <2>1, <3>1 DEF Begin
    <3> QED BY <2>2, <3>1, IdleType DEF Start, StartLogin, StartRevoke, StartRefresh, StartLogout, Request
  <2>3. ASSUME NEW r \in Requests, End(r) PROVE Same
    BY <2>0, <2>3 DEF End
  <2>4. ASSUME NEW r \in Requests, Step(r) PROVE LogoutBars'
    <3>1. CASE MintTokens(r)
      BY <2>0, <2>1, <3>1 DEF MintTokens, Signed, Request, history
    <3>2. CASE StoreSession(r)
      BY <2>0, <2>1, <3>2 DEF StoreSession, Request
    <3>3. CASE DropOld(r)
      BY <2>0, <2>1, <3>3 DEF DropOld, Request
    <3>4. CASE Respond(r)
      BY <2>1, <2>3, <3>4 DEF Respond
    <3>5. CASE Scan(r)
      <4>1. Same
        BY <2>0, <3>5 DEF Scan, Request
      <4> QED BY <2>1, <3>5, <4>1 DEF Scan
    <3>6. ASSUME NEW d \in req[r].todo, DeleteOne(r, d) PROVE LogoutBars'
      BY <2>0, <2>1, <3>6 DEF DeleteOne, Request
    <3>7. CASE BlacklistAccess(r)
      <4>1. \A t \in loggedOut' : Barred(t)'
        BY <2>0, <3>7, BarStays DEF BlacklistAccess, LogoutBars
      <4>2. ASSUME NEW q \in Requests, req'[q].pc = "return", ~refused'[q],
                   NEW t, t = req'[q].access
            PROVE  t \in Token /\ Barred(t)'
        <5>1. CASE q = r
          <6>1. t = req[r].access
            BY <2>0, <3>7, <4>2, <5>1 DEF BlacklistAccess, Request
          <6> QED BY <3>7, <4>2, <5>1, <6>1, BlacklistBars
        <5>2. CASE q # r
          <6>1. req'[q] = req[q] /\ refused'[q] = refused[q]
            BY <2>0, <3>7, <5>2 DEF BlacklistAccess
          <6>2. t \in Token /\ Barred(t)
            BY <4>2, <6>1 DEF LogoutBars
          <6> QED BY <6>2, BarStays
        <5> QED BY <5>1, <5>2
      <4> QED BY <4>1, <4>2 DEF LogoutBars
    <3>8. CASE Return(r)
      <4>1. Same
        BY <2>3, <3>8 DEF Return
      <4>2. ASSUME NEW t \in loggedOut' PROVE t \in Token /\ Barred(t)
        BY <2>0, <3>8, <4>2, RequestType DEF Return, LogoutBars, Typed
      <4> QED BY <4>1, <4>2, BarStays DEF LogoutBars
    <3> QED BY <2>4, <3>1, <3>2, <3>3, <3>4, <3>5, <3>6, <3>7, <3>8 DEF Step
  <2>5. ASSUME NEW r \in Requests, Abort(r) PROVE LogoutBars'
    BY <2>1, <2>3, <2>5 DEF Abort
  <2>6. CASE Tick
    BY <2>0, <2>1, <2>6 DEF Tick
  <2>7. CASE Restart
    BY <2>0, <2>1, <2>7 DEF Restart
  <2>8. CASE UNCHANGED vars \/ \E u \in Users : ChangeClaims(u)
    BY <2>1, <2>8 DEF vars, ChangeClaims, history
  <2> QED BY <2>2, <2>4, <2>5, <2>6, <2>7, <2>8 DEF Next
<1>3. Typed /\ LogoutBars => LoggedOutTokenRefused
  <2> SUFFICES ASSUME Typed, LogoutBars, ~Fallback, NEW t \in loggedOut
               PROVE  ~GuardAccepts(t)
    BY DEF LoggedOutTokenRefused
  <2>1. /\ blacklist \in [Token -> Nat] /\ now \in 0..MaxTime
        /\ t \in Token /\ t.iat \in Nat /\ Barred(t)
    BY DEF Typed, TypeOK, Token, LogoutBars
  <2> QED BY <2>1 DEF Barred, GuardAccepts, AccessValid
<1> QED BY <1>1, <1>2, <1>3, TypedInvariant, PTL DEF Spec
------------------------------------------------------------------------------
(* The state invariant behind OnlyLostAnswerStrands: until the old session *)
(* is dropped it lives, and from then on the new one does.                 *)
RefreshKeeps(r) ==
    req[r].op = "refresh" =>
        /\ req[r].presented \in Token
        /\ req[r].pc \in {"claims", "store", "drop", "respond"}
        /\ \/ lost[r]
           \/ req[r].pc \in {"claims", "store"} /\ Live(req[r].presented)
           \/ req[r].pc = "drop" /\ Live(req[r].presented) /\ Live(req[r].minted)
           \/ /\ req[r].pc = "respond"
              /\ req[r].minted = req[r].presented \/ Live(req[r].minted)

(* A refresh at rest keeps what it has unless a step deletes it and says so. *)
LEMMA KeepsAtRest ==
    ASSUME Typed, NEW q \in Requests, RefreshKeeps(q),
           req'[q] = req[q], lost[q] => lost'[q],
           \A t \in Token : (Live(t) /\ t \in {req[q].presented, req[q].minted})
                               => sessions'[t] # 0 \/ req[q].op # "refresh" \/ lost'[q]
    PROVE  RefreshKeeps(q)'
<1>1. req[q].pc \in {"drop", "respond"} => req[q].minted \in Token
  BY DEF Typed, PairSigned
<1> QED BY <1>1 DEF RefreshKeeps, Live

LEMMA RefreshAlwaysKeeps == Spec => [](\A r \in Requests : RefreshKeeps(r))
<1> DEFINE Keep == \A r \in Requests : RefreshKeeps(r)
<1>1. Init => Keep
  BY DEF Init, RefreshKeeps, Idle
<1>2. Typed /\ Keep /\ [Next]_vars => Keep'
  <2> SUFFICES ASSUME Typed, Keep, [Next]_vars, NEW q \in Requests PROVE RefreshKeeps(q)'
    OBVIOUS
  <2>0. /\ req \in [Requests -> Request] /\ lost \in [Requests -> BOOLEAN]
        /\ sessions \in [Token -> Nat] /\ RefreshKeeps(q)
        /\ Idle.pc = "idle" /\ Idle.op = "none"
    BY DEF Typed, TypeOK, Idle
  <2>1. ASSUME sessions' = sessions, req'[q] = req[q], lost'[q] = lost[q]
        PROVE  RefreshKeeps(q)'
    BY <2>0, <2>1 DEF RefreshKeeps, Live
  <2>2. ASSUME NEW r \in Requests, End(r), sessions' = sessions PROVE RefreshKeeps(q)'
    <3>1. CASE q = r
      BY <2>0, <2>2, <3>1 DEF End, RefreshKeeps
    <3>2. CASE q # r
      BY <2>0, <2>1, <2>2, <3>2 DEF End
    <3> QED BY <3>1, <3>2
  <2>3. ASSUME NEW gone, NEW by, q \notin by, NoteDeleted(gone, by), req'[q] = req[q],
               \A t \in Token : Live(t) => sessions'[t] # 0 \/ t \in gone
        PROVE  RefreshKeeps(q)'
    <3>1. lost'[q] <=> \/ lost[q]
                       \/ /\ req[q].op = "refresh"
                          /\ {req[q].presented, req[q].minted} \cap gone # {}
      BY <2>3 DEF NoteDeleted
    <3> QED BY <2>0, <2>3, <3>1, KeepsAtRest
  <2>4. ASSUME NEW r \in Requests, Start(r) PROVE RefreshKeeps(q)'
    <3>1. ASSUME NEW local, Begin(r, local), q # r \/ local.op # "refresh"
          PROVE  RefreshKeeps(q)'
      BY <2>0, <2>1, <3>1 DEF Begin, store, RefreshKeeps
    <3>2. ASSUME NEW t \in issued, StartRefresh(r, t), q = r PROVE RefreshKeeps(q)'
      <4> DEFINE x == [Idle EXCEPT !.pc = "claims", !.op = "refresh",
                                   !.user = t.sub, !.presented = t]
      <4>1. x.pc = "claims" /\ x.presented = t
        BY IdleType DEF Request
      <4>2. t \in Token /\ Live(t)
        BY <3>2 DEF StartRefresh, Typed, TypeOK
      <4>3. req'[q] = x /\ sessions' = sessions
        BY <2>0, <3>2 DEF StartRefresh, Begin, store
      <4> QED BY <4>1, <4>2, <4>3 DEF RefreshKeeps, Live
    <3>3. ASSUME NEW u \in Users, StartLogin(r, u) \/ StartRevoke(r, u) PROVE RefreshKeeps(q)'
      BY <3>1, <3>3, IdleType DEF StartLogin, StartRevoke, Request
    <3>4. ASSUME NEW t \in issued, NEW h \in BOOLEAN, StartLogout(r, t, h) PROVE RefreshKeeps(q)'
      <4> DEFINE x == [Idle EXCEPT !.pc = "scan", !.op = "logout", !.user = t.sub,
                                   !.presented = t, !.access = IF h THEN t ELSE NoToken]
      <4>1. x.op # "refresh"
        BY IdleType DEF Request
      <4> QED BY <3>1, <3>4, <4>1 DEF StartLogout
    <3>5. ASSUME NEW t \in issued, StartRefresh(r, t), q # r PROVE RefreshKeeps(q)'
      BY <3>1, <3>5 DEF StartRefresh
    <3> QED BY <2>4, <3>2, <3>3, <3>4, <3>5 DEF Start
  <2>5. ASSUME NEW r \in Requests, Step(r) PROVE RefreshKeeps(q)'
    <3>1. CASE MintTokens(r)
      <4>1. CASE q = r
        <5>1. /\ req'[q].pc = "store" /\ req'[q].presented = req[q].presented
              /\ req'[q].op = req[q].op /\ req[q].pc = "claims"
          BY <2>0, <3>1, <4>1 DEF MintTokens, Signed, Request
        <5>2. sessions' = sessions /\ lost' = lost
          BY <3>1 DEF MintTokens, Signed, store, history
        <5> QED BY <2>0, <5>1, <5>2 DEF RefreshKeeps, Live
      <4>2. CASE q # r
        BY <2>0, <2>1, <3>1, <4>2 DEF MintTokens, Signed, store, history
      <4> QED BY <4>1, <4>2
    <3>2. CASE StoreSession(r)
      <4>1. /\ sessions' = [sessions EXCEPT ![req[r].minted] = ExpiryOf(SessionTTL)]
            /\ lost' = lost /\ req[r].minted \in Token /\ ExpiryOf(SessionTTL) # 0
        BY <3>2, ExpiryType DEF StoreSession, Typed, PairSigned
      <4>2. \A t \in Token : Live(t) => sessions'[t] # 0
        BY <2>0, <4>1 DEF Live
      <4>3. CASE q = r
        <5>1. /\ req'[q].presented = req[q].presented /\ req'[q].minted = req[q].minted
              /\ req'[q].op = req[q].op /\ req[q].pc = "store"
              /\ req[q].op = "refresh" => req'[q].pc = "drop"
          BY <2>0, <3>2, <4>3 DEF StoreSession, Request
        <5>2. sessions'[req[q].minted] # 0
          BY <2>0, <4>1, <4>3
        <5> QED BY <2>0, <4>1, <4>2, <5>1, <5>2 DEF RefreshKeeps, Live
      <4>4. CASE q # r
        <5>1. req'[q] = req[q]
          BY <2>0, <3>2, <4>4 DEF StoreSession
        <5> QED BY <2>0, <4>1, <4>2, <5>1, KeepsAtRest
      <4> QED BY <4>3, <4>4
    <3>3. CASE DropOld(r)
      <4>1. CASE q = r
        <5>1. /\ req'[q].presented = req[q].presented /\ req'[q].minted = req[q].minted
              /\ req'[q].op = req[q].op /\ req[q].pc = "drop" /\ req'[q].pc = "respond"
          BY <2>0, <3>3, <4>1 DEF DropOld, Request
        <5>2. sessions' = [sessions EXCEPT ![req[q].presented] = 0]
          BY <3>3, <4>1 DEF DropOld
        <5>3. lost[q] => lost'[q]
          BY <3>3 DEF DropOld, NoteDeleted
        <5>4. req[q].minted \in Token
          BY <5>1 DEF Typed, PairSigned
        <5> QED BY <2>0, <5>1, <5>2, <5>3, <5>4 DEF RefreshKeeps, Live
      <4>2. CASE q # r
        <5>1. req'[q] = req[q] /\ NoteDeleted({req[r].presented}, {r})
          BY <2>0, <3>3, <4>2 DEF DropOld
        <5>2. \A t \in Token : Live(t) => sessions'[t] # 0 \/ t \in {req[r].presented}
          BY <2>0, <3>3 DEF DropOld, Live
        <5> QED BY <2>3, <4>2, <5>1, <5>2
      <4> QED BY <4>1, <4>2
    <3>4. CASE Respond(r)
      BY <2>2, <3>4 DEF Respond, store
    <3>5. CASE Scan(r)
      <4>1. CASE q = r
        <5>1. req[q].pc = "scan" /\ req'[q].op = req[q].op
          BY <2>0, <3>5, <4>1 DEF Scan, Request
        <5> QED BY <2>0, <5>1 DEF RefreshKeeps
      <4>2. CASE q # r
        BY <2>0, <2>1, <3>5, <4>2 DEF Scan, store
      <4> QED BY <4>1, <4>2
    <3>6. ASSUME NEW d \in req[r].todo, DeleteOne(r, d) PROVE RefreshKeeps(q)'
      <4>1. CASE q = r
        <5>1. req[q].pc = "delete" /\ req'[q].op = req[q].op
          BY <2>0, <3>6, <4>1 DEF DeleteOne, Request
        <5> QED BY <2>0, <5>1 DEF RefreshKeeps
      <4>2. CASE q # r
        <5>1. req'[q] = req[q] /\ NoteDeleted({d}, {})
          BY <2>0, <3>6, <4>2 DEF DeleteOne
        <5>2. \A t \in Token : Live(t) => sessions'[t] # 0 \/ t \in {d}
          BY <2>0, <3>6 DEF DeleteOne, Live
        <5> QED BY <2>3, <5>1, <5>2
      <4> QED BY <4>1, <4>2
    <3>7. CASE BlacklistAccess(r)
      <4>1. CASE q = r
        <5>1. req[q].pc = "delete" /\ req'[q].op = req[q].op
          BY <2>0, <3>7, <4>1 DEF BlacklistAccess, Request
        <5> QED BY <2>0, <5>1 DEF RefreshKeeps
      <4>2. CASE q # r
        BY <2>0, <2>1, <3>7, <4>2 DEF BlacklistAccess, history
      <4> QED BY <4>1, <4>2
    <3>8. CASE Return(r)
      BY <2>2, <3>8 DEF Return, store
    <3> QED BY <2>5, <3>1, <3>2, <3>3, <3>4, <3>5, <3>6, <3>7, <3>8 DEF Step
  <2>6. ASSUME NEW r \in Requests, Abort(r) PROVE RefreshKeeps(q)'
    BY <2>2, <2>6 DEF Abort, store
  <2>7. CASE Tick
    <3>1. req' = req /\ NoteDeleted({t \in Token : sessions[t] <= now + 1}, {})
      BY <2>7 DEF Tick
    <3>2. \A t \in Token : Live(t) => sessions'[t] # 0 \/ t \in {s \in Token : sessions[s] <= now + 1}
      BY <2>0, <2>7 DEF Tick, Live
    <3> QED BY <2>3, <3>1, <3>2
  <2>8. CASE Restart
    BY <2>0, <2>8 DEF Restart, RefreshKeeps
  <2>9. CASE UNCHANGED vars \/ \E u \in Users : ChangeClaims(u)
    BY <2>1, <2>9 DEF vars, ChangeClaims, store, history
  <2> QED BY <2>4, <2>5, <2>6, <2>7, <2>8, <2>9 DEF Next
<1> QED BY <1>1, <1>2, TypedInvariant, PTL DEF Spec

(* When a refresh ends, its client has a live session, the presented one   *)
(* or the one it was answered, unless the answer was lost after the old    *)
(* session went; no other failure strands it.                              *)
THEOREM RefreshCorrect == Spec => OnlyLostAnswerStrands
<1> DEFINE Keep == \A r \in Requests : RefreshKeeps(r)
<1>1. Typed /\ Keep /\ [Next]_vars => [\A r \in Requests : RefreshLeaves(r)]_vars
  <2> SUFFICES ASSUME Typed, Keep, [Next]_vars, NEW r \in Requests,
                      req[r].op = "refresh", req'[r].pc = "idle", ~lost[r]
               PROVE  RefreshLeaves(r)
    BY DEF RefreshLeaves
  <2>0. RefreshKeeps(r) /\ Idle.pc = "idle" /\ req[r] \in Request
    BY DEF Typed, TypeOK, Idle
  <2>1. ASSUME sessions' = sessions PROVE RefreshLeaves(r)
    BY <2>0, <2>1 DEF RefreshKeeps, RefreshLeaves, Live
  <2>2. CASE Restart
    <3>1. \A q \in Requests : req'[q].pc = "idle"
      BY <2>0, <2>2 DEF Restart
    <3>2. CASE Fallback
      BY <3>1, <3>2 DEF RefreshLeaves
    <3>3. CASE ~Fallback
      BY <2>1, <2>2, <3>3 DEF Restart
    <3> QED BY <3>2, <3>3
  <2>3. ASSUME NEW q \in Requests, DropOld(q) PROVE FALSE
    <3>1. req'[r].pc = req[r].pc \/ req'[r].pc = "respond"
      BY <2>3 DEF DropOld, Typed, TypeOK, Request
    <3> QED BY <2>0, <3>1 DEF RefreshKeeps
  <2>4. ASSUME NEW q \in Requests, StoreSession(q) PROVE FALSE
    <3>1. req'[r].pc = req[r].pc \/ req'[r].pc \in {"drop", "respond"}
      BY <2>4 DEF StoreSession, Typed, TypeOK, Request
    <3> QED BY <2>0, <3>1 DEF RefreshKeeps
  <2>5. ASSUME NEW q \in Requests, NEW t \in req[q].todo, DeleteOne(q, t) PROVE FALSE
    <3>1. req'[r].pc = req[r].pc
      BY <2>5 DEF DeleteOne, Typed, TypeOK, Request
    <3> QED BY <2>0, <3>1 DEF RefreshKeeps
  <2>6. ASSUME NEW q \in Requests, Start(q) \/ Abort(q) \/ MintTokens(q) \/ Respond(q)
                                     \/ Scan(q) \/ BlacklistAccess(q) \/ Return(q)
        PROVE  sessions' = sessions
    BY <2>6 DEF Start, StartLogin, StartRevoke, StartRefresh, StartLogout, Begin, Abort,
                MintTokens, Respond, Scan, BlacklistAccess, Return, store
  <2>7. CASE Tick
    <3>1. req' = req
      BY <2>7 DEF Tick
    <3> QED BY <2>0, <3>1 DEF RefreshKeeps
  <2>8. CASE UNCHANGED vars \/ \E u \in Users : ChangeClaims(u)
    BY <2>1, <2>8 DEF vars, ChangeClaims, store
  <2> QED BY <2>1, <2>2, <2>3, <2>4, <2>5, <2>6, <2>7, <2>8 DEF Next, Step
<1> QED BY <1>1, RefreshAlwaysKeeps, TypedInvariant, PTL DEF Spec, OnlyLostAnswerStrands

(* RefreshedSessionLives, "Tokens refreshed successfully", fails for one   *)
(* reason only: the pair is the token that was presented, signed again in  *)
(* the same second.  Every other refresh answers with a live session.      *)
OtherPairsLive ==
    \A r \in Requests :
        (req[r].op = "refresh" /\ req[r].pc = "respond" /\ ~lost[r])
            => Live(req[r].minted) \/ req[r].minted = req[r].presented

(* refreshTokens answers with a dead pair only if it minted the pair it    *)
(* was given.                                                              *)
THEOREM OtherPairsCorrect == Spec => []OtherPairsLive
<1>1. (\A r \in Requests : RefreshKeeps(r)) => OtherPairsLive
  BY DEF RefreshKeeps, OtherPairsLive
<1> QED BY <1>1, RefreshAlwaysKeeps, PTL
------------------------------------------------------------------------------
(* The strengthening of ClaimsAreCurrent: roles only move on, so what a    *)
(* request found when it began is a lower bound of what the database has.  *)
ClaimsMoveOn ==
    \A r \in Requests : /\ floor[r] <= claims[req[r].user]
                        /\ req[r].minted # NoToken => req[r].minted.claims >= floor[r]

(* A pair carries claims at least as new as those in force when its        *)
(* request began, in every interleaving with an administrator's changes.   *)
THEOREM ClaimsCorrect == Spec => []ClaimsAreCurrent
<1>1. Init => ClaimsMoveOn
  BY IdleType DEF Init, ClaimsMoveOn, Idle, Request
<1>2. Typed /\ ClaimsMoveOn /\ [Next]_vars => ClaimsMoveOn'
  <2> SUFFICES ASSUME Typed, ClaimsMoveOn, [Next]_vars, NEW q \in Requests
               PROVE  /\ floor'[q] <= claims'[req'[q].user]
                      /\ req'[q].minted # NoToken => req'[q].minted.claims >= floor'[q]
    BY DEF ClaimsMoveOn
  <2> DEFINE Goal == /\ floor'[q] <= claims'[req'[q].user]
                     /\ req'[q].minted # NoToken => req'[q].minted.claims >= floor'[q]
  <2>0. /\ req \in [Requests -> Request] /\ floor \in [Requests -> 0..MaxClaims]
        /\ claims \in [Users -> 0..MaxClaims] /\ req[q].user \in Users
        /\ Idle.minted = NoToken /\ Idle.user \in Users
        /\ floor[q] <= claims[req[q].user]
        /\ req[q].minted # NoToken => req[q].minted.claims >= floor[q]
    BY IdleType DEF Typed, TypeOK, Idle, Request, ClaimsMoveOn
  <2>1. ASSUME req'[q].user = req[q].user, req'[q].minted = req[q].minted,
               floor' = floor, claims' = claims
        PROVE  Goal
    BY <2>0, <2>1
  <2>2. ASSUME NEW r \in Requests, End(r), claims' = claims PROVE Goal
    BY <2>0, <2>2 DEF End
  <2>3. ASSUME NEW r \in Requests, Start(r) PROVE Goal
    <3>1. ASSUME NEW local, Begin(r, local), local.user \in Users, local.minted = NoToken PROVE Goal
      BY <2>0, <3>1 DEF Begin
    <3>2. ASSUME NEW t \in issued PROVE t.sub \in Users
      BY <3>2 DEF Typed, TypeOK, Token
    <3> QED BY <2>0, <2>3, <3>1, <3>2, IdleType
            DEF Start, StartLogin, StartRevoke, StartRefresh, StartLogout, Request
  <2>4. ASSUME NEW r \in Requests, Step(r) PROVE Goal
    <3>1. CASE MintTokens(r)
      <4>1. CASE q = r
        <5> DEFINE t == [sub |-> req[r].user, claims |-> claims[req[r].user], iat |-> now]
        <5>1. req'[q].minted = t /\ req'[q].user = req[q].user
          BY <2>0, <3>1, <4>1 DEF MintTokens, Signed, Request
        <5>2. floor' = floor /\ claims' = claims
          BY <3>1 DEF MintTokens, Signed, history
        <5> QED BY <2>0, <4>1, <5>1, <5>2
      <4>2. CASE q # r
        BY <2>0, <2>1, <3>1, <4>2 DEF MintTokens, Signed, history
      <4> QED BY <4>1, <4>2
    <3>2. CASE StoreSession(r)
      BY <2>0, <2>1, <3>2 DEF StoreSession, Request
    <3>3. CASE DropOld(r)
      BY <2>0, <2>1, <3>3 DEF DropOld, Request
    <3>4. CASE Respond(r) \/ Return(r)
      BY <2>2, <3>4 DEF Respond, Return
    <3>5. CASE Scan(r)
      <4>1. req'[q].user = req[q].user /\ req'[q].minted = req[q].minted
        BY <2>0, <3>5 DEF Scan, Request
      <4> QED BY <2>1, <3>5, <4>1 DEF Scan
    <3>6. ASSUME NEW d \in req[r].todo, DeleteOne(r, d) PROVE Goal
      BY <2>0, <2>1, <3>6 DEF DeleteOne, Request
    <3>7. CASE BlacklistAccess(r)
      <4>1. req'[q].user = req[q].user /\ req'[q].minted = req[q].minted
        BY <2>0, <3>7 DEF BlacklistAccess, Request
      <4> QED BY <2>1, <3>7, <4>1 DEF BlacklistAccess, history
    <3> QED BY <2>4, <3>1, <3>2, <3>3, <3>4, <3>5, <3>6, <3>7 DEF Step
  <2>5. ASSUME NEW r \in Requests, Abort(r) PROVE Goal
    BY <2>2, <2>5 DEF Abort
  <2>6. ASSUME NEW u \in Users, ChangeClaims(u) PROVE Goal
    <3>1. req' = req /\ floor' = floor /\ claims' = [claims EXCEPT ![u] = claims[u] + 1]
      BY <2>6 DEF ChangeClaims, history
    <3>2. claims'[req[q].user] >= claims[req[q].user]
      BY <2>0, <3>1
    <3>3. claims'[req[q].user] \in Nat
      BY <2>0, <3>1
    <3> QED BY <2>0, <3>1, <3>2, <3>3
  <2>7. CASE Tick
    BY <2>1, <2>7 DEF Tick
  <2>8. CASE Restart
    BY <2>0, <2>8 DEF Restart
  <2>9. CASE UNCHANGED vars
    BY <2>1, <2>9 DEF vars, history
  <2> QED BY <2>3, <2>4, <2>5, <2>6, <2>7, <2>8, <2>9 DEF Next
<1>3. ClaimsMoveOn => ClaimsAreCurrent
  BY DEF ClaimsMoveOn, ClaimsAreCurrent
<1> QED BY <1>1, <1>2, <1>3, TypedInvariant, PTL DEF Spec
------------------------------------------------------------------------------
(* What a request that opens or closes a session brings along: the session *)
(* it was admitted on, and a pair of its own user.                         *)
Admitted(r) ==
    /\ \/ req[r].pc = "drop"
       \/ req[r].pc \in {"claims", "store"} /\ req[r].op = "refresh"
       => req[r].presented \in Token
    /\ req[r].pc = "store" => req[r].minted.sub = req[r].user

(* What a step does to the rights of its one request. *)
LEMMA RightsAt ==
    ASSUME NEW r \in Requests
    PROVE  /\ Entry[r] = IF req[r].pc \in {"claims", "store"} THEN {req[r].user} ELSE {}
           /\ Basis[r] = IF req[r].pc \in {"claims", "store"} /\ req[r].op = "refresh"
                         THEN {req[r].presented} ELSE {}
           /\ req[r].pc = "drop" => Closing[r] = {req[r].presented}
           /\ req[r].pc = "delete" => Closing[r] = req[r].todo
           /\ req[r].pc \notin {"drop", "delete"} => Closing[r] = {}
BY DEF Entry, Basis, Closing

LEMMA RightsAfter ==
    ASSUME NEW r \in Requests, \A q \in Requests : q # r => req'[q] = req[q]
    PROVE  /\ Entry' = [Entry EXCEPT ![r] = Entry'[r]]
           /\ Basis' = [Basis EXCEPT ![r] = Basis'[r]]
           /\ Closing' = [Closing EXCEPT ![r] = Closing'[r]]
BY DEF Entry, Basis, Closing

LEMMA RightsStay ==
    ASSUME NEW r \in Requests, \A q \in Requests : q # r => req'[q] = req[q]
    PROVE  /\ Entry'[r] = Entry[r] => UNCHANGED Entry
           /\ Basis'[r] = Basis[r] => UNCHANGED Basis
           /\ Closing'[r] = Closing[r] => UNCHANGED Closing
<1>1. \A q \in Requests : q # r =>
         Entry'[q] = Entry[q] /\ Basis'[q] = Basis[q] /\ Closing'[q] = Closing[q]
  BY DEF Entry, Basis, Closing
<1>2. Entry'[r] = Entry[r] => UNCHANGED Entry
  <2> SUFFICES ASSUME \A q \in Requests : Entry'[q] = Entry[q] PROVE Entry' = Entry
    BY <1>1
  <2> QED BY DEF Entry
<1>3. Basis'[r] = Basis[r] => UNCHANGED Basis
  <2> SUFFICES ASSUME \A q \in Requests : Basis'[q] = Basis[q] PROVE Basis' = Basis
    BY <1>1
  <2> QED BY DEF Basis
<1>4. Closing'[r] = Closing[r] => UNCHANGED Closing
  <2> SUFFICES ASSUME \A q \in Requests : Closing'[q] = Closing[q] PROVE Closing' = Closing
    BY <1>1
  <2> QED BY DEF Closing
<1> QED BY <1>2, <1>3, <1>4

(* Only the steps of r change its locals, and they end as Idle or go on.   *)
LEMMA LocalsAfter ==
    ASSUME TypeOK, NEW r \in Requests, NEW x, req' = [req EXCEPT ![r] = x]
    PROVE  req'[r] = x /\ \A q \in Requests : q # r => req'[q] = req[q]
BY DEF TypeOK

LEMMA RightsThen ==
    ASSUME NEW r \in Requests
    PROVE  /\ Entry'[r] = IF req'[r].pc \in {"claims", "store"} THEN {req'[r].user} ELSE {}
           /\ Basis'[r] = IF req'[r].pc \in {"claims", "store"} /\ req'[r].op = "refresh"
                          THEN {req'[r].presented} ELSE {}
           /\ req'[r].pc = "drop" => Closing'[r] = {req'[r].presented}
           /\ req'[r].pc = "delete" => Closing'[r] = req'[r].todo
           /\ req'[r].pc \notin {"drop", "delete"} => Closing'[r] = {}
BY DEF Entry, Basis, Closing

(* What each step of a handler does to its locals. *)
LEMMA StepLocals ==
    ASSUME Typed, NEW r \in Requests, Start(r) \/ Step(r) \/ Abort(r)
    PROVE  /\ req' = [req EXCEPT ![r] = req'[r]]
           /\ \A q \in Requests : q # r => req'[q] = req[q]
<1>1. \E x : req' = [req EXCEPT ![r] = x]
  <2>1. CASE Start(r)
    BY <2>1 DEF Start, StartLogin, StartRevoke, StartRefresh, StartLogout, Begin
  <2>2. CASE Abort(r) \/ Respond(r) \/ Return(r)
    BY <2>2 DEF Abort, Respond, Return, End
  <2>3. CASE MintTokens(r) \/ StoreSession(r) \/ DropOld(r)
    BY <2>3 DEF MintTokens, StoreSession, DropOld
  <2>4. CASE Scan(r) \/ BlacklistAccess(r)
    BY <2>4 DEF Scan, BlacklistAccess
  <2>5. ASSUME NEW t \in req[r].todo, DeleteOne(r, t) PROVE \E x : req' = [req EXCEPT ![r] = x]
    BY <2>5 DEF DeleteOne
  <2> QED BY <2>1, <2>2, <2>3, <2>4, <2>5 DEF Step
<1>2. PICK x : req' = [req EXCEPT ![r] = x]
  BY <1>1
<1> QED BY <1>2, LocalsAfter DEF Typed

LEMMA AdmittedStep ==
    ASSUME Typed, \A r \in Requests : Admitted(r), [Next]_vars, NEW q \in Requests
    PROVE  Admitted(q)'
<1>0. /\ req \in [Requests -> Request] /\ issued \subseteq Token /\ Admitted(q)
      /\ Idle.pc = "idle" /\ req[q] \in Request
  BY DEF Typed, TypeOK, Idle
<1>1. CASE req'[q] = req[q]
  BY <1>0, <1>1 DEF Admitted
<1>2. CASE req'[q] = Idle
  BY <1>0, <1>2 DEF Admitted
<1>3. CASE Start(q)
  <2>1. ASSUME NEW t \in issued, StartRefresh(q, t) PROVE Admitted(q)'
    <3> DEFINE x == [Idle EXCEPT !.pc = "claims", !.op = "refresh",
                                 !.user = t.sub, !.presented = t]
    <3>1. x.pc = "claims" /\ x.presented = t
      BY IdleType DEF Request
    <3>2. req'[q] = x
      BY <1>0, <2>1 DEF StartRefresh, Begin
    <3> QED BY <1>0, <3>1, <3>2 DEF Admitted
  <2>2. ASSUME NEW u \in Users, StartLogin(q, u) PROVE Admitted(q)'
    <3> DEFINE x == [Idle EXCEPT !.pc = "claims", !.op = "login", !.user = u]
    <3>1. x.pc = "claims" /\ x.op = "login"
      BY IdleType DEF Request
    <3>2. req'[q] = x
      BY <1>0, <2>2 DEF StartLogin, Begin
    <3> QED BY <3>1, <3>2 DEF Admitted
  <2>3. ASSUME NEW u \in Users, StartRevoke(q, u) PROVE Admitted(q)'
    <3> DEFINE x == [Idle EXCEPT !.pc = "scan", !.op = "revoke", !.user = u]
    <3>1. x.pc = "scan"
      BY IdleType DEF Request
    <3>2. req'[q] = x
      BY <1>0, <2>3 DEF StartRevoke, Begin
    <3> QED BY <3>1, <3>2 DEF Admitted
  <2>4. ASSUME NEW t \in issued, NEW h \in BOOLEAN, StartLogout(q, t, h) PROVE Admitted(q)'
    <3> DEFINE x == [Idle EXCEPT !.pc = "scan", !.op = "logout", !.user = t.sub,
                                 !.presented = t, !.access = IF h THEN t ELSE NoToken]
    <3>1. x.pc = "scan"
      BY IdleType DEF Request
    <3>2. req'[q] = x
      BY <1>0, <2>4 DEF StartLogout, Begin
    <3> QED BY <3>1, <3>2 DEF Admitted
  <2> QED BY <1>3, <2>1, <2>2, <2>3, <2>4 DEF Start
<1>4. CASE Step(q)
  <2>1. CASE MintTokens(q)
    <3>1. /\ req'[q].pc = "store" /\ req'[q].minted.sub = req[q].user
          /\ req'[q].user = req[q].user /\ req'[q].presented = req[q].presented
          /\ req'[q].op = req[q].op /\ req[q].pc = "claims"
      BY <1>0, <2>1 DEF MintTokens, Signed, Request
    <3> QED BY <1>0, <3>1 DEF Admitted
  <2>2. CASE StoreSession(q)
    <3>1. /\ req'[q].pc = IF req[q].op = "refresh" THEN "drop" ELSE "respond"
          /\ req'[q].presented = req[q].presented /\ req[q].pc = "store"
      BY <1>0, <2>2 DEF StoreSession, Request
    <3> QED BY <1>0, <3>1 DEF Admitted
  <2>3. req'[q].pc \in {"respond", "delete", "return"} => Admitted(q)'
    BY DEF Admitted
  <2>4. CASE DropOld(q) \/ Scan(q) \/ BlacklistAccess(q)
    BY <1>0, <2>3, <2>4 DEF DropOld, Scan, BlacklistAccess, Request
  <2>5. ASSUME NEW t \in req[q].todo, DeleteOne(q, t) PROVE Admitted(q)'
    BY <1>0, <2>3, <2>5 DEF DeleteOne, Request
  <2>6. CASE Respond(q) \/ Return(q)
    BY <1>0, <1>2, <2>6 DEF Respond, Return, End
  <2> QED BY <1>4, <2>1, <2>2, <2>4, <2>5, <2>6 DEF Step
<1>5. CASE Abort(q)
  BY <1>0, <1>2, <1>5 DEF Abort, End
<1>6. ASSUME NEW r \in Requests, r # q, Start(r) \/ Step(r) \/ Abort(r) PROVE Admitted(q)'
  BY <1>1, <1>6, StepLocals
<1>7. CASE Restart
  BY <1>2, <1>7 DEF Restart
<1>8. CASE Tick \/ UNCHANGED vars \/ \E u \in Users : ChangeClaims(u)
  BY <1>1, <1>8 DEF Tick, vars, ChangeClaims
<1> QED BY <1>3, <1>4, <1>5, <1>6, <1>7, <1>8 DEF Next

(* What the handlers of one request do to the registry. *)
LEMMA HandlerRefines ==
    ASSUME Typed, NEW r \in Requests, Admitted(r), Start(r) \/ Step(r) \/ Abort(r)
    PROVE  [Registry!RegistryNext]_(Registry!registry)
<1>0. /\ req \in [Requests -> Request] /\ issued \subseteq Token /\ req[r] \in Request
      /\ Idle.pc = "idle" /\ now \in 0..MaxTime /\ sessions \in [Token -> Nat]
  BY DEF Typed, TypeOK, Idle
<1>1. /\ Entry' = [Entry EXCEPT ![r] = Entry'[r]]
      /\ Basis' = [Basis EXCEPT ![r] = Basis'[r]]
      /\ Closing' = [Closing EXCEPT ![r] = Closing'[r]]
  BY StepLocals, RightsAfter
<1>2. ASSUME UNCHANGED <<now, sessions>>,
             req[r].pc \notin {"claims", "store", "drop", "delete"},
             req'[r].pc \notin {"claims", "store", "drop", "delete"}
      PROVE  [Registry!RegistryNext]_(Registry!registry)
  <2>1. Entry'[r] = Entry[r] /\ Basis'[r] = Basis[r] /\ Closing'[r] = Closing[r]
    BY <1>2, RightsAt, RightsThen
  <2>2. UNCHANGED <<Entry, Basis, Closing>>
    BY <2>1, StepLocals, RightsStay
  <2> QED BY <1>2, <2>2 DEF Registry!registry
<1>3. ASSUME UNCHANGED <<now, sessions>>, req'[r] = Idle
      PROVE  [Registry!RegistryNext]_(Registry!registry)
  <2>1. Entry'[r] = {} /\ Basis'[r] = {} /\ Closing'[r] = {}
    BY <1>0, <1>3, RightsThen
  <2>2. Registry!Leave(r)
    BY <1>1, <1>3, <2>1 DEF Registry!Leave
  <2> QED BY <2>2 DEF Registry!RegistryNext
<1>4. CASE Start(r)
  <2>0. req[r].pc = "idle"
    BY <1>4 DEF Start, StartLogin, StartRevoke, StartRefresh, StartLogout, Begin
  <2>f. Registry!Free(r) /\ Basis[r] = {} /\ Closing[r] = {}
    BY <2>0, RightsAt DEF Registry!Free
  <2>u. UNCHANGED <<now, sessions>>
    BY <1>4 DEF Start, StartLogin, StartRevoke, StartRefresh, StartLogout, Begin, store
  <2>1. ASSUME NEW u \in Users, StartLogin(r, u) PROVE Registry!RegistryNext
    <3> DEFINE x == [Idle EXCEPT !.pc = "claims", !.op = "login", !.user = u]
    <3>1. x.pc = "claims" /\ x.op = "login" /\ x.user = u
      BY IdleType DEF Request
    <3>2. req'[r] = x
      BY <1>0, <2>1 DEF StartLogin, Begin
    <3> HIDE DEF x
    <3>3. Entry'[r] = {u} /\ Basis'[r] = {} /\ Closing'[r] = {}
      BY <3>1, <3>2, RightsThen
    <3>4. UNCHANGED <<Basis, Closing>>
      BY <2>f, <3>3, StepLocals, RightsStay
    <3>5. Registry!Login(r, u)
      BY <1>1, <2>f, <2>u, <3>3, <3>4 DEF Registry!Login
    <3> QED BY <3>5 DEF Registry!RegistryNext
  <2>2. ASSUME NEW t \in issued, StartRefresh(r, t) PROVE Registry!RegistryNext
    <3> DEFINE x == [Idle EXCEPT !.pc = "claims", !.op = "refresh",
                                 !.user = t.sub, !.presented = t]
    <3>1. x.pc = "claims" /\ x.op = "refresh" /\ x.user = t.sub /\ x.presented = t
      BY IdleType DEF Request
    <3>2. req'[r] = x
      BY <1>0, <2>2 DEF StartRefresh, Begin
    <3> HIDE DEF x
    <3>3. Entry'[r] = {t.sub} /\ Basis'[r] = {t} /\ Closing'[r] = {}
      BY <3>1, <3>2, RightsThen
    <3>4. UNCHANGED Closing
      BY <2>f, <3>3, StepLocals, RightsStay
    <3>5. t \in Token /\ sessions[t] # 0
      BY <1>0, <2>2 DEF StartRefresh, Live
    <3>6. Registry!Present(r, t)
      BY <1>1, <2>f, <2>u, <3>3, <3>4, <3>5 DEF Registry!Present
    <3> QED BY <3>5, <3>6 DEF Registry!RegistryNext
  <2>3. ASSUME NEW u \in Users, StartRevoke(r, u)
        PROVE  [Registry!RegistryNext]_(Registry!registry)
    <3> DEFINE x == [Idle EXCEPT !.pc = "scan", !.op = "revoke", !.user = u]
    <3>1. x.pc = "scan"
      BY IdleType DEF Request
    <3>2. req'[r] = x
      BY <1>0, <2>3 DEF StartRevoke, Begin
    <3> QED BY <1>2, <2>0, <2>u, <3>1, <3>2
  <2>4. ASSUME NEW t \in issued, NEW h \in BOOLEAN, StartLogout(r, t, h)
        PROVE  [Registry!RegistryNext]_(Registry!registry)
    <3> DEFINE x == [Idle EXCEPT !.pc = "scan", !.op = "logout", !.user = t.sub,
                                 !.presented = t, !.access = IF h THEN t ELSE NoToken]
    <3>1. x.pc = "scan"
      BY IdleType DEF Request
    <3>2. req'[r] = x
      BY <1>0, <2>4 DEF StartLogout, Begin
    <3> QED BY <1>2, <2>0, <2>u, <3>1, <3>2
  <2> QED BY <1>4, <2>1, <2>2, <2>3, <2>4 DEF Start
<1>5. CASE MintTokens(r)
  <2>1. /\ req'[r].pc = "store" /\ req[r].pc = "claims" /\ req'[r].op = req[r].op
        /\ req'[r].user = req[r].user /\ req'[r].presented = req[r].presented
    BY <1>0, <1>5 DEF MintTokens, Signed, Request
  <2>2. Entry'[r] = Entry[r] /\ Basis'[r] = Basis[r] /\ Closing'[r] = Closing[r]
    <3>1. /\ req[r].pc \in {"claims", "store"} /\ req[r].pc \notin {"drop", "delete"}
          /\ req'[r].pc \in {"claims", "store"} /\ req'[r].pc \notin {"drop", "delete"}
      BY <2>1
    <3>2. Entry[r] = {req[r].user} /\ Entry'[r] = {req'[r].user}
      BY <3>1, RightsAt, RightsThen
    <3>3. Basis'[r] = Basis[r]
      <4>1. CASE req[r].op = "refresh"
        <5>1. Basis[r] = {req[r].presented}
          BY <3>1, <4>1, RightsAt
        <5>2. Basis'[r] = {req'[r].presented}
          BY <2>1, <3>1, <4>1, RightsThen
        <5> QED BY <2>1, <5>1, <5>2
      <4>2. CASE req[r].op # "refresh"
        <5>1. Basis[r] = {}
          BY <4>2, RightsAt
        <5>2. Basis'[r] = {}
          BY <2>1, <4>2, RightsThen
        <5> QED BY <5>1, <5>2
      <4> QED BY <4>1, <4>2
    <3>4. Closing[r] = {} /\ Closing'[r] = {}
      BY <3>1, RightsAt, RightsThen
    <3> QED BY <2>1, <3>2, <3>3, <3>4
  <2>3. UNCHANGED <<Entry, Basis, Closing>>
    BY <2>2, StepLocals, RightsStay
  <2> QED BY <1>5, <2>3 DEF MintTokens, store, Registry!registry
<1>6. CASE StoreSession(r)
  <2> DEFINE t == req[r].minted
             until == ExpiryOf(SessionTTL)
  <2>1. /\ req'[r].pc = IF req[r].op = "refresh" THEN "drop" ELSE "respond"
        /\ req'[r].presented = req[r].presented /\ req[r].pc = "store"
    BY <1>0, <1>6 DEF StoreSession, Request
  <2>2. Entry[r] = {req[r].user} /\ Entry'[r] = {} /\ Basis'[r] = {} /\ Closing'[r] = Basis[r]
    BY <2>1, RightsAt, RightsThen
  <2>3. t \in Token /\ t.sub = req[r].user
    BY <2>1 DEF Typed, PairSigned, Admitted
  <2>4. until \in 1..MaxTime + 1 /\ until > now
    BY <1>0 DEF ExpiryOf
  <2>5. sessions' = [sessions EXCEPT ![t] = until] /\ UNCHANGED now
    BY <1>6 DEF StoreSession
  <2> HIDE DEF t, until
  <2>6. Registry!Open(r, t, until)
    BY <1>1, <2>2, <2>3, <2>4, <2>5 DEF Registry!Open
  <2> QED BY <2>3, <2>4, <2>6 DEF Registry!RegistryNext
<1>7. ASSUME NEW t \in Token, t \in Closing[r], Closing'[r] = Closing[r] \ {t},
             req[r].pc \in {"drop", "delete"}, req'[r].pc \in {"respond", "delete"},
             sessions' = [sessions EXCEPT ![t] = 0], UNCHANGED now
      PROVE  Registry!RegistryNext
  <2>1. Entry'[r] = Entry[r] /\ Basis'[r] = Basis[r]
    BY <1>7, RightsAt, RightsThen
  <2>2. UNCHANGED <<Entry, Basis>>
    BY <2>1, StepLocals, RightsStay
  <2>3. Registry!Close(r, t)
    BY <1>1, <1>7, <2>2 DEF Registry!Close
  <2> QED BY <2>3 DEF Registry!RegistryNext
<1>8. CASE DropOld(r)
  <2>1. req[r].pc = "drop" /\ req'[r].pc = "respond" /\ req[r].presented \in Token
    BY <1>0, <1>8 DEF DropOld, Request, Admitted
  <2>2. Closing[r] = {req[r].presented} /\ Closing'[r] = {}
    BY <2>1, RightsAt, RightsThen
  <2> QED BY <1>7, <1>8, <2>1, <2>2 DEF DropOld
<1>9. ASSUME NEW t \in req[r].todo, DeleteOne(r, t) PROVE Registry!RegistryNext
  <2>1. /\ req[r].pc = "delete" /\ req'[r].pc = "delete" /\ t \in Token
        /\ req'[r].todo = req[r].todo \ {t}
    BY <1>0, <1>9 DEF DeleteOne, Request
  <2>2. Closing[r] = req[r].todo /\ Closing'[r] = req[r].todo \ {t}
    BY <2>1, RightsAt, RightsThen
  <2> QED BY <1>7, <1>9, <2>1, <2>2 DEF DeleteOne
<1>10. CASE Scan(r)
  <2> DEFINE u == req[r].user
  <2>1. /\ req[r].pc = "scan" /\ req'[r].pc = "delete" /\ u \in Users
        /\ req'[r].todo = SessionsOf(u)
    BY <1>0, <1>10 DEF Scan, Request
  <2>2. /\ Entry[r] = {} /\ Basis[r] = {} /\ Closing[r] = {}
        /\ Entry'[r] = {} /\ Basis'[r] = {} /\ Closing'[r] = SessionsOf(u)
    BY <2>1, RightsAt, RightsThen
  <2>3. UNCHANGED <<Entry, Basis>>
    BY <2>2, StepLocals, RightsStay
  <2> HIDE DEF u
  <2>4. Registry!Revoke(r, u)
    BY <1>1, <1>10, <2>2, <2>3
    DEF Registry!Revoke, Registry!Free, Registry!OpenOf, SessionsOf, Live, Scan, store
  <2> QED BY <2>1, <2>4 DEF Registry!RegistryNext
<1>11. CASE BlacklistAccess(r)
  <2>1. /\ req[r].pc = "delete" /\ req[r].todo = {} /\ req'[r].pc = "return"
    BY <1>0, <1>11 DEF BlacklistAccess, Request
  <2>2. Entry'[r] = Entry[r] /\ Basis'[r] = Basis[r] /\ Closing'[r] = Closing[r]
    BY <2>1, RightsAt, RightsThen
  <2>3. UNCHANGED <<Entry, Basis, Closing>>
    BY <2>2, StepLocals, RightsStay
  <2> QED BY <1>11, <2>3 DEF BlacklistAccess, Registry!registry
<1>12. CASE Respond(r) \/ Return(r) \/ Abort(r)
  BY <1>0, <1>3, <1>12 DEF Respond, Return, Abort, End, store
<1> QED BY <1>4, <1>5, <1>6, <1>8, <1>9, <1>10, <1>11, <1>12 DEF Step

(* The session keys of Redis are such a registry: in every interleaving of *)
(* logins, refreshes, logouts and revocations, each change of a key is one *)
(* the abstract specification allows.                                      *)
THEOREM SessionsImplementRegistry == Spec => KeepsRegistry
<1> DEFINE Inv == \A r \in Requests : Admitted(r)
<1>1. Init => Inv
  BY DEF Init, Admitted, Idle
<1>2. Typed /\ Inv /\ [Next]_vars => Inv'
  BY AdmittedStep
<1>3. Init => Registry!RegistryInit
  <2> SUFFICES ASSUME Init PROVE Registry!RegistryInit
    OBVIOUS
  <2>1. \A r \in Requests : req[r].pc = "idle"
    BY DEF Init, Idle
  <2>2. /\ Entry = [r \in Requests |-> {}]
        /\ Basis = [r \in Requests |-> {}]
        /\ Closing = [r \in Requests |-> {}]
    BY <2>1 DEF Entry, Basis, Closing
  <2> QED BY <2>2 DEF Init, Registry!RegistryInit
<1>4. Typed /\ Inv /\ [Next]_vars => [Registry!RegistryNext]_(Registry!registry)
  <2> SUFFICES ASSUME Typed, Inv, [Next]_vars
               PROVE  [Registry!RegistryNext]_(Registry!registry)
    OBVIOUS
  <2>1. CASE Tick
    <3>1. req' = req
      BY <2>1 DEF Tick
    <3>2. UNCHANGED <<Entry, Basis, Closing>>
      BY <3>1 DEF Entry, Basis, Closing
    <3>3. Registry!Elapse
      BY <2>1, <3>2 DEF Tick, Registry!Elapse
    <3> QED BY <3>3 DEF Registry!RegistryNext
  <2>2. CASE Restart
    <3>1. \A r \in Requests : req'[r].pc = "idle"
      BY <2>2 DEF Restart, Idle
    <3>2. /\ Entry' = [r \in Requests |-> {}]
          /\ Basis' = [r \in Requests |-> {}]
          /\ Closing' = [r \in Requests |-> {}]
      BY <3>1 DEF Entry, Basis, Closing
    <3>3. Registry!Crash
      BY <2>2, <3>2 DEF Restart, Registry!Crash
    <3> QED BY <3>3 DEF Registry!RegistryNext
  <2>3. CASE UNCHANGED vars \/ \E u \in Users : ChangeClaims(u)
    <3>1. UNCHANGED <<now, sessions, req>>
      BY <2>3 DEF vars, ChangeClaims, store
    <3>2. UNCHANGED <<Entry, Basis, Closing>>
      BY <3>1 DEF Entry, Basis, Closing
    <3> QED BY <3>1, <3>2 DEF Registry!registry
  <2> QED BY <2>1, <2>2, <2>3, HandlerRefines DEF Next
<1> QED BY <1>1, <1>2, <1>3, <1>4, TypedInvariant, PTL
        DEF Spec, KeepsRegistry, Registry!RegistrySpec
------------------------------------------------------------------------------
(* There are finitely many tokens, as users, claims and seconds are.       *)
LEMMA TokenFinite == ASSUME IsFiniteSet(Users) PROVE IsFiniteSet(Token)
<1> DEFINE S == (Users \X (0..MaxClaims)) \X (0..MaxTime)
           f == [p \in S |-> [sub |-> p[1][1], claims |-> p[1][2], iat |-> p[2]]]
<1>1. IsFiniteSet(0..MaxClaims) /\ IsFiniteSet(0..MaxTime)
  BY FS_Interval
<1>2. IsFiniteSet(Users \X (0..MaxClaims))
  BY <1>1, FS_Product
<1>3. IsFiniteSet(S)
  BY <1>1, <1>2, FS_Product
<1>4. \A p \in S : f[p] \in Token
  BY DEF Token
<1>5. \A t \in Token : \E p \in S : f[p] = t
  <2> SUFFICES ASSUME NEW t \in Token PROVE \E p \in S : f[p] = t
    OBVIOUS
  <2> DEFINE p == <<<<t.sub, t.claims>>, t.iat>>
  <2>1. p \in S
    BY DEF Token
  <2>2. f[p] = t
    BY <2>1 DEF Token
  <2> QED BY <2>1, <2>2
<1>6. f \in Surjection(S, Token)
  BY <1>4, <1>5 DEF Surjection
<1> QED BY <1>3, <1>6, FS_Surjection

(* The awaits a request has still before it, at most.                      *)
Remaining(r) ==
    CASE req[r].pc = "claims"  -> 4
      [] req[r].pc = "store"   -> 3
      [] req[r].pc = "drop"    -> 2
      [] req[r].pc = "respond" -> 1
      [] req[r].pc = "scan"    -> Cardinality(Token) + 3
      [] req[r].pc = "delete"  -> Cardinality(req[r].todo) + 2
      [] req[r].pc = "return"  -> 1
      [] OTHER                 -> 0

(* Why every request ends: whatever happens to a request under way, by its *)
(* own steps or by a restart, leaves it fewer awaits; no other request can *)
(* send it back or give it more to delete.                                 *)
RequestsRunDown ==
    \A r \in Requests :
        req[r].pc # "idle" /\ req'[r] # req[r] =>
            /\ Remaining(r)' < Remaining(r)
            /\ Remaining(r)' \in Nat

LEMMA RemainingAt ==
    ASSUME NEW r \in Requests, req[r] \in Request, IsFiniteSet(Token)
    PROVE  /\ Remaining(r) \in Nat
           /\ Cardinality(Token) \in Nat /\ Cardinality(req[r].todo) \in Nat
           /\ Cardinality(req[r].todo) <= Cardinality(Token)
           /\ req[r].pc # "idle" => Remaining(r) > 0
<1>1. req[r].todo \subseteq Token
  BY DEF Request
<1>2. /\ Cardinality(Token) \in Nat /\ Cardinality(req[r].todo) \in Nat
      /\ Cardinality(req[r].todo) <= Cardinality(Token)
  BY <1>1, FS_Subset, FS_CardinalityType
<1>3. req[r].pc \in {"idle", "claims", "store", "drop", "respond", "scan", "delete", "return"}
  BY DEF Request
<1> QED BY <1>2, <1>3 DEF Remaining

LEMMA StepRunsDown ==
    ASSUME IsFiniteSet(Token), Typed, TypeOK', NEW r \in Requests, Step(r)
    PROVE  Remaining(r)' < Remaining(r) /\ Remaining(r)' \in Nat
<1>0. /\ req \in [Requests -> Request] /\ req[r] \in Request /\ req'[r] \in Request
      /\ Idle.pc = "idle"
  BY DEF Typed, TypeOK, Idle
<1>1. /\ Remaining(r)' \in Nat
      /\ Cardinality(req'[r].todo) \in Nat /\ Cardinality(Token) \in Nat
      /\ Cardinality(req'[r].todo) <= Cardinality(Token)
  <2>1. req'[r].todo \subseteq Token
    BY <1>0 DEF Request
  <2>2. /\ Cardinality(Token) \in Nat /\ Cardinality(req'[r].todo) \in Nat
        /\ Cardinality(req'[r].todo) <= Cardinality(Token)
    BY <2>1, FS_Subset, FS_CardinalityType
  <2>3. req'[r].pc \in {"idle", "claims", "store", "drop", "respond", "scan", "delete", "return"}
    BY <1>0 DEF Request
  <2> QED BY <2>2, <2>3 DEF Remaining
<1>2. Remaining(r) \in Nat /\ (req[r].pc # "idle" => Remaining(r) > 0)
      /\ Cardinality(req[r].todo) \in Nat
  BY <1>0, RemainingAt
<1>3. CASE MintTokens(r) \/ StoreSession(r) \/ DropOld(r)
  <2>1. \/ req[r].pc = "claims" /\ req'[r].pc = "store"
        \/ req[r].pc = "store" /\ req'[r].pc \in {"drop", "respond"}
        \/ req[r].pc = "drop" /\ req'[r].pc = "respond"
    BY <1>0, <1>3 DEF MintTokens, StoreSession, DropOld, Request
  <2> QED BY <1>1, <2>1 DEF Remaining
<1>4. CASE Scan(r)
  <2>1. req[r].pc = "scan" /\ req'[r].pc = "delete"
    BY <1>0, <1>4 DEF Scan, Request
  <2>2. Remaining(r) = Cardinality(Token) + 3 /\ Remaining(r)' = Cardinality(req'[r].todo) + 2
    BY <2>1 DEF Remaining
  <2> QED BY <1>1, <2>2
<1>5. ASSUME NEW t \in req[r].todo, DeleteOne(r, t)
      PROVE  Remaining(r)' < Remaining(r)
  <2>1. req[r].pc = "delete" /\ req'[r].pc = "delete" /\ req'[r].todo = req[r].todo \ {t}
    BY <1>0, <1>5 DEF DeleteOne, Request
  <2>2. IsFiniteSet(req[r].todo)
    BY <1>0, FS_Subset DEF Request
  <2>3. Cardinality(req[r].todo \ {t}) = Cardinality(req[r].todo) - 1
    BY <2>2, FS_RemoveElement
  <2>4. /\ Remaining(r) = Cardinality(req[r].todo) + 2
        /\ Remaining(r)' = Cardinality(req'[r].todo) + 2
    BY <2>1 DEF Remaining
  <2> QED BY <1>2, <2>1, <2>3, <2>4
<1>6. CASE BlacklistAccess(r)
  <2>1. req[r].pc = "delete" /\ req'[r].pc = "return"
    BY <1>0, <1>6 DEF BlacklistAccess, Request
  <2>2. Remaining(r) = Cardinality(req[r].todo) + 2 /\ Remaining(r)' = 1
    BY <2>1 DEF Remaining
  <2> QED BY <1>2, <2>2
<1>7. CASE Respond(r) \/ Return(r)
  <2>1. req[r].pc # "idle" /\ req'[r].pc = "idle"
    BY <1>0, <1>7 DEF Respond, Return, End
  <2>2. Remaining(r)' = 0
    BY <2>1 DEF Remaining
  <2> QED BY <1>2, <2>1, <2>2
<1> QED BY <1>1, <1>3, <1>4, <1>5, <1>6, <1>7 DEF Step

(* The safety half of EveryRequestEnds, for any number of requests.        *)
THEOREM RunDownCorrect == ASSUME IsFiniteSet(Users) PROVE Spec => [][RequestsRunDown]_vars
<1>1. Typed /\ TypeOK' /\ [Next]_vars => [RequestsRunDown]_vars
  <2> SUFFICES ASSUME Typed, TypeOK', [Next]_vars, NEW r \in Requests,
                      req[r].pc # "idle", req'[r] # req[r]
               PROVE  Remaining(r)' < Remaining(r) /\ Remaining(r)' \in Nat
    BY DEF RequestsRunDown
  <2>0. /\ IsFiniteSet(Token) /\ Idle.pc = "idle"
        /\ req[r] \in Request /\ req \in [Requests -> Request]
    BY TokenFinite DEF Typed, TypeOK, Idle
  <2>1. ASSUME req'[r] = Idle PROVE Remaining(r)' < Remaining(r) /\ Remaining(r)' \in Nat
    <3>1. Remaining(r)' = 0
      BY <2>0, <2>1 DEF Remaining
    <3>2. Remaining(r) \in Nat /\ Remaining(r) > 0
      BY <2>0, RemainingAt
    <3> QED BY <3>1, <3>2
  <2>2. CASE Step(r)
    BY <2>0, <2>2, StepRunsDown
  <2>3. CASE Abort(r)
    BY <2>0, <2>1, <2>3 DEF Abort, End
  <2>4. CASE Start(r)
    BY <2>4 DEF Start, StartLogin, StartRevoke, StartRefresh, StartLogout, Begin
  <2>5. ASSUME NEW q \in Requests, q # r, Start(q) \/ Step(q) \/ Abort(q) PROVE FALSE
    BY <2>5, StepLocals
  <2>6. CASE Restart
    BY <2>1, <2>6 DEF Restart
  <2>7. CASE Tick \/ UNCHANGED vars \/ \E u \in Users : ChangeClaims(u)
    BY <2>7 DEF Tick, vars, ChangeClaims
  <2> QED BY <2>2, <2>3, <2>4, <2>5, <2>6, <2>7 DEF Next
<1> QED BY <1>1, TypedInvariant, PTL DEF Spec, Typed
------------------------------------------------------------------------------
(* What a request holds of sessions is its own user's: the token a refresh *)
(* was admitted on, and the keys a revocation has listed.                  *)
OfOneUser(x) ==
    /\ x.op = "refresh" => x.presented \in Token /\ x.presented.sub = x.user
    /\ x.pc = "drop" => x.op = "refresh"
    /\ \A t \in x.todo : t.sub = x.user

LEMMA IdleOfOne == OfOneUser(Idle)
BY DEF OfOneUser, Idle

LEMMA OfOneStep ==
    ASSUME Typed, \A r \in Requests : OfOneUser(req[r]), [Next]_vars, NEW q \in Requests
    PROVE  OfOneUser(req'[q])
<1>0. /\ req \in [Requests -> Request] /\ issued \subseteq Token /\ OfOneUser(req[q])
      /\ req[q] \in Request
  BY DEF Typed, TypeOK
<1>1. CASE req'[q] = req[q]
  BY <1>0, <1>1
<1>2. CASE req'[q] = Idle
  BY <1>2, IdleOfOne
<1>3. CASE Start(q)
  <2>1. ASSUME NEW x \in Request, Begin(q, x), x.todo = {}, x.pc # "drop",
               x.op = "refresh" => x.presented \in Token /\ x.presented.sub = x.user
        PROVE  OfOneUser(req'[q])
    BY <1>0, <2>1 DEF Begin, OfOneUser
  <2>2. ASSUME NEW t \in issued, StartRefresh(q, t) PROVE OfOneUser(req'[q])
    <3> DEFINE x == [Idle EXCEPT !.pc = "claims", !.op = "refresh",
                                 !.user = t.sub, !.presented = t]
    <3>1. /\ x \in Request /\ x.todo = {} /\ x.pc # "drop"
          /\ x.presented = t /\ x.user = t.sub
      BY <1>0, IdleType DEF Request, Idle, Token
    <3> QED BY <1>0, <2>1, <2>2, <3>1 DEF StartRefresh
  <2>3. ASSUME NEW u \in Users, StartLogin(q, u) PROVE OfOneUser(req'[q])
    <3> DEFINE x == [Idle EXCEPT !.pc = "claims", !.op = "login", !.user = u]
    <3>1. x \in Request /\ x.todo = {} /\ x.pc # "drop" /\ x.op # "refresh"
      BY IdleType DEF Request, Idle
    <3> QED BY <2>1, <2>3, <3>1 DEF StartLogin
  <2>4. ASSUME NEW u \in Users, StartRevoke(q, u) PROVE OfOneUser(req'[q])
    <3> DEFINE x == [Idle EXCEPT !.pc = "scan", !.op = "revoke", !.user = u]
    <3>1. x \in Request /\ x.todo = {} /\ x.pc # "drop" /\ x.op # "refresh"
      BY IdleType DEF Request, Idle
    <3> QED BY <2>1, <2>4, <3>1 DEF StartRevoke
  <2>5. ASSUME NEW t \in issued, NEW h \in BOOLEAN, StartLogout(q, t, h)
        PROVE  OfOneUser(req'[q])
    <3> DEFINE x == [Idle EXCEPT !.pc = "scan", !.op = "logout", !.user = t.sub,
                                 !.presented = t, !.access = IF h THEN t ELSE NoToken]
    <3>1. x \in Request /\ x.todo = {} /\ x.pc # "drop" /\ x.op # "refresh"
      BY <1>0, IdleType DEF Request, Idle, Token
    <3> QED BY <2>1, <2>5, <3>1 DEF StartLogout
  <2> QED BY <1>3, <2>2, <2>3, <2>4, <2>5 DEF Start
<1>4. CASE Step(q)
  <2>1. CASE MintTokens(q) \/ StoreSession(q) \/ DropOld(q)
    <3>1. /\ req'[q].op = req[q].op /\ req'[q].presented = req[q].presented
          /\ req'[q].user = req[q].user /\ req'[q].todo = req[q].todo
          /\ req'[q].pc = "drop" => req[q].op = "refresh"
      BY <1>0, <2>1 DEF MintTokens, StoreSession, DropOld, Request
    <3> QED BY <1>0, <3>1 DEF OfOneUser
  <2>2. CASE Scan(q)
    <3>1. /\ req'[q].op = req[q].op /\ req'[q].presented = req[q].presented
          /\ req'[q].user = req[q].user /\ req'[q].todo = SessionsOf(req[q].user)
          /\ req'[q].pc = "delete"
      BY <1>0, <2>2 DEF Scan, Request
    <3> QED BY <1>0, <3>1 DEF OfOneUser, SessionsOf
  <2>3. ASSUME NEW t \in req[q].todo, DeleteOne(q, t) PROVE OfOneUser(req'[q])
    <3>1. /\ req'[q].op = req[q].op /\ req'[q].presented = req[q].presented
          /\ req'[q].user = req[q].user /\ req'[q].todo \subseteq req[q].todo
          /\ req'[q].pc = "delete"
      BY <1>0, <2>3 DEF DeleteOne, Request
    <3> QED BY <1>0, <3>1 DEF OfOneUser
  <2>4. CASE BlacklistAccess(q)
    <3>1. /\ req'[q].op = req[q].op /\ req'[q].presented = req[q].presented
          /\ req'[q].user = req[q].user /\ req'[q].todo = req[q].todo
          /\ req'[q].pc = "return"
      BY <1>0, <2>4 DEF BlacklistAccess, Request
    <3> QED BY <1>0, <3>1 DEF OfOneUser
  <2>5. CASE Respond(q) \/ Return(q)
    BY <1>0, <1>2, <2>5 DEF Respond, Return, End
  <2> QED BY <1>4, <2>1, <2>2, <2>3, <2>4, <2>5 DEF Step
<1>5. CASE Abort(q)
  BY <1>0, <1>2, <1>5 DEF Abort, End
<1>6. ASSUME NEW r \in Requests, r # q, Start(r) \/ Step(r) \/ Abort(r)
      PROVE  OfOneUser(req'[q])
  BY <1>1, <1>6, StepLocals
<1>7. CASE Restart
  BY <1>2, <1>7 DEF Restart
<1>8. CASE Tick \/ UNCHANGED vars \/ \E u \in Users : ChangeClaims(u)
  BY <1>1, <1>8 DEF Tick, vars, ChangeClaims
<1> QED BY <1>3, <1>4, <1>5, <1>6, <1>7, <1>8 DEF Next

(* Nobody touches another user's sessions: one appears through a login of  *)
(* its user, or a refresh of a token of that user; one goes through a      *)
(* refresh, a logout or a revocation of its user, or because its time is   *)
(* up, or with the in-memory store.                                        *)
OwnSessions ==
    \A t \in Token :
        /\ ~Live(t) /\ Live(t)' =>
               \E r \in Requests : /\ req[r].pc = "store" /\ req[r].user = t.sub
                                   /\ req[r].op = "refresh" => req[r].presented.sub = t.sub
        /\ Live(t) /\ ~Live(t)' =>
               \/ \E r \in Requests : req[r].pc \in {"drop", "delete"} /\ req[r].user = t.sub
               \/ now' = now + 1 /\ sessions[t] <= now'
               \/ Fallback /\ \A r \in Requests : req'[r].pc = "idle"

(* Every step that opens or closes a session does so for its own user,     *)
(* however many users, devices and requests there are.                     *)
THEOREM OwnSessionsCorrect == Spec => [][OwnSessions]_vars
<1> DEFINE Inv == /\ \A r \in Requests : Admitted(r)
                  /\ \A r \in Requests : OfOneUser(req[r])
<1>1. Init => Inv
  <2>1. Init => \A r \in Requests : Admitted(r)
    BY DEF Init, Admitted, Idle
  <2>2. Init => \A r \in Requests : OfOneUser(req[r])
    BY IdleOfOne DEF Init
  <2> QED BY <2>1, <2>2
<1>2. Typed /\ Inv /\ [Next]_vars => Inv'
  <2> SUFFICES ASSUME Typed, Inv, [Next]_vars PROVE Inv'
    OBVIOUS
  <2>1. \A r \in Requests : Admitted(r)'
    BY AdmittedStep
  <2>2. \A r \in Requests : OfOneUser(req'[r])
    BY OfOneStep
  <2> QED BY <2>1, <2>2
<1>3. Typed /\ Inv /\ [Next]_vars => [OwnSessions]_vars
  <2> SUFFICES ASSUME Typed, Inv, [Next]_vars, NEW t \in Token, Live(t)' # Live(t)
               PROVE  /\ ~Live(t) /\ Live(t)' =>
                             \E r \in Requests :
                                 /\ req[r].pc = "store" /\ req[r].user = t.sub
                                 /\ req[r].op = "refresh" => req[r].presented.sub = t.sub
                      /\ Live(t) /\ ~Live(t)' =>
                             \/ \E r \in Requests : req[r].pc \in {"drop", "delete"}
                                                     /\ req[r].user = t.sub
                             \/ now' = now + 1 /\ sessions[t] <= now'
                             \/ Fallback /\ \A r \in Requests : req'[r].pc = "idle"
    BY DEF OwnSessions, Live
  <2>0. sessions \in [Token -> Nat] /\ now \in 0..MaxTime /\ sessions' # sessions
    BY DEF Typed, TypeOK, Live
  <2>1. ASSUME NEW r \in Requests, StoreSession(r) PROVE req[r].pc = "store" /\ t = req[r].minted
    BY <2>0, <2>1 DEF StoreSession, Live
  <2>2. ASSUME NEW r \in Requests, StoreSession(r) PROVE Live(t)'
    <3>1. ExpiryOf(SessionTTL) # 0
      BY ExpiryType DEF Typed
    <3> QED BY <2>0, <2>1, <2>2, <3>1 DEF StoreSession, Live
  <2>3. ASSUME NEW r \in Requests, DropOld(r)
        PROVE  /\ ~Live(t)' /\ req[r].pc = "drop" /\ t = req[r].presented /\ t.sub = req[r].user
    <3>1. ~Live(t)' /\ req[r].pc = "drop" /\ t = req[r].presented
      BY <2>0, <2>3 DEF DropOld, Live
    <3> QED BY <3>1 DEF OfOneUser
  <2>4. ASSUME NEW r \in Requests, NEW d \in req[r].todo, DeleteOne(r, d)
        PROVE  ~Live(t)' /\ req[r].pc = "delete" /\ t = d /\ t.sub = req[r].user
    <3>1. ~Live(t)' /\ req[r].pc = "delete" /\ t = d
      BY <2>0, <2>4 DEF DeleteOne, Live
    <3> QED BY <2>4, <3>1 DEF OfOneUser
  <2>5. CASE Tick
    <3>1. now' = now + 1 /\ sessions'[t] = IF sessions[t] <= now + 1 THEN 0 ELSE sessions[t]
      BY <2>5 DEF Tick
    <3> QED BY <3>1 DEF Live
  <2>6. CASE Restart
    <3>1. Fallback /\ ~Live(t)'
      BY <2>0, <2>6 DEF Restart, Live
    <3>2. \A r \in Requests : req'[r].pc = "idle"
      BY <2>6 DEF Restart, Idle
    <3> QED BY <3>1, <3>2
  <2>7. ASSUME NEW r \in Requests, StoreSession(r)
        PROVE  /\ req[r].user = t.sub
               /\ req[r].op = "refresh" => req[r].presented.sub = t.sub
    BY <2>1, <2>7 DEF Admitted, OfOneUser
  <2>8. ASSUME NEW r \in Requests, Start(r) \/ Abort(r) \/ MintTokens(r) \/ Respond(r)
                                     \/ Scan(r) \/ BlacklistAccess(r) \/ Return(r)
        PROVE  FALSE
    BY <2>0, <2>8 DEF Start, StartLogin, StartRevoke, StartRefresh, StartLogout, Begin, Abort,
                      MintTokens, Respond, Scan, BlacklistAccess, Return, store
  <2>9. CASE UNCHANGED vars \/ \E u \in Users : ChangeClaims(u)
    BY <2>0, <2>9 DEF vars, ChangeClaims, store
  <2> QED BY <2>1, <2>2, <2>3, <2>4, <2>5, <2>6, <2>7, <2>8, <2>9 DEF Next, Step
<1> QED BY <1>1, <1>2, <1>3, TypedInvariant, PTL DEF Spec
==============================================================================
