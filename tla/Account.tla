-------------------------------- MODULE Account --------------------------------
(***************************************************************************)
(* How users come to be, and what names them: registration, verification   *)
(* and the reset link of AuthService (modules/auth/auth.service.ts), the   *)
(* Google logins of OauthService (modules/oauth/oauth.service.ts) and the  *)
(* administrator of AdminSeedService (bootstrap/admin-seed.service.ts)     *)
(* over the tables users, roles, user_roles and oauth_accounts, and        *)
(* POST /roles of RoleService (modules/role/role.service.ts), which writes *)
(* the same roles.                                                         *)
(*                                                                         *)
(* A handler is a task that goes from await to await; it starts here when  *)
(* the query is answered that it acts on.  Names and phones are left out:  *)
(* generateUniqueUsername and resolveUsername pick a free name, and of two *)
(* handlers that pick the same the insert of one rejects, as any query may *)
(* (Throw).  So are passwords and sessions (AuthSession) and codes (Otp).  *)
(* A mail that is lost and a link that expires are links nobody uses.      *)
(***************************************************************************)
EXTENDS Naturals, FiniteSets

CONSTANTS
    People,         \* bound: the users that can be created
    Mails, NoMail,  \* addresses, lower case; "no e-mail"
    AdminMail,      \* seed.adminEmail
    Subs, NoSub,    \* Google accounts; "none"
    GoogleMail,     \* the e-mail of a Google account, NoMail if it shows none
    Tenants,
    NoTenant,       \* tenantId NULL
    RoleIds,        \* bound: the roles named USER that can be created
    Links, NoLink,  \* bound: the reset tokens that can be made, in that order
    Tasks,          \* slots for handlers in flight at the same time
    Nobody, Absent, NoRole

ASSUME NothingAssumption ==
    /\ NoMail \notin Mails /\ NoSub \notin Subs /\ NoTenant \notin Tenants
    /\ NoLink \notin Links /\ Nobody \notin People /\ NoRole \notin RoleIds
    /\ Absent \notin Tenants \cup {NoTenant}
ASSUME GoogleMailAssumption == GoogleMail \in [Subs -> Mails \cup {NoMail}]
ASSUME AdminMailAssumption == AdminMail \in Mails
ASSUME LinksAssumption == Links \subseteq Nat

VARIABLES
    row,        \* user -> the row in users
    account,    \* Google account -> the user of its row in oauth_accounts
    role,       \* role id -> the tenant of a role named USER
    granted,    \* rows of user_roles that ensureDefaultRole wrote: <<user, role id>>
    task        \* slot -> the local variables of its handler

(* History variables: no action reads them. *)
VARIABLES
    born,       \* user -> the Google account whose first login created it
    connected,  \* Google accounts whose row connectProvider wrote
    racing,     \* slot -> found no role, and one was created for its tenant since
    raced,      \* roles created by a handler that was racing
    posted,     \* roles created by POST /roles
    issued,     \* reset token -> its user
    spent,      \* reset tokens that have set a password
    wiped       \* reset tokens cleared by a request that had found an older one

links    == <<issued, spent, wiped>>
races    == <<racing, raced, posted>>
history  == <<born, connected, races, links>>
accVars  == <<row, account, role, granted, task, history>>

AnyTenant == Tenants \cup {NoTenant}

(* verify: there is an emailVerifyToken. *)
Row == [ state : {"none", "pending", "active"}, mail : Mails \cup {NoMail},
         tenant : AnyTenant, verify : BOOLEAN, reset : Links \cup {NoLink} ]
Is(state, mail, tenant, verify, reset) ==
    [ state |-> state, mail |-> mail, tenant |-> tenant, verify |-> verify, reset |-> reset ]

(* pc names the await a handler is at; a handler without sub registers. *)
Task ==
    [ pc   : {"idle", "lookup", "create", "findRole", "makeRole", "grant", "link", "enter",
              "connect", "seed", "verify", "confirm", "issue", "reset"},
      user : People \cup {Nobody}, sub : Subs \cup {NoSub}, mail : Mails \cup {NoMail},
      tenant : AnyTenant, role : RoleIds \cup {NoRole}, link : Links \cup {NoLink} ]
Local(pc, user, sub, mail, tenant, r, link) ==
    [ pc |-> pc, user |-> user, sub |-> sub, mail |-> mail, tenant |-> tenant,
      role |-> r, link |-> link ]
Join(pc, user, sub, mail, tenant, r) == Local(pc, user, sub, mail, tenant, r, NoLink)
Recover(pc, user, link) == Local(pc, user, NoSub, NoMail, NoTenant, NoRole, link)
Rest == Recover("idle", Nobody, NoLink)

AccTypeOK ==
    /\ row \in [People -> Row]
    /\ account \in [Subs -> People \cup {Nobody}]
    /\ role \in [RoleIds -> AnyTenant \cup {Absent}]
    /\ granted \subseteq People \X RoleIds
    /\ task \in [Tasks -> Task]
    /\ born \in [People -> Subs \cup {NoSub}]
    /\ connected \subseteq Subs
    /\ racing \in [Tasks -> BOOLEAN]
    /\ raced \subseteq RoleIds /\ posted \subseteq RoleIds
    /\ issued \in [Links -> People \cup {Nobody}]
    /\ spent \subseteq Links /\ wiped \subseteq Links

AccInit ==
    /\ row = [u \in People |-> Is("none", NoMail, NoTenant, FALSE, NoLink)]
    /\ account = [s \in Subs |-> Nobody]
    /\ role = [r \in RoleIds |-> Absent]
    /\ granted = {}
    /\ task = [t \in Tasks |-> Rest]
    /\ born = [u \in People |-> NoSub]
    /\ connected = {}
    /\ racing = [t \in Tasks |-> FALSE] /\ raced = {} /\ posted = {}
    /\ issued = [l \in Links |-> Nobody]
    /\ spent = {} /\ wiped = {}
-------------------------------------------------------------------------------
Exists(u) == row[u].state # "none"

(* users.email is unique, and NULL is no address. *)
Taken(mail) == mail # NoMail /\ \E u \in People : row[u].mail = mail

Start(t, local) ==
    /\ task[t].pc = "idle"
    /\ task' = [task EXCEPT ![t] = local]

Go(t, pc, local) ==
    /\ task[t].pc = pc
    /\ task' = [task EXCEPT ![t] = local]

(* register, with an e-mail or with a phone only: resolveUsername and      *)
(* ensureNoDuplicateIdentity have found nobody.                            *)
StartRegister(t, mail, tenant) ==
    /\ ~Taken(mail)
    /\ Start(t, Join("create", Nobody, NoSub, mail, tenant, NoRole))
    /\ UNCHANGED <<row, account, role, granted, history>>

(* loginWithGoogle of an account that has no row, ...                      *)
StartGoogle(t, sub, tenant) ==
    LET pc == IF GoogleMail[sub] = NoMail THEN "create" ELSE "lookup" IN
    /\ account[sub] = Nobody
    /\ Start(t, Join(pc, Nobody, sub, GoogleMail[sub], tenant, NoRole))
    /\ UNCHANGED <<row, account, role, granted, history>>

(* ... and of one that has: other Google tokens are put in its row.        *)
ReturnGoogle(t, sub) ==
    /\ account[sub] # Nobody
    /\ Start(t, Join("enter", account[sub], sub, NoMail, NoTenant, NoRole))
    /\ UNCHANGED <<row, account, role, granted, history>>

(* The user with this e-mail, pending ones too.  Its own tenant goes       *)
(* before that of the request.                                             *)
Lookup(t) ==
    LET me == task[t] IN
    /\ \/ \E u \in People :
             /\ row[u].mail = me.mail
             /\ LET tenant == IF row[u].tenant = NoTenant THEN me.tenant ELSE row[u].tenant
                IN Go(t, "lookup", Join("findRole", u, me.sub, NoMail, tenant, NoRole))
       \/ /\ ~Taken(me.mail)
          /\ Go(t, "lookup", Join("create", Nobody, me.sub, me.mail, me.tenant, NoRole))
    /\ UNCHANGED <<row, account, role, granted, history>>

(* Mutant of CreateUser: the user of a Google login has no e-mail. *)
CreateUserBare(t, u) ==
    LET me == task[t] IN
    /\ Go(t, "create", Join("findRole", u, me.sub, NoMail, me.tenant, NoRole))
    /\ ~Exists(u) /\ ~Taken(me.mail)
    /\ \E byLink \in BOOLEAN :
          /\ byLink => me.sub = NoSub /\ me.mail # NoMail
          /\ row' = [row EXCEPT ![u] =
                IF me.sub = NoSub THEN Is("pending", me.mail, me.tenant, byLink, NoLink)
                                  ELSE Is("active", NoMail, me.tenant, FALSE, NoLink)]
    /\ born' = [born EXCEPT ![u] = me.sub]
    /\ UNCHANGED <<account, role, granted, connected, races, links>>

(* user.create: who registers has to verify, by a link or by a code; who   *)
(* comes from Google need not.                                             *)
CreateUser(t, u) ==
    LET me == task[t] IN
    /\ Go(t, "create", Join("findRole", u, me.sub, NoMail, me.tenant, NoRole))
    /\ ~Exists(u) /\ ~Taken(me.mail)
    /\ \E byLink \in BOOLEAN :
          /\ byLink => me.sub = NoSub /\ me.mail # NoMail
          /\ row' = [row EXCEPT ![u] =
                Is(IF me.sub = NoSub THEN "pending" ELSE "active",
                   me.mail, me.tenant, byLink, NoLink)]
    /\ born' = [born EXCEPT ![u] = me.sub]
    /\ UNCHANGED <<account, role, granted, connected, races, links>>
-------------------------------------------------------------------------------
(* Mutant of FindRole: of whatever tenant. *)
FindRoleAnywhere(t) ==
    LET me == task[t]
        found == {r \in RoleIds : role[r] # Absent}
    IN
    /\ \/ \E r \in found :
             Go(t, "findRole", Join("grant", me.user, me.sub, NoMail, me.tenant, r))
       \/ /\ found = {}
          /\ Go(t, "findRole", Join("makeRole", me.user, me.sub, NoMail, me.tenant, NoRole))
    /\ UNCHANGED <<row, account, role, granted, history>>

(* Mutant of FindRole: the role is not looked for. *)
FindRoleNot(t) ==
    LET me == task[t] IN
    /\ Go(t, "findRole", Join("makeRole", me.user, me.sub, NoMail, me.tenant, NoRole))
    /\ UNCHANGED <<row, account, role, granted, history>>

(* Mutant of FindRole: a missing role is not created. *)
FindRoleOnly(t) ==
    LET me == task[t]
        found == {r \in RoleIds : role[r] = me.tenant}
    IN
    /\ \E r \in IF found = {} THEN {NoRole} ELSE found :
          Go(t, "findRole", Join("grant", me.user, me.sub, NoMail, me.tenant, r))
    /\ UNCHANGED <<row, account, role, granted, history>>

(* ensureDefaultRole, of either service: findFirst answers any. *)
FindRole(t) ==
    LET me == task[t]
        found == {r \in RoleIds : role[r] = me.tenant}
    IN
    /\ \/ \E r \in found :
             Go(t, "findRole", Join("grant", me.user, me.sub, NoMail, me.tenant, r))
       \/ /\ found = {}
          /\ Go(t, "findRole", Join("makeRole", me.user, me.sub, NoMail, me.tenant, NoRole))
    /\ UNCHANGED <<row, account, role, granted, history>>

(* A role named USER is inserted.  The index on name and tenantId refuses  *)
(* a second one of a tenant, but not one where tenantId is NULL.           *)
NewRole(r, tenant) ==
    /\ role[r] = Absent
    /\ tenant # NoTenant => \A x \in RoleIds : role[x] # tenant
    /\ role' = [role EXCEPT ![r] = tenant]

(* The handlers that have found no such role and are about to make one. *)
Overtaken(tenant) == {x \in Tasks : task[x].pc = "makeRole" /\ task[x].tenant = tenant}

MakeRole(t, r) ==
    LET me == task[t] IN
    /\ Go(t, "makeRole", Join("grant", me.user, me.sub, NoMail, me.tenant, r))
    /\ NewRole(r, me.tenant)
    /\ raced' = IF racing[t] THEN raced \cup {r} ELSE raced
    /\ racing' = [x \in Tasks |-> x # t /\ (racing[x] \/ x \in Overtaken(me.tenant))]
    /\ UNCHANGED <<row, account, granted, born, connected, posted, links>>

(* POST /roles: RoleService creates what the body names, without a look at *)
(* the roles there are.                                                    *)
PostRole(r, tenant) ==
    /\ NewRole(r, tenant)
    /\ posted' = posted \cup {r}
    /\ racing' = [x \in Tasks |-> racing[x] \/ x \in Overtaken(tenant)]
    /\ UNCHANGED <<row, account, granted, task, born, connected, raced, links>>

(* Mutant of Grant: an error is swallowed, as AuthService does. *)
GrantQuietly(t) ==
    LET me == task[t] IN
    /\ Go(t, "grant", IF me.sub = NoSub THEN Rest
                      ELSE Join("link", me.user, me.sub, NoMail, NoTenant, NoRole))
    /\ granted' \in {granted, granted \cup {<<me.user, me.role>>}}
    /\ UNCHANGED <<row, account, role, history>>

(* userRole.create; a Google login goes on to its own row. *)
Grant(t) ==
    LET me == task[t] IN
    /\ Go(t, "grant", IF me.sub = NoSub THEN Rest
                      ELSE Join("link", me.user, me.sub, NoMail, NoTenant, NoRole))
    /\ granted' = granted \cup {<<me.user, me.role>>}
    /\ UNCHANGED <<row, account, role, history>>

(* Mutant of Link: that there is a row by now is no error. *)
LinkUnlessThere(t) ==
    LET me == task[t] IN
    /\ Go(t, "link", Join("enter", me.user, me.sub, NoMail, NoTenant, NoRole))
    /\ account' = [account EXCEPT ![me.sub] = IF @ = Nobody THEN me.user ELSE @]
    /\ UNCHANGED <<row, role, granted, history>>

(* oAuthAccount.create, which refuses a second row of a Google account. *)
Link(t) ==
    LET me == task[t] IN
    /\ Go(t, "link", Join("enter", me.user, me.sub, NoMail, NoTenant, NoRole))
    /\ account[me.sub] = Nobody
    /\ account' = [account EXCEPT ![me.sub] = me.user]
    /\ UNCHANGED <<row, role, granted, history>>

(* loginWithOAuthProvider looks the Google account up again: its user gets *)
(* a session (AuthSession), or an error while it has not verified.         *)
Enter(t) ==
    /\ Go(t, "enter", Rest)
    /\ account[task[t].sub] # Nobody
    /\ UNCHANGED <<row, account, role, granted, history>>
-------------------------------------------------------------------------------
(* AdminSeedService at the start of an instance, while others may serve:   *)
(* there is no administrator yet, ...                                      *)
StartSeed(t) ==
    /\ ~Taken(AdminMail)
    /\ Start(t, Join("seed", Nobody, NoSub, AdminMail, NoTenant, NoRole))
    /\ UNCHANGED <<row, account, role, granted, history>>

(* ... and one is created, without a default role. *)
Seed(t, u) ==
    /\ Go(t, "seed", Rest)
    /\ ~Exists(u) /\ ~Taken(AdminMail)
    /\ row' = [row EXCEPT ![u] = Is("active", AdminMail, NoTenant, FALSE, NoLink)]
    /\ UNCHANGED <<account, role, granted, history>>
-------------------------------------------------------------------------------
(* connectProvider of a user who is logged in: the account has no row. *)
StartConnect(t, u, sub) ==
    /\ Exists(u)
    /\ account[sub] = Nobody
    /\ Start(t, Join("connect", u, sub, NoMail, NoTenant, NoRole))
    /\ UNCHANGED <<row, account, role, granted, history>>

(* Mutant of Connect: an upsert. *)
ConnectUpsert(t) ==
    LET me == task[t] IN
    /\ Go(t, "connect", Rest)
    /\ account' = [account EXCEPT ![me.sub] = me.user]
    /\ connected' = connected \cup {me.sub}
    /\ UNCHANGED <<row, role, granted, born, races, links>>

Connect(t) ==
    LET me == task[t] IN
    /\ Go(t, "connect", Rest)
    /\ account[me.sub] = Nobody
    /\ account' = [account EXCEPT ![me.sub] = me.user]
    /\ connected' = connected \cup {me.sub}
    /\ UNCHANGED <<row, role, granted, born, races, links>>
-------------------------------------------------------------------------------
(* verifyEmail has found the token; verifyOtp for account_verification has *)
(* accepted a code.                                                        *)
StartVerify(t, u) ==
    /\ \/ row[u].verify /\ Start(t, Recover("verify", u, NoLink))
       \/ Exists(u) /\ Start(t, Recover("confirm", u, NoLink))
    /\ UNCHANGED <<row, account, role, granted, history>>

(* The user is active; a code that went to a phone leaves the token. *)
Verify(t) ==
    LET me == task[t] IN
    /\ me.pc \in {"verify", "confirm"}
    /\ Go(t, me.pc, Rest)
    /\ \E token \in {FALSE, row[me.user].verify} :
          /\ token => me.pc = "confirm"
          /\ row' = [row EXCEPT ![me.user].state = "active", ![me.user].verify = token]
    /\ UNCHANGED <<account, role, granted, history>>

(* forgotPassword has found the user; verifyOtp for password_reset has     *)
(* accepted a code.                                                        *)
StartIssue(t, u) ==
    /\ Exists(u)
    /\ Start(t, Recover("issue", u, NoLink))
    /\ UNCHANGED <<row, account, role, granted, history>>

(* Mutant of Issue: a token that is there is kept. *)
IssueOnce(t, l) ==
    LET u == task[t].user IN
    /\ Go(t, "issue", Rest)
    /\ issued[l] = Nobody /\ \A k \in Links : k < l => issued[k] # Nobody
    /\ row' = IF row[u].reset = NoLink THEN [row EXCEPT ![u].reset = l] ELSE row
    /\ issued' = [issued EXCEPT ![l] = u]
    /\ UNCHANGED <<account, role, granted, born, connected, races, spent, wiped>>

(* A fresh token takes the place of the one before. *)
Issue(t, l) ==
    LET u == task[t].user IN
    /\ Go(t, "issue", Rest)
    /\ issued[l] = Nobody /\ \A k \in Links : k < l => issued[k] # Nobody
    /\ row' = [row EXCEPT ![u].reset = l]
    /\ issued' = [issued EXCEPT ![l] = u]
    /\ UNCHANGED <<account, role, granted, born, connected, races, spent, wiped>>

(* resetPassword has found the token and hashes the password. *)
StartReset(t, u, l) ==
    /\ row[u].reset = l
    /\ Start(t, Recover("reset", u, l))
    /\ UNCHANGED <<row, account, role, granted, history>>

(* Mutant of Reset: the token stays until it expires. *)
ResetKeeps(t) ==
    LET me == task[t] IN
    /\ Go(t, "reset", Rest)
    /\ spent' = spent \cup {me.link}
    /\ UNCHANGED <<row, account, role, granted, born, connected, races, issued, wiped>>

(* The password is set and the token cleared, whichever it is by now. *)
Reset(t) ==
    LET me == task[t] IN
    /\ Go(t, "reset", Rest)
    /\ row' = [row EXCEPT ![me.user].reset = NoLink]
    /\ spent' = spent \cup {me.link}
    /\ wiped' = wiped \cup ({row[me.user].reset} \ {me.link, NoLink})
    /\ UNCHANGED <<account, role, granted, born, connected, races, issued>>

(* A query rejects, also because a unique index refuses the row, or the    *)
(* process dies.  A registration whose role fails goes on without it, but  *)
(* has nothing left to do here.                                            *)
Throw(t) ==
    /\ task[t].pc # "idle"
    /\ task' = [task EXCEPT ![t] = Rest]
    /\ racing' = [racing EXCEPT ![t] = FALSE]
    /\ UNCHANGED <<row, account, role, granted, born, connected, raced, posted, links>>
-------------------------------------------------------------------------------
Begin(t) ==
    \/ \E tenant \in AnyTenant :
          \/ \E mail \in Mails \cup {NoMail} : StartRegister(t, mail, tenant)
          \/ \E sub \in Subs : StartGoogle(t, sub, tenant)
    \/ \E sub \in Subs : ReturnGoogle(t, sub)
    \/ StartSeed(t)
    \/ \E u \in People :
          \/ \E sub \in Subs : StartConnect(t, u, sub)
          \/ StartVerify(t, u)
          \/ StartIssue(t, u)
          \/ \E l \in Links : StartReset(t, u, l)

Step(t) ==
    \/ Lookup(t)
    \/ \E u \in People : CreateUser(t, u) \/ Seed(t, u)
    \/ FindRole(t)
    \/ \E r \in RoleIds : MakeRole(t, r)
    \/ Grant(t)
    \/ Link(t)
    \/ Enter(t)
    \/ Connect(t)
    \/ Verify(t)
    \/ \E l \in Links : Issue(t, l)
    \/ Reset(t)
    \/ Throw(t)

AccNext ==
    \/ \E t \in Tasks : Begin(t) \/ Step(t)
    \/ \E r \in RoleIds, tenant \in AnyTenant : PostRole(r, tenant)

AccSpec == AccInit /\ [][AccNext]_accVars
-------------------------------------------------------------------------------
(* A Google login that failed or died half-way is mended by the next one:  *)
(* the user it has created is the one linked to the Google account, or the *)
(* one a login would find by its e-mail, unless a user has connected that  *)
(* Google account meanwhile.  For an account that shows no e-mail the user *)
(* may be lost.                                                            *)
GoogleFindsItsUser ==
    \A u \in People :
        LET sub == born[u] IN
        sub # NoSub /\ GoogleMail[sub] # NoMail =>
            IF account[sub] # Nobody /\ sub \notin connected
            THEN account[sub] = u ELSE row[u].mail = GoogleMail[sub]

(* A Google login that comes to its session is that of a user with the     *)
(* default role, whatever failed before: ensureDefaultRole precedes the    *)
(* row in oauth_accounts, and a failure is not swallowed.  Excepted are    *)
(* accounts that connectProvider linked: their logins find the row and     *)
(* pass ensureDefaultRole by, so a user without role (the administrator,   *)
(* a registration that failed half-way) stays without.                     *)
GoogleUsersHaveRole ==
    \A t \in Tasks :
        task[t].pc = "enter" =>
            \/ \E r \in RoleIds : <<task[t].user, r>> \in granted
            \/ task[t].sub \in connected

(* A Google login ends in the session of the user it has found or created, *)
(* although it looks the account up again after others may have connected  *)
(* it: it never finds the account of somebody else, or none.               *)
LoginKeepsUser ==
    \A t \in Tasks : task[t].pc = "enter" => account[task[t].sub] = task[t].user

(* A user of a tenant gets the role of that tenant, whichever tenant the   *)
(* login is for.                                                           *)
RoleWithinTenant ==
    \A g \in granted : row[g[1]].tenant \in {NoTenant, role[g[2]]}

(* ensureDefaultRole looks before it creates: a second USER role without a *)
(* tenant, which no index refuses, takes a handler that found none before  *)
(* the first was written, or a POST /roles, which does not look.           *)
SecondRoleTakesRace ==
    \A a, b \in RoleIds :
        role[a] = NoTenant /\ role[b] = NoTenant /\ a # b =>
            \/ a \in raced \/ b \in raced
            \/ a \in posted \/ b \in posted

(* A reset link that has set a password is on no row any more, in whatever *)
(* order requests go on: no later resetPassword finds it.  (Two that found *)
(* it before either cleared it both set their password.)                   *)
SpentLinksGone == \A u \in People : row[u].reset \notin spent

(* The newest link of a user works until it is used.  Only a reset that    *)
(* found an older one, and ends after the newer one was made, takes it     *)
(* away.                                                                   *)
NewestLinkWorks ==
    \A l \in Links :
        LET u == issued[l] IN
        u # Nobody /\ (\A k \in Links : issued[k] = u => k <= l)
            => row[u].reset = l \/ l \in spent \cup wiped

(* A Google account never passes from one user to another, although the    *)
(* check of connectProvider and of a login is awaits before the insert.    *)
LinksNeverMove ==
    [][\A sub \in Subs : account[sub] # Nobody => account'[sub] = account[sub]]_accVars
===============================================================================
