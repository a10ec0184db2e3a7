---------------------------- MODULE Account_proofs ----------------------------
(***************************************************************************)
(* Theorems about Account, for any number of users, Google accounts,       *)
(* tenants, roles, links and handlers.                                     *)
(***************************************************************************)
EXTENDS Account, TLAPS

(* What a handler has found out before the await it is at. *)
Informed(x) ==
    /\ x.pc \notin {"idle", "lookup", "create", "seed"} => x.user \in People /\ Exists(x.user)
    /\ x.pc \in {"lookup", "link", "enter", "connect"} => x.sub \in Subs
    /\ x.pc = "enter" => account[x.sub] = x.user
    /\ x.pc = "lookup" => x.mail # NoMail
    /\ x.pc \in {"lookup", "create"} /\ x.sub # NoSub => x.mail = GoogleMail[x.sub]
    /\ x.pc \in {"findRole", "makeRole", "grant"} => row[x.user].tenant \in {NoTenant, x.tenant}
    /\ x.pc = "grant" => x.role \in RoleIds /\ role[x.role] = x.tenant
    /\ x.pc \in {"findRole", "makeRole", "grant", "link"} /\ x.sub # NoSub =>
          (GoogleMail[x.sub] # NoMail => row[x.user].mail = GoogleMail[x.sub])
    /\ x.pc = "link" => \E r \in RoleIds : <<x.user, r>> \in granted
    /\ x.pc = "reset" => x.link \in Links /\ issued[x.link] = x.user

Handlers == \A t \in Tasks : Informed(task[t])

(* A user without a row is named nowhere. *)
Ghosts ==
    \A u \in People : ~Exists(u) =>
        /\ row[u].mail = NoMail /\ ~row[u].verify /\ row[u].reset = NoLink
        /\ born[u] = NoSub
        /\ \A r \in RoleIds : <<u, r>> \notin granted

(* A Google account is that of a user with a row. *)
Linked == \A sub \in Subs : account[sub] # Nobody => Exists(account[sub])

(* A link on a row is one that was made for it. *)
OwnLinks == \A u \in People : row[u].reset # NoLink => issued[row[u].reset] = u

Typed == AccTypeOK /\ Handlers

(* What is written stays: nothing here deletes a row or moves a user. *)
Lasting ==
    /\ \A u \in People : Exists(u) =>
          /\ row'[u].state # "none"
          /\ row'[u].mail = row[u].mail /\ row'[u].tenant = row[u].tenant
    /\ \A sub \in Subs : account[sub] # Nobody => account'[sub] = account[sub]
    /\ \A r \in RoleIds : role[r] # Absent => role'[r] = role[r]
    /\ granted \subseteq granted'
    /\ \A l \in Links : issued[l] # Nobody => issued'[l] = issued[l]

LEMMA LocalTask ==
    ASSUME NEW pc \in {"idle", "lookup", "create", "findRole", "makeRole", "grant", "link",
                       "enter", "connect", "seed", "verify", "confirm", "issue", "reset"},
           NEW u \in People \cup {Nobody}, NEW sub \in Subs \cup {NoSub},
           NEW mail \in Mails \cup {NoMail}, NEW tenant \in AnyTenant,
           NEW r \in RoleIds \cup {NoRole}, NEW l \in Links \cup {NoLink}
    PROVE  Local(pc, u, sub, mail, tenant, r, l) \in Task
BY DEF Local, Task

LEMMA RestTask == Rest \in Task /\ Rest.pc = "idle"
BY DEF Rest, Recover, Local, Task, AnyTenant

(* What a handler knows goes on to be true. *)
LEMMA InformedLasts ==
    ASSUME AccTypeOK, Lasting, NEW x \in Task, Informed(x)
    PROVE  Informed(x)'
<1>1. x.pc = "enter" => account'[x.sub] = x.user
  BY NothingAssumption DEF Lasting, Informed
<1>2. /\ x.pc \notin {"idle", "lookup", "create", "seed"} =>
            /\ x.user \in People /\ Exists(x.user)'
            /\ row'[x.user].mail = row[x.user].mail /\ row'[x.user].tenant = row[x.user].tenant
  BY DEF Lasting, Informed, Exists
<1>3. x.pc = "grant" => x.role \in RoleIds /\ role'[x.role] = x.tenant
  BY NothingAssumption DEF Lasting, Informed, Task, AnyTenant
<1>4. x.pc = "link" => \E r \in RoleIds : <<x.user, r>> \in granted'
  BY DEF Lasting, Informed
<1>5. x.pc = "reset" => x.link \in Links /\ issued'[x.link] = x.user
  BY <1>2, NothingAssumption DEF Lasting, Informed
<1> QED BY <1>1, <1>2, <1>3, <1>4, <1>5 DEF Informed

LEMMA TaskKept ==
    ASSUME Typed, Lasting, NEW t \in Tasks, NEW x \in Task,
           task' = [task EXCEPT ![t] = x], Informed(x)'
    PROVE  task' \in [Tasks -> Task] /\ Handlers'
<1>1. task \in [Tasks -> Task]
  BY DEF Typed, AccTypeOK
<1>2. task' \in [Tasks -> Task]
  BY <1>1
<1>3. ASSUME NEW s \in Tasks PROVE Informed(task[s])'
  <2>1. CASE s = t
    <3>1. task'[s] = x
      BY <1>1, <2>1
    <3> QED BY <3>1 DEF Informed, Exists
  <2>2. CASE s # t
    <3>1. task'[s] = task[s] /\ task[s] \in Task
      BY <1>1, <2>2
    <3> DEFINE y == task[s]
    <3>2. Informed(y)
      BY DEF Typed, Handlers
    <3>3. PICK z \in Task : z = task[s]
      BY <3>1
    <3>4. Informed(z)
      BY <3>2, <3>3
    <3>5. Informed(z)'
      BY <3>4, InformedLasts DEF Typed
    <3>6. task'[s] = z
      BY <3>1, <3>3
    <3> QED BY <3>5, <3>6 DEF Informed, Exists
  <2> QED BY <2>1, <2>2
<1> QED BY <1>2, <1>3 DEF Handlers

LEMMA TaskEnds ==
    ASSUME Typed, Lasting, NEW t \in Tasks, task' = [task EXCEPT ![t] = Rest]
    PROVE  task' \in [Tasks -> Task] /\ Handlers'
<1>1. PICK x \in Task : x = Rest /\ x.pc = "idle"
  BY RestTask
<1>2. Informed(x)'
  BY <1>1 DEF Informed
<1> QED BY <1>1, <1>2, TaskKept

(* The local variables of a handler. *)
LEMMA TaskParts ==
    ASSUME Typed, NEW t \in Tasks
    PROVE  /\ task[t] \in Task
           /\ task[t].user \in People \cup {Nobody} /\ task[t].sub \in Subs \cup {NoSub}
           /\ task[t].mail \in Mails \cup {NoMail} /\ task[t].tenant \in AnyTenant
           /\ task[t].role \in RoleIds \cup {NoRole} /\ task[t].link \in Links \cup {NoLink}
           /\ Informed(task[t])
BY DEF Typed, AccTypeOK, Handlers, Task
-------------------------------------------------------------------------------
Tables ==
    /\ row \in [People -> Row]
    /\ account \in [Subs -> People \cup {Nobody}]
    /\ role \in [RoleIds -> AnyTenant \cup {Absent}]
    /\ granted \subseteq People \X RoleIds
Records ==
    /\ born \in [People -> Subs \cup {NoSub}]
    /\ connected \subseteq Subs
    /\ racing \in [Tasks -> BOOLEAN] /\ raced \subseteq RoleIds /\ posted \subseteq RoleIds
    /\ issued \in [Links -> People \cup {Nobody}]
    /\ spent \subseteq Links /\ wiped \subseteq Links

LEMMA Quiet ==
    ASSUME Typed, UNCHANGED <<row, account, role, granted, history>>
    PROVE  Lasting /\ Tables' /\ Records'
BY DEF Typed, AccTypeOK, Tables, Records, Lasting, Exists, history, races, links

(* Types are kept, and what is written stays.                              *)
LEMMA TypedStep == Typed /\ Ghosts /\ Linked /\ OwnLinks /\ [AccNext]_accVars => Typed' /\ Lasting
<1> SUFFICES ASSUME Typed, Ghosts, Linked, OwnLinks, [AccNext]_accVars PROVE Typed' /\ Lasting
  OBVIOUS
<1> DEFINE Tasked == task' \in [Tasks -> Task] /\ Handlers'
<1>t. Tables /\ Records /\ task \in [Tasks -> Task]
  BY DEF Typed, AccTypeOK, Tables, Records
<1>g. \A u \in People : row[u].mail # NoMail \/ row[u].verify \/ row[u].reset # NoLink => Exists(u)
  BY DEF Ghosts
<1>q. Tables' /\ Records' /\ Tasked => Typed'
  BY DEF Typed, AccTypeOK, Tables, Records
<1>1. ASSUME NEW t \in Tasks, NEW mail \in Mails \cup {NoMail}, NEW tenant \in AnyTenant, StartRegister(t, mail, tenant) PROVE Typed' /\ Lasting
  <2> DEFINE x == Join("create", Nobody, NoSub, mail, tenant, NoRole)
  <2>1. Lasting /\ Tables' /\ Records'
    BY <1>1, Quiet DEF StartRegister
  <2>2. x \in Task
    BY <1>1, <1>t, LocalTask, TaskParts DEF StartRegister, Join
  <2>3. task' = [task EXCEPT ![t] = x]
    BY <1>1 DEF StartRegister, Start
  <2>4. Informed(x)'
    BY <1>1, <1>t, TaskParts, NothingAssumption, GoogleMailAssumption DEF StartRegister, Join, Recover, Local, Informed, Exists
  <2> HIDE DEF x
  <2>5. Tasked
    BY <2>1, <2>2, <2>3, <2>4, TaskKept
  <2> QED BY <1>q, <2>1, <2>5
<1>2. ASSUME NEW t \in Tasks, NEW sub \in Subs, NEW tenant \in AnyTenant, StartGoogle(t, sub, tenant) PROVE Typed' /\ Lasting
  <2> DEFINE x == Join(IF GoogleMail[sub] = NoMail THEN "create" ELSE "lookup",
                       Nobody, sub, GoogleMail[sub], tenant, NoRole)
  <2>1. Lasting /\ Tables' /\ Records'
    BY <1>2, Quiet DEF StartGoogle
  <2>2. x \in Task
    BY <1>2, <1>t, LocalTask, TaskParts, GoogleMailAssumption DEF StartGoogle, Join
  <2>3. task' = [task EXCEPT ![t] = x]
    BY <1>2 DEF StartGoogle, Start
  <2>4. Informed(x)'
    BY <1>2, <1>t, TaskParts, NothingAssumption, GoogleMailAssumption DEF StartGoogle, Join, Recover, Local, Informed, Exists
  <2> HIDE DEF x
  <2>5. Tasked
    BY <2>1, <2>2, <2>3, <2>4, TaskKept
  <2> QED BY <1>q, <2>1, <2>5
<1>3. ASSUME NEW t \in Tasks, NEW u \in People, NEW sub \in Subs, StartConnect(t, u, sub) PROVE Typed' /\ Lasting
  <2> DEFINE x == Join("connect", u, sub, NoMail, NoTenant, NoRole)
  <2>1. Lasting /\ Tables' /\ Records'
    BY <1>3, Quiet DEF StartConnect
  <2>2. x \in Task
    BY <1>3, <1>t, LocalTask, TaskParts DEF StartConnect, Join, AnyTenant
  <2>3. task' = [task EXCEPT ![t] = x]
    BY <1>3 DEF StartConnect, Start
  <2>4. Informed(x)'
    BY <1>3, <1>t, TaskParts, NothingAssumption, GoogleMailAssumption DEF StartConnect, Join, Recover, Local, Informed, Exists
  <2> HIDE DEF x
  <2>5. Tasked
    BY <2>1, <2>2, <2>3, <2>4, TaskKept
  <2> QED BY <1>q, <2>1, <2>5
<1>4. ASSUME NEW t \in Tasks, NEW u \in People, StartIssue(t, u) PROVE Typed' /\ Lasting
  <2> DEFINE x == Recover("issue", u, NoLink)
  <2>1. Lasting /\ Tables' /\ Records'
    BY <1>4, Quiet DEF StartIssue
  <2>2. x \in Task
    BY <1>4, <1>t, LocalTask, TaskParts DEF StartIssue, Recover, AnyTenant
  <2>3. task' = [task EXCEPT ![t] = x]
    BY <1>4 DEF StartIssue, Start
  <2>4. Informed(x)'
    BY <1>4, <1>t, TaskParts, NothingAssumption, GoogleMailAssumption DEF StartIssue, Join, Recover, Local, Informed, Exists
  <2> HIDE DEF x
  <2>5. Tasked
    BY <2>1, <2>2, <2>3, <2>4, TaskKept
  <2> QED BY <1>q, <2>1, <2>5
<1>5. ASSUME NEW t \in Tasks, NEW u \in People, NEW l \in Links, StartReset(t, u, l) PROVE Typed' /\ Lasting
  <2> DEFINE x == Recover("reset", u, l)
  <2>1. Lasting /\ Tables' /\ Records'
    BY <1>5, Quiet DEF StartReset
  <2>2. x \in Task
    BY <1>5, <1>t, LocalTask, TaskParts DEF StartReset, Join, Recover, AnyTenant, Tables, Row
  <2>3. task' = [task EXCEPT ![t] = x]
    BY <1>5 DEF StartReset, Start, Go
  <2>4. Informed(x)'
    BY <1>5, <1>t, TaskParts, NothingAssumption, <1>g DEF StartReset, Recover, Local, Informed,
       Exists, OwnLinks, history, links
  <2> HIDE DEF x
  <2>5. Tasked
    BY <2>1, <2>2, <2>3, <2>4, TaskKept
  <2> QED BY <1>q, <2>1, <2>5
<1>6. ASSUME NEW t \in Tasks, NEW u \in People, StartVerify(t, u) PROVE Typed' /\ Lasting
  <2>1. Lasting /\ Tables' /\ Records'
    BY <1>6, Quiet DEF StartVerify
  <2>2. PICK pc \in {"verify", "confirm"} : task' = [task EXCEPT ![t] = Recover(pc, u, NoLink)]
    BY <1>6 DEF StartVerify, Start
  <2> DEFINE x == Recover(pc, u, NoLink)
  <2>3. x \in Task
    BY LocalTask DEF Recover, AnyTenant
  <2>4. Exists(u)
    BY <1>6, <1>g DEF StartVerify
  <2>5. Informed(x)'
    BY <2>1, <2>4 DEF Recover, Local, Informed, Exists, Lasting
  <2> HIDE DEF x
  <2>6. Tasked
    BY <2>1, <2>2, <2>3, <2>5, TaskKept DEF x
  <2> QED BY <1>q, <2>1, <2>6
<1>7. ASSUME NEW t \in Tasks, Lookup(t) PROVE Typed' /\ Lasting
  <2>1. Lasting /\ Tables' /\ Records'
    BY <1>7, Quiet DEF Lookup
  <2>2. CASE Taken(task[t].mail)
    <3>1. PICK u \in People :
             /\ row[u].mail = task[t].mail
             /\ LET tenant == IF row[u].tenant = NoTenant THEN task[t].tenant ELSE row[u].tenant
                IN Go(t, "lookup", Join("findRole", u, task[t].sub, NoMail, tenant, NoRole))
      BY <1>7, <2>2 DEF Lookup
    <3> DEFINE tenant == IF row[u].tenant = NoTenant THEN task[t].tenant ELSE row[u].tenant
    <3>2. tenant \in AnyTenant /\ Join("findRole", u, task[t].sub, NoMail, tenant, NoRole) \in Task
      BY <1>t, TaskParts, LocalTask DEF Tables, Row, Join
    <3>3. PICK x \in Task : /\ x = Join("findRole", u, task[t].sub, NoMail, tenant, NoRole)
                           /\ task' = [task EXCEPT ![t] = x]
      BY <3>1, <3>2 DEF Go
    <3>4. task[t].pc = "lookup" /\ task[t].mail # NoMail /\ Exists(u)
      BY <3>1, <2>2, TaskParts, <1>g DEF Go, Informed, Taken
    <3>5. Informed(x)'
      BY <2>1, <3>1, <3>3, <3>4, TaskParts DEF Join, Local, Informed, Exists, Lasting
    <3>6. Tasked
      BY <2>1, <3>3, <3>5, TaskKept
    <3> QED BY <1>q, <2>1, <3>6
  <2>3. CASE ~Taken(task[t].mail)
    <3>1. Join("create", Nobody, task[t].sub, task[t].mail, task[t].tenant, NoRole) \in Task
      BY TaskParts, LocalTask DEF Join
    <3>2. Go(t, "lookup", Join("create", Nobody, task[t].sub, task[t].mail, task[t].tenant, NoRole))
      BY <1>7, <2>3, TaskParts DEF Lookup, Taken, Go, Informed
    <3>3. PICK x \in Task :
             /\ x = Join("create", Nobody, task[t].sub, task[t].mail, task[t].tenant, NoRole)
             /\ task' = [task EXCEPT ![t] = x]
      BY <3>1, <3>2 DEF Go
    <3>4. Informed(x)'
      BY <3>2, <3>3, TaskParts DEF Go, Join, Local, Informed
    <3>5. Tasked
      BY <2>1, <3>3, <3>4, TaskKept
    <3> QED BY <1>q, <2>1, <3>5
  <2> QED BY <2>2, <2>3
<1>8. ASSUME NEW t \in Tasks, NEW u \in People, CreateUser(t, u) PROVE Typed' /\ Lasting
  <2>1. Lasting
    BY <1>8, <1>t, TaskParts, NothingAssumption DEF CreateUser, Go, Lasting, Exists, Tables, Records, Row, Is, Informed, links, races, history, AnyTenant
  <2>2. Tables' /\ Records'
    BY <1>8, <1>t, TaskParts DEF CreateUser, Go, Tables, Records, Row, Is, Informed, links, races, history
  <2>3. Join("findRole", u, task[t].sub, NoMail, task[t].tenant, NoRole) \in Task
    BY <1>8, <1>t, LocalTask, TaskParts DEF CreateUser, Go, Join, AnyTenant, Informed
  <2>4. PICK x \in Task : x = Join("findRole", u, task[t].sub, NoMail, task[t].tenant, NoRole) /\ task' = [task EXCEPT ![t] = x]
    BY <1>8, <2>3 DEF CreateUser, Go
  <2>5. Informed(x)'
    BY <1>8, <1>t, <2>4, TaskParts, NothingAssumption, GoogleMailAssumption DEF CreateUser, Go, Join, Local, Informed, Exists, Tables, Row, Is
  <2>6. Tasked
    BY <2>1, <2>4, <2>5, TaskKept
  <2> QED BY <1>q, <2>1, <2>2, <2>6
<1>9. ASSUME NEW t \in Tasks, FindRole(t) PROVE Typed' /\ Lasting
  <2>1. Lasting /\ Tables' /\ Records'
    BY <1>9, Quiet DEF FindRole
  <2>2. CASE \E r \in RoleIds : role[r] = task[t].tenant
    <3>1. PICK r \in RoleIds : /\ role[r] = task[t].tenant
                              /\ Go(t, "findRole", Join("grant", task[t].user, task[t].sub, NoMail,
                                                       task[t].tenant, r))
      BY <1>9, <2>2 DEF FindRole
    <3>2. Join("grant", task[t].user, task[t].sub, NoMail, task[t].tenant, r) \in Task
      BY TaskParts, LocalTask DEF Join
    <3>3. PICK x \in Task :
             /\ x = Join("grant", task[t].user, task[t].sub, NoMail, task[t].tenant, r)
             /\ task' = [task EXCEPT ![t] = x]
      BY <3>1, <3>2 DEF Go
    <3>4. Informed(x)'
      BY <1>9, <3>1, <3>3, TaskParts DEF FindRole, Go, Join, Local, Informed, Exists
    <3>5. Tasked
      BY <2>1, <3>3, <3>4, TaskKept
    <3> QED BY <1>q, <2>1, <3>5
  <2>3. CASE ~\E r \in RoleIds : role[r] = task[t].tenant
    <3>1. Go(t, "findRole", Join("makeRole", task[t].user, task[t].sub, NoMail, task[t].tenant, NoRole))
      BY <1>9, <2>3 DEF FindRole
    <3>2. Join("makeRole", task[t].user, task[t].sub, NoMail, task[t].tenant, NoRole) \in Task
      BY TaskParts, LocalTask DEF Join
    <3>3. PICK x \in Task :
             /\ x = Join("makeRole", task[t].user, task[t].sub, NoMail, task[t].tenant, NoRole)
             /\ task' = [task EXCEPT ![t] = x]
      BY <3>1, <3>2 DEF Go
    <3>4. Informed(x)'
      BY <1>9, <3>1, <3>3, TaskParts DEF FindRole, Go, Join, Local, Informed, Exists
    <3>5. Tasked
      BY <2>1, <3>3, <3>4, TaskKept
    <3> QED BY <1>q, <2>1, <3>5
  <2> QED BY <2>2, <2>3
<1>10. ASSUME NEW t \in Tasks, NEW r \in RoleIds, MakeRole(t, r) PROVE Typed' /\ Lasting
  <2>1. Lasting
    BY <1>10, <1>t, TaskParts, NothingAssumption DEF MakeRole, NewRole, Go, Lasting, Exists, Tables, Records, Row, Is, Informed, links, races, history, AnyTenant
  <2>2. Tables' /\ Records'
    BY <1>10, <1>t, TaskParts DEF MakeRole, NewRole, Go, Tables, Records, Row, Is, Informed, links, races, history
  <2>3. Join("grant", task[t].user, task[t].sub, NoMail, task[t].tenant, r) \in Task
    BY <1>10, <1>t, LocalTask, TaskParts DEF MakeRole, NewRole, Go, Join, AnyTenant, Informed
  <2>4. PICK x \in Task : x = Join("grant", task[t].user, task[t].sub, NoMail, task[t].tenant, r) /\ task' = [task EXCEPT ![t] = x]
    BY <1>10, <2>3 DEF MakeRole, Go
  <2>5. Informed(x)'
    BY <1>10, <1>t, <2>4, TaskParts, NothingAssumption, GoogleMailAssumption DEF MakeRole, NewRole, Go, Join, Local, Informed, Exists, Tables, Row, Is
  <2>6. Tasked
    BY <2>1, <2>4, <2>5, TaskKept
  <2> QED BY <1>q, <2>1, <2>2, <2>6
<1>11. ASSUME NEW t \in Tasks, Grant(t) PROVE Typed' /\ Lasting
  <2>1. task[t].pc = "grant" /\ task[t].user \in People /\ task[t].role \in RoleIds
    BY <1>11, TaskParts DEF Grant, Go, Informed
  <2>2. Lasting /\ Tables' /\ Records'
    BY <1>11, <1>t, <2>1 DEF Grant, Lasting, Exists, Tables, Records, links, races, history
  <2>3. CASE task[t].sub = NoSub
    BY <1>11, <1>q, <2>2, <2>3, TaskEnds DEF Grant, Go
  <2>4. CASE task[t].sub # NoSub
    <3>1. Join("link", task[t].user, task[t].sub, NoMail, NoTenant, NoRole) \in Task
      BY TaskParts, LocalTask DEF Join, AnyTenant
    <3>2. PICK x \in Task :
             /\ x = Join("link", task[t].user, task[t].sub, NoMail, NoTenant, NoRole)
             /\ task' = [task EXCEPT ![t] = x]
      BY <1>11, <2>4, <3>1 DEF Grant, Go
    <3>3. <<task[t].user, task[t].role>> \in granted'
      BY <1>11 DEF Grant
    <3>4. Informed(x)'
      BY <1>11, <2>1, <2>4, <3>2, <3>3, TaskParts DEF Grant, Join, Local, Informed, Exists
    <3>5. Tasked
      BY <2>2, <3>2, <3>4, TaskKept
    <3> QED BY <1>q, <2>2, <3>5
  <2> QED BY <2>3, <2>4
<1>12. ASSUME NEW t \in Tasks, Link(t) \/ Connect(t) PROVE Typed' /\ Lasting
  <2>1. Lasting
    BY <1>12, <1>t DEF Link, Connect, Lasting, Exists, Tables, links, races, history
  <2>2. Tables' /\ Records'
    BY <1>12, <1>t, TaskParts DEF Link, Connect, Go, Tables, Records, Informed, links, races, history
  <2>3. CASE Link(t)
    <3>1. task[t].pc = "link" /\ task[t].user \in People /\ Exists(task[t].user) /\ task[t].sub \in Subs
      BY <2>3, TaskParts DEF Link, Go, Informed
    <3>2. Join("enter", task[t].user, task[t].sub, NoMail, NoTenant, NoRole) \in Task
      BY <3>1, LocalTask DEF Join, AnyTenant
    <3>3. PICK x \in Task :
             /\ x = Join("enter", task[t].user, task[t].sub, NoMail, NoTenant, NoRole)
             /\ task' = [task EXCEPT ![t] = x]
      BY <2>3, <3>2 DEF Link, Go
    <3>4. account'[task[t].sub] = task[t].user
      BY <2>3, <1>t, <3>1 DEF Link, Tables
    <3>5. Informed(x)'
      BY <2>1, <3>1, <3>3, <3>4 DEF Join, Local, Informed, Exists, Lasting
    <3>6. Tasked
      BY <2>1, <3>3, <3>5, TaskKept
    <3> QED BY <1>q, <2>1, <2>2, <3>6
  <2>4. CASE Connect(t)
    BY <1>q, <2>1, <2>2, <2>4, TaskEnds DEF Connect, Go
  <2> QED BY <1>12, <2>3, <2>4
<1>13. ASSUME NEW t \in Tasks, Verify(t) PROVE Typed' /\ Lasting
  <2>1. Lasting
    BY <1>13, <1>t, TaskParts, NothingAssumption DEF Verify, Go, Lasting, Exists, Tables, Records, Row, Informed, links, races, history, AnyTenant
  <2>2. Tables' /\ Records'
    BY <1>13, <1>t, TaskParts DEF Verify, Go, Tables, Records, Row, Informed, links, races, history
  <2>3. Tasked
    BY <1>13, <2>1, TaskEnds DEF Verify, Go
  <2> QED BY <1>q, <2>1, <2>2, <2>3
<1>14. ASSUME NEW t \in Tasks, NEW l \in Links, Issue(t, l) PROVE Typed' /\ Lasting
  <2>1. Lasting
    BY <1>14, <1>t, TaskParts, NothingAssumption DEF Issue, Go, Lasting, Exists, Tables, Records, Row, Informed, links, races, history, AnyTenant
  <2>2. task[t].user \in People /\ row[task[t].user] \in Row
    BY <1>14, <1>t, TaskParts DEF Issue, Go, Tables, Informed
  <2>4. Tables' /\ Records'
    BY <1>14, <1>t, <2>2 DEF Issue, Tables, Records, Row, links, races, history
  <2>3. Tasked
    BY <1>14, <2>1, TaskEnds DEF Issue, Go
  <2> QED BY <1>q, <2>1, <2>4, <2>3
<1>15. ASSUME NEW t \in Tasks, Reset(t) PROVE Typed' /\ Lasting
  <2>1. Lasting
    BY <1>15, <1>t, TaskParts, NothingAssumption DEF Reset, Go, Lasting, Exists, Tables, Records, Row, Informed, links, races, history, AnyTenant
  <2>2. task[t].user \in People /\ row[task[t].user] \in Row /\ task[t].link \in Links
    BY <1>15, <1>t, TaskParts DEF Reset, Go, Tables, Informed
  <2>4. Tables' /\ Records'
    BY <1>15, <1>t, <2>2 DEF Reset, Tables, Records, Row, links, races, history
  <2>3. Tasked
    BY <1>15, <2>1, TaskEnds DEF Reset, Go
  <2> QED BY <1>q, <2>1, <2>4, <2>3
<1>16. ASSUME NEW t \in Tasks, Throw(t) PROVE Typed' /\ Lasting
  <2>1. Lasting
    BY <1>16, <1>t, TaskParts, NothingAssumption DEF Throw, Go, Lasting, Exists, Tables, Records, Row, Informed, links, races, history, AnyTenant
  <2>2. Tables' /\ Records'
    BY <1>16, <1>t, TaskParts DEF Throw, Go, Tables, Records, Row, Informed, links, races, history
  <2>3. Tasked
    BY <1>16, <2>1, TaskEnds DEF Throw, Go
  <2> QED BY <1>q, <2>1, <2>2, <2>3
<1>17. ASSUME NEW t \in Tasks, NEW sub \in Subs, ReturnGoogle(t, sub) PROVE Typed' /\ Lasting
  <2> DEFINE u == account[sub]
  <2>1. Lasting /\ Tables' /\ Records'
    BY <1>17, Quiet DEF ReturnGoogle
  <2>2. u \in People /\ Exists(u)
    BY <1>17, <1>t DEF ReturnGoogle, Tables, Linked
  <2>3. Join("enter", u, sub, NoMail, NoTenant, NoRole) \in Task
    BY <2>2, LocalTask DEF Join, AnyTenant
  <2>4. PICK x \in Task :
           x = Join("enter", u, sub, NoMail, NoTenant, NoRole) /\ task' = [task EXCEPT ![t] = x]
    BY <1>17, <2>3 DEF ReturnGoogle, Start
  <2>5. Informed(x)'
    BY <1>17, <2>1, <2>2, <2>4 DEF ReturnGoogle, Join, Local, Informed, Exists, Lasting
  <2>6. Tasked
    BY <2>1, <2>4, <2>5, TaskKept
  <2> QED BY <1>q, <2>1, <2>6
<1>18. ASSUME NEW t \in Tasks, StartSeed(t) PROVE Typed' /\ Lasting
  <2> DEFINE x == Join("seed", Nobody, NoSub, AdminMail, NoTenant, NoRole)
  <2>1. Lasting /\ Tables' /\ Records'
    BY <1>18, Quiet DEF StartSeed
  <2>2. x \in Task
    BY LocalTask, AdminMailAssumption DEF Join, AnyTenant
  <2>3. task' = [task EXCEPT ![t] = x]
    BY <1>18 DEF StartSeed, Start
  <2>4. Informed(x)'
    BY DEF Join, Local, Informed
  <2> HIDE DEF x
  <2>5. Tasked
    BY <2>1, <2>2, <2>3, <2>4, TaskKept
  <2> QED BY <1>q, <2>1, <2>5
<1>19. ASSUME NEW t \in Tasks, NEW u \in People, Seed(t, u) PROVE Typed' /\ Lasting
  <2>1. Lasting
    BY <1>19, <1>t DEF Seed, Lasting, Exists, Tables, history, links
  <2>2. Is("active", AdminMail, NoTenant, FALSE, NoLink) \in Row
    BY AdminMailAssumption DEF Is, Row, AnyTenant
  <2>3. Tables' /\ Records'
    BY <1>19, <1>t, <2>2 DEF Seed, Tables, Records, history, links, races
  <2>4. Tasked
    BY <1>19, <2>1, TaskEnds DEF Seed, Go
  <2> QED BY <1>q, <2>1, <2>3, <2>4
<1>20. ASSUME NEW t \in Tasks, Enter(t) PROVE Typed' /\ Lasting
  <2>1. Lasting /\ Tables' /\ Records'
    BY <1>20, Quiet DEF Enter
  <2>2. Tasked
    BY <1>20, <2>1, TaskEnds DEF Enter, Go
  <2> QED BY <1>q, <2>1, <2>2
<1>21. ASSUME NEW r \in RoleIds, NEW tenant \in AnyTenant, PostRole(r, tenant)
       PROVE  Typed' /\ Lasting
  <2>1. Lasting
    BY <1>21, <1>t, NothingAssumption DEF PostRole, NewRole, Lasting, Exists, Tables, links, AnyTenant
  <2>2. Tables' /\ Records'
    BY <1>21, <1>t DEF PostRole, NewRole, Tables, Records, links
  <2>3. task' = task
    BY <1>21 DEF PostRole
  <2>4. ASSUME NEW t \in Tasks PROVE Informed(task[t])'
    <3>1. PICK x \in Task : x = task[t] /\ Informed(x)
      BY TaskParts
    <3>2. Informed(x)'
      BY <2>1, <3>1, InformedLasts DEF Typed
    <3>3. task'[t] = x
      BY <2>3, <3>1
    <3> QED BY <3>2, <3>3 DEF Informed, Exists
  <2> QED BY <1>q, <1>t, <2>1, <2>2, <2>3, <2>4 DEF Handlers
<1>22. CASE UNCHANGED accVars
  BY <1>22, Quiet DEF accVars, Typed, AccTypeOK, Tables, Records, Handlers, Informed, Exists,
     history, races, links, Lasting
<1> QED BY <1>1, <1>2, <1>3, <1>4, <1>5, <1>6, <1>7, <1>8, <1>9, <1>10, <1>11, <1>12, <1>13, <1>14,
           <1>15, <1>16, <1>17, <1>18, <1>19, <1>20, <1>21, <1>22 DEF AccNext, Begin, Step
-------------------------------------------------------------------------------
(* No two users share an e-mail; a user that a Google login has created    *)
(* has its e-mail; default roles are of the tenant; an account that a      *)
(* login has linked is that of a user with the e-mail and the role.        *)
MailsDiffer ==
    \A u, v \in People : row[u].mail # NoMail /\ row[u].mail = row[v].mail => u = v
BornWithMail == \A u \in People : born[u] # NoSub => row[u].mail = GoogleMail[born[u]]
Granted ==
    \A u \in People, r \in RoleIds :
        <<u, r>> \in granted => role[r] # Absent /\ row[u].tenant \in {NoTenant, role[r]}
Entered ==
    \A sub \in Subs \ connected : account[sub] # Nobody =>
        /\ account[sub] \in People
        /\ GoogleMail[sub] # NoMail => row[account[sub]].mail = GoogleMail[sub]
        /\ \E r \in RoleIds : <<account[sub], r>> \in granted
Naming == Ghosts /\ Linked /\ MailsDiffer /\ BornWithMail /\ Granted /\ Entered

(* A step that writes no row, account, role or link of these.              *)
LEMMA NamingStays ==
    ASSUME Naming, UNCHANGED <<row, account, role, granted, born, connected>>
    PROVE  Naming'
BY DEF Naming, Ghosts, Linked, MailsDiffer, BornWithMail, Granted, Entered, Exists

(* A step that changes of the rows only what does not name a user.         *)
LEMMA NamingKept ==
    ASSUME Typed, Naming, UNCHANGED <<account, role, granted, born, connected>>,
           NEW u \in People, Exists(u),
           NEW y \in Row, row' = [row EXCEPT ![u] = y],
           y.state # "none", y.mail = row[u].mail, y.tenant = row[u].tenant
    PROVE  Naming'
<1>1. row \in [People -> Row] /\ account \in [Subs -> People \cup {Nobody}]
  BY DEF Typed, AccTypeOK
<1>2. \A v \in People : /\ row'[v].mail = row[v].mail /\ row'[v].tenant = row[v].tenant
                        /\ row'[v].state = "none" => row'[v] = row[v]
  BY <1>1
<1>3. Ghosts'
  BY <1>1, <1>2 DEF Naming, Ghosts, Exists
<1>4. MailsDiffer' /\ BornWithMail' /\ Granted' /\ Entered'
  BY <1>1, <1>2 DEF Naming, MailsDiffer, BornWithMail, Granted, Entered
<1>5. Linked'
  BY <1>1, <1>2 DEF Naming, Linked, Exists
<1> QED BY <1>3, <1>4, <1>5 DEF Naming

LEMMA NamingStep == Typed /\ Naming /\ [AccNext]_accVars => Naming'
<1> SUFFICES ASSUME Typed, Naming, [AccNext]_accVars PROVE Naming'
  OBVIOUS
<1>t. Tables /\ Records
  BY DEF Typed, AccTypeOK, Tables, Records
<1>1. ASSUME NEW t \in Tasks, NEW u \in People, CreateUser(t, u) PROVE Naming'
  <2>1. PICK byLink \in BOOLEAN :
           row' = [row EXCEPT ![u] =
              Is(IF task[t].sub = NoSub THEN "pending" ELSE "active",
                 task[t].mail, task[t].tenant, byLink, NoLink)]
    BY <1>1 DEF CreateUser
  <2>2. /\ row'[u].state # "none" /\ row'[u].mail = task[t].mail
        /\ \A v \in People \ {u} : row'[v] = row[v]
    BY <1>t, <2>1 DEF Tables, Is
  <2>3. /\ ~Exists(u) /\ ~Taken(task[t].mail) /\ task[t].pc = "create"
        /\ born' = [born EXCEPT ![u] = task[t].sub]
        /\ UNCHANGED <<account, role, granted, connected>>
    BY <1>1 DEF CreateUser, Go, races, links
  <2>4. Ghosts'
    BY <1>t, <2>2, <2>3 DEF Naming, Ghosts, Exists, Records
  <2>5. MailsDiffer'
    BY <2>2, <2>3 DEF Naming, MailsDiffer, Taken
  <2>6. BornWithMail'
    BY <1>t, <2>2, <2>3, TaskParts DEF Naming, BornWithMail, Informed, Records
  <2>7. Granted'
    BY <2>2, <2>3 DEF Naming, Granted, Ghosts
  <2>8. Entered'
    <3>1. ASSUME NEW sub \in Subs \ connected, account[sub] # Nobody PROVE account[sub] # u
      BY <2>3, <3>1 DEF Naming, Entered, Ghosts
    <3> QED BY <2>2, <2>3, <3>1 DEF Naming, Entered
  <2>9. Linked'
    <3>1. \A sub \in Subs : account[sub] # Nobody => account[sub] \in People \ {u}
      BY <1>t, <2>3 DEF Naming, Linked, Tables
    <3> QED BY <2>2, <2>3, <3>1 DEF Naming, Linked, Exists
  <2> QED BY <2>4, <2>5, <2>6, <2>7, <2>8, <2>9 DEF Naming
<1>2. ASSUME NEW t \in Tasks, NEW r \in RoleIds, MakeRole(t, r) PROVE Naming'
  <2>1. /\ role[r] = Absent /\ role' = [role EXCEPT ![r] = task[t].tenant]
        /\ UNCHANGED <<row, account, granted, born, connected>>
    BY <1>2 DEF MakeRole, NewRole, links
  <2>2. \A x \in RoleIds : role[x] # Absent => role'[x] = role[x]
    BY <1>t, <2>1 DEF Tables
  <2> QED BY <2>1, <2>2 DEF Naming, Ghosts, Linked, MailsDiffer, BornWithMail, Granted, Entered, Exists
<1>3. ASSUME NEW t \in Tasks, Grant(t) PROVE Naming'
  <2>1. /\ granted' = granted \cup {<<task[t].user, task[t].role>>}
        /\ UNCHANGED <<row, account, role, born, connected>>
    BY <1>3 DEF Grant, history
  <2>2. /\ task[t].user \in People /\ Exists(task[t].user)
        /\ task[t].role \in RoleIds /\ role[task[t].role] # Absent
        /\ row[task[t].user].tenant \in {NoTenant, role[task[t].role]}
    BY <1>3, TaskParts, NothingAssumption DEF Grant, Go, Informed, AnyTenant
  <2> QED BY <2>1, <2>2 DEF Naming, Ghosts, Linked, MailsDiffer, BornWithMail, Granted, Entered, Exists
<1>4. ASSUME NEW t \in Tasks, Link(t) PROVE Naming'
  <2>1. /\ account[task[t].sub] = Nobody
        /\ account' = [account EXCEPT ![task[t].sub] = task[t].user]
        /\ UNCHANGED <<row, role, granted, born, connected>>
    BY <1>4 DEF Link, history
  <2>2. /\ task[t].user \in People /\ task[t].sub \in Subs
        /\ GoogleMail[task[t].sub] # NoMail => row[task[t].user].mail = GoogleMail[task[t].sub]
        /\ \E r \in RoleIds : <<task[t].user, r>> \in granted
    BY <1>4, TaskParts, NothingAssumption DEF Link, Go, Informed
  <2>3. \A sub \in Subs : sub # task[t].sub => account'[sub] = account[sub]
    BY <1>t, <2>1 DEF Tables, Records
  <2>4. account'[task[t].sub] = task[t].user
    BY <1>t, <2>1, <2>2 DEF Tables
  <2>5. Entered'
    BY <2>1, <2>2, <2>3, <2>4 DEF Naming, Entered
  <2>6. Linked'
    BY <1>t, <1>4, <2>1, TaskParts DEF Naming, Linked, Exists, Tables, Link, Go, Informed
  <2> QED BY <2>1, <2>5, <2>6 DEF Naming, Ghosts, MailsDiffer, BornWithMail, Granted, Exists
<1>5. ASSUME NEW t \in Tasks, Connect(t) PROVE Naming'
  <2>1. /\ account[task[t].sub] = Nobody
        /\ account' = [account EXCEPT ![task[t].sub] = task[t].user]
        /\ connected' = connected \cup {task[t].sub}
        /\ UNCHANGED <<row, role, granted, born>>
    BY <1>5 DEF Connect
  <2>2. \A sub \in Subs \ connected' : sub \notin connected /\ account'[sub] = account[sub]
    BY <1>t, <2>1 DEF Tables
  <2>3. Linked'
    BY <1>t, <1>5, <2>1, TaskParts DEF Naming, Linked, Exists, Tables, Connect, Go, Informed
  <2> QED BY <2>1, <2>2, <2>3 DEF Naming, Ghosts, MailsDiffer, BornWithMail, Granted, Entered, Exists
<1>6. ASSUME NEW t \in Tasks, Verify(t) PROVE Naming'
  <2> DEFINE u == task[t].user
  <2>1. u \in People /\ Exists(u) /\ row[u] \in Row
    BY <1>6, <1>t, TaskParts DEF Verify, Informed, Tables
  <2>2. PICK y \in Row : /\ row' = [row EXCEPT ![u] = y]
                        /\ y.state # "none" /\ y.mail = row[u].mail /\ y.tenant = row[u].tenant
    <3>1. PICK token \in {FALSE, row[u].verify} :
             row' = [row EXCEPT ![u].state = "active", ![u].verify = token]
      BY <1>6 DEF Verify
    <3> DEFINE y == [row[u] EXCEPT !.state = "active", !.verify = token]
    <3>2. y \in Row /\ y.state # "none" /\ y.mail = row[u].mail /\ y.tenant = row[u].tenant
      BY <2>1, <3>1 DEF Row
    <3>3. row' = [row EXCEPT ![u] = y]
      BY <1>t, <2>1, <3>1 DEF Tables, Row
    <3> QED BY <3>2, <3>3
  <2>3. UNCHANGED <<account, role, granted, born, connected>>
    BY <1>6 DEF Verify, history
  <2> QED BY <2>1, <2>2, <2>3, NamingKept
<1>7. ASSUME NEW t \in Tasks, NEW l \in Links \cup {NoLink},
             row' = [row EXCEPT ![task[t].user].reset = l],
             task[t].pc \in {"issue", "reset"},
             UNCHANGED <<account, role, granted, born, connected>>
      PROVE  Naming'
  <2> DEFINE u == task[t].user
  <2>1. u \in People /\ Exists(u) /\ row[u] \in Row
    BY <1>7, <1>t, TaskParts DEF Informed, Tables
  <2> DEFINE y == [row[u] EXCEPT !.reset = l]
  <2>2. y \in Row /\ row' = [row EXCEPT ![u] = y]
    BY <1>7, <1>t, <2>1 DEF Tables, Row
  <2>3. y.state # "none" /\ y.mail = row[u].mail /\ y.tenant = row[u].tenant
    BY <2>1 DEF Row, Exists
  <2>4. PICK v \in People, z \in Row : v = u /\ z = y
    BY <2>1, <2>2
  <2> HIDE DEF u, y
  <2> QED BY <1>7, <2>1, <2>2, <2>3, <2>4, NamingKept
<1>8. ASSUME NEW t \in Tasks, NEW l \in Links, Issue(t, l) PROVE Naming'
  BY <1>8, <1>7 DEF Issue, Go
<1>9. ASSUME NEW t \in Tasks, Reset(t) PROVE Naming'
  BY <1>9, <1>7 DEF Reset, Go
<1>10. ASSUME NEW t \in Tasks, Begin(t) \/ Lookup(t) \/ FindRole(t) \/ Enter(t) \/ Throw(t)
       PROVE  Naming'
  BY <1>10, NamingStays DEF Begin, StartRegister, StartGoogle, ReturnGoogle, StartSeed, StartConnect,
     StartVerify, StartIssue, StartReset, Lookup, FindRole, Enter, Throw, history
<1>11. ASSUME NEW t \in Tasks, NEW u \in People, Seed(t, u) PROVE Naming'
  <2>1. /\ ~Exists(u) /\ ~Taken(AdminMail)
        /\ row' = [row EXCEPT ![u] = Is("active", AdminMail, NoTenant, FALSE, NoLink)]
        /\ UNCHANGED <<account, role, granted, born, connected>>
    BY <1>11 DEF Seed, history
  <2>2. /\ row'[u].state # "none" /\ row'[u].mail = AdminMail
        /\ \A v \in People \ {u} : row'[v] = row[v]
    BY <1>t, <2>1 DEF Tables, Is
  <2>3. Ghosts'
    BY <2>1, <2>2 DEF Naming, Ghosts, Exists
  <2>4. Linked'
    <3>1. \A sub \in Subs : account[sub] # Nobody => account[sub] \in People \ {u}
      BY <1>t, <2>1 DEF Naming, Linked, Tables
    <3> QED BY <2>1, <2>2, <3>1 DEF Naming, Linked, Exists
  <2>5. \A v \in People : row[v].mail # AdminMail
    BY <2>1, AdminMailAssumption, NothingAssumption DEF Taken
  <2>6. MailsDiffer'
    <3>1. MailsDiffer
      BY DEF Naming
    <3> QED BY <2>2, <2>5, <3>1 DEF MailsDiffer
  <2>7. BornWithMail' /\ Granted'
    BY <2>1, <2>2, NothingAssumption DEF Naming, BornWithMail, Granted, Ghosts
  <2>8. Entered'
    <3>1. ASSUME NEW sub \in Subs \ connected, account[sub] # Nobody
          PROVE  account[sub] \in People \ {u}
      BY <2>1, <3>1 DEF Naming, Entered, Ghosts
    <3>2. ASSUME NEW sub \in Subs \ connected, account[sub] # Nobody
          PROVE  row'[account[sub]] = row[account[sub]]
      BY <2>2, <3>1, <3>2
    <3>3. connected' = connected /\ account' = account /\ granted' = granted
      BY <2>1
    <3>4. Entered
      BY DEF Naming
    <3> QED BY <3>1, <3>2, <3>3, <3>4 DEF Entered
  <2> QED BY <2>3, <2>4, <2>6, <2>7, <2>8 DEF Naming
<1>12. ASSUME NEW r \in RoleIds, NEW tenant \in AnyTenant, PostRole(r, tenant) PROVE Naming'
  <2>1. /\ role[r] = Absent /\ role' = [role EXCEPT ![r] = tenant]
        /\ UNCHANGED <<row, account, granted, born, connected>>
    BY <1>12 DEF PostRole, NewRole, links
  <2>2. \A x \in RoleIds : role[x] # Absent => role'[x] = role[x]
    BY <1>t, <2>1 DEF Tables
  <2> QED BY <2>1, <2>2 DEF Naming, Ghosts, Linked, MailsDiffer, BornWithMail, Granted, Entered, Exists
<1>13. CASE UNCHANGED accVars
  BY <1>13, NamingStays DEF accVars, history
<1> QED BY <1>1, <1>2, <1>3, <1>4, <1>5, <1>6, <1>8, <1>9, <1>10, <1>11, <1>12, <1>13 DEF AccNext, Step
-------------------------------------------------------------------------------
(* Links are made in their order, one that has set a password was made,    *)
(* and the newest of a user is on its row.                                 *)
InOrder == \A k, l \in Links : k < l /\ issued[l] # Nobody => issued[k] # Nobody
SpentWereMade == \A l \in spent : issued[l] # Nobody
Tokens == OwnLinks /\ InOrder /\ SpentWereMade /\ SpentLinksGone /\ NewestLinkWorks

LEMMA TokensStay ==
    ASSUME Tokens, UNCHANGED links, \A u \in People : row'[u].reset = row[u].reset,
           issued \in [Links -> People \cup {Nobody}]
    PROVE  Tokens'
BY DEF Tokens, OwnLinks, InOrder, SpentWereMade, SpentLinksGone, NewestLinkWorks, links

LEMMA TokensStep == Typed /\ Ghosts /\ Tokens /\ [AccNext]_accVars => Tokens'
<1> SUFFICES ASSUME Typed, Ghosts, Tokens, [AccNext]_accVars PROVE Tokens'
  OBVIOUS
<1>t. Tables /\ Records
  BY DEF Typed, AccTypeOK, Tables, Records
<1>l. NoLink \notin Links /\ Nobody \notin People /\ Links \subseteq Nat
  BY NothingAssumption, LinksAssumption
<1>k. \A u \in People : row[u] \in Row /\ row[u].reset \in Links \cup {NoLink}
  BY <1>t DEF Tables, Row
<1>1. ASSUME NEW t \in Tasks, NEW u \in People, CreateUser(t, u) PROVE Tokens'
  <2>1. PICK y : y.reset = NoLink /\ row' = [row EXCEPT ![u] = y]
    BY <1>1 DEF CreateUser, Is
  <2>2. row[u].reset = NoLink
    BY <1>1 DEF CreateUser, Ghosts
  <2> QED BY <1>1, <1>t, <2>1, <2>2, TokensStay DEF CreateUser, Tables, Records
<1>2. ASSUME NEW t \in Tasks, Verify(t) PROVE Tokens'
  <2>1. task[t].user \in People
    BY <1>2, TaskParts DEF Verify, Informed
  <2>2. \A u \in People : row'[u].reset = row[u].reset
    BY <1>2, <1>t, <1>k, <2>1 DEF Verify, Tables, Row
  <2> QED BY <1>2, <1>t, <2>2, TokensStay DEF Verify, history, Records
<1>3. ASSUME NEW t \in Tasks, NEW l \in Links, Issue(t, l) PROVE Tokens'
  <2> DEFINE u == task[t].user
  <2>1. /\ u \in People /\ issued[l] = Nobody
        /\ \A k \in Links : k < l => issued[k] # Nobody
        /\ row' = [row EXCEPT ![u].reset = l] /\ issued' = [issued EXCEPT ![l] = u]
        /\ spent' = spent /\ wiped' = wiped
    BY <1>3, TaskParts DEF Issue, Go, Informed
  <2>2. /\ row'[u].reset = l
        /\ \A v \in People : v # u => row'[v].reset = row[v].reset
    BY <1>t, <1>k, <2>1 DEF Tables, Row
  <2>3. /\ issued'[l] = u
        /\ \A k \in Links : k # l => issued'[k] = issued[k]
    BY <1>t, <2>1 DEF Records
  <2> HIDE DEF u
  <2>4. \A k \in Links : k > l => issued[k] = Nobody
    BY <1>l, <2>1 DEF Tokens, InOrder
  <2>5. OwnLinks'
    BY <1>k, <1>l, <2>1, <2>2, <2>3 DEF Tokens, OwnLinks
  <2>6. InOrder'
    BY <1>l, <2>1, <2>3, <2>4 DEF Tokens, InOrder
  <2>7. SpentWereMade' /\ l \notin spent
    BY <1>t, <1>l, <2>1, <2>3 DEF Tokens, SpentWereMade, Records
  <2>8. SpentLinksGone'
    BY <2>1, <2>2, <2>7 DEF Tokens, SpentLinksGone
  <2>9. NewestLinkWorks'
    <3> SUFFICES ASSUME NEW k \in Links, issued'[k] # Nobody,
                        \A n \in Links : issued'[n] = issued'[k] => n <= k
                 PROVE  row'[issued'[k]].reset = k \/ k \in spent' \cup wiped'
      BY DEF NewestLinkWorks
    <3>1. CASE k = l
      BY <2>2, <2>3, <3>1
    <3>2. CASE k # l
      <4>1. issued[k] # Nobody /\ k < l
        BY <1>l, <2>3, <2>4, <3>2
      <4>2. issued[k] # u /\ issued[k] \in People
        BY <1>t, <1>l, <2>3, <3>2, <4>1 DEF Records
      <4>3. \A n \in Links : issued[n] = issued[k] => n <= k
        BY <2>1, <2>3, <3>2, <4>1
      <4>4. row[issued[k]].reset = k \/ k \in spent \cup wiped
        BY <4>1, <4>3 DEF Tokens, NewestLinkWorks
      <4> QED BY <2>1, <2>2, <2>3, <3>2, <4>2, <4>4
    <3> QED BY <3>1, <3>2
  <2> QED BY <2>5, <2>6, <2>7, <2>8, <2>9 DEF Tokens
<1>4. ASSUME NEW t \in Tasks, Reset(t) PROVE Tokens'
  <2> DEFINE u == task[t].user
             l == task[t].link
  <2>1. /\ u \in People /\ l \in Links /\ issued[l] = u
        /\ row' = [row EXCEPT ![u].reset = NoLink] /\ issued' = issued
        /\ spent' = spent \cup {l}
        /\ wiped' = wiped \cup ({row[u].reset} \ {l, NoLink})
    BY <1>4, TaskParts DEF Reset, Go, Informed
  <2>2. /\ row'[u].reset = NoLink
        /\ \A v \in People : v # u => row'[v].reset = row[v].reset
    BY <1>t, <1>k, <2>1 DEF Tables, Row
  <2> HIDE DEF u, l
  <2>3. OwnLinks' /\ InOrder'
    BY <2>1, <2>2 DEF Tokens, OwnLinks, InOrder
  <2>4. SpentWereMade'
    BY <1>l, <2>1 DEF Tokens, SpentWereMade
  <2>5. SpentLinksGone'
    <3>1. NoLink \notin spent'
      BY <1>t, <1>l, <2>1 DEF Records
    <3>2. ASSUME NEW v \in People, v # u PROVE row'[v].reset \notin spent'
      BY <1>k, <1>l, <2>1, <2>2, <3>2 DEF Tokens, SpentLinksGone, OwnLinks
    <3> QED BY <2>2, <3>1, <3>2 DEF SpentLinksGone
  <2>6. NewestLinkWorks'
    BY <1>k, <1>l, <2>1, <2>2 DEF Tokens, NewestLinkWorks
  <2> QED BY <2>3, <2>4, <2>5, <2>6 DEF Tokens
<1>5. ASSUME UNCHANGED <<row, links>> PROVE Tokens'
  BY <1>5, <1>t, TokensStay DEF Records
<1>6. ASSUME NEW t \in Tasks,
             Begin(t) \/ Lookup(t) \/ FindRole(t) \/ Grant(t) \/ Enter(t) \/ Link(t)
      PROVE  Tokens'
  BY <1>6, <1>5 DEF Begin, StartRegister, StartGoogle, ReturnGoogle, StartSeed, StartConnect,
     StartVerify, StartIssue, StartReset, Lookup, FindRole, Grant, Enter, Link, history
<1>7. ASSUME NEW t \in Tasks, Throw(t) \/ Connect(t) \/ \E r \in RoleIds : MakeRole(t, r) PROVE Tokens'
  BY <1>7, <1>5 DEF Throw, Connect, MakeRole
<1>8. ASSUME NEW t \in Tasks, NEW u \in People, Seed(t, u) PROVE Tokens'
  <2>1. PICK y : y.reset = NoLink /\ row' = [row EXCEPT ![u] = y]
    BY <1>8 DEF Seed, Is
  <2>2. row[u].reset = NoLink
    BY <1>8 DEF Seed, Ghosts
  <2> QED BY <1>8, <1>t, <2>1, <2>2, TokensStay DEF Seed, Tables, Records, history
<1>9. ASSUME NEW r \in RoleIds, NEW tenant \in AnyTenant, PostRole(r, tenant) PROVE Tokens'
  BY <1>9, <1>5 DEF PostRole
<1>10. CASE UNCHANGED accVars
  BY <1>10, <1>5 DEF accVars, history
<1> QED BY <1>1, <1>2, <1>3, <1>4, <1>6, <1>7, <1>8, <1>9, <1>10 DEF AccNext, Step
-------------------------------------------------------------------------------
(* A handler about to make a role without a tenant is marked as soon as    *)
(* there is one.                                                           *)
Marked ==
    \A t \in Tasks :
        /\ task[t].pc = "makeRole" /\ task[t].tenant = NoTenant
        /\ \E r \in RoleIds : role[r] = NoTenant
        => racing[t]

LEMMA RacesStep ==
    Typed /\ Marked /\ SecondRoleTakesRace /\ [AccNext]_accVars
        => Marked' /\ SecondRoleTakesRace'
<1> SUFFICES ASSUME Typed, Marked, SecondRoleTakesRace, [AccNext]_accVars
             PROVE  Marked' /\ SecondRoleTakesRace'
  OBVIOUS
<1>t. Tables /\ Records /\ task \in [Tasks -> Task]
  BY DEF Typed, AccTypeOK, Tables, Records
<1>1. ASSUME NEW t \in Tasks, NEW x,
             task' = [task EXCEPT ![t] = x], x.pc # "makeRole",
             UNCHANGED <<role, raced, posted>>,
             \A s \in Tasks \ {t} : racing'[s] = racing[s]
      PROVE  Marked' /\ SecondRoleTakesRace'
  BY <1>1, <1>t DEF Marked, SecondRoleTakesRace
<1>2. ASSUME NEW t \in Tasks, Begin(t) PROVE Marked' /\ SecondRoleTakesRace'
  <2>1. \E x : task' = [task EXCEPT ![t] = x] /\ x.pc # "makeRole"
    BY <1>2 DEF Begin, StartRegister, StartGoogle, ReturnGoogle, StartSeed, StartConnect, StartVerify,
       StartIssue, StartReset, Start, Join, Recover, Local
  <2>2. UNCHANGED <<role, raced, racing, posted>>
    BY <1>2 DEF Begin, StartRegister, StartGoogle, ReturnGoogle, StartSeed, StartConnect, StartVerify,
       StartIssue, StartReset, history, races
  <2> QED BY <1>1, <2>1, <2>2
<1>3. ASSUME NEW t \in Tasks,
             Lookup(t) \/ Grant(t) \/ Link(t) \/ Enter(t) \/ Connect(t) \/ Verify(t) \/ Reset(t)
      PROVE  Marked' /\ SecondRoleTakesRace'
  <2>1. \E x : task' = [task EXCEPT ![t] = x] /\ x.pc # "makeRole"
    BY <1>3 DEF Lookup, Grant, Link, Enter, Connect, Verify, Reset, Go, Rest, Join, Recover, Local
  <2>2. UNCHANGED <<role, raced, racing, posted>>
    BY <1>3 DEF Lookup, Grant, Link, Enter, Connect, Verify, Reset, history, races
  <2> QED BY <1>1, <2>1, <2>2
<1>4. ASSUME NEW t \in Tasks,
             (\E u \in People : CreateUser(t, u) \/ Seed(t, u)) \/ \E l \in Links : Issue(t, l)
      PROVE  Marked' /\ SecondRoleTakesRace'
  <2>1. \E x : task' = [task EXCEPT ![t] = x] /\ x.pc # "makeRole"
    BY <1>4 DEF CreateUser, Seed, Issue, Go, Rest, Join, Recover, Local
  <2>2. UNCHANGED <<role, raced, racing, posted>>
    BY <1>4 DEF CreateUser, Seed, Issue, history, races
  <2> QED BY <1>1, <2>1, <2>2
<1>5. ASSUME NEW t \in Tasks, Throw(t) PROVE Marked' /\ SecondRoleTakesRace'
  <2>1. /\ task' = [task EXCEPT ![t] = Rest] /\ Rest.pc # "makeRole"
        /\ racing' = [racing EXCEPT ![t] = FALSE] /\ UNCHANGED <<role, raced, posted>>
    BY <1>5, RestTask DEF Throw
  <2>2. \A s \in Tasks \ {t} : racing'[s] = racing[s]
    BY <1>t, <2>1 DEF Records
  <2> QED BY <1>1, <2>1, <2>2
<1>6. ASSUME NEW t \in Tasks, FindRole(t) PROVE Marked' /\ SecondRoleTakesRace'
  <2>1. UNCHANGED <<role, raced, racing, posted>>
    BY <1>6 DEF FindRole, history, races
  <2>2. CASE \E r \in RoleIds : role[r] = task[t].tenant
    <3>1. \E x : task' = [task EXCEPT ![t] = x] /\ x.pc # "makeRole"
      BY <1>6, <2>2 DEF FindRole, Go, Join, Local
    <3> QED BY <1>1, <2>1, <3>1
  <2>3. CASE ~\E r \in RoleIds : role[r] = task[t].tenant
    <3>1. PICK x : task' = [task EXCEPT ![t] = x] /\ x.tenant = task[t].tenant
      BY <1>6, <2>3 DEF FindRole, Go, Join, Local
    <3> QED BY <1>t, <2>1, <2>3, <3>1 DEF Marked, SecondRoleTakesRace
  <2> QED BY <2>2, <2>3
<1>7. ASSUME NEW t \in Tasks, NEW r \in RoleIds, MakeRole(t, r)
      PROVE  Marked' /\ SecondRoleTakesRace'
  <2>1. /\ task[t].pc = "makeRole" /\ role[r] = Absent
        /\ role' = [role EXCEPT ![r] = task[t].tenant]
        /\ raced' = IF racing[t] THEN raced \cup {r} ELSE raced
        /\ racing' = [x \in Tasks |-> x # t /\ (racing[x] \/ x \in Overtaken(task[t].tenant))]
        /\ posted' = posted
    BY <1>7 DEF MakeRole, NewRole, Go
  <2>2. PICK x : task' = [task EXCEPT ![t] = x] /\ x.pc = "grant"
    <3>1. task' = [task EXCEPT ![t] = Join("grant", task[t].user, task[t].sub, NoMail, task[t].tenant, r)]
      BY <1>7 DEF MakeRole, Go
    <3>2. Join("grant", task[t].user, task[t].sub, NoMail, task[t].tenant, r).pc = "grant"
      BY DEF Join, Local
    <3> QED BY <3>1, <3>2
  <2>3. ASSUME NEW s \in Tasks, task'[s].pc = "makeRole", task'[s].tenant = NoTenant,
               \E q \in RoleIds : role'[q] = NoTenant
        PROVE  racing'[s]
    <3>1. s # t /\ task'[s] = task[s]
      BY <1>t, <2>2, <2>3
    <3>2. CASE task[t].tenant = NoTenant
      BY <2>1, <2>3, <3>1, <3>2 DEF Overtaken
    <3>3. CASE task[t].tenant # NoTenant
      <4>1. \E q \in RoleIds : role[q] = NoTenant
        BY <1>t, <2>1, <2>3, <3>3 DEF Tables
      <4>2. racing[s]
        BY <2>3, <3>1, <4>1 DEF Marked
      <4> QED BY <2>1, <3>1, <4>2
    <3> QED BY <3>2, <3>3
  <2>4. ASSUME NEW a \in RoleIds, NEW b \in RoleIds, role'[a] = NoTenant, role'[b] = NoTenant, a # b
        PROVE  a \in raced' \/ b \in raced' \/ a \in posted' \/ b \in posted'
    <3>1. CASE a # r /\ b # r
      BY <1>t, <2>1, <2>4, <3>1 DEF Tables, SecondRoleTakesRace
    <3>2. CASE a = r \/ b = r
      <4>1. task[t].tenant = NoTenant /\ \E q \in RoleIds : role[q] = NoTenant
        BY <1>t, <2>1, <2>4, <3>2 DEF Tables
      <4>2. racing[t]
        BY <2>1, <4>1 DEF Marked
      <4> QED BY <2>1, <3>2, <4>2
    <3> QED BY <3>1, <3>2
  <2>5. Marked'
    BY <2>3 DEF Marked
  <2> QED BY <2>4, <2>5 DEF SecondRoleTakesRace
<1>8. ASSUME NEW r \in RoleIds, NEW tenant \in AnyTenant, PostRole(r, tenant)
      PROVE  Marked' /\ SecondRoleTakesRace'
  <2>1. /\ role' = [role EXCEPT ![r] = tenant] /\ posted' = posted \cup {r}
        /\ racing' = [x \in Tasks |-> racing[x] \/ x \in Overtaken(tenant)]
        /\ UNCHANGED <<task, raced>>
    BY <1>8 DEF PostRole, NewRole
  <2>2. \A q \in RoleIds : q # r => role'[q] = role[q]
    BY <1>t, <2>1 DEF Tables
  <2>3. ASSUME NEW s \in Tasks, task'[s].pc = "makeRole", task'[s].tenant = NoTenant,
               NEW q \in RoleIds, role'[q] = NoTenant
        PROVE  racing'[s]
    <3>1. CASE tenant = NoTenant
      BY <2>1, <2>3, <3>1 DEF Overtaken
    <3>2. CASE tenant # NoTenant
      <4>1. role[q] = NoTenant
        BY <1>t, <2>1, <2>2, <2>3, <3>2 DEF Tables
      <4>2. racing[s]
        BY <2>1, <2>3, <4>1 DEF Marked
      <4> QED BY <2>1, <4>2
    <3> QED BY <3>1, <3>2
  <2>4. Marked'
    BY <2>3 DEF Marked
  <2>5. SecondRoleTakesRace'
    BY <2>1, <2>2 DEF SecondRoleTakesRace
  <2> QED BY <2>4, <2>5
<1>9. CASE UNCHANGED accVars
  BY <1>9 DEF accVars, history, races, Marked, SecondRoleTakesRace
<1> QED BY <1>2, <1>3, <1>4, <1>5, <1>6, <1>7, <1>8, <1>9 DEF AccNext, Step
-------------------------------------------------------------------------------
(* The parts together. *)
AccInv == Typed /\ Naming /\ Tokens /\ Marked /\ SecondRoleTakesRace

(* They hold of the initial state and every step keeps them. *)
LEMMA AccInvariant == AccSpec => []AccInv
<1>1. AccInit => AccInv
  <2> SUFFICES ASSUME AccInit PROVE AccInv
    OBVIOUS
  <2>1. AccTypeOK
    <3>1. Is("none", NoMail, NoTenant, FALSE, NoLink) \in Row
      BY DEF Is, Row, AnyTenant
    <3> QED BY <3>1, RestTask DEF AccInit, AccTypeOK
  <2>2. \A t \in Tasks : task[t].pc = "idle"
    BY RestTask DEF AccInit
  <2>3. Handlers /\ Marked
    BY <2>2 DEF Handlers, Informed, Marked
  <2>4. \A u \in People : /\ row[u].mail = NoMail /\ row[u].reset = NoLink /\ ~row[u].verify
                          /\ born[u] = NoSub
    BY DEF AccInit, Is
  <2>5. Naming
    BY <2>4 DEF AccInit, Naming, Ghosts, Linked, MailsDiffer, BornWithMail, Granted, Entered
  <2>6. Tokens
    BY <2>4, NothingAssumption DEF AccInit, Tokens, OwnLinks, InOrder, SpentWereMade, SpentLinksGone,
       NewestLinkWorks
  <2>7. SecondRoleTakesRace
    BY NothingAssumption DEF AccInit, SecondRoleTakesRace
  <2> QED BY <2>1, <2>3, <2>5, <2>6, <2>7 DEF AccInv, Typed
<1>2. AccInv /\ [AccNext]_accVars => AccInv'
  BY TypedStep, NamingStep, TokensStep, RacesStep DEF AccInv, Naming, Tokens
<1> QED BY <1>1, <1>2, PTL DEF AccSpec

(* The tables and the handlers keep their types.                           *)
THEOREM AccountTyped == AccSpec => []AccTypeOK
BY AccInvariant, PTL DEF AccInv, Typed

(* However logins, registrations and connections interleave, fail and are  *)
(* retried, a user that a Google login created stays within reach of that  *)
(* Google account, if it shows an e-mail and nobody has connected it.      *)
THEOREM GoogleCorrect == AccSpec => []GoogleFindsItsUser
<1>1. AccInv => GoogleFindsItsUser
  <2> SUFFICES ASSUME AccInv, NEW u \in People, born[u] # NoSub, GoogleMail[born[u]] # NoMail
               PROVE  IF account[born[u]] # Nobody /\ born[u] \notin connected
                      THEN account[born[u]] = u ELSE row[u].mail = GoogleMail[born[u]]
    BY DEF GoogleFindsItsUser
  <2>1. row[u].mail = GoogleMail[born[u]] /\ born[u] \in Subs
    BY DEF AccInv, Typed, AccTypeOK, Naming, BornWithMail
  <2>2. ASSUME account[born[u]] # Nobody, born[u] \notin connected PROVE account[born[u]] = u
    BY <2>1, <2>2 DEF AccInv, Naming, Entered, MailsDiffer
  <2> QED BY <2>1, <2>2
<1> QED BY <1>1, AccInvariant, PTL

(* No Google login comes to its session without the default role, but of   *)
(* an account that connectProvider has linked.                             *)
THEOREM GoogleRoleCorrect == AccSpec => []GoogleUsersHaveRole
<1>1. AccInv => GoogleUsersHaveRole
  <2> SUFFICES ASSUME AccInv, NEW t \in Tasks, task[t].pc = "enter", task[t].sub \notin connected
               PROVE  \E r \in RoleIds : <<task[t].user, r>> \in granted
    BY DEF GoogleUsersHaveRole
  <2>1. task[t].sub \in Subs /\ account[task[t].sub] = task[t].user /\ task[t].user \in People
    BY TaskParts DEF AccInv, Informed
  <2> QED BY <2>1, NothingAssumption DEF AccInv, Naming, Entered
<1> QED BY <1>1, AccInvariant, PTL

(* A Google login that gets to its session finds the account it has linked *)
(* or found before, and its user.                                          *)
THEOREM LoginCorrect == AccSpec => []LoginKeepsUser
<1>1. AccInv => LoginKeepsUser
  BY DEF AccInv, Typed, Handlers, Informed, LoginKeepsUser
<1> QED BY <1>1, AccInvariant, PTL

(* No user of one tenant is given the default role of another.             *)
THEOREM TenantCorrect == AccSpec => []RoleWithinTenant
<1>1. AccInv => RoleWithinTenant
  <2> SUFFICES ASSUME AccInv, NEW g \in granted PROVE row[g[1]].tenant \in {NoTenant, role[g[2]]}
    BY DEF RoleWithinTenant
  <2>1. g[1] \in People /\ g[2] \in RoleIds /\ g = <<g[1], g[2]>>
    BY DEF AccInv, Typed, AccTypeOK
  <2> QED BY <2>1 DEF AccInv, Naming, Granted
<1> QED BY <1>1, AccInvariant, PTL

(* A second role without a tenant takes handlers that race, or POST /roles *)
THEOREM RoleRaceCorrect == AccSpec => []SecondRoleTakesRace
BY AccInvariant, PTL DEF AccInv

(* Neither forgotPassword nor a late reset brings a used link back.        *)
THEOREM SpentCorrect == AccSpec => []SpentLinksGone
BY AccInvariant, PTL DEF AccInv, Tokens

(* The last link a user was sent is the one that works.                    *)
THEOREM NewestCorrect == AccSpec => []NewestLinkWorks
BY AccInvariant, PTL DEF AccInv, Tokens

(* A Google account that is linked stays with its user.                    *)
THEOREM LinksStay == AccSpec => LinksNeverMove
<1>1. AccInv /\ [AccNext]_accVars
        => [\A sub \in Subs : account[sub] # Nobody => account'[sub] = account[sub]]_accVars
  BY TypedStep DEF AccInv, Naming, Tokens, Lasting
<1> QED BY <1>1, AccInvariant, PTL DEF AccSpec, LinksNeverMove
===============================================================================
