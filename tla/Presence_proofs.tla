--------------------------- MODULE Presence_proofs ---------------------------
(* The socket registry of Presence for any number of instances, users and  *)
(* sockets: types, the agreement of its two maps, the balance of online    *)
(* and offline jobs, what a job that has its user to itself leaves behind, *)
(* and the safety half of the expiry of a stale key.                       *)
EXTENDS Presence, FiniteSetTheorems, TLAPS

USE TTLAssumption, ModeAssumption, NoUserAssumption, PopulationAssumption

LEMMA NoJobType == NoJob \in Job /\ NoJob.pc = "idle"
  BY DEF NoJob, Job

(* Only the job of one socket and kind changes, and stays a job. *)
LEMMA JobUpdate ==
    ASSUME TypeOK, NEW s \in Sockets, NEW k \in Kinds, NEW x \in Job,
           job' = [job EXCEPT ![s][k] = x]
    PROVE  job' \in [Sockets -> [Kinds -> Job]]
  BY DEF TypeOK

(* So does the ledger of one user on one instance. *)
LEMMA LedgerUpdate ==
    ASSUME TypeOK, NEW i \in Instances, NEW u \in Users, NEW n \in Int,
           ledger' = [ledger EXCEPT ![i][u] = n]
    PROVE  ledger' \in [Instances -> [Users -> Int]]
  BY DEF TypeOK

(* A socket that is registered on an instance has a user there. *)
LEMMA RegisteredUser ==
    ASSUME TypeOK, NEW s \in Sockets, NEW i \in Registered(s)
    PROVE  i \in Instances /\ socketUser[i][s] \in Users
  BY DEF TypeOK, Registered

(* Every variable of the presence service keeps its type. *)
THEOREM TypeCorrect == Spec => []TypeOK
<1>1. Init => TypeOK
  BY NoJobType DEF Init, TypeOK
<1>2. TypeOK /\ [Next]_vars => TypeOK'
  <2> SUFFICES ASSUME TypeOK, [Next]_vars PROVE TypeOK'
    OBVIOUS
  <2> USE DEF registry, stored, history
  <2>1. ASSUME NEW s \in Sockets, NEW i \in Instances, NEW u \in Users, Connect(s, i, u)
        PROVE  TypeOK'
    <3> DEFINE becameOnline == userSockets[i][u] = {}
               x == [pc |-> IF becameOnline THEN "db" ELSE "key",
                     inst |-> i, user |-> u, moved |-> becameOnline]
    <3>1. x \in Job
      BY DEF Job
    <3>2. job' \in [Sockets -> [Kinds -> Job]]
      BY <2>1, <3>1, JobUpdate DEF Connect, Kinds
    <3>3. /\ userSockets' \in [Instances -> [Users -> SUBSET Sockets]]
          /\ socketUser' \in [Instances -> [Sockets -> Users \cup {NoUser}]]
      BY <2>1 DEF Connect, TypeOK
    <3>4. serial' \in [Users -> BOOLEAN]
      <4>1. serial' = [serial EXCEPT ![u] = Quiet(u) /\ (becameOnline \/ serial[u])]
        BY <2>1 DEF Connect, NoteStart
      <4>2. (Quiet(u) /\ (becameOnline \/ serial[u])) \in BOOLEAN
        OBVIOUS
      <4> QED BY <4>1, <4>2 DEF TypeOK
    <3>5. UNCHANGED <<stored, touch, ledger>>
      BY <2>1 DEF Connect
    <3> QED BY <3>2, <3>3, <3>4, <3>5 DEF TypeOK
  <2>2. ASSUME NEW s \in Sockets, NEW i \in Instances, Disconnect(s, i) PROVE TypeOK'
    <3> DEFINE u == socketUser[i][s]
               x == [pc |-> "db", inst |-> i, user |-> u, moved |-> TRUE]
    <3>1. u \in Users
      BY <2>2, RegisteredUser DEF Disconnect
    <3>2. x \in Job
      BY <3>1 DEF Job
    <3>3. job' \in [Sockets -> [Kinds -> Job]]
      <4>1. job' = [job EXCEPT ![s]["remove"] = x] \/ job' = job
        BY <2>2 DEF Disconnect
      <4> QED BY <3>2, <4>1, JobUpdate DEF Kinds, TypeOK
    <3>4. /\ userSockets' \in [Instances -> [Users -> SUBSET Sockets]]
          /\ socketUser' \in [Instances -> [Sockets -> Users \cup {NoUser}]]
      BY <2>2, <3>1 DEF Disconnect, TypeOK
    <3>5. serial' \in [Users -> BOOLEAN]
      <4>1. CASE UNCHANGED <<job, serial>>
        BY <4>1 DEF TypeOK
      <4>2. CASE NoteStart(u, TRUE)
        <5>1. serial' = [serial EXCEPT ![u] = Quiet(u) /\ (TRUE \/ serial[u])]
          BY <4>2 DEF NoteStart
        <5>2. (Quiet(u) /\ (TRUE \/ serial[u])) \in BOOLEAN
          OBVIOUS
        <5> QED BY <5>1, <5>2 DEF TypeOK
      <4> QED BY <2>2, <4>1, <4>2 DEF Disconnect
    <3>6. UNCHANGED <<stored, touch, ledger>>
      BY <2>2 DEF Disconnect
    <3> QED BY <3>3, <3>4, <3>5, <3>6 DEF TypeOK
  <2>3. ASSUME NEW s \in Sockets, NEW k \in Kinds, JobStep(s, k) \/ JobFails(s, k)
        PROVE  TypeOK'
    <3>0. job[s][k] \in Job /\ job[s][k].user \in Users /\ job[s][k].inst \in Instances
      BY DEF TypeOK, Job
    <3>1. CASE WriteRow(s, k)
      <4> DEFINE x == [job[s][k] EXCEPT !.pc = "key"]
      <4>1. x \in Job
        BY <3>0 DEF Job
      <4>2. job' \in [Sockets -> [Kinds -> Job]]
        BY <3>1, <4>1, JobUpdate DEF WriteRow
      <4>3. isOnline' \in [Users -> BOOLEAN] /\ seen' \in [Users -> BOOLEAN]
        BY <3>0, <3>1 DEF WriteRow, TypeOK
      <4> QED BY <3>1, <4>2, <4>3 DEF WriteRow, TypeOK
    <3>2. CASE WriteKey(s, k)
      <4> DEFINE x == IF job[s][k].moved THEN [job[s][k] EXCEPT !.pc = "announce"] ELSE NoJob
      <4>1. x \in Job
        BY <3>0, NoJobType DEF Job
      <4>2. job' \in [Sockets -> [Kinds -> Job]]
        BY <3>2, <4>1, JobUpdate DEF WriteKey
      <4>3. key' \in [Users -> 0..TTL]
        BY <3>0, <3>2 DEF WriteKey, TypeOK
      <4> QED BY <3>2, <4>2, <4>3 DEF WriteKey, TypeOK
    <3>3. CASE Announce(s, k) \/ JobFails(s, k)
      <4>1. job' \in [Sockets -> [Kinds -> Job]]
        BY <3>3, NoJobType, JobUpdate DEF Announce, JobFails
      <4>2. ledger' \in [Instances -> [Users -> Int]]
        <5> DEFINE i == job[s][k].inst
                   u == job[s][k].user
                   n == IF k = "add" THEN ledger[i][u] + 1 ELSE ledger[i][u] - 1
        <5>1. ledger' = [ledger EXCEPT ![i][u] = n] \/ ledger' = ledger
          BY <3>3 DEF Announce, JobFails, NoteEnd
        <5>2. n \in Int
          BY <3>0 DEF TypeOK
        <5> QED BY <3>0, <5>1, <5>2, LedgerUpdate DEF TypeOK
      <4>3. serial' \in [Users -> BOOLEAN]
        BY <3>0, <3>3 DEF Announce, JobFails, TypeOK
      <4>4. UNCHANGED <<registry, stored, touch>>
        BY <3>3 DEF Announce, JobFails
      <4> QED BY <4>1, <4>2, <4>3, <4>4 DEF TypeOK
    <3> QED BY <2>3, <3>1, <3>2, <3>3 DEF JobStep
  <2>4. ASSUME NEW u \in Users, NEW online \in BOOLEAN, TouchRow(u, online) PROVE TypeOK'
    <3>1. /\ isOnline' = [isOnline EXCEPT ![u] = online]
          /\ seen' = [seen EXCEPT ![u] = seen[u] \/ ~online]
          /\ serial' = [serial EXCEPT ![u] = FALSE]
      BY <2>4 DEF TouchRow
    <3>2. (seen[u] \/ ~online) \in BOOLEAN
      OBVIOUS
    <3>3. /\ isOnline' \in [Users -> BOOLEAN] /\ seen' \in [Users -> BOOLEAN]
          /\ serial' \in [Users -> BOOLEAN]
      BY <3>1, <3>2 DEF TypeOK
    <3>4. touch' \in [Users -> {"idle", "online", "offline"}]
      BY <2>4 DEF TouchRow, TypeOK
    <3>5. UNCHANGED <<registry, key, job, ledger>>
      BY <2>4 DEF TouchRow
    <3> QED BY <3>3, <3>4, <3>5 DEF TypeOK
  <2>5. ASSUME NEW u \in Users, TouchKey(u) \/ TouchFails(u) PROVE TypeOK'
    <3>1. CASE TouchKey(u)
      <4>1. key' \in [Users -> 0..TTL]
        BY <3>1 DEF TouchKey, TypeOK
      <4>2. touch' \in [Users -> {"idle", "online", "offline"}]
        BY <3>1 DEF TouchKey, TypeOK
      <4> QED BY <3>1, <4>1, <4>2 DEF TouchKey, TypeOK
    <3>2. CASE TouchFails(u)
      BY <3>2 DEF TouchFails, TypeOK
    <3> QED BY <2>5, <3>1, <3>2
  <2>6. ASSUME NEW s \in Sockets, NEW i \in Instances, Heartbeat(s, i) PROVE TypeOK'
    <3> DEFINE u == socketUser[i][s]
    <3>1. u \in Users
      BY <2>6, RegisteredUser DEF Heartbeat
    <3>2. key' \in [Users -> 0..TTL]
      BY <2>6, <3>1 DEF Heartbeat, TypeOK
    <3> QED BY <2>6, <3>2 DEF Heartbeat, TypeOK
  <2>7. CASE Tick
    BY <2>7 DEF Tick, TypeOK
  <2>8. ASSUME NEW i \in Instances, Restart(i) PROVE TypeOK'
    BY <2>8, NoJobType DEF Restart, TypeOK
  <2>9. CASE UNCHANGED vars
    BY <2>9 DEF vars, TypeOK
  <2> QED BY <2>1, <2>2, <2>3, <2>4, <2>5, <2>6, <2>7, <2>8, <2>9 DEF Next
<1> QED BY <1>1, <1>2, PTL DEF Spec
------------------------------------------------------------------------------
(* The sockets of a user and the user of a socket can be asked either way, *)
(* and a socket lives on one instance, in every run.  Inductive given the  *)
(* types: addSocket and removeSocket change both maps before any await.    *)
THEOREM RegistryCorrect == Spec => []MapsAgree
<1>1. Init => MapsAgree
  BY DEF Init, MapsAgree, Registered
<1>2. TypeOK /\ MapsAgree /\ [Next]_vars => MapsAgree'
  <2> SUFFICES ASSUME TypeOK, MapsAgree, [Next]_vars PROVE MapsAgree'
    OBVIOUS
  <2>0. /\ userSockets \in [Instances -> [Users -> SUBSET Sockets]]
        /\ socketUser \in [Instances -> [Sockets -> Users \cup {NoUser}]]
    BY DEF TypeOK
  <2>1. CASE UNCHANGED registry
    BY <2>1 DEF registry, MapsAgree, Registered
  <2>2. ASSUME NEW s \in Sockets, NEW i \in Instances, NEW u \in Users, Connect(s, i, u)
        PROVE  MapsAgree'
    <3>1. \A j \in Instances : socketUser[j][s] = NoUser
      BY <2>2 DEF Connect, Registered
    <3>2. /\ userSockets' = [userSockets EXCEPT ![i][u] = userSockets[i][u] \cup {s}]
          /\ socketUser' = [socketUser EXCEPT ![i][s] = u]
      BY <2>2 DEF Connect
    <3>3. ASSUME NEW j \in Instances, NEW v \in Users, NEW c \in Sockets
          PROVE  c \in userSockets'[j][v] <=> socketUser'[j][c] = v
      BY <2>0, <3>1, <3>2 DEF MapsAgree
    <3>4. ASSUME NEW c \in Sockets, NEW j \in Instances, NEW l \in Instances,
                 socketUser'[j][c] # NoUser, socketUser'[l][c] # NoUser
          PROVE  j = l
      BY <2>0, <3>1, <3>2, <3>4 DEF MapsAgree, Registered
    <3> QED BY <3>3, <3>4 DEF MapsAgree, Registered
  <2>3. ASSUME NEW s \in Sockets, NEW i \in Instances, Disconnect(s, i) PROVE MapsAgree'
    <3> DEFINE u == socketUser[i][s]
    <3>1. u \in Users
      BY <2>3, RegisteredUser DEF Disconnect
    <3>2. /\ userSockets' = [userSockets EXCEPT ![i][u] = userSockets[i][u] \ {s}]
          /\ socketUser' = [socketUser EXCEPT ![i][s] = NoUser]
      BY <2>3 DEF Disconnect
    <3>3. ASSUME NEW j \in Instances, NEW v \in Users, NEW c \in Sockets
          PROVE  c \in userSockets'[j][v] <=> socketUser'[j][c] = v
      BY <2>0, <3>1, <3>2 DEF MapsAgree
    <3>4. ASSUME NEW c \in Sockets, NEW j \in Instances, NEW l \in Instances,
                 socketUser'[j][c] # NoUser, socketUser'[l][c] # NoUser
          PROVE  j = l
      BY <2>0, <3>2, <3>4 DEF MapsAgree, Registered
    <3> QED BY <3>3, <3>4 DEF MapsAgree, Registered
  <2>4. ASSUME NEW i \in Instances, Restart(i) PROVE MapsAgree'
    <3>1. /\ userSockets' = [userSockets EXCEPT ![i] = [u \in Users |-> {}]]
          /\ socketUser' = [socketUser EXCEPT ![i] = [s \in Sockets |-> NoUser]]
      BY <2>4 DEF Restart
    <3>2. ASSUME NEW j \in Instances, NEW v \in Users, NEW c \in Sockets
          PROVE  c \in userSockets'[j][v] <=> socketUser'[j][c] = v
      BY <2>0, <3>1 DEF MapsAgree
    <3>3. ASSUME NEW c \in Sockets, NEW j \in Instances, NEW l \in Instances,
                 socketUser'[j][c] # NoUser, socketUser'[l][c] # NoUser
          PROVE  j = l
      BY <2>0, <3>1, <3>3 DEF MapsAgree, Registered
    <3> QED BY <3>2, <3>3 DEF MapsAgree, Registered
  <2>5. ASSUME NEW s \in Sockets, NEW k \in Kinds, JobStep(s, k) \/ JobFails(s, k)
        PROVE  UNCHANGED registry
    BY <2>5 DEF JobStep, WriteRow, WriteKey, Announce, JobFails
  <2>6. ASSUME NEW u \in Users, NEW online \in BOOLEAN,
               TouchRow(u, online) \/ TouchKey(u) \/ TouchFails(u)
        PROVE  UNCHANGED registry
    BY <2>6 DEF TouchRow, TouchKey, TouchFails
  <2>7. ASSUME NEW s \in Sockets, NEW i \in Instances, Heartbeat(s, i) PROVE UNCHANGED registry
    BY <2>7 DEF Heartbeat
  <2>8. CASE Tick \/ UNCHANGED vars
    BY <2>1, <2>8 DEF Tick, vars
  <2> QED BY <2>1, <2>2, <2>3, <2>4, <2>5, <2>6, <2>7, <2>8 DEF Next
<1> QED BY <1>1, <1>2, TypeCorrect, PTL DEF Spec
------------------------------------------------------------------------------
(* The handler of socket s and kind k goes on as x, all others stay.       *)
Becomes(s, k, x) == job' = [job EXCEPT ![s][k] = x]

LEMMA JobsAfter ==
    ASSUME TypeOK, NEW s \in Sockets, NEW k \in Kinds, NEW x, Becomes(s, k, x)
    PROVE  /\ job'[s][k] = x
           /\ \A c \in Sockets, l \in Kinds : c # s \/ l # k => job'[c][l] = job[c][l]
BY DEF TypeOK, Becomes

(* Every step of the presence service is one of these to its jobs: none of *)
(* them changes, one starts, one goes on, one ends, or a process dies.     *)
LEMMA StepCases ==
    ASSUME [Next]_vars
    PROVE  \/ \E s \in Sockets, i \in Instances, u \in Users : Connect(s, i, u)
           \/ \E s \in Sockets, i \in Instances : Disconnect(s, i)
           \/ \E s \in Sockets, k \in Kinds : WriteRow(s, k)
           \/ \E s \in Sockets, k \in Kinds : WriteKey(s, k)
           \/ \E s \in Sockets, k \in Kinds : Announce(s, k) \/ JobFails(s, k)
           \/ \E u \in Users, online \in BOOLEAN : TouchRow(u, online)
           \/ \E u \in Users : TouchKey(u)
           \/ \E u \in Users : TouchFails(u)
           \/ \E s \in Sockets, i \in Instances : Heartbeat(s, i)
           \/ Tick
           \/ \E i \in Instances : Restart(i)
           \/ UNCHANGED vars
BY DEF Next, JobStep

(* A registered socket has no removal under way: it is the removal that    *)
(* unregisters it, and it connects again only when that has ended.         *)
RemovalsWait ==
    \A i \in Instances, s \in Sockets :
        socketUser[i][s] # NoUser => job[s]["remove"].pc = "idle"

LEMMA RemovalsWaitStep == TypeOK /\ MapsAgree /\ RemovalsWait /\ [Next]_vars => RemovalsWait'
<1> SUFFICES ASSUME TypeOK, MapsAgree, RemovalsWait, [Next]_vars PROVE RemovalsWait'
  OBVIOUS
<1>t. socketUser \in [Instances -> [Sockets -> Users \cup {NoUser}]]
  BY DEF TypeOK
<1>u. "add" \in Kinds /\ "remove" \in Kinds /\ "add" # "remove"
  BY DEF Kinds
<1>1. ASSUME NEW s \in Sockets, NEW i \in Instances, NEW u \in Users, Connect(s, i, u)
      PROVE  RemovalsWait'
  <2>1. job[s]["remove"].pc = "idle" /\ socketUser' = [socketUser EXCEPT ![i][s] = u]
    BY <1>1, <1>u DEF Connect
  <2>2. \E x : Becomes(s, "add", x)
    BY <1>1 DEF Connect, Becomes
  <2>3. \A c \in Sockets : job'[c]["remove"] = job[c]["remove"]
    BY <1>u, <2>2, JobsAfter
  <2> QED BY <1>t, <2>1, <2>3 DEF RemovalsWait
<1>2. ASSUME NEW s \in Sockets, NEW i \in Instances, Disconnect(s, i) PROVE RemovalsWait'
  <2>1. socketUser' = [socketUser EXCEPT ![i][s] = NoUser] /\ i \in Registered(s)
    BY <1>2 DEF Disconnect
  <2>2. \A j \in Instances : socketUser'[j][s] = NoUser
    BY <1>t, <2>1 DEF MapsAgree, Registered
  <2>3. \A c \in Sockets : c # s => job'[c]["remove"] = job[c]["remove"]
    <3>1. job' = job \/ \E x : Becomes(s, "remove", x)
      BY <1>2 DEF Disconnect, Becomes
    <3> QED BY <1>u, <3>1, JobsAfter
  <2> QED BY <1>t, <2>1, <2>2, <2>3 DEF RemovalsWait
<1>3. ASSUME NEW s \in Sockets, NEW k \in Kinds,
             WriteRow(s, k) \/ WriteKey(s, k) \/ Announce(s, k) \/ JobFails(s, k)
      PROVE  RemovalsWait'
  <2>1. job[s][k].pc # "idle" /\ socketUser' = socketUser
    BY <1>3 DEF WriteRow, WriteKey, Announce, JobFails, registry
  <2>2. \E x : Becomes(s, k, x)
    BY <1>3 DEF WriteRow, WriteKey, Announce, JobFails, Becomes
  <2>3. \A c \in Sockets : job[c]["remove"].pc = "idle" => job'[c]["remove"] = job[c]["remove"]
    BY <1>u, <2>1, <2>2, JobsAfter
  <2> QED BY <2>1, <2>3 DEF RemovalsWait
<1>4. ASSUME NEW i \in Instances, Restart(i) PROVE RemovalsWait'
  <2>1. socketUser' = [socketUser EXCEPT ![i] = [s \in Sockets |-> NoUser]]
    BY <1>4 DEF Restart
  <2>2. \A c \in Sockets : job'[c]["remove"] \in {job[c]["remove"], NoJob}
    BY <1>4, <1>u DEF Restart
  <2> QED BY <1>t, <2>1, <2>2, NoJobType DEF RemovalsWait
<1>5. CASE UNCHANGED <<socketUser, job>>
  BY <1>5 DEF RemovalsWait
<1>6. ASSUME NEW s \in Sockets, NEW i \in Instances, Heartbeat(s, i) PROVE RemovalsWait'
  BY <1>5, <1>6 DEF Heartbeat, registry
<1>7. ASSUME NEW u \in Users, NEW online \in BOOLEAN,
             TouchRow(u, online) \/ TouchKey(u) \/ TouchFails(u)
      PROVE  RemovalsWait'
  BY <1>5, <1>7 DEF TouchRow, TouchKey, TouchFails, registry
<1>8. CASE Tick \/ UNCHANGED vars
  BY <1>5, <1>8 DEF Tick, vars, registry
<1> QED BY <1>1, <1>2, <1>3, <1>4, <1>6, <1>7, <1>8, StepCases

LEMMA RemovalsWaitAlways == Spec => []RemovalsWait
<1>1. Init => RemovalsWait
  BY DEF Init, RemovalsWait
<1> QED BY <1>1, RemovalsWaitStep, TypeCorrect, RegistryCorrect, PTL DEF Spec
------------------------------------------------------------------------------
(* The sockets whose online (add) or offline (remove) job is under way for *)
(* user u on instance i.                                                   *)
IsPending(j, i, u) == j.pc # "idle" /\ j.moved /\ j.inst = i /\ j.user = u
Pending(i, u, k) == {s \in Sockets : IsPending(job[s][k], i, u)}

Periods(i, u) == IF userSockets[i][u] = {} THEN 0 ELSE 1
Balance(i, u) ==
    ledger[i][u] + Cardinality(Pending(i, u, "add")) - Cardinality(Pending(i, u, "remove"))
        = Periods(i, u)

LEMMA BalanceMeaning == TransitionsBalance <=> \A i \in Instances, u \in Users : Balance(i, u)
BY DEF TransitionsBalance, Balance, Periods, Pending, IsPending

LEMMA PendingCount ==
    ASSUME IsFiniteSet(Sockets), NEW i, NEW u, NEW k, NEW s
    PROVE  LET P == Pending(i, u, k) IN
           /\ Cardinality(P) \in Nat
           /\ s \notin P => Cardinality(P \cup {s}) = Cardinality(P) + 1
           /\ s \in P => Cardinality(P \ {s}) = Cardinality(P) - 1
<1> DEFINE P == Pending(i, u, k)
<1>1. P \subseteq Sockets
  BY DEF Pending
<1> HIDE DEF P
<1>2. IsFiniteSet(P)
  BY <1>1, FS_Subset
<1>3. Cardinality(P) \in Nat
  BY <1>2, FS_CardinalityType
<1>4. s \notin P => Cardinality(P \cup {s}) = Cardinality(P) + 1
  BY <1>2, FS_AddElement
<1>5. s \in P => Cardinality(P \ {s}) = Cardinality(P) - 1
  BY <1>2, FS_RemoveElement
<1> QED BY <1>3, <1>4, <1>5 DEF P

(* Jobs that go on as the same pending ones or not keep the balance, when  *)
(* the user's sockets on the instance stay none or stay some.              *)
LEMMA BalanceStays ==
    ASSUME NEW i \in Instances, NEW u \in Users, Balance(i, u),
           \A s \in Sockets, k \in Kinds :
               IsPending(job'[s][k], i, u) <=> IsPending(job[s][k], i, u),
           ledger'[i][u] = ledger[i][u],
           userSockets'[i][u] = {} <=> userSockets[i][u] = {}
    PROVE  Balance(i, u)'
<1>1. Pending(i, u, "add")' = Pending(i, u, "add") /\ Pending(i, u, "remove")' = Pending(i, u, "remove")
  BY DEF Pending, Kinds
<1>2. Periods(i, u)' = Periods(i, u)
  BY DEF Periods
<1> QED BY <1>1, <1>2 DEF Balance

(* A job of s that begins or ends while all others stay as they are.       *)
LEMMA PendingAfter ==
    ASSUME TypeOK, NEW s \in Sockets, NEW k \in Kinds, NEW x, Becomes(s, k, x),
           NEW i \in Instances, NEW u \in Users
    PROVE  /\ \A l \in Kinds : l # k => Pending(i, u, l)' = Pending(i, u, l)
           /\ IsPending(x, i, u) => Pending(i, u, k)' = Pending(i, u, k) \cup {s}
           /\ ~IsPending(x, i, u) => Pending(i, u, k)' = Pending(i, u, k) \ {s}
<1>1. /\ job'[s][k] = x
      /\ \A c \in Sockets, l \in Kinds : c # s \/ l # k => job'[c][l] = job[c][l]
  BY JobsAfter
<1>2. \A l \in Kinds : l # k => Pending(i, u, l)' = Pending(i, u, l)
  BY <1>1 DEF Pending
<1>3. \A c \in Sockets : c # s => job'[c][k] = job[c][k]
  BY <1>1
<1>4. IsPending(x, i, u) => Pending(i, u, k)' = Pending(i, u, k) \cup {s}
  BY <1>1, <1>3 DEF Pending
<1>5. ~IsPending(x, i, u) => Pending(i, u, k)' = Pending(i, u, k) \ {s}
  BY <1>1, <1>3 DEF Pending
<1> QED BY <1>2, <1>4, <1>5

(* A user who comes online on an instance gets an online job there.        *)
LEMMA ConnectBalances ==
    ASSUME IsFiniteSet(Sockets), TypeOK, NEW s \in Sockets, NEW i \in Instances, NEW u \in Users,
           Connect(s, i, u), NEW j \in Instances, NEW v \in Users, Balance(j, v)
    PROVE  Balance(j, v)'
<1> DEFINE x == [pc |-> IF userSockets[i][u] = {} THEN "db" ELSE "key",
                 inst |-> i, user |-> u, moved |-> userSockets[i][u] = {}]
           P == Pending(j, v, "add")
<1>1. /\ Becomes(s, "add", x) /\ job[s]["add"].pc = "idle"
      /\ ledger' = ledger
      /\ userSockets' = [userSockets EXCEPT ![i][u] = userSockets[i][u] \cup {s}]
  BY DEF Connect, Kinds, Becomes
<1>2. IsPending(x, j, v) <=> userSockets[i][u] = {} /\ i = j /\ u = v
  BY DEF IsPending
<1> HIDE DEF x
<1>3. s \notin P
  BY <1>1 DEF Pending, IsPending
<1>4. /\ Pending(j, v, "remove")' = Pending(j, v, "remove")
      /\ IsPending(x, j, v) => Pending(j, v, "add")' = P \cup {s}
      /\ ~IsPending(x, j, v) => Pending(j, v, "add")' = P
  <2>1. "add" \in Kinds /\ "remove" \in Kinds
    BY DEF Kinds
  <2>2. P \ {s} = P
    BY <1>3
  <2>3. Becomes(s, "add", x)
    BY <1>1
  <2>4. /\ \A l \in Kinds : l # "add" => Pending(j, v, l)' = Pending(j, v, l)
        /\ IsPending(x, j, v) => Pending(j, v, "add")' = P \cup {s}
        /\ ~IsPending(x, j, v) => Pending(j, v, "add")' = P \ {s}
    BY <2>1, <2>3, PendingAfter
  <2> HIDE DEF P
  <2> QED BY <2>1, <2>2, <2>4
<1>5. Cardinality(P \cup {s}) = Cardinality(P) + 1 /\ Cardinality(P) \in Nat
      /\ Cardinality(Pending(j, v, "remove")) \in Nat /\ ledger[j][v] \in Int
  <2>1. Cardinality(P \cup {s}) = Cardinality(P) + 1 /\ Cardinality(P) \in Nat
    BY <1>3, PendingCount
  <2>2. Cardinality(Pending(j, v, "remove")) \in Nat
    BY PendingCount
  <2>3. ledger[j][v] \in Int
    BY DEF TypeOK
  <2> QED BY <2>1, <2>2, <2>3
<1>6. CASE i = j /\ u = v
  <2>1. userSockets'[j][v] = userSockets[j][v] \cup {s}
    BY <1>1, <1>6 DEF TypeOK
  <2>2. CASE userSockets[j][v] = {}
    <3>1. Pending(j, v, "add")' = P \cup {s} /\ userSockets'[j][v] # {}
      BY <1>2, <1>4, <1>6, <2>1, <2>2
    <3>2. Periods(j, v) = 0 /\ Periods(j, v)' = 1
      BY <2>2, <3>1 DEF Periods
    <3>3. ledger[j][v] + Cardinality(P) - Cardinality(Pending(j, v, "remove")) = 0
      BY <3>2 DEF Balance
    <3>4. ledger[j][v] + Cardinality(P \cup {s}) - Cardinality(Pending(j, v, "remove")) = 1
      BY <1>5, <3>3
    <3> QED BY <1>1, <1>4, <3>1, <3>2, <3>4 DEF Balance
  <2>3. CASE userSockets[j][v] # {}
    <3>1. Pending(j, v, "add")' = P /\ userSockets'[j][v] # {}
      BY <1>2, <1>4, <1>6, <2>1, <2>3
    <3>2. Periods(j, v)' = Periods(j, v)
      BY <2>3, <3>1 DEF Periods
    <3> QED BY <1>1, <1>4, <3>1, <3>2 DEF Balance
  <2> QED BY <2>2, <2>3
<1>7. CASE ~(i = j /\ u = v)
  <2>1. userSockets'[j][v] = userSockets[j][v] /\ Pending(j, v, "add")' = P
    BY <1>1, <1>2, <1>4, <1>7 DEF TypeOK
  <2> QED BY <1>1, <1>4, <2>1 DEF Balance, Periods
<1> QED BY <1>6, <1>7

(* A user who goes offline on an instance gets an offline job there.       *)
LEMMA DisconnectBalances ==
    ASSUME IsFiniteSet(Sockets), TypeOK, MapsAgree, RemovalsWait,
           NEW s \in Sockets, NEW i \in Instances, Disconnect(s, i),
           NEW j \in Instances, NEW v \in Users, Balance(j, v)
    PROVE  Balance(j, v)'
<1> DEFINE u == socketUser[i][s]
           last == userSockets[i][u] = {s}
           x == [pc |-> "db", inst |-> i, user |-> u, moved |-> TRUE]
           P == Pending(j, v, "remove")
<1>0. u \in Users /\ u # NoUser /\ s \in userSockets[i][u]
  <2>1. u \in Users
    BY RegisteredUser DEF Disconnect
  <2> QED BY <2>1 DEF MapsAgree
<1>1. /\ IF last THEN Becomes(s, "remove", x) ELSE job' = job
      /\ job[s]["remove"].pc = "idle"
      /\ ledger' = ledger
      /\ userSockets' = [userSockets EXCEPT ![i][u] = userSockets[i][u] \ {s}]
  BY <1>0 DEF Disconnect, RemovalsWait, Becomes
<1>2. IsPending(x, j, v) <=> i = j /\ u = v
  BY DEF IsPending
<1> HIDE DEF x, u
<1>3. s \notin P
  BY <1>1 DEF Pending, IsPending
<1>4. CASE last /\ i = j /\ u = v
  <2>1. userSockets'[j][v] = {} /\ userSockets[j][v] # {}
    BY <1>0, <1>1, <1>4 DEF TypeOK
  <2>2. /\ Pending(j, v, "add")' = Pending(j, v, "add")
        /\ Pending(j, v, "remove")' = P \cup {s}
    BY <1>1, <1>2, <1>4, PendingAfter DEF Kinds
  <2>3. Cardinality(P \cup {s}) = Cardinality(P) + 1 /\ Cardinality(P) \in Nat
    BY <1>3, PendingCount
  <2>4. Cardinality(Pending(j, v, "add")) \in Nat
    BY PendingCount
  <2>5. ledger[j][v] \in Int
    BY DEF TypeOK
  <2>6. Periods(j, v) = 1 /\ Periods(j, v)' = 0
    BY <2>1 DEF Periods
  <2>7. ledger[j][v] + Cardinality(Pending(j, v, "add")) - Cardinality(P) = 1
    BY <2>6 DEF Balance
  <2>8. ledger[j][v] + Cardinality(Pending(j, v, "add")) - Cardinality(P \cup {s}) = 0
    BY <2>3, <2>4, <2>5, <2>7
  <2> QED BY <1>1, <2>2, <2>6, <2>8 DEF Balance
<1>5. CASE ~(last /\ i = j /\ u = v)
  <2>1. userSockets'[j][v] = {} <=> userSockets[j][v] = {}
    <3>1. CASE i = j /\ u = v
      <4>1. userSockets'[j][v] = userSockets[j][v] \ {s} /\ s \in userSockets[j][v]
            /\ userSockets[j][v] # {s}
        BY <1>0, <1>1, <1>5, <3>1 DEF TypeOK
      <4> QED BY <4>1
    <3>2. CASE ~(i = j /\ u = v)
      BY <1>0, <1>1, <3>2 DEF TypeOK
    <3> QED BY <3>1, <3>2
  <2>2. /\ Pending(j, v, "add")' = Pending(j, v, "add")
        /\ Pending(j, v, "remove")' = P
    <3>1. CASE last
      <4>1. ~IsPending(x, j, v)
        BY <1>2, <1>5, <3>1
      <4> QED BY <1>1, <1>3, <3>1, <4>1, PendingAfter DEF Kinds
    <3>2. CASE ~last
      BY <1>1, <3>2 DEF Pending
    <3> QED BY <3>1, <3>2
  <2> QED BY <1>1, <2>1, <2>2 DEF Balance, Periods
<1> QED BY <1>4, <1>5

(* A job that ends, announced or not, moves from the pending to the ledger. *)
LEMMA EndBalances ==
    ASSUME IsFiniteSet(Sockets), TypeOK, NEW s \in Sockets, NEW k \in Kinds,
           Announce(s, k) \/ JobFails(s, k),
           NEW i \in Instances, NEW u \in Users, Balance(i, u)
    PROVE  Balance(i, u)'
<1> DEFINE y == job[s][k]
           P == Pending(i, u, k)
<1>1. /\ y.pc # "idle" /\ Becomes(s, k, NoJob)
      /\ userSockets' = userSockets /\ NoteEnd(y, k)
  BY DEF Announce, JobFails, registry, Becomes
<1>t. y \in Job /\ ledger[i][u] \in Int
  BY DEF TypeOK
<1>2. ~IsPending(NoJob, i, u)
  BY NoJobType DEF IsPending
<1>3. /\ \A l \in Kinds : l # k => Pending(i, u, l)' = Pending(i, u, l)
      /\ Pending(i, u, k)' = P \ {s}
  BY <1>1, <1>2, PendingAfter
<1>4. s \in P <=> y.moved /\ y.inst = i /\ y.user = u
  BY <1>1 DEF Pending, IsPending
<1>5. /\ Cardinality(Pending(i, u, "add")) \in Nat
      /\ Cardinality(Pending(i, u, "remove")) \in Nat
      /\ s \in P => Cardinality(P \ {s}) = Cardinality(P) - 1
  BY PendingCount
<1>6. CASE s \in P
  <2>1. y.moved /\ y.inst = i /\ y.user = u
    BY <1>4, <1>6
  <2>2. ledger'[i][u] = IF k = "add" THEN ledger[i][u] + 1 ELSE ledger[i][u] - 1
    BY <1>1, <2>1 DEF NoteEnd, TypeOK
  <2>3. CASE k = "add"
    <3>1. Pending(i, u, "remove")' = Pending(i, u, "remove")
          /\ Cardinality(Pending(i, u, "add")') = Cardinality(Pending(i, u, "add")) - 1
      BY <1>3, <1>5, <1>6, <2>3 DEF Kinds
    <3> QED BY <1>1, <1>5, <1>t, <2>2, <2>3, <3>1 DEF Balance, Periods
  <2>4. CASE k = "remove"
    <3>1. Pending(i, u, "add")' = Pending(i, u, "add")
          /\ Cardinality(Pending(i, u, "remove")') = Cardinality(Pending(i, u, "remove")) - 1
      BY <1>3, <1>5, <1>6, <2>4 DEF Kinds
    <3> QED BY <1>1, <1>5, <1>t, <2>2, <2>4, <3>1 DEF Balance, Periods
  <2> QED BY <2>3, <2>4 DEF Kinds
<1>7. CASE s \notin P
  <2>1. ledger'[i][u] = ledger[i][u]
    <3>1. CASE ~y.moved
      BY <1>1, <3>1 DEF NoteEnd
    <3>2. CASE y.moved
      BY <1>1, <1>4, <1>7, <1>t, <3>2 DEF NoteEnd, TypeOK, Job
    <3> QED BY <3>1, <3>2
  <2>2. \A l \in Kinds : Pending(i, u, l)' = Pending(i, u, l)
    BY <1>3, <1>7
  <2> QED BY <1>1, <2>1, <2>2 DEF Balance, Periods, Kinds
<1> QED BY <1>6, <1>7

(* A restart takes the sockets, the jobs and the ledger of its instance.   *)
LEMMA RestartBalances ==
    ASSUME IsFiniteSet(Sockets), TypeOK, NEW i \in Instances, Restart(i),
           NEW j \in Instances, NEW u \in Users, Balance(j, u)
    PROVE  Balance(j, u)'
<1>1. /\ userSockets' = [userSockets EXCEPT ![i] = [v \in Users |-> {}]]
      /\ ledger' = [ledger EXCEPT ![i] = [v \in Users |-> 0]]
      /\ \A s \in Sockets, k \in Kinds :
            job'[s][k] = IF job[s][k].inst = i THEN NoJob ELSE job[s][k]
  BY DEF Restart
<1>n. ~IsPending(NoJob, j, u)
  BY NoJobType DEF IsPending
<1>2. CASE j = i
  <2>1. \A s \in Sockets, k \in Kinds : ~IsPending(job'[s][k], j, u)
    BY <1>1, <1>2, <1>n DEF IsPending
  <2>2. Pending(j, u, "add")' = {} /\ Pending(j, u, "remove")' = {}
    BY <2>1 DEF Pending, Kinds
  <2>3. ledger'[j][u] = 0 /\ userSockets'[j][u] = {}
    BY <1>1, <1>2 DEF TypeOK
  <2>4. Cardinality(Pending(j, u, "add"))' = 0 /\ Cardinality(Pending(j, u, "remove"))' = 0
    BY <2>2, FS_EmptySet
  <2>5. Periods(j, u)' = 0
    BY <2>3 DEF Periods
  <2>6. (ledger[j][u] + Cardinality(Pending(j, u, "add"))
            - Cardinality(Pending(j, u, "remove")))' = 0
    BY <2>3, <2>4
  <2> QED BY <2>5, <2>6 DEF Balance
<1>3. CASE j # i
  <2>1. \A s \in Sockets, k \in Kinds :
           IsPending(job'[s][k], j, u) <=> IsPending(job[s][k], j, u)
    BY <1>1, <1>3, <1>n DEF IsPending
  <2>2. ledger'[j][u] = ledger[j][u] /\ userSockets'[j][u] = userSockets[j][u]
    BY <1>1, <1>3 DEF TypeOK
  <2> QED BY <2>1, <2>2, BalanceStays
<1> QED BY <1>2, <1>3

(* However connections, disconnections, jobs, errors and restarts overlap, *)
(* every online period of a user on an instance owns one online job of     *)
(* addSocket and, once over, one offline job of removeSocket.              *)
THEOREM BalanceCorrect == ASSUME IsFiniteSet(Sockets) PROVE Spec => []TransitionsBalance
<1> DEFINE BalanceInv == \A i \in Instances, u \in Users : Balance(i, u)
<1>1. Init => BalanceInv
  <2> SUFFICES ASSUME Init, NEW i \in Instances, NEW u \in Users PROVE Balance(i, u)
    OBVIOUS
  <2>1. Pending(i, u, "add") = {} /\ Pending(i, u, "remove") = {}
    BY NoJobType DEF Init, Pending, IsPending, Kinds
  <2>2. Cardinality({}) = 0 /\ Periods(i, u) = 0 /\ ledger[i][u] = 0
    BY FS_EmptySet DEF Init, Periods
  <2> QED BY <2>1, <2>2 DEF Balance
<1>2. TypeOK /\ MapsAgree /\ RemovalsWait /\ BalanceInv /\ [Next]_vars => BalanceInv'
  <2> SUFFICES ASSUME TypeOK, MapsAgree, RemovalsWait, BalanceInv, [Next]_vars,
                      NEW j \in Instances, NEW v \in Users
               PROVE  Balance(j, v)'
    OBVIOUS
  <2>b. Balance(j, v)
    OBVIOUS
  <2> HIDE DEF BalanceInv
  <2>1. ASSUME NEW s \in Sockets, NEW k \in Kinds, WriteRow(s, k) \/ WriteKey(s, k)
        PROVE  Balance(j, v)'
    <3> DEFINE y == job[s][k]
    <3>0. y \in Job
      BY DEF TypeOK
    <3>1. \E x : /\ Becomes(s, k, x)
                 /\ IsPending(x, j, v) <=> IsPending(y, j, v)
      <4>1. CASE WriteRow(s, k)
        <5> DEFINE x == [y EXCEPT !.pc = "key"]
        <5>1. Becomes(s, k, x) /\ y.pc = "db"
          BY <4>1 DEF WriteRow, TypeOK, Becomes
        <5>2. IsPending(x, j, v) <=> IsPending(y, j, v)
          BY <3>0, <5>1 DEF IsPending, Job
        <5> QED BY <5>1, <5>2
      <4>2. CASE WriteKey(s, k)
        <5> DEFINE x == IF y.moved THEN [y EXCEPT !.pc = "announce"] ELSE NoJob
        <5>1. Becomes(s, k, x) /\ y.pc = "key"
          BY <4>2 DEF WriteKey, Becomes
        <5>2. IsPending(x, j, v) <=> IsPending(y, j, v)
          BY <3>0, <5>1, NoJobType DEF IsPending, Job
        <5> QED BY <5>1, <5>2
      <4> QED BY <2>1, <4>1, <4>2
    <3>2. \A c \in Sockets, l \in Kinds :
             IsPending(job'[c][l], j, v) <=> IsPending(job[c][l], j, v)
      BY <3>1, JobsAfter
    <3>3. ledger' = ledger /\ userSockets' = userSockets
      BY <2>1 DEF WriteRow, WriteKey, registry, history
    <3> QED BY <2>b, <3>2, <3>3, BalanceStays
  <2>2. CASE UNCHANGED <<userSockets, job, ledger>>
    BY <2>2, <2>b, BalanceStays
  <2>3. ASSUME NEW s \in Sockets, NEW i \in Instances, Heartbeat(s, i) PROVE Balance(j, v)'
    BY <2>2, <2>3 DEF Heartbeat, registry
  <2>4. ASSUME NEW u \in Users, NEW online \in BOOLEAN,
               TouchRow(u, online) \/ TouchKey(u) \/ TouchFails(u)
        PROVE  Balance(j, v)'
    BY <2>2, <2>4 DEF TouchRow, TouchKey, TouchFails, registry, history
  <2>5. CASE Tick \/ UNCHANGED vars
    BY <2>2, <2>5 DEF Tick, vars, registry, history
  <2> QED BY <2>b, <2>1, <2>3, <2>4, <2>5, StepCases, ConnectBalances, DisconnectBalances,
             EndBalances, RestartBalances
<1>3. BalanceInv => TransitionsBalance
  BY BalanceMeaning
<1> QED BY <1>1, <1>2, <1>3, TypeCorrect, RegistryCorrect, RemovalsWaitAlways, PTL DEF Spec
------------------------------------------------------------------------------
(* The handler of socket s and kind k is under way for user u.             *)
Works(u, s, k) == job[s][k].pc # "idle" /\ job[s][k].user = u
OnlyWorks(u, s, k) == \A c \in Sockets, l \in Kinds : Works(u, c, l) => c = s /\ l = k

(* What holds of a user between serial jobs, and what the one job of a     *)
(* serial stretch has done so far.  That the row of a connected user says  *)
(* so takes one instance: the last socket of another takes it offline.     *)
OneInstance == \A i, j \in Instances : i = j
Settled(u) ==
    /\ isOnline[u] => Connected(u)
    /\ OneInstance /\ Connected(u) => isOnline[u]
    /\ ~Connected(u) => key[u] = 0
Settling(u, s, k) ==
    /\ k = "add" => Connected(u)
    /\ OneInstance /\ k = "remove" => ~Connected(u)
    /\ job[s][k].pc # "db" => /\ isOnline[u] => k = "add"
                              /\ OneInstance /\ k = "add" => isOnline[u]
    /\ job[s][k].pc = "announce" /\ k = "remove" => key[u] = 0

(* A serial stretch of u: at most one job, which settles what it leaves.   *)
Stretch(u) ==
    /\ touch[u] = "idle"
    /\ ~InFlight(u) => Settled(u)
    /\ \A s \in Sockets, k \in Kinds :
          Works(u, s, k) => OnlyWorks(u, s, k) /\ Settling(u, s, k)
Serial(u) == serial[u] => Stretch(u)

LEMMA InFlightWorks ==
    ASSUME NEW u
    PROVE  InFlight(u) <=> \E s \in Sockets, k \in Kinds : Works(u, s, k)
BY DEF InFlight, Works

LEMMA SerialMeaning ==
    ASSUME OneInstance, TypeOK, \A u \in Users : Serial(u) PROVE SerialJobsSettle
<1> SUFFICES ASSUME NEW u \in Users, Quiet(u), serial[u]
             PROVE  isOnline[u] = Connected(u) /\ (~Connected(u) => key[u] = 0)
  BY DEF SerialJobsSettle
<1>1. (isOnline[u] <=> Connected(u)) /\ (~Connected(u) => key[u] = 0)
  BY DEF Quiet, Serial, Stretch, Settled
<1>2. isOnline[u] \in BOOLEAN /\ Connected(u) \in BOOLEAN
  BY DEF TypeOK, Connected
<1> QED BY <1>1, <1>2

(* A step that leaves the jobs, the row and the presence of u as they are. *)
LEMMA StretchStays ==
    ASSUME NEW u \in Users, Serial(u), serial'[u] => serial[u],
           \A s \in Sockets, k \in Kinds :
               job'[s][k] # job[s][k] => ~Works(u, s, k) /\ ~Works(u, s, k)',
           touch'[u] = touch[u], isOnline'[u] = isOnline[u],
           Connected(u)' <=> Connected(u), key[u] = 0 => key'[u] = 0
    PROVE  Serial(u)'
<1> SUFFICES ASSUME serial'[u] PROVE Stretch(u)'
  BY DEF Serial
<1>1. Stretch(u)
  BY DEF Serial
<1>2. \A s \in Sockets, k \in Kinds : Works(u, s, k)' <=> Works(u, s, k)
  BY DEF Works
<1>3. \A s \in Sockets, k \in Kinds : Works(u, s, k) => job'[s][k] = job[s][k]
  OBVIOUS
<1>4. InFlight(u)' <=> InFlight(u)
  <2>1. InFlight(u)' <=> \E s \in Sockets, k \in Kinds : Works(u, s, k)'
    BY DEF InFlight, Works
  <2> QED BY <1>2, <2>1, InFlightWorks
<1>5. Settled(u) => Settled(u)'
  BY DEF Settled
<1>6. ASSUME NEW s \in Sockets, NEW k \in Kinds, Works(u, s, k)'
      PROVE  OnlyWorks(u, s, k)' /\ Settling(u, s, k)'
  <2>1. Works(u, s, k) /\ job'[s][k] = job[s][k]
    BY <1>2, <1>3, <1>6
  <2>2. OnlyWorks(u, s, k) /\ Settling(u, s, k)
    BY <1>1, <2>1 DEF Stretch
  <2>3. OnlyWorks(u, s, k)'
    BY <1>2, <2>2 DEF OnlyWorks
  <2>4. Settling(u, s, k)'
    BY <2>1, <2>2 DEF Settling
  <2> QED BY <2>3, <2>4
<1> QED BY <1>1, <1>4, <1>5, <1>6 DEF Stretch

(* When u has no job but that of s and k, u has none but x after it.       *)
LEMMA OnlyAfter ==
    ASSUME TypeOK, NEW s \in Sockets, NEW k \in Kinds, NEW x, Becomes(s, k, x),
           NEW u \in Users, OnlyWorks(u, s, k)
    PROVE  /\ OnlyWorks(u, s, k)'
           /\ Works(u, s, k)' <=> x.pc # "idle" /\ x.user = u
           /\ job'[s][k] = x
<1>1. /\ job'[s][k] = x
      /\ \A c \in Sockets, l \in Kinds : c # s \/ l # k => job'[c][l] = job[c][l]
  BY JobsAfter
<1>2. OnlyWorks(u, s, k)'
  BY <1>1 DEF OnlyWorks, Works
<1> QED BY <1>1, <1>2 DEF Works

(* The one job of u goes on, or ends and leaves the user settled.          *)
LEMMA StretchGoesOn ==
    ASSUME NEW u \in Users, NEW s \in Sockets, NEW k \in Kinds,
           OnlyWorks(u, s, k)', touch'[u] = "idle",
           IF Works(u, s, k)' THEN Settling(u, s, k)' ELSE Settled(u)'
    PROVE  Stretch(u)'
<1>1. ASSUME NEW c \in Sockets, NEW l \in Kinds, Works(u, c, l)' PROVE c = s /\ l = k
  BY <1>1 DEF OnlyWorks
<1>2. ~InFlight(u)' => Settled(u)'
  BY DEF InFlight, Works
<1>3. ASSUME NEW c \in Sockets, NEW l \in Kinds, Works(u, c, l)'
      PROVE  OnlyWorks(u, c, l)' /\ Settling(u, c, l)'
  BY <1>1, <1>3
<1> QED BY <1>2, <1>3 DEF Stretch

(* A job that starts has the user to itself, or ends the serial stretch.   *)
LEMMA NoteStartMeans ==
    ASSUME TypeOK, NEW u \in Users, NEW moved \in BOOLEAN, NoteStart(u, moved)
    PROVE  /\ \A v \in Users : v # u => serial'[v] = serial[v]
           /\ serial'[u] => Quiet(u) /\ (moved \/ serial[u])
<1>1. serial' = [serial EXCEPT ![u] = Quiet(u) /\ (moved \/ serial[u])]
  BY DEF NoteStart
<1>2. serial \in [Users -> BOOLEAN]
  BY DEF TypeOK
<1>3. serial'[u] = (Quiet(u) /\ (moved \/ serial[u]))
  BY <1>1, <1>2
<1> QED BY <1>1, <1>2, <1>3

LEMMA QuietHasNone ==
    ASSUME NEW u \in Users, Quiet(u)
    PROVE  touch[u] = "idle" /\ \A s \in Sockets, k \in Kinds : ~Works(u, s, k)
BY DEF Quiet, InFlight, Works

LEMMA ConnectSettles ==
    ASSUME TypeOK, NEW s \in Sockets, NEW i \in Instances, NEW v \in Users, Connect(s, i, v),
           NEW u \in Users, Serial(u)
    PROVE  Serial(u)'
<1> DEFINE online == userSockets[i][v] = {}
           x == [pc |-> IF online THEN "db" ELSE "key",
                 inst |-> i, user |-> v, moved |-> online]
<1>1. /\ Becomes(s, "add", x) /\ job[s]["add"].pc = "idle" /\ NoteStart(v, online)
      /\ userSockets' = [userSockets EXCEPT ![i][v] = userSockets[i][v] \cup {s}]
      /\ UNCHANGED <<isOnline, key, touch>>
  BY DEF Connect, Kinds, Becomes, stored
<1>2. /\ x.pc # "idle" /\ x.pc # "announce" /\ x.user = v
      /\ x.pc # "db" => userSockets[i][v] # {}
  OBVIOUS
<1>3. online \in BOOLEAN
  OBVIOUS
<1>4. userSockets'[i][v] # {}
  BY <1>1 DEF TypeOK
<1>5. \A w \in Users : w # v => \A j \in Instances : userSockets'[j][w] = userSockets[j][w]
  BY <1>1 DEF TypeOK
<1> HIDE DEF x, online
<1>6. CASE u = v
  <2> SUFFICES ASSUME serial'[u] PROVE Stretch(u)'
    BY DEF Serial
  <2>1. Quiet(u) /\ (online \/ serial[u])
    BY <1>1, <1>3, <1>6, NoteStartMeans
  <2>2. touch[u] = "idle" /\ OnlyWorks(u, s, "add")
    BY <2>1, QuietHasNone DEF OnlyWorks
  <2>3. OnlyWorks(u, s, "add")' /\ Works(u, s, "add")' /\ job'[s]["add"] = x
    BY <1>1, <1>2, <1>6, <2>2, OnlyAfter DEF Kinds
  <2>4. Connected(u)'
    BY <1>4, <1>6 DEF Connected
  <2>5. OneInstance /\ x.pc # "db" => isOnline[u]
    <3> SUFFICES ASSUME OneInstance, x.pc # "db" PROVE isOnline[u]
      OBVIOUS
    <3>1. userSockets[i][u] # {} /\ serial[u]
      BY <1>2, <1>6, <2>1 DEF online
    <3>2. Settled(u) /\ Connected(u)
      BY <2>1, <3>1 DEF Serial, Stretch, Quiet, Connected
    <3> QED BY <3>2 DEF Settled
  <2>6. Settling(u, s, "add")'
    BY <1>1, <1>2, <2>3, <2>4, <2>5 DEF Settling
  <2> QED BY <1>1, <2>2, <2>3, <2>6, StretchGoesOn DEF Kinds
<1>7. CASE u # v
  <2>1. serial'[u] = serial[u]
    BY <1>1, <1>3, <1>7, NoteStartMeans
  <2>2. \A c \in Sockets, l \in Kinds :
           job'[c][l] # job[c][l] => ~Works(u, c, l) /\ ~Works(u, c, l)'
    <3>1. /\ job'[s]["add"] = x
          /\ \A c \in Sockets, l \in Kinds : c # s \/ l # "add" => job'[c][l] = job[c][l]
      BY <1>1, JobsAfter DEF Kinds
    <3> QED BY <1>1, <1>2, <1>7, <3>1 DEF Works
  <2>3. Connected(u)' <=> Connected(u)
    BY <1>5, <1>7 DEF Connected
  <2> QED BY <1>1, <2>1, <2>2, <2>3, StretchStays
<1> QED BY <1>6, <1>7

LEMMA DisconnectSettles ==
    ASSUME TypeOK, MapsAgree, RemovalsWait,
           NEW s \in Sockets, NEW i \in Instances, Disconnect(s, i),
           NEW u \in Users, Serial(u)
    PROVE  Serial(u)'
<1> DEFINE v == socketUser[i][s]
           last == userSockets[i][v] = {s}
           x == [pc |-> "db", inst |-> i, user |-> v, moved |-> TRUE]
<1>0. v \in Users /\ s \in userSockets[i][v]
  <2>1. v \in Users
    BY RegisteredUser DEF Disconnect
  <2> QED BY <2>1 DEF MapsAgree
<1>1. /\ job[s]["remove"].pc = "idle"
      /\ IF last THEN Becomes(s, "remove", x) /\ NoteStart(v, TRUE) ELSE UNCHANGED <<job, serial>>
      /\ userSockets' = [userSockets EXCEPT ![i][v] = userSockets[i][v] \ {s}]
      /\ UNCHANGED <<isOnline, key, touch>>
  BY <1>0 DEF Disconnect, RemovalsWait, Becomes, stored
<1>2. x.pc = "db" /\ x.user = v
  OBVIOUS
<1>3. userSockets'[i][v] = userSockets[i][v] \ {s}
  BY <1>0, <1>1 DEF TypeOK
<1>4. \A w \in Users : w # v => userSockets'[i][w] = userSockets[i][w]
  BY <1>0, <1>1 DEF TypeOK
<1>5. \A w \in Users : OneInstance => (Connected(w)' <=> userSockets'[i][w] # {})
  BY DEF Connected, OneInstance
<1>8. \A j \in Instances, w \in Users : j # i => userSockets'[j][w] = userSockets[j][w]
  BY <1>0, <1>1 DEF TypeOK
<1> HIDE DEF x, v
<1>6. CASE last /\ u = v
  <2> SUFFICES ASSUME serial'[u] PROVE Stretch(u)'
    BY DEF Serial
  <2>1. Quiet(u)
    BY <1>0, <1>1, <1>6, NoteStartMeans
  <2>2. touch[u] = "idle" /\ OnlyWorks(u, s, "remove")
    BY <2>1, QuietHasNone DEF OnlyWorks
  <2>3. OnlyWorks(u, s, "remove")' /\ Works(u, s, "remove")' /\ job'[s]["remove"] = x
    BY <1>1, <1>2, <1>6, <2>2, OnlyAfter DEF Kinds
  <2>4. OneInstance => ~Connected(u)'
    BY <1>3, <1>5, <1>6
  <2>5. Settling(u, s, "remove")'
    BY <1>2, <2>3, <2>4 DEF Settling
  <2> QED BY <1>1, <2>2, <2>3, <2>5, StretchGoesOn DEF Kinds
<1>7. CASE ~(last /\ u = v)
  <2>1. serial'[u] = serial[u]
    <3>1. CASE last
      BY <1>0, <1>1, <1>7, <3>1, NoteStartMeans
    <3>2. CASE ~last
      BY <1>1, <3>2
    <3> QED BY <3>1, <3>2
  <2>2. \A c \in Sockets, l \in Kinds :
           job'[c][l] # job[c][l] => ~Works(u, c, l) /\ ~Works(u, c, l)'
    <3>1. CASE last
      <4>1. /\ job'[s]["remove"] = x
            /\ \A c \in Sockets, l \in Kinds :
                  c # s \/ l # "remove" => job'[c][l] = job[c][l]
        BY <1>1, <3>1, JobsAfter DEF Kinds
      <4> QED BY <1>1, <1>2, <1>7, <3>1, <4>1 DEF Works
    <3>2. CASE ~last
      BY <1>1, <3>2
    <3> QED BY <3>1, <3>2
  <2>3. Connected(u)' <=> Connected(u)
    <3>1. CASE u = v
      <4>1. userSockets'[i][u] # {} /\ userSockets[i][u] # {}
        BY <1>0, <1>3, <1>7, <3>1
      <4> QED BY <4>1 DEF Connected
    <3>2. CASE u # v
      <4>1. \A j \in Instances : userSockets'[j][u] = userSockets[j][u]
        BY <1>4, <1>8, <3>2
      <4> QED BY <4>1 DEF Connected
    <3> QED BY <3>1, <3>2
  <2> QED BY <1>1, <2>1, <2>2, <2>3, StretchStays
<1> QED BY <1>6, <1>7

(* The writes of a job: each is done when its user has no other job.       *)
LEMMA JobSettles ==
    ASSUME TypeOK, NEW s \in Sockets, NEW k \in Kinds, JobStep(s, k),
           NEW u \in Users, Serial(u)
    PROVE  Serial(u)'
<1> DEFINE y == job[s][k]
           x == CASE y.pc = "db"       -> [y EXCEPT !.pc = "key"]
                  [] y.pc = "key"      -> IF y.moved THEN [y EXCEPT !.pc = "announce"] ELSE NoJob
                  [] y.pc = "announce" -> NoJob
<1>y. y \in Job
  BY DEF TypeOK
<1>1. /\ Becomes(s, k, x)
      /\ userSockets' = userSockets /\ touch' = touch /\ serial' = serial
      /\ y.pc \in {"db", "key", "announce"}
      /\ isOnline' = IF y.pc = "db" THEN [isOnline EXCEPT ![y.user] = (k = "add")] ELSE isOnline
      /\ key' = IF y.pc = "key" THEN [key EXCEPT ![y.user] = IF k = "add" THEN TTL ELSE 0] ELSE key
  <2>1. CASE WriteRow(s, k)
    <3>1. job' = [job EXCEPT ![s][k] = [job[s][k] EXCEPT !.pc = "key"]]
      BY <2>1 DEF WriteRow, TypeOK
    <3> QED BY <2>1, <3>1 DEF WriteRow, registry, history, Becomes
  <2>2. CASE WriteKey(s, k)
    BY <2>2 DEF WriteKey, registry, history, Becomes
  <2>3. CASE Announce(s, k)
    BY <2>3 DEF Announce, registry, stored, Becomes
  <2> QED BY <2>1, <2>2, <2>3 DEF JobStep
<1>2. x.pc # "idle" => x.user = y.user
  BY <1>1, <1>y, NoJobType DEF Job
<1>3. /\ y.pc = "db" => x.pc = "key"
      /\ y.pc = "key" => x.pc \in {"announce", "idle"}
      /\ y.pc = "announce" => x.pc = "idle"
  BY <1>y, NoJobType DEF Job
<1>4. Connected(u)' <=> Connected(u)
  BY <1>1 DEF Connected
<1> HIDE DEF x
<1>5. CASE y.user = u
  <2> SUFFICES ASSUME serial[u] PROVE Stretch(u)'
    BY <1>1 DEF Serial
  <2>1. /\ Stretch(u) /\ Works(u, s, k)
    BY <1>1, <1>5 DEF Serial, Works
  <2>2. touch[u] = "idle" /\ OnlyWorks(u, s, k) /\ Settling(u, s, k)
    BY <2>1 DEF Stretch
  <2>3. /\ OnlyWorks(u, s, k)' /\ job'[s][k] = x
        /\ Works(u, s, k)' <=> x.pc # "idle"
    BY <1>1, <1>2, <1>5, <2>2, OnlyAfter
  <2>4. (isOnline'[u] => k = "add") /\ (OneInstance /\ k = "add" => isOnline'[u])
    <3>1. CASE y.pc = "db"
      BY <1>1, <1>5, <3>1 DEF TypeOK
    <3>2. CASE y.pc # "db"
      BY <1>1, <2>2, <3>2 DEF Settling
    <3> QED BY <3>1, <3>2
  <2>5. y.pc # "db" /\ k = "remove" => key'[u] = 0
    <3>1. CASE y.pc = "key"
      BY <1>1, <1>5, <3>1 DEF TypeOK
    <3>2. CASE y.pc = "announce"
      BY <1>1, <2>2, <3>2 DEF Settling
    <3> QED BY <1>1, <3>1, <3>2
  <2>6. /\ k = "add" => Connected(u)'
        /\ OneInstance /\ k = "remove" => ~Connected(u)'
    BY <1>4, <2>2 DEF Settling
  <2>7. Works(u, s, k)' => Settling(u, s, k)'
    BY <1>1, <1>3, <2>3, <2>4, <2>5, <2>6 DEF Settling
  <2>8. ~Works(u, s, k)' => Settled(u)'
    <3> SUFFICES ASSUME ~Works(u, s, k)' PROVE Settled(u)'
      OBVIOUS
    <3>1. y.pc # "db"
      BY <1>3, <2>3
    <3> QED BY <2>4, <2>5, <2>6, <3>1 DEF Settled, Kinds
  <2> QED BY <1>1, <2>2, <2>3, <2>7, <2>8, StretchGoesOn
<1>6. CASE y.user # u
  <2>1. \A c \in Sockets, l \in Kinds :
           job'[c][l] # job[c][l] => ~Works(u, c, l) /\ ~Works(u, c, l)'
    <3>1. /\ job'[s][k] = x
          /\ \A c \in Sockets, l \in Kinds : c # s \/ l # k => job'[c][l] = job[c][l]
      BY <1>1, JobsAfter
    <3> QED BY <1>2, <1>6, <3>1 DEF Works
  <2>2. isOnline'[u] = isOnline[u] /\ key'[u] = key[u]
    BY <1>1, <1>6 DEF TypeOK
  <2> QED BY <1>1, <1>4, <2>1, <2>2, StretchStays
<1> QED BY <1>5, <1>6

(* Errors, logins, logouts and restarts end a serial stretch.              *)
LEMMA JobFailureSettles ==
    ASSUME TypeOK, NEW s \in Sockets, NEW k \in Kinds, JobFails(s, k),
           NEW u \in Users, Serial(u)
    PROVE  Serial(u)'
<1> DEFINE y == job[s][k]
<1>y. y.user \in Users
  BY DEF TypeOK, Job
<1>1. /\ Becomes(s, k, NoJob) /\ serial' = [serial EXCEPT ![y.user] = FALSE]
      /\ userSockets' = userSockets
      /\ UNCHANGED <<isOnline, key, touch>>
  BY DEF JobFails, registry, stored, Becomes
<1>2. CASE y.user = u
  BY <1>1, <1>2, <1>y DEF Serial, TypeOK
<1>3. CASE y.user # u
  <2>1. \A c \in Sockets, l \in Kinds :
           job'[c][l] # job[c][l] => ~Works(u, c, l) /\ ~Works(u, c, l)'
    <3>1. /\ job'[s][k] = NoJob
          /\ \A c \in Sockets, l \in Kinds : c # s \/ l # k => job'[c][l] = job[c][l]
      BY <1>1, JobsAfter
    <3> QED BY <1>3, <3>1, NoJobType DEF Works
  <2>2. serial'[u] = serial[u] /\ (Connected(u)' <=> Connected(u))
    BY <1>1, <1>3 DEF TypeOK, Connected
  <2> QED BY <1>1, <2>1, <2>2, StretchStays
<1> QED BY <1>2, <1>3

LEMMA TouchSettles ==
    ASSUME TypeOK, NEW v \in Users, NEW online \in BOOLEAN,
           TouchRow(v, online) \/ TouchKey(v) \/ TouchFails(v),
           NEW u \in Users, Serial(u)
    PROVE  Serial(u)'
<1>1. CASE u = v
  <2>1. ~serial'[u]
    <3>1. CASE TouchRow(v, online)
      BY <1>1, <3>1 DEF TouchRow, TypeOK
    <3>2. CASE TouchKey(v) \/ TouchFails(v)
      BY <1>1, <3>2 DEF TouchKey, TouchFails, Serial, Stretch, history
    <3> QED BY <3>1, <3>2
  <2> QED BY <2>1 DEF Serial
<1>2. CASE u # v
  <2>1. job' = job /\ userSockets' = userSockets
    BY DEF TouchRow, TouchKey, TouchFails, registry
  <2>2. /\ touch'[u] = touch[u] /\ isOnline'[u] = isOnline[u]
        /\ key'[u] = key[u] /\ serial'[u] = serial[u]
    BY <1>2 DEF TouchRow, TouchKey, TouchFails, TypeOK, stored, history
  <2>3. Connected(u)' <=> Connected(u)
    BY <2>1 DEF Connected
  <2> QED BY <2>1, <2>2, <2>3, StretchStays
<1> QED BY <1>1, <1>2

LEMMA IdleSettles ==
    ASSUME TypeOK, NEW u \in Users, Serial(u),
           \/ \E s \in Sockets, i \in Instances : Heartbeat(s, i)
           \/ Tick
           \/ UNCHANGED vars
    PROVE  Serial(u)'
<1>1. UNCHANGED <<userSockets, job, touch, isOnline, serial>>
  BY DEF Heartbeat, Tick, vars, registry, stored, history
<1>2. key[u] = 0 => key'[u] = 0
  <2>1. ASSUME NEW s \in Sockets, NEW i \in Instances, Heartbeat(s, i), key[u] = 0
        PROVE  key'[u] = 0
    BY <2>1 DEF Heartbeat, TypeOK
  <2>2. CASE Tick
    BY <2>2 DEF Tick, TypeOK
  <2>3. CASE UNCHANGED vars
    BY <2>3 DEF vars, stored
  <2> QED BY <2>1, <2>2, <2>3
<1>3. Connected(u)' <=> Connected(u)
  BY <1>1 DEF Connected
<1> QED BY <1>1, <1>2, <1>3, StretchStays

LEMMA SerialAlways == Spec => [](\A u \in Users : Serial(u))
<1> DEFINE SerialInv == \A u \in Users : Serial(u)
<1>1. Init => SerialInv
  BY DEF Init, Serial
<1>2. TypeOK /\ MapsAgree /\ RemovalsWait /\ SerialInv /\ [Next]_vars => SerialInv'
  <2> SUFFICES ASSUME TypeOK, MapsAgree, RemovalsWait, [Next]_vars,
                      NEW u \in Users, Serial(u)
               PROVE  Serial(u)'
    OBVIOUS
  <2>1. ASSUME NEW i \in Instances, Restart(i) PROVE Serial(u)'
    BY <2>1 DEF Restart, Serial
  <2> QED BY <2>1, StepCases, ConnectSettles, DisconnectSettles, JobSettles,
             JobFailureSettles, TouchSettles, IdleSettles DEF JobStep
<1> QED BY <1>1, <1>2, TypeCorrect, RegistryCorrect, RemovalsWaitAlways, PTL DEF Spec

(* With one instance, an online or offline job that had its user to itself *)
(* leaves row, registry and key agreeing, whatever happened before.        *)
THEOREM SerialCorrect ==
    ASSUME \A i, j \in Instances : i = j PROVE Spec => []SerialJobsSettle
<1>1. OneInstance
  BY DEF OneInstance
<1>2. TypeOK /\ (\A u \in Users : Serial(u)) => SerialJobsSettle
  BY <1>1, SerialMeaning
<1> QED BY <1>2, TypeCorrect, SerialAlways, PTL

(* What is left of it with several instances, whose last sockets take the  *)
(* user offline everywhere: after a serial job nobody is shown online who  *)
(* is connected nowhere, neither by the row nor by the key.                *)
NobodyLeftOnline ==
    \A u \in Users :
        Quiet(u) /\ serial[u] /\ ~Connected(u) => ~isOnline[u] /\ key[u] = 0

(* removeSocket takes the last socket's user offline, on any instance.     *)
THEOREM NobodyLeftCorrect == Spec => []NobodyLeftOnline
<1>1. (\A u \in Users : Serial(u)) => NobodyLeftOnline
  BY DEF Serial, Stretch, Settled, Quiet, NobodyLeftOnline
<1> QED BY <1>1, SerialAlways, PTL
------------------------------------------------------------------------------
(* Why a stale key expires: while a user stays away without jobs, no step  *)
(* prolongs the life of user:<id>:online, and every period shortens it.    *)
Away(u) == ~Connected(u) /\ Quiet(u)
KeyFades ==
    \A u \in Users : Away(u) /\ Away(u)' =>
        /\ key'[u] <= key[u]
        /\ Tick /\ key[u] # 0 => key'[u] < key[u]

LEMMA KeyFadesStep ==
    ASSUME TypeOK, MapsAgree, [Next]_vars, NEW u \in Users, Away(u)
    PROVE  /\ key'[u] <= key[u]
           /\ Tick /\ key[u] # 0 => key'[u] < key[u]
<1>t. key[u] \in Nat /\ touch[u] = "idle"
  BY DEF TypeOK, Away, Quiet
<1>1. CASE key' = key
  <2>1. ~Tick \/ key[u] = 0
    BY <1>1, <1>t DEF Tick
  <2> QED BY <1>1, <1>t, <2>1
<1>2. ASSUME NEW s \in Sockets, NEW i \in Instances, Heartbeat(s, i) PROVE key'[u] = key[u]
  <2>1. /\ socketUser[i][s] \in Users
        /\ key' = [key EXCEPT ![socketUser[i][s]] =
                       IF key[socketUser[i][s]] = 0 THEN 0 ELSE TTL]
    BY <1>2, RegisteredUser DEF Heartbeat
  <2>2. socketUser[i][s] # u
    <3> SUFFICES ASSUME socketUser[i][s] = u PROVE FALSE
      OBVIOUS
    <3>1. s \in userSockets[i][u]
      BY DEF MapsAgree
    <3> QED BY <3>1 DEF Away, Connected
  <2> QED BY <2>1, <2>2 DEF TypeOK
<1>3. ASSUME NEW s \in Sockets, NEW k \in Kinds, WriteKey(s, k) PROVE key'[u] = key[u]
  <2>1. job[s][k].user # u
    BY <1>3 DEF WriteKey, Away, Quiet, InFlight
  <2> QED BY <1>3, <2>1 DEF WriteKey, TypeOK
<1>4. ASSUME NEW v \in Users, TouchKey(v) PROVE key'[u] = key[u]
  BY <1>4, <1>t DEF TouchKey, TypeOK
<1>5. CASE Tick
  BY <1>5, <1>t DEF Tick
<1>6. (\E s \in Sockets, i \in Instances : Heartbeat(s, i))
        \/ (\E s \in Sockets, k \in Kinds : WriteKey(s, k))
        \/ (\E v \in Users : TouchKey(v))
      => key'[u] = key[u]
  BY <1>2, <1>3, <1>4
<1>7. key' = key \/ Tick
        \/ (\E s \in Sockets, i \in Instances : Heartbeat(s, i))
        \/ (\E s \in Sockets, k \in Kinds : WriteKey(s, k))
        \/ (\E v \in Users : TouchKey(v))
  BY StepCases DEF Connect, Disconnect, WriteRow, Announce, JobFails, TouchRow, TouchFails,
                   Restart, vars, stored
<1>8. CASE key'[u] = key[u]
  <2>1. ~Tick \/ key[u] = 0
    BY <1>8, <1>t DEF Tick
  <2> QED BY <1>8, <1>t, <2>1
<1> QED BY <1>1, <1>5, <1>6, <1>7, <1>8

(* No step of any handler keeps the presence key of an absent user alive.  *)
THEOREM KeyFadesCorrect == Spec => [][KeyFades]_vars
<1>1. TypeOK /\ MapsAgree /\ [Next]_vars => [KeyFades]_vars
  BY KeyFadesStep DEF KeyFades
<1> QED BY <1>1, TypeCorrect, RegistryCorrect, PTL DEF Spec
==============================================================================
