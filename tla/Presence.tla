------------------------------- MODULE Presence -------------------------------
(***************************************************************************)
(* Who is online: the socket registry of SocketStateService                *)
(* (socket/socket-state.service.ts) as RedisIoAdapter's connection and     *)
(* disconnection handlers drive it (socket/socket.adapter.ts), the         *)
(* heartbeat of PresenceGateway, AuthService.touchPresence on login and    *)
(* logout, and the reset at start-up (bootstrap/admin-seed.service.ts).    *)
(*                                                                         *)
(* A handler changes the registry synchronously when its event fires; the  *)
(* rest of it is a job that awaits the database, Redis and the publication *)
(* one after the other, and the adapter does not wait for it before it     *)
(* takes the next event.  So the jobs of one user overlap freely, and any  *)
(* of their awaits may reject.                                             *)
(***************************************************************************)
EXTENDS Integers, FiniteSets

CONSTANTS
    Instances,      \* server processes; each has a registry of its own
    Users,
    Sockets,        \* sockets that may be open at the same time
    NoUser,         \* "not in the map"
    TTL,            \* life of user:<id>:online, in heartbeat periods
    Production,     \* TRUE: NODE_ENV=production, no reset at start-up
    Faults          \* TRUE: awaits on the database and Redis may reject

ASSUME TTLAssumption == TTL \in Nat \ {0}
ASSUME ModeAssumption == Production \in BOOLEAN /\ Faults \in BOOLEAN
ASSUME NoUserAssumption == NoUser \notin Users
ASSUME PopulationAssumption == Instances # {} /\ Users # {}

VARIABLES
    userSockets,    \* instance -> user -> ids of the user's open sockets
    socketUser,     \* instance -> socket -> its user, or NoUser
    isOnline,       \* user row: isOnline
    seen,           \* user row: lastSeenAt is not null
    key,            \* user -> periods until user:<id>:online expires, 0 if absent
    job,            \* socket -> kind -> the handler that is under way
    touch           \* user -> the key write a login or logout still owes

(* History variables: no action reads them. *)
VARIABLES
    ledger,         \* instance -> user -> online minus offline jobs that ended
    serial          \* user -> its last online/offline job ran alone to its end

registry == <<userSockets, socketUser>>
stored   == <<isOnline, seen, key>>
history  == <<ledger, serial>>
vars     == <<registry, stored, job, touch, history>>

Kinds == {"add", "remove"}

(* What addSocket and removeSocket keep across their awaits; moved is      *)
(* becameOnline, or becameOffline.                                         *)
Job == [ pc : {"idle", "db", "key", "announce"},
         inst : Instances, user : Users, moved : BOOLEAN ]
NoJob == [ pc |-> "idle", inst |-> CHOOSE i \in Instances : TRUE,
           user |-> CHOOSE u \in Users : TRUE, moved |-> FALSE ]

TypeOK ==
    /\ userSockets \in [Instances -> [Users -> SUBSET Sockets]]
    /\ socketUser \in [Instances -> [Sockets -> Users \cup {NoUser}]]
    /\ isOnline \in [Users -> BOOLEAN]
    /\ seen \in [Users -> BOOLEAN]
    /\ key \in [Users -> 0..TTL]
    /\ job \in [Sockets -> [Kinds -> Job]]
    /\ touch \in [Users -> {"idle", "online", "offline"}]
    /\ ledger \in [Instances -> [Users -> Int]]
    /\ serial \in [Users -> BOOLEAN]
-------------------------------------------------------------------------------
InFlight(u) ==
    \E s \in Sockets, k \in Kinds : job[s][k].pc # "idle" /\ job[s][k].user = u
Quiet(u) == ~InFlight(u) /\ touch[u] = "idle"
Connected(u) == \E i \in Instances : userSockets[i][u] # {}
Registered(s) == {i \in Instances : socketUser[i][s] # NoUser}

Init ==
    /\ userSockets = [i \in Instances |-> [u \in Users |-> {}]]
    /\ socketUser = [i \in Instances |-> [s \in Sockets |-> NoUser]]
    /\ isOnline = [u \in Users |-> FALSE]
    /\ seen = [u \in Users |-> FALSE]
    /\ key = [u \in Users |-> 0]
    /\ job = [s \in Sockets |-> [k \in Kinds |-> NoJob]]
    /\ touch = [u \in Users |-> "idle"]
    /\ ledger = [i \in Instances |-> [u \in Users |-> 0]]
    /\ serial = [u \in Users |-> FALSE]

(* A job that moves its user starts a serial stretch when it has the user  *)
(* to itself; any job that starts beside another ends one.                 *)
NoteStart(u, moved) ==
    serial' = [serial EXCEPT ![u] = Quiet(u) /\ (moved \/ serial[u])]

(* An online or offline job ends, announced or cut short by an error. *)
NoteEnd(j, k) ==
    ledger' = IF j.moved
              THEN [ledger EXCEPT ![j.inst][j.user] =
                        IF k = "add" THEN @ + 1 ELSE @ - 1]
              ELSE ledger
-------------------------------------------------------------------------------
(* Mutant of Connect: whether the user came online is read from the row.   *)
ConnectAsksRow(s, i, u) ==
    /\ Registered(s) = {}
    /\ \A k \in Kinds : job[s][k].pc = "idle"
    /\ userSockets' = [userSockets EXCEPT ![i][u] = @ \cup {s}]
    /\ socketUser' = [socketUser EXCEPT ![i][s] = u]
    /\ job' = [job EXCEPT ![s]["add"] =
                  [pc |-> IF isOnline[u] THEN "key" ELSE "db",
                   inst |-> i, user |-> u, moved |-> ~isOnline[u]]]
    /\ NoteStart(u, ~isOnline[u])
    /\ UNCHANGED <<stored, touch, ledger>>

(* handleSocketConnected and the synchronous part of addSocket. *)
Connect(s, i, u) ==
    LET becameOnline == userSockets[i][u] = {} IN
    /\ Registered(s) = {}
    /\ \A k \in Kinds : job[s][k].pc = "idle"
    /\ userSockets' = [userSockets EXCEPT ![i][u] = @ \cup {s}]
    /\ socketUser' = [socketUser EXCEPT ![i][s] = u]
    /\ job' = [job EXCEPT ![s]["add"] =
                  [pc |-> IF becameOnline THEN "db" ELSE "key",
                   inst |-> i, user |-> u, moved |-> becameOnline]]
    /\ NoteStart(u, becameOnline)
    /\ UNCHANGED <<stored, touch, ledger>>

(* Mutant of Disconnect: the socket stays in the map socketUser. *)
DisconnectKeepsUser(s, i) ==
    LET u == socketUser[i][s] IN
    /\ i \in Registered(s)
    /\ userSockets' = [userSockets EXCEPT ![i][u] = @ \ {s}]
    /\ UNCHANGED <<socketUser, stored, job, touch, history>>

(* handleSocketDisconnected and the synchronous part of removeSocket: only *)
(* the user's last socket has anything to await.                           *)
Disconnect(s, i) ==
    LET u == socketUser[i][s]
        becameOffline == userSockets[i][u] = {s}
    IN
    /\ i \in Registered(s)
    /\ userSockets' = [userSockets EXCEPT ![i][u] = @ \ {s}]
    /\ socketUser' = [socketUser EXCEPT ![i][s] = NoUser]
    /\ IF becameOffline
       THEN /\ job' = [job EXCEPT ![s]["remove"] =
                          [pc |-> "db", inst |-> i, user |-> u, moved |-> TRUE]]
            /\ NoteStart(u, TRUE)
       ELSE UNCHANGED <<job, serial>>
    /\ UNCHANGED <<stored, touch, ledger>>

(* prisma.user.update of addSocket (lastSeenAt: null) and of removeSocket  *)
(* (lastSeenAt: now).                                                      *)
WriteRow(s, k) ==
    LET u == job[s][k].user IN
    /\ job[s][k].pc = "db"
    /\ isOnline' = [isOnline EXCEPT ![u] = (k = "add")]
    /\ seen' = [seen EXCEPT ![u] = (k = "remove")]
    /\ job' = [job EXCEPT ![s][k].pc = "key"]
    /\ UNCHANGED <<registry, key, touch, history>>

(* Mutants of WriteKey: the key is written without its TTL; a removal      *)
(* renews the key.                                                         *)
WriteKeyForever(s, k) ==
    LET j == job[s][k] IN
    /\ j.pc = "key"
    /\ key' = [key EXCEPT ![j.user] = IF k = "add" THEN -1 ELSE 0]
    /\ job' = [job EXCEPT ![s][k] = IF j.moved THEN [j EXCEPT !.pc = "announce"] ELSE NoJob]
    /\ UNCHANGED <<registry, isOnline, seen, touch, history>>

WriteKeyAlwaysSets(s, k) ==
    LET j == job[s][k] IN
    /\ j.pc = "key"
    /\ key' = [key EXCEPT ![j.user] = TTL]
    /\ job' = [job EXCEPT ![s][k] = IF j.moved THEN [j EXCEPT !.pc = "announce"] ELSE NoJob]
    /\ UNCHANGED <<registry, isOnline, seen, touch, history>>

(* redisService.set with 120 seconds, or del, of user:<id>:online.  A      *)
(* socket that is not its user's first one only renews the key.            *)
WriteKey(s, k) ==
    LET j == job[s][k] IN
    /\ j.pc = "key"
    /\ key' = [key EXCEPT ![j.user] = IF k = "add" THEN TTL ELSE 0]
    /\ job' = [job EXCEPT ![s][k] = IF j.moved THEN [j EXCEPT !.pc = "announce"] ELSE NoJob]
    /\ UNCHANGED <<registry, isOnline, seen, touch, history>>

(* Publish on presence.events, then emit USER_ONLINE or USER_OFFLINE. *)
Announce(s, k) ==
    /\ job[s][k].pc = "announce"
    /\ job' = [job EXCEPT ![s][k] = NoJob]
    /\ NoteEnd(job[s][k], k)
    /\ UNCHANGED <<registry, stored, touch, serial>>

(* An await rejects: the adapter logs the error, the registry stays.       *)
JobFails(s, k) ==
    /\ Faults
    /\ job[s][k].pc # "idle"
    /\ job' = [job EXCEPT ![s][k] = NoJob]
    /\ NoteEnd(job[s][k], k)
    /\ serial' = [serial EXCEPT ![job[s][k].user] = FALSE]
    /\ UNCHANGED <<registry, stored, touch>>
-------------------------------------------------------------------------------
(* touchPresence of a login or a logout: the row first (a login leaves     *)
(* lastSeenAt alone), the key one await later.  Bound: one of a user at a  *)
(* time.                                                                   *)
TouchRow(u, online) ==
    /\ touch[u] = "idle"
    /\ isOnline' = [isOnline EXCEPT ![u] = online]
    /\ seen' = [seen EXCEPT ![u] = @ \/ ~online]
    /\ touch' = [touch EXCEPT ![u] = IF online THEN "online" ELSE "offline"]
    /\ serial' = [serial EXCEPT ![u] = FALSE]
    /\ UNCHANGED <<registry, key, job, ledger>>

TouchKey(u) ==
    /\ touch[u] # "idle"
    /\ key' = [key EXCEPT ![u] = IF touch[u] = "online" THEN TTL ELSE 0]
    /\ touch' = [touch EXCEPT ![u] = "idle"]
    /\ UNCHANGED <<registry, isOnline, seen, job, history>>

TouchFails(u) ==
    /\ Faults
    /\ touch[u] # "idle"
    /\ touch' = [touch EXCEPT ![u] = "idle"]
    /\ UNCHANGED <<registry, stored, job, history>>

(* Mutant of Heartbeat: the life left is extended instead of renewed. *)
HeartbeatExtends(s, i) ==
    LET u == socketUser[i][s] IN
    /\ i \in Registered(s)
    /\ key' = [key EXCEPT ![u] = IF key[u] = 0 THEN 0 ELSE key[u] + TTL]
    /\ UNCHANGED <<registry, isOnline, seen, job, touch, ledger, serial>>

(* PresenceGateway.handleHeartbeat: EXPIRE does nothing to an absent key. *)
Heartbeat(s, i) ==
    LET u == socketUser[i][s] IN
    /\ i \in Registered(s)
    /\ key' = [key EXCEPT ![u] = IF key[u] = 0 THEN 0 ELSE TTL]
    /\ UNCHANGED <<registry, isOnline, seen, job, touch, ledger, serial>>

(* A heartbeat period passes.  A key without expiry (-1) would stay. *)
Tick ==
    /\ key' = [u \in Users |-> IF key[u] > 0 THEN key[u] - 1 ELSE key[u]]
    /\ UNCHANGED <<registry, isOnline, seen, job, touch, ledger, serial>>

(* An instance dies and starts again: its sockets and jobs are gone.       *)
(* Outside production AdminSeedService then sets every row offline.        *)
Restart(i) ==
    /\ userSockets' = [userSockets EXCEPT ![i] = [u \in Users |-> {}]]
    /\ socketUser' = [socketUser EXCEPT ![i] = [s \in Sockets |-> NoUser]]
    /\ job' = [s \in Sockets |-> [k \in Kinds |->
                  IF job[s][k].inst = i THEN NoJob ELSE job[s][k]]]
    /\ isOnline' = IF Production THEN isOnline ELSE [u \in Users |-> FALSE]
    /\ ledger' = [ledger EXCEPT ![i] = [u \in Users |-> 0]]
    /\ serial' = [u \in Users |-> FALSE]
    /\ UNCHANGED <<seen, key, touch>>

JobStep(s, k) == WriteRow(s, k) \/ WriteKey(s, k) \/ Announce(s, k)

Next ==
    \/ \E s \in Sockets, i \in Instances :
          \/ \E u \in Users : Connect(s, i, u)
          \/ Disconnect(s, i)
          \/ Heartbeat(s, i)
    \/ \E s \in Sockets, k \in Kinds : JobStep(s, k) \/ JobFails(s, k)
    \/ \E u \in Users, online \in BOOLEAN : TouchRow(u, online)
    \/ \E u \in Users : TouchKey(u) \/ TouchFails(u)
    \/ Tick
    \/ \E i \in Instances : Restart(i)

Spec == Init /\ [][Next]_vars

(* The database and Redis answer or reject, and time passes.  Clients owe  *)
(* nothing: not a heartbeat, and not a clean disconnect.                   *)
Fairness ==
    /\ \A s \in Sockets, k \in Kinds : WF_vars(JobStep(s, k))
    /\ \A u \in Users : WF_vars(TouchKey(u))
    /\ WF_vars(Tick)
FairSpec == Spec /\ Fairness
-------------------------------------------------------------------------------
(* The two maps of SocketStateService agree: a socket is listed under its  *)
(* user and under nobody else, on one instance, so the user of a socket    *)
(* and the sockets of a user can be asked either way (getUserId,           *)
(* getSocketIds, isOnline).                                                *)
MapsAgree ==
    /\ \A i \in Instances, u \in Users, s \in Sockets :
          s \in userSockets[i][u] <=> socketUser[i][s] = u
    /\ \A s \in Sockets : \A i, j \in Registered(s) : i = j

(* becameOnline and becameOffline are decided with the change of the       *)
(* registry, so however jobs overlap and fail, every online period of a    *)
(* user on an instance owns one online job and, once over, one offline job.*)
TransitionsBalance ==
    \A i \in Instances, u \in Users :
        LET pending(k) == Cardinality({s \in Sockets :
                /\ job[s][k].pc # "idle" /\ job[s][k].moved
                /\ job[s][k].inst = i /\ job[s][k].user = u})
        IN ledger[i][u] + pending("add") - pending("remove")
               = IF userSockets[i][u] = {} THEN 0 ELSE 1

(* An online or offline job that had its user to itself leaves row and     *)
(* registry agreeing, and no key behind when the user is gone, whatever    *)
(* earlier overlaps or errors left there.  It is a property of one         *)
(* instance: the last socket of one is not the last of all.                *)
SerialJobsSettle ==
    \A u \in Users :
        (Quiet(u) /\ serial[u]) =>
            /\ isOnline[u] = Connected(u)
            /\ ~Connected(u) => key[u] = 0

(* The TTL is what cleans up after a crash: a user who stays away without  *)
(* unfinished jobs ends up without the key user:<id>:online, even if no    *)
(* disconnection was ever handled.                                         *)
StaleKeyExpires ==
    \A u \in Users :
        <>[](~Connected(u) /\ Quiet(u)) => <>[](key[u] = 0)
===============================================================================
