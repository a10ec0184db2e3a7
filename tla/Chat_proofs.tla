------------------------------ MODULE Chat_proofs ------------------------------
(***************************************************************************)
(* Theorems about Chat, for any number of users, rooms, requests and       *)
(* sockets.  The composition keeps what is proved about Conversation.      *)
(***************************************************************************)
EXTENDS Chat, Conversation_proofs

(* Who is in a room is on record, and a room that exists has a record. *)
Recorded ==
    \A id \in RoomIds : /\ room[id].members \subseteq ever[id]
                        /\ Exists(id) <=> ever[id] # {}

Tables == Typed /\ DirectInv /\ Recorded

(* A socket about to join has passed its check; one in a room has been a   *)
(* member.                                                                 *)
Asked == \A s \in Sockets : joining[s] # NoRoom => socketUser[s] \in ever[joining[s]]

ChatInv == Tables /\ SocketsTypeOK /\ Asked /\ ListenersWereMembers

(* The record of a room's members only grows: a request adds to it, and a  *)
(* creation finds it empty, since an addition is to an existing room.      *)
LEMMA EverGrows ==
    ASSUME Tables, [Next]_vars
    PROVE  Recorded' /\ \A id \in RoomIds : ever[id] \subseteq ever'[id]
<1> USE DEF Tables, Typed, TypeOK, Handlers, Recorded, Exists
<1> DEFINE Goal == Recorded' /\ \A id \in RoomIds : ever[id] \subseteq ever'[id]
<1>1. ASSUME room' = room, ever' = ever PROVE Goal
  BY <1>1
<1>2. ASSUME NEW r \in Requests, NEW u \in Users, Start(r, u) PROVE Goal
  BY <1>1, <1>2 DEF Start, StartDirect, StartGroup, StartChange, Begin, history
<1>3. ASSUME NEW r \in Requests, Lookup(r) PROVE Goal
  BY <1>1, <1>3 DEF Lookup, history
<1>4. ASSUME NEW r \in Requests, NEW id \in RoomIds, Create(r, id) PROVE Goal
  <2>1. ever[id] = {} /\ ever'[id] = Pair(r) /\ room'[id].members = Pair(r)
    BY <1>4 DEF Create, Room
  <2>2. room'[id].type # "none" /\ Pair(r) # {}
    BY <1>4 DEF Create, Pair
  <2>3. \A j \in RoomIds \ {id} : room'[j] = room[j] /\ ever'[j] = ever[j]
    BY <1>4 DEF Create
  <2> QED BY <2>1, <2>2, <2>3
<1>5. ASSUME NEW r \in Requests, Check(r) PROVE Goal
  BY <1>1, <1>5 DEF Check
<1>6. ASSUME NEW r \in Requests, Insert(r) PROVE Goal
  <2> DEFINE id == req[r].id
  <2>1. id \in RoomIds /\ room[id].type = "GROUP"
    BY <1>6 DEF Insert, DirectInv, DirectShape
  <2>2. /\ room'[id].type = room[id].type
        /\ room'[id].members = room[id].members \cup req[r].whom
        /\ ever'[id] = ever[id] \cup req[r].whom
    BY <1>6, <2>1 DEF Insert, Room
  <2>3. \A j \in RoomIds \ {id} : room'[j] = room[j] /\ ever'[j] = ever[j]
    BY <1>6 DEF Insert
  <2> HIDE DEF id
  <2> QED BY <2>1, <2>2, <2>3
<1>7. ASSUME NEW r \in Requests, Delete(r) PROVE Goal
  <2>1. ever' = ever /\ \A j \in RoomIds : /\ room'[j].type = room[j].type
                                          /\ room'[j].members \subseteq room[j].members
    BY <1>7 DEF Delete, Room
  <2> QED BY <2>1
<1>8. ASSUME NEW r \in Requests, Answer(r) \/ Abort(r) PROVE Goal
  BY <1>1, <1>8 DEF Answer, Abort
<1>9. CASE UNCHANGED vars
  BY <1>1, <1>9 DEF vars, history
<1> QED
  BY <1>2, <1>3, <1>4, <1>5, <1>6, <1>7, <1>8, <1>9 DEF Next, Step

(* A step of a socket keeps what is known of the sockets. *)
LEMMA SocketKeeps ==
    ASSUME ChatInv, NEW s \in Sockets, SocketStep(s), UNCHANGED vars
    PROVE  ChatInv'
<1> USE DEF SocketsTypeOK, Asked, ListenersWereMembers
<1>1. Tables' /\ ever' = ever
  BY DEF ChatInv, Tables, Typed, TypeOK, Handlers, DirectInv, DirectShape, DirectStaysPair,
         Recorded, Exists, vars, history
<1>2. ASSUME NEW u \in Users, Connect(s, u) PROVE ChatInv'
  <2>1. joined[s] = {} /\ joining[s] = NoRoom
    <3>1. \A id \in RoomIds : NoUser \notin ever[id]
      BY NoUserAssumption DEF ChatInv, Tables, Typed, TypeOK
    <3> QED BY <1>2, <3>1 DEF Connect, ChatInv
  <2> QED BY <1>1, <1>2, <2>1 DEF Connect, ChatInv
<1>3. ASSUME Disconnect(s) PROVE ChatInv'
  BY <1>1, <1>3 DEF Disconnect, ChatInv
<1>4. ASSUME NEW id \in RoomIds, AskJoin(s, id) PROVE ChatInv'
  <2>1. socketUser[s] \in ever[id]
    BY <1>4 DEF AskJoin, ChatInv, Tables, Recorded
  <2> QED BY <1>1, <1>4, <2>1 DEF AskJoin, ChatInv
<1>5. ASSUME NEW id \in RoomIds, LeaveRoom(s, id) PROVE ChatInv'
  BY <1>1, <1>5 DEF LeaveRoom, ChatInv
<1>6. ASSUME Join(s) PROVE ChatInv'
  BY <1>1, <1>6 DEF Join, ChatInv
<1> QED BY <1>2, <1>3, <1>4, <1>5, <1>6 DEF SocketStep

(* No step of the composition breaks the invariant. *)
LEMMA ChatStep == ChatInv /\ [ChatNext]_chatVars => ChatInv'
<1> SUFFICES ASSUME ChatInv, [ChatNext]_chatVars PROVE ChatInv'
  OBVIOUS
<1>1. ASSUME [Next]_vars, UNCHANGED sockets PROVE ChatInv'
  <2>1. Typed' /\ DirectInv'
    BY <1>1, TypedStep, DirectStep DEF ChatInv, Tables
  <2>2. Recorded' /\ \A id \in RoomIds : ever[id] \subseteq ever'[id]
    BY <1>1, EverGrows DEF ChatInv
  <2>3. SocketsTypeOK' /\ Asked' /\ ListenersWereMembers'
    BY <1>1, <2>2 DEF ChatInv, SocketsTypeOK, Asked, ListenersWereMembers, sockets
  <2> QED BY <2>1, <2>2, <2>3 DEF ChatInv, Tables
<1> QED BY <1>1, SocketKeeps DEF ChatNext, chatVars

(* Everything that is known of tables and sockets together. *)
LEMMA ChatInvariant == ChatSpec => []ChatInv
<1>1. ChatInit => ChatInv
  <2> SUFFICES ASSUME ChatInit PROVE ChatInv
    OBVIOUS
  <2>1. Typed
    BY IdleType DEF ChatInit, Init, Typed, TypeOK, Handlers, NoSuchRoom, Room
  <2>2. DirectInv
    BY DEF ChatInit, Init, DirectInv, DirectShape, DirectStaysPair, NoSuchRoom, Idle
  <2>3. Recorded
    BY DEF ChatInit, Init, Recorded, Exists, NoSuchRoom
  <2>4. SocketsTypeOK /\ Asked /\ ListenersWereMembers
    BY DEF ChatInit, SocketsTypeOK, Asked, ListenersWereMembers
  <2> QED BY <2>1, <2>2, <2>3, <2>4 DEF ChatInv, Tables
<1> QED BY <1>1, ChatStep, PTL DEF ChatSpec

(* What is sent to a room reaches only sockets of users who have been its  *)
(* members: between the check of handleJoinRoom and the join, a membership *)
(* may end but the record of it stays, and a socket's user never changes   *)
(* while it is connected.                                                  *)
THEOREM ListenersCorrect == ChatSpec => []ListenersWereMembers
BY ChatInvariant, PTL DEF ChatInv

(* Sockets interfere with no request: every behaviour of the composition   *)
(* is one of Conversation, so its theorems hold of the gateway too.        *)
LEMMA ChatImplementsConversation == ChatSpec => Spec
<1>1. ChatInit => Init
  BY DEF ChatInit
<1>2. [ChatNext]_chatVars => [Next]_vars
  BY DEF ChatNext, chatVars
<1> QED BY <1>1, <1>2, PTL DEF ChatSpec, Spec

(* A step of a request does to rooms what Channel allows, or nothing.      *)
LEMMA RequestRefines ==
    ASSUME ChatInv, Next, UNCHANGED sockets
    PROVE  [Promise!ChannelNext]_(Promise!channel)
<1> USE DEF Promise!channel
<1> DEFINE members == [id \in RoomIds |-> room[id].members]
<1>1. UNCHANGED Listeners
  BY DEF sockets, Listeners
<1>2. ASSUME room' = room, ever' = ever PROVE UNCHANGED Promise!channel
  BY <1>1, <1>2
<1>3. ASSUME NEW r \in Requests, NEW id \in RoomIds, Create(r, id)
      PROVE  Promise!ChannelNext
  <2>1. ever[id] = {} /\ Pair(r) # {} /\ Pair(r) \in SUBSET Users
    <3>1. Pair(r) \subseteq Users
      BY <1>3, ChatStep DEF Create, ChatInv, Tables, Typed, TypeOK, Handlers, Pair, Request
    <3> QED BY <1>3, <3>1 DEF Create, ChatInv, Tables, Recorded, Exists, Pair
  <2>2. members' = [members EXCEPT ![id] = Pair(r)]
    BY <1>3 DEF Create, ChatInv, Tables, Typed, TypeOK, Room
  <2>3. ever' = [ever EXCEPT ![id] = Pair(r)]
    BY <1>3 DEF Create
  <2> QED BY <1>1, <2>1, <2>2, <2>3 DEF Promise!ChannelNext, Promise!Found
<1>4. ASSUME NEW r \in Requests, Insert(r)
      PROVE  Promise!ChannelNext
  <2> DEFINE id == req[r].id
  <2>1. id \in RoomIds /\ ever[id] # {} /\ req[r].whom \in SUBSET Users
    <3>1. id \in RoomIds /\ room[id].type = "GROUP"
      BY <1>4 DEF Insert, ChatInv, Tables, Typed, Handlers, DirectInv, DirectShape
    <3>2. req[r].whom \in SUBSET Users
      BY DEF ChatInv, Tables, Typed, TypeOK, Handlers, Request
    <3> QED BY <3>1, <3>2 DEF ChatInv, Tables, Recorded, Exists
  <2>2. members' = [members EXCEPT ![id] = @ \cup req[r].whom]
    BY <1>4, <2>1 DEF Insert, ChatInv, Tables, Typed, TypeOK, Room
  <2>3. ever' = [ever EXCEPT ![id] = @ \cup req[r].whom]
    BY <1>4 DEF Insert
  <2> QED BY <1>1, <2>1, <2>2, <2>3 DEF Promise!ChannelNext, Promise!Admit
<1>5. ASSUME NEW r \in Requests, Delete(r)
      PROVE  [Promise!ChannelNext]_(Promise!channel)
  <2> DEFINE id == req[r].id
  <2>1. req[r].whom \in SUBSET Users /\ ever' = ever
    BY <1>5 DEF Delete, ChatInv, Tables, Typed, TypeOK, Handlers, Request
  <2>2. CASE id \in RoomIds
    <3>1. members' = [members EXCEPT ![id] = @ \ req[r].whom]
      BY <1>5, <2>2 DEF Delete, ChatInv, Tables, Typed, TypeOK, Room
    <3> QED BY <1>1, <2>1, <2>2, <3>1 DEF Promise!ChannelNext, Promise!Drop
  <2>3. CASE id \notin RoomIds
    <3>1. room' = room
      BY <1>5, <2>3 DEF Delete, ChatInv, Tables, Typed, TypeOK
    <3> QED BY <1>2, <2>1, <3>1
  <2> QED BY <2>2, <2>3
<1>6. ASSUME NEW r \in Requests,
             Lookup(r) \/ Check(r) \/ Answer(r) \/ Abort(r) \/ \E u \in Users : Start(r, u)
      PROVE  UNCHANGED Promise!channel
  BY <1>2, <1>6 DEF Lookup, Check, Answer, Abort, Start, StartDirect, StartGroup, StartChange,
     Begin, history
<1> QED BY <1>3, <1>4, <1>5, <1>6 DEF Next, Step

(* So does a step of a socket: it listens for its user, or falls silent.   *)
LEMMA SocketRefines ==
    ASSUME ChatInv, NEW s \in Sockets, SocketStep(s), UNCHANGED vars
    PROVE  [Promise!ChannelNext]_(Promise!channel)
<1> USE DEF Promise!channel, ChatInv, SocketsTypeOK, Listeners
<1>1. /\ UNCHANGED [id \in RoomIds |-> room[id].members]
      /\ UNCHANGED ever
  BY DEF vars, history
<1>2. ASSUME NEW ids \in SUBSET RoomIds,
             Listeners' = {l \in Listeners : l[1] \in ids => l[2] \notin {s}}
      PROVE  Promise!ChannelNext
  BY <1>1, <1>2 DEF Promise!ChannelNext, Promise!Hush
<1>3. ASSUME NEW u \in Users, Connect(s, u) PROVE UNCHANGED Promise!channel
  <2>1. joined[s] = {}
    <3>1. \A id \in RoomIds : NoUser \notin ever[id]
      BY NoUserAssumption DEF Tables, Typed, TypeOK
    <3> QED BY <1>3, <3>1 DEF Connect, ListenersWereMembers
  <2>2. \A l \in RoomIds \X Sockets \X Users : l \in Listeners' <=> l \in Listeners
    BY <1>3, <2>1 DEF Connect
  <2>3. Listeners' = Listeners
    BY <2>2
  <2> QED BY <1>1, <2>3
<1>4. CASE Disconnect(s)
  BY <1>2, <1>4, NoUserAssumption DEF Disconnect
<1>5. ASSUME NEW id \in RoomIds, AskJoin(s, id) PROVE UNCHANGED Promise!channel
  BY <1>1, <1>5 DEF AskJoin
<1>6. ASSUME NEW id \in RoomIds, LeaveRoom(s, id) PROVE Promise!ChannelNext
  <2>1. Listeners' = {l \in Listeners : l[1] \in {id} => l[2] \notin {s}}
    BY <1>6 DEF LeaveRoom
  <2> DEFINE ids == {id}
  <2>2. ids \in SUBSET RoomIds
    OBVIOUS
  <2> HIDE DEF Listeners, ids
  <2>3. Listeners' = {l \in Listeners : l[1] \in ids => l[2] \notin {s}}
    BY <2>1 DEF ids
  <2> QED BY <1>2, <2>2, <2>3
<1>7. CASE Join(s)
  <2> DEFINE id == joining[s]
             u == socketUser[s]
  <2>1. id \in RoomIds /\ u \in Users /\ u \in ever[id]
    BY <1>7 DEF Join, Asked, Tables, Typed, TypeOK
  <2>2. Listeners' = Listeners \cup {<<id, s, u>>}
    BY <1>7, <2>1 DEF Join
  <2>3. \A l \in Listeners : l[2] = s => l[3] = u
    OBVIOUS
  <2> HIDE DEF id, u
  <2> QED BY <1>1, <2>1, <2>2, <2>3 DEF Promise!ChannelNext, Promise!Listen
<1> QED BY <1>3, <1>4, <1>5, <1>6, <1>7 DEF SocketStep

(* The detailed specification implements the abstract one: what Message    *)
(* assumes of conversations is what their requests and sockets do.         *)
THEOREM ChatImplementsChannel == ChatSpec => KeepsChannel
<1>1. ChatInit => Promise!ChannelInit
  BY DEF ChatInit, Init, NoSuchRoom, Promise!ChannelInit, Listeners
<1>2. ChatInv /\ [ChatNext]_chatVars => [Promise!ChannelNext]_(Promise!channel)
  <2> SUFFICES ASSUME ChatInv, [ChatNext]_chatVars
               PROVE  [Promise!ChannelNext]_(Promise!channel)
    OBVIOUS
  <2>1. CASE UNCHANGED chatVars
    BY <2>1 DEF chatVars, vars, history, sockets, Promise!channel, Listeners
  <2> QED BY <2>1, RequestRefines, SocketRefines DEF ChatNext
<1> QED BY <1>1, <1>2, ChatInvariant, PTL DEF ChatSpec, KeepsChannel, Promise!ChannelSpec

(* Sockets keep their types, whatever the requests do beside them.         *)
THEOREM SocketsTyped == ChatSpec => []SocketsTypeOK
BY ChatInvariant, PTL DEF ChatInv
===============================================================================
