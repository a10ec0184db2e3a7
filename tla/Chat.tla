--------------------------------- MODULE Chat ---------------------------------
(***************************************************************************)
(* The namespace /chat: ChatGateway (modules/chat/chat.gateway.ts) and the *)
(* Socket.IO rooms it keeps beside the table room_members of Conversation. *)
(* Requests and sockets interleave: a client joins a room in two steps,    *)
(* the answer of isMember and the join, and nothing takes a socket out of  *)
(* a room when its user leaves the conversation.                           *)
(***************************************************************************)
EXTENDS Conversation

CONSTANTS
    Sockets         \* sockets on the namespace /chat

VARIABLES
    socketUser, \* socket -> client.data.userId, NoUser when it is not connected
    joining,    \* socket -> room whose membership check has passed, or NoRoom
    joined      \* socket -> Socket.IO rooms it is in

sockets  == <<socketUser, joining, joined>>
chatVars == <<vars, sockets>>

SocketsTypeOK ==
    /\ socketUser \in [Sockets -> Users \cup {NoUser}]
    /\ joining \in [Sockets -> RoomIds \cup {NoRoom}]
    /\ joined \in [Sockets -> SUBSET RoomIds]

ChatInit ==
    /\ Init
    /\ socketUser = [s \in Sockets |-> NoUser]
    /\ joining = [s \in Sockets |-> NoRoom]
    /\ joined = [s \in Sockets |-> {}]
-------------------------------------------------------------------------------
(* authenticateSocket of the adapter has accepted the user's access token, *)
(* for the whole life of the socket, and handleConnection only logs: a     *)
(* socket is in no room of a conversation before it asks.                  *)
Connect(s, u) ==
    /\ socketUser[s] = NoUser
    /\ socketUser' = [socketUser EXCEPT ![s] = u]
    /\ UNCHANGED <<joining, joined>>

(* Mutant of Disconnect: a check that has passed outlives the connection. *)
DisconnectAsked(s) ==
    /\ socketUser[s] # NoUser
    /\ socketUser' = [socketUser EXCEPT ![s] = NoUser]
    /\ joined' = [joined EXCEPT ![s] = {}]
    /\ UNCHANGED joining

(* Socket.IO takes a socket that is gone out of all its rooms. *)
Disconnect(s) ==
    /\ socketUser[s] # NoUser
    /\ socketUser' = [socketUser EXCEPT ![s] = NoUser]
    /\ joining' = [joining EXCEPT ![s] = NoRoom]
    /\ joined' = [joined EXCEPT ![s] = {}]

(* Mutant of AskJoin: any room that exists can be joined. *)
AskJoinUnchecked(s, id) ==
    /\ socketUser[s] # NoUser /\ joining[s] = NoRoom
    /\ Exists(id)
    /\ joining' = [joining EXCEPT ![s] = id]
    /\ UNCHANGED <<socketUser, joined>>

(* handleJoinRoom: ask isMember, ...  (bound: one join of a socket is      *)
(* under way at a time) *)
AskJoin(s, id) ==
    /\ socketUser[s] # NoUser /\ joining[s] = NoRoom
    /\ socketUser[s] \in room[id].members
    /\ joining' = [joining EXCEPT ![s] = id]
    /\ UNCHANGED <<socketUser, joined>>

(* Mutant of Join: it does not wait for the answer. *)
JoinUnasked(s) ==
    /\ joined' = [joined EXCEPT ![s] = @ \cup {joining[s]}]
    /\ joining' = [joining EXCEPT ![s] = NoRoom]
    /\ UNCHANGED socketUser

(* ... and join when the answer is there. *)
Join(s) ==
    /\ joining[s] # NoRoom
    /\ joined' = [joined EXCEPT ![s] = @ \cup {joining[s]}]
    /\ joining' = [joining EXCEPT ![s] = NoRoom]
    /\ UNCHANGED socketUser

(* handleLeaveRoom.  Neither leaving nor removal from a conversation does  *)
(* this for the client.                                                    *)
LeaveRoom(s, id) ==
    /\ id \in joined[s]
    /\ joined' = [joined EXCEPT ![s] = @ \ {id}]
    /\ UNCHANGED <<socketUser, joining>>
-------------------------------------------------------------------------------
SocketStep(s) ==
    \/ \E u \in Users : Connect(s, u)
    \/ Disconnect(s)
    \/ \E id \in RoomIds : AskJoin(s, id) \/ LeaveRoom(s, id)
    \/ Join(s)

ChatNext ==
    \/ Next /\ UNCHANGED sockets
    \/ \E s \in Sockets : SocketStep(s) /\ UNCHANGED vars

ChatSpec == ChatInit /\ [][ChatNext]_chatVars
-------------------------------------------------------------------------------
(* What is sent to a room reaches only sockets of users who have been its  *)
(* members, whatever happens between the check and the join.  (Who has     *)
(* left or was removed goes on listening: the code promises no more.)      *)
ListenersWereMembers ==
    \A s \in Sockets : \A id \in joined[s] : socketUser[s] \in ever[id]

Listeners == {l \in RoomIds \X Sockets \X Users : l[1] \in joined[l[2]] /\ l[3] = socketUser[l[2]]}

Promise == INSTANCE Channel WITH
    members  <- [id \in RoomIds |-> room[id].members],
    audience <- Listeners

(* Requests, checks and joins, however they interleave, do to members and  *)
(* listeners only what Channel allows: a room is founded once and on       *)
(* record, and a socket begins to listen only for its one user, who has    *)
(* been a member.                                                          *)
KeepsChannel == Promise!ChannelSpec
===============================================================================
