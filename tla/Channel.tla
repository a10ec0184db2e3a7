-------------------------------- MODULE Channel --------------------------------
(***************************************************************************)
(* What conversations promise to the messages sent in them, without the    *)
(* requests, checks and roles behind it: who may send, and whose sockets a *)
(* room's events reach.  Chat, the detailed specification, implements this *)
(* one; Message builds on it.                                              *)
(***************************************************************************)

CONSTANTS
    Users,
    RoomIds,        \* bound: the rooms that can be created
    Sockets         \* sockets on the namespace /chat

VARIABLES
    members,    \* room id -> users with a row in room_members
    ever,       \* room id -> users who have had one
    audience    \* <<room id, socket, its user>> for the sockets in Socket.IO rooms

channel == <<members, ever, audience>>

ChannelTypeOK ==
    /\ members \in [RoomIds -> SUBSET Users]
    /\ ever \in [RoomIds -> SUBSET Users]
    /\ audience \subseteq RoomIds \X Sockets \X Users

ChannelInit ==
    /\ members = [id \in RoomIds |-> {}]
    /\ ever = [id \in RoomIds |-> {}]
    /\ audience = {}
-------------------------------------------------------------------------------
(* A room starts with its members, once. *)
Found(id, us) ==
    /\ ever[id] = {} /\ us # {}
    /\ members' = [members EXCEPT ![id] = us]
    /\ ever' = [ever EXCEPT ![id] = us]
    /\ UNCHANGED audience

Admit(id, us) ==
    /\ ever[id] # {}
    /\ members' = [members EXCEPT ![id] = @ \cup us]
    /\ ever' = [ever EXCEPT ![id] = @ \cup us]
    /\ UNCHANGED audience

(* Who goes is not silenced: their sockets stay in the audience. *)
Drop(id, us) ==
    /\ members' = [members EXCEPT ![id] = @ \ us]
    /\ UNCHANGED <<ever, audience>>

(* A socket speaks for one user as long as it listens to anything. *)
Listen(id, s, u) ==
    /\ u \in ever[id]
    /\ \A l \in audience : l[2] = s => l[3] = u
    /\ audience' = audience \cup {<<id, s, u>>}
    /\ UNCHANGED <<members, ever>>

(* Sockets stop to listen in these rooms. *)
Hush(ss, ids) ==
    /\ audience' = {l \in audience : l[1] \in ids => l[2] \notin ss}
    /\ UNCHANGED <<members, ever>>

ChannelNext ==
    \/ \E id \in RoomIds, us \in SUBSET Users : Found(id, us) \/ Admit(id, us) \/ Drop(id, us)
    \/ \E id \in RoomIds, s \in Sockets, u \in Users : Listen(id, s, u)
    \/ \E s \in Sockets, ids \in SUBSET RoomIds : Hush({s}, ids)

ChannelSpec == ChannelInit /\ [][ChannelNext]_channel
===============================================================================
