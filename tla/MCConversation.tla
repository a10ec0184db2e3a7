---------------------------- MODULE MCConversation ----------------------------
(* Conversation on small instances.  Users, rooms and request slots are    *)
(* interchangeable.                                                        *)
EXTENDS Conversation, TLC

Symmetry == Permutations(Users) \cup Permutations(RoomIds) \cup Permutations(Requests)

(* The users who have been in a room or take part in a request. *)
Present ==
    UNION {ever[id] : id \in RoomIds}
        \cup (UNION {Pair(r) : r \in Requests} \ {NoUser})

(* Bound: once every room is there, two users are present; three users     *)
(* share the others.                                                       *)
Bounds == (\A id \in RoomIds : Exists(id)) => Cardinality(Present) <= 2
===============================================================================
