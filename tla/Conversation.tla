----------------------------- MODULE Conversation -----------------------------
(***************************************************************************)
(* Conversations and who is in them: ConversationService                   *)
(* (modules/conversation/conversation.service.ts) over the tables rooms    *)
(* and room_members.                                                       *)
(*                                                                         *)
(* A request reads the tables in one await and writes them in a later one, *)
(* with nothing that holds what it read.  All users exist, so the check    *)
(* for unknown participants always passes.  Names, avatars, mutes and the  *)
(* listings change nothing and are left out.  Chat composes this module    *)
(* with the Socket.IO rooms that carry a conversation's messages.          *)
(***************************************************************************)
EXTENDS Naturals, FiniteSets

CONSTANTS
    Users,
    RoomIds,        \* bound: the rooms that can be created
    Requests,       \* slots for REST requests in flight at the same time
    NoUser,         \* "nobody"
    NoRoom          \* "no room"

ASSUME NoUserAssumption == NoUser \notin Users
ASSUME NoRoomAssumption == NoRoom \notin RoomIds

VARIABLES
    room,       \* room id -> type, and its room_members: members and isChatAdmin
    req         \* request slot -> the local variables of its handler

(* History variables: no action reads them. *)
VARIABLES
    founders,   \* room -> the members it was created with
    ever,       \* room -> everybody who has been a member
    racing,     \* request -> its pair got a room after it found none
    raced       \* room -> created by a request that was racing

history == <<founders, ever, racing, raced>>
vars    == <<room, req, history>>

Room == [ type : {"none", "DIRECT", "GROUP"}, members : SUBSET Users, admins : SUBSET Users ]
NoSuchRoom == [ type |-> "none", members |-> {}, admins |-> {} ]

(* pc names the await a handler is at, id the room it is about; mine says *)
(* that the room of its answer has its user as a member.  What a handler   *)
(* does not need any more is forgotten.                                    *)
Request ==
    [ pc   : {"idle", "lookup", "create", "check", "insert", "delete", "answer"},
      op   : {"none", "direct", "group", "add", "remove", "leave"},
      user : Users \cup {NoUser}, id : RoomIds \cup {NoRoom},
      whom : SUBSET Users, mine : BOOLEAN ]
Idle == [ pc |-> "idle", op |-> "none", user |-> NoUser, id |-> NoRoom,
          whom |-> {}, mine |-> TRUE ]

TypeOK ==
    /\ room \in [RoomIds -> Room]
    /\ req \in [Requests -> Request]
    /\ founders \in [RoomIds -> SUBSET Users]
    /\ ever \in [RoomIds -> SUBSET Users]
    /\ racing \in [Requests -> BOOLEAN]
    /\ raced \in [RoomIds -> BOOLEAN]
-------------------------------------------------------------------------------
Exists(id) == room[id].type # "none"
Pair(r) == {req[r].user} \cup req[r].whom

Init ==
    /\ room = [id \in RoomIds |-> NoSuchRoom]
    /\ req = [r \in Requests |-> Idle]
    /\ founders = [id \in RoomIds |-> {}]
    /\ ever = [id \in RoomIds |-> {}]
    /\ racing = [r \in Requests |-> FALSE]
    /\ raced = [id \in RoomIds |-> FALSE]

Begin(r, local) ==
    /\ req[r].pc = "idle"
    /\ req' = [req EXCEPT ![r] = local]
    /\ UNCHANGED <<room, history>>

(* The handler returns or throws. *)
End(r) ==
    /\ req' = [req EXCEPT ![r] = Idle]
    /\ racing' = [racing EXCEPT ![r] = FALSE]

(* The answer of a direct request shows a room with these members. *)
Show(r, members) ==
    req' = [req EXCEPT ![r] = [Idle EXCEPT !.pc = "answer",
                                           !.mine = req[r].user \in members]]
-------------------------------------------------------------------------------
(* createConversation: a DIRECT one has exactly one other participant,     *)
(* who may be the creator.                                                 *)
StartDirect(r, u, other) ==
    Begin(r, [Idle EXCEPT !.pc = "lookup", !.op = "direct", !.user = u, !.whom = {other}])

StartGroup(r, u, others) ==
    /\ others # {}
    /\ Begin(r, [Idle EXCEPT !.pc = "create", !.op = "group", !.user = u, !.whom = others])

(* The DIRECT rooms that createConversation takes for the pair's own: all  *)
(* whose members are among the two.                                        *)
Matching(r) == {id \in RoomIds : room[id].type = "DIRECT" /\ room[id].members \subseteq Pair(r)}

(* Mutant of Lookup: only rooms of which the requester is an admin count. *)
LookupOwn(r) ==
    LET own == {id \in Matching(r) : req[r].user \in room[id].admins} IN
    /\ req[r].pc = "lookup"
    /\ \/ \E id \in own : Show(r, room[id].members)
       \/ own = {} /\ req' = [req EXCEPT ![r].pc = "create"]
    /\ UNCHANGED <<room, history>>

(* findFirst without an order: any of them is answered. *)
Lookup(r) ==
    /\ req[r].pc = "lookup"
    /\ \/ \E id \in Matching(r) : Show(r, room[id].members)
       \/ Matching(r) = {} /\ req' = [req EXCEPT ![r].pc = "create"]
    /\ UNCHANGED <<room, history>>

(* The requests that have found no room for the pair of r, which gets one *)
(* now.                                                                    *)
Overtaken(r) ==
    {q \in Requests \ {r} : /\ req[r].op = "direct" /\ req[q].op = "direct"
                            /\ req[q].pc = "create" /\ Pair(q) = Pair(r)}

(* room.create with its members; the creator is chat admin, also of a      *)
(* DIRECT room.                                                            *)
Create(r, id) ==
    /\ req[r].pc = "create"
    /\ ~Exists(id)
    /\ room' = [room EXCEPT ![id] =
          [ type |-> IF req[r].op = "direct" THEN "DIRECT" ELSE "GROUP",
            members |-> Pair(r), admins |-> {req[r].user} ]]
    /\ founders' = [founders EXCEPT ![id] = Pair(r)]
    /\ ever' = [ever EXCEPT ![id] = Pair(r)]
    /\ raced' = [raced EXCEPT ![id] = racing[r]]
    /\ racing' = [q \in Requests |-> q # r /\ (racing[q] \/ q \in Overtaken(r))]
    /\ IF req[r].op = "direct" THEN Show(r, Pair(r)) ELSE req' = [req EXCEPT ![r] = Idle]
-------------------------------------------------------------------------------
(* addMembers, removeMember and leaveConversation name an existing room; a *)
(* room that does not exist is answered 404.                               *)
StartChange(r, op, u, id, whom) ==
    /\ Exists(id)
    /\ op = "remove" => Cardinality(whom) = 1
    /\ op = "leave" => whom = {u}
    /\ whom # {}
    /\ Begin(r, [Idle EXCEPT !.pc = "check", !.op = op, !.user = u, !.id = id, !.whom = whom])

(* A check has passed: what is left to write. *)
Admit(r, new) ==
    LET pc == IF req[r].op = "add" THEN "insert" ELSE "delete"
        whom == IF req[r].op = "add" THEN new ELSE req[r].whom
    IN
    /\ req' = [req EXCEPT ![r] = [Idle EXCEPT !.pc = pc, !.id = req[r].id, !.whom = whom]]
    /\ UNCHANGED racing

(* Mutants of Check: a DIRECT room passes; any member passes. *)
CheckAnyType(r) ==
    LET here == room[req[r].id]
        new == req[r].whom \ here.members
    IN
    /\ req[r].pc = "check"
    /\ IF /\ req[r].user \in here.members
          /\ req[r].op # "leave" => req[r].user \in here.admins
          /\ req[r].op = "add" => new # {}
       THEN Admit(r, new) ELSE End(r)
    /\ UNCHANGED <<room, founders, ever, raced>>

CheckAnyMember(r) ==
    LET here == room[req[r].id]
        new == req[r].whom \ here.members
    IN
    /\ req[r].pc = "check"
    /\ IF /\ req[r].user \in here.members
          /\ req[r].op # "leave" => here.type = "GROUP"
          /\ req[r].op = "add" => new # {}
       THEN Admit(r, new) ELSE End(r)
    /\ UNCHANGED <<room, founders, ever, raced>>

(* assertGroupAdmin, and the filter of addMembers on what it read; for a   *)
(* leave, the lookup of one's own membership.                              *)
Check(r) ==
    LET here == room[req[r].id]
        new == req[r].whom \ here.members
    IN
    /\ req[r].pc = "check"
    /\ IF /\ req[r].user \in here.members
          /\ req[r].op # "leave" => here.type = "GROUP" /\ req[r].user \in here.admins
          /\ req[r].op = "add" => new # {}
       THEN Admit(r, new) ELSE End(r)
    /\ UNCHANGED <<room, founders, ever, raced>>

(* Mutant of Insert: it adds the requester, whom it has forgotten. *)
InsertRequester(r) ==
    LET id == req[r].id IN
    /\ req[r].pc = "insert"
    /\ room' = [room EXCEPT ![id].members = @ \cup {req[r].user}]
    /\ ever' = [ever EXCEPT ![id] = @ \cup req[r].whom]
    /\ End(r)
    /\ UNCHANGED <<founders, raced>>

(* createMany with skipDuplicates: nobody becomes admin, and who came in   *)
(* meanwhile stays what he is.  The answer, getConversation, changes       *)
(* nothing; it is 403 if the requester has left meanwhile.                 *)
Insert(r) ==
    LET id == req[r].id IN
    /\ req[r].pc = "insert"
    /\ room' = [room EXCEPT ![id].members = @ \cup req[r].whom]
    /\ ever' = [ever EXCEPT ![id] = @ \cup req[r].whom]
    /\ End(r)
    /\ UNCHANGED <<founders, raced>>

(* deleteMany of removeMember; delete of leaveConversation, which throws   *)
(* when the row is gone already.                                           *)
Delete(r) ==
    LET id == req[r].id IN
    /\ req[r].pc = "delete"
    /\ room' = [room EXCEPT ![id].members = @ \ req[r].whom, ![id].admins = @ \ req[r].whom]
    /\ End(r)
    /\ UNCHANGED <<founders, ever, raced>>

(* The answer of a direct request reaches its client. *)
Answer(r) ==
    /\ req[r].pc = "answer"
    /\ End(r)
    /\ UNCHANGED <<room, founders, ever, raced>>

(* An await rejects. *)
Abort(r) ==
    /\ req[r].pc # "idle"
    /\ End(r)
    /\ UNCHANGED <<room, founders, ever, raced>>
-------------------------------------------------------------------------------
Step(r) ==
    \/ Lookup(r)
    \/ \E id \in RoomIds : Create(r, id)
    \/ Check(r)
    \/ Insert(r)
    \/ Delete(r)
    \/ Answer(r)

Start(r, u) ==
    \/ \E other \in Users : StartDirect(r, u, other)
    \/ \E others \in SUBSET Users : StartGroup(r, u, others)
    \/ \E op \in {"add", "remove", "leave"}, id \in RoomIds, whom \in SUBSET Users :
          StartChange(r, op, u, id, whom)

Next ==
    \E r \in Requests : Step(r) \/ Abort(r) \/ \E u \in Users : Start(r, u)

Spec == Init /\ [][Next]_vars
-------------------------------------------------------------------------------
(* A direct conversation never gets a third party, in whatever order       *)
(* requests run: only its founders are ever in it (assertGroupAdmin        *)
(* refuses to change it, although its creator is chat admin there).        *)
DirectStaysPair ==
    \A id \in RoomIds :
        room[id].type = "DIRECT" => /\ ever[id] \subseteq founders[id]
                                    /\ Cardinality(founders[id]) <= 2

(* Requests of a pair that do not overlap share one direct room: a second  *)
(* one takes a request that found none before the first was written.       *)
SecondRoomTakesRace ==
    \A a, b \in RoomIds :
        (/\ a # b /\ founders[a] = founders[b]
         /\ room[a].type = "DIRECT" /\ room[b].type = "DIRECT")
            => raced[a] \/ raced[b]

(* Nobody is admin of the room and no admitted addition is under way. *)
Frozen(id) ==
    /\ Exists(id)
    /\ room[id].admins = {}
    /\ \A r \in Requests : req[r].pc = "insert" => req[r].id # id

(* The creator is the only chat admin there ever is, and leaves or is      *)
(* removed like anybody: from then on, once the additions admitted before  *)
(* are through, the group is frozen for good and only shrinks.  No         *)
(* request, of whoever is left, brings anybody in or the creator back.     *)
FrozenForGood ==
    [][\A id \in RoomIds :
          Frozen(id) => /\ Frozen(id)'
                        /\ room'[id].members \subseteq room[id].members]_vars
-------------------------------------------------------------------------------
(* "Return existing direct conversation if already exists": the room a     *)
(* direct request is answered is one its user is in.  The code does not    *)
(* keep this: a room that everybody has left matches every pair.           *)
DirectAnswerIsMine == \A r \in Requests : req[r].mine
===============================================================================
