-------------------------- MODULE Conversation_proofs --------------------------
(***************************************************************************)
(* Theorems about Conversation, for any number of users, rooms and         *)
(* requests.                                                               *)
(***************************************************************************)
EXTENDS Conversation, FiniteSetTheorems, TLAPS

(* What the handlers rely on beyond the types: who acts on which room.     *)
Handlers ==
    \A r \in Requests :
        /\ req[r].pc \in {"lookup", "create", "check"} => req[r].user \in Users
        /\ req[r].pc \in {"check", "insert", "delete"} => req[r].id \in RoomIds

Typed == TypeOK /\ Handlers

(* A request that is over forgets what it carried. *)
LEMMA IdleType == Idle \in Request /\ Idle.pc = "idle"
BY DEF Idle, Request

(* The answer of a direct request is typed. *)
LEMMA ShowTyped ==
    ASSUME NEW r \in Requests, NEW members, Typed, Show(r, members)
    PROVE  /\ req' \in [Requests -> Request] /\ Handlers'
           /\ \A q \in Requests : req'[q] = req[q] \/ (q = r /\ req'[q].pc = "answer")
<1> DEFINE mine == req[r].user \in members
           local == [Idle EXCEPT !.pc = "answer", !.mine = mine]
<1>1. mine \in BOOLEAN
  OBVIOUS
<1>2. req' = [req EXCEPT ![r] = local]
  BY DEF Show
<1> HIDE DEF mine
<1>3. local \in Request /\ local.pc = "answer"
  BY <1>1 DEF Idle, Request
<1> HIDE DEF local
<1>4. \A q \in Requests : req'[q] = req[q] \/ (q = r /\ req'[q].pc = "answer")
  BY <1>2, <1>3 DEF Typed, TypeOK
<1> QED BY <1>2, <1>3, <1>4 DEF Typed, TypeOK, Handlers

(* The actions that only end a handler. *)
LEMMA EndTyped ==
    ASSUME Typed, NEW r \in Requests, End(r), UNCHANGED <<room, founders, ever, raced>>
    PROVE  Typed'
BY IdleType DEF Typed, TypeOK, Handlers, End

(* A step of a handler keeps the types. *)
LEMMA TypedStep == Typed /\ [Next]_vars => Typed'
<1> SUFFICES ASSUME Typed, [Next]_vars PROVE Typed'
  OBVIOUS
<1> USE DEF Typed, TypeOK, Handlers
<1>1. ASSUME NEW r \in Requests, NEW local \in Request, Begin(r, local),
             local.pc \in {"lookup", "create", "check"}, local.user \in Users,
             local.pc = "check" => local.id \in RoomIds
      PROVE  Typed'
  BY <1>1 DEF Begin, history
<1>2. ASSUME NEW r \in Requests, NEW u \in Users, Start(r, u) PROVE Typed'
  <2>1. ASSUME NEW other \in Users, StartDirect(r, u, other) PROVE Typed'
    <3> DEFINE local == [Idle EXCEPT !.pc = "lookup", !.op = "direct", !.user = u,
                                     !.whom = {other}]
    <3>1. local \in Request /\ local.pc = "lookup" /\ local.user = u
      BY DEF Idle, Request
    <3> HIDE DEF local
    <3>2. Begin(r, local)
      BY <2>1 DEF StartDirect, local
    <3> QED BY <1>1, <3>1, <3>2
  <2>2. ASSUME NEW others \in SUBSET Users, StartGroup(r, u, others) PROVE Typed'
    <3> DEFINE local == [Idle EXCEPT !.pc = "create", !.op = "group", !.user = u,
                                     !.whom = others]
    <3>1. local \in Request /\ local.pc = "create" /\ local.user = u
      BY DEF Idle, Request
    <3> HIDE DEF local
    <3>2. Begin(r, local)
      BY <2>2 DEF StartGroup, local
    <3> QED BY <1>1, <3>1, <3>2
  <2>3. ASSUME NEW op \in {"add", "remove", "leave"}, NEW id \in RoomIds,
               NEW whom \in SUBSET Users, StartChange(r, op, u, id, whom)
        PROVE  Typed'
    <3> DEFINE local == [Idle EXCEPT !.pc = "check", !.op = op, !.user = u, !.id = id,
                                     !.whom = whom]
    <3>1. local \in Request /\ local.pc = "check" /\ local.user = u /\ local.id = id
      BY DEF Idle, Request
    <3> HIDE DEF local
    <3>2. Begin(r, local)
      BY <2>3 DEF StartChange, local
    <3> QED BY <1>1, <3>1, <3>2
  <2> QED BY <1>2, <2>1, <2>2, <2>3 DEF Start
<1>3. ASSUME NEW r \in Requests, Lookup(r) PROVE Typed'
  <2>1. CASE req' = [req EXCEPT ![r].pc = "create"]
    BY <1>3, <2>1 DEF Lookup, history, Request
  <2>2. CASE \E id \in RoomIds : Show(r, room[id].members)
    BY <1>3, <2>2, ShowTyped DEF Lookup, history
  <2> QED BY <1>3, <2>1, <2>2 DEF Lookup, Matching
<1>4. ASSUME NEW r \in Requests, NEW id \in RoomIds, Create(r, id) PROVE Typed'
  <2>1. req[r] \in Request /\ req[r].user \in Users /\ Pair(r) \in SUBSET Users
    BY <1>4 DEF Create, Pair, Request
  <2>2. room' \in [RoomIds -> Room]
    BY <1>4, <2>1 DEF Create, Room
  <2>3. req' \in [Requests -> Request] /\ Handlers'
    <3>1. CASE Show(r, Pair(r))
      BY <3>1, ShowTyped
    <3>2. CASE req' = [req EXCEPT ![r] = Idle]
      BY <3>2, IdleType
    <3> QED BY <1>4, <3>1, <3>2 DEF Create
  <2>4. /\ founders' \in [RoomIds -> SUBSET Users]
        /\ ever' \in [RoomIds -> SUBSET Users]
    BY <1>4, <2>1 DEF Create
  <2>5. racing' \in [Requests -> BOOLEAN] /\ raced' \in [RoomIds -> BOOLEAN]
    <3>1. racing' \in [Requests -> BOOLEAN]
      BY <1>4, ZenonT(30) DEF Create
    <3>2. raced' = [raced EXCEPT ![id] = racing[r]]
      BY <1>4 DEF Create
    <3> QED BY <3>1, <3>2
  <2> QED BY <2>2, <2>3, <2>4, <2>5
<1>5. ASSUME NEW r \in Requests, Check(r) PROVE Typed'
  <2>1. CASE End(r)
    BY <1>5, <2>1, EndTyped DEF Check
  <2>2. CASE Admit(r, req[r].whom \ room[req[r].id].members)
    BY <1>5, <2>2 DEF Check, Admit, Idle, Request
  <2> QED BY <1>5, <2>1, <2>2 DEF Check
<1>6. ASSUME NEW r \in Requests, Insert(r) PROVE Typed'
  <2>1. req[r] \in Request /\ req[r].id \in RoomIds /\ req[r].whom \in SUBSET Users
    BY <1>6 DEF Insert, Request
  <2>2. room' \in [RoomIds -> Room] /\ ever' \in [RoomIds -> SUBSET Users]
    BY <1>6, <2>1 DEF Insert, Room
  <2> QED BY <1>6, <2>2, IdleType DEF Insert, End
<1>7. ASSUME NEW r \in Requests, Delete(r) PROVE Typed'
  <2>1. req[r].id \in RoomIds
    BY <1>7 DEF Delete
  <2>2. room' \in [RoomIds -> Room]
    BY <1>7, <2>1 DEF Delete, Room
  <2> QED BY <1>7, <2>2, IdleType DEF Delete, End
<1>8. ASSUME NEW r \in Requests, Answer(r) \/ Abort(r) PROVE Typed'
  BY <1>8, EndTyped DEF Answer, Abort
<1>9. CASE UNCHANGED vars
  BY <1>9 DEF vars, history
<1> QED
  BY <1>2, <1>3, <1>4, <1>5, <1>6, <1>7, <1>8, <1>9 DEF Next, Step

(* The types and who acts on which room hold in every reachable state. *)
LEMMA TypedInvariant == Spec => []Typed
<1>1. Init => Typed
  BY IdleType DEF Init, Typed, TypeOK, Handlers, NoSuchRoom, Room
<1> QED BY <1>1, TypedStep, PTL DEF Spec

(* Every variable keeps its type: the tables name users and rooms only,    *)
(* never the nulls of a request that has forgotten its caller.             *)
THEOREM TypeCorrect == Spec => []TypeOK
BY TypedInvariant, PTL DEF Typed
-------------------------------------------------------------------------------
(* A caller and the participant it names are at most two users. *)
LEMMA PairSize == ASSUME NEW a, NEW b PROVE Cardinality({a} \cup {b}) <= 2
<1>1. IsFiniteSet({a}) /\ Cardinality({a}) = 1
  BY FS_Singleton
<1>2. CASE b = a
  <2>1. {a} \cup {b} = {a}
    BY <1>2
  <2> QED BY <1>1, <2>1
<1>3. CASE b # a
  <2> DEFINE S == {a}
  <2>1. b \notin S /\ IsFiniteSet(S) /\ Cardinality(S) = 1
    BY <1>1, <1>3
  <2> HIDE DEF S
  <2>2. Cardinality(S \cup {b}) = 2
    BY <2>1, FS_AddElement
  <2> QED BY <2>2 DEF S
<1> QED BY <1>2, <1>3

(* The strengthening of DirectStaysPair: a direct request under way names  *)
(* one other participant, and additions have been admitted to groups only. *)
DirectShape ==
    \A r \in Requests :
        /\ (req[r].op = "direct" /\ req[r].pc \in {"lookup", "create"})
               => \E other \in Users : req[r].whom = {other}
        /\ req[r].pc = "insert" => room[req[r].id].type = "GROUP"

DirectInv == DirectShape /\ DirectStaysPair

(* The actions that only end a handler. *)
LEMMA EndDirect ==
    ASSUME Typed, DirectInv, NEW r \in Requests, End(r), UNCHANGED <<room, founders, ever>>
    PROVE  DirectInv'
BY DEF Typed, TypeOK, DirectInv, DirectShape, DirectStaysPair, End, Idle

(* No step of a handler brings a third party into a direct conversation. *)
LEMMA DirectStep == Typed /\ DirectInv /\ [Next]_vars => DirectInv'
<1> SUFFICES ASSUME Typed, DirectInv, [Next]_vars PROVE DirectInv'
  OBVIOUS
<1> USE DEF Typed, TypeOK, Handlers, DirectInv, DirectShape, DirectStaysPair
<1>1. ASSUME NEW r \in Requests, NEW u \in Users, Start(r, u) PROVE DirectInv'
  <2>1. ASSUME NEW other \in Users, StartDirect(r, u, other) PROVE DirectInv'
    BY <2>1 DEF StartDirect, Begin, Idle, history
  <2>2. ASSUME NEW others \in SUBSET Users, StartGroup(r, u, others) PROVE DirectInv'
    BY <2>2 DEF StartGroup, Begin, Idle, history
  <2>3. ASSUME NEW op \in {"add", "remove", "leave"}, NEW id \in RoomIds,
               NEW whom \in SUBSET Users, StartChange(r, op, u, id, whom)
        PROVE  DirectInv'
    BY <2>3 DEF StartChange, Begin, Idle, history
  <2> QED BY <1>1, <2>1, <2>2, <2>3 DEF Start
<1>2. ASSUME NEW r \in Requests, Lookup(r) PROVE DirectInv'
  <2>1. CASE req' = [req EXCEPT ![r].pc = "create"]
    BY <1>2, <2>1 DEF Lookup, history, Request
  <2>2. ASSUME NEW id \in RoomIds, Show(r, room[id].members) PROVE DirectInv'
    BY <1>2, <2>2 DEF Lookup, Show, history, Idle
  <2> QED BY <1>2, <2>1, <2>2 DEF Lookup, Matching
<1>3. ASSUME NEW r \in Requests, NEW id \in RoomIds, Create(r, id) PROVE DirectInv'
  <2>1. /\ room'[id].type = "DIRECT" => req[r].op = "direct"
        /\ \A j \in RoomIds \ {id} : room'[j] = room[j]
        /\ founders'[id] = Pair(r) /\ ever'[id] = Pair(r)
        /\ \A j \in RoomIds \ {id} : founders'[j] = founders[j] /\ ever'[j] = ever[j]
    BY <1>3 DEF Create
  <2>2. req[r].op = "direct" => Cardinality(Pair(r)) <= 2
    <3>1. ASSUME req[r].op = "direct"
          PROVE  \E u, other \in Users : Pair(r) = {u} \cup {other}
      BY <1>3, <3>1 DEF Create, Pair
    <3> QED BY <3>1, PairSize
  <2>3. \A q \in Requests : req'[q] = req[q] \/ (q = r /\ req'[q].pc \in {"idle", "answer"})
    <3>1. CASE Show(r, Pair(r))
      BY <3>1, ShowTyped
    <3>2. CASE req' = [req EXCEPT ![r] = Idle]
      BY <3>2, IdleType
    <3> QED BY <1>3, <3>1, <3>2 DEF Create
  <2>4. \A q \in Requests : req[q].pc = "insert" => req[q].id # id
    BY <1>3 DEF Create, Exists
  <2>5. DirectStaysPair'
    BY <2>1, <2>2
  <2>6. DirectShape'
    BY <2>1, <2>3, <2>4
  <2> QED BY <2>5, <2>6
<1>4. ASSUME NEW r \in Requests, Check(r) PROVE DirectInv'
  <2>1. CASE End(r)
    BY <1>4, <2>1, EndDirect DEF Check
  <2>2. CASE Admit(r, req[r].whom \ room[req[r].id].members) /\ ~End(r)
    <3>1. req[r].op = "add" => room[req[r].id].type = "GROUP"
      BY <1>4, <2>2 DEF Check
    <3> QED BY <1>4, <2>2, <3>1 DEF Check, Admit, Idle
  <2> QED BY <1>4, <2>1, <2>2 DEF Check
<1>5. ASSUME NEW r \in Requests, Insert(r) PROVE DirectInv'
  <2>1. room[req[r].id].type = "GROUP" /\ req[r].id \in RoomIds
    BY <1>5 DEF Insert
  <2>2. \A j \in RoomIds : /\ room'[j].type = room[j].type
                           /\ j # req[r].id => ever'[j] = ever[j]
    BY <1>5, <2>1 DEF Insert, Room
  <2> QED BY <1>5, <2>1, <2>2 DEF Insert, End, Idle
<1>6. ASSUME NEW r \in Requests, Delete(r) PROVE DirectInv'
  <2>1. \A j \in RoomIds : room'[j].type = room[j].type
    BY <1>6 DEF Delete, Room
  <2> QED BY <1>6, <2>1 DEF Delete, End, Idle
<1>7. ASSUME NEW r \in Requests, Answer(r) \/ Abort(r) PROVE DirectInv'
  BY <1>7, EndDirect DEF Answer, Abort
<1>8. CASE UNCHANGED vars
  BY <1>8 DEF vars, history
<1> QED
  BY <1>1, <1>2, <1>3, <1>4, <1>5, <1>6, <1>7, <1>8 DEF Next, Step

(* A direct conversation never gets a third party, whatever requests run   *)
(* at once: assertGroupAdmin refuses to change it before anything is       *)
(* written, and a room never changes its type.                             *)
THEOREM DirectCorrect == Spec => []DirectStaysPair
<1>1. Init => DirectInv
  BY DEF Init, DirectInv, DirectShape, DirectStaysPair, NoSuchRoom, Idle
<1> QED BY <1>1, DirectStep, TypedInvariant, PTL DEF Spec, DirectInv
-------------------------------------------------------------------------------
(* What FrozenForGood says of one step and one room. *)
FrozenStep(id) ==
    Frozen(id) => Frozen(id)' /\ room'[id].members \subseteq room[id].members

(* No step of a handler wakes a frozen room. *)
LEMMA FrozenKept ==
    ASSUME Typed, [Next]_vars, NEW id \in RoomIds
    PROVE  FrozenStep(id)
<1> SUFFICES ASSUME Frozen(id)
             PROVE  Frozen(id)' /\ room'[id].members \subseteq room[id].members
  BY DEF FrozenStep
<1> USE DEF Typed, TypeOK, Handlers, Frozen, Exists
<1> DEFINE Goal == Frozen(id)' /\ room'[id].members \subseteq room[id].members
<1>1. ASSUME room' = room,
             \A q \in Requests : req'[q] = req[q] \/ req'[q].pc # "insert"
      PROVE  Goal
  BY <1>1
<1>2. ASSUME NEW r \in Requests, NEW u \in Users, Start(r, u) PROVE Goal
  <2>1. room' = room
    BY <1>2 DEF Start, StartDirect, StartGroup, StartChange, Begin
  <2>2. \A q \in Requests : req'[q] = req[q] \/ req'[q].pc # "insert"
    BY <1>2 DEF Start, StartDirect, StartGroup, StartChange, Begin, Idle
  <2> QED BY <1>1, <2>1, <2>2
<1>3. ASSUME NEW r \in Requests, Lookup(r) PROVE Goal
  <2>1. \A q \in Requests : req'[q] = req[q] \/ req'[q].pc # "insert"
    BY <1>3 DEF Lookup, Show, Idle, Request
  <2> QED BY <1>1, <1>3, <2>1 DEF Lookup
<1>4. ASSUME NEW r \in Requests, NEW j \in RoomIds, Create(r, j) PROVE Goal
  <2>1. j # id /\ room'[id] = room[id]
    BY <1>4 DEF Create
  <2>2. \A q \in Requests : req'[q] = req[q] \/ req'[q].pc # "insert"
    <3>1. CASE Show(r, Pair(r))
      BY <3>1, ShowTyped
    <3>2. CASE req' = [req EXCEPT ![r] = Idle]
      BY <3>2, IdleType
    <3> QED BY <1>4, <3>1, <3>2 DEF Create
  <2> QED BY <2>1, <2>2
<1>5. ASSUME NEW r \in Requests, Check(r) PROVE Goal
  <2>1. CASE End(r)
    BY <1>1, <1>5, <2>1 DEF Check, End, Idle
  <2>2. CASE Admit(r, req[r].whom \ room[req[r].id].members) /\ ~End(r)
    <3>1. req[r].op = "add" => req[r].id # id
      BY <1>5, <2>2 DEF Check
    <3> QED BY <1>5, <2>2, <3>1 DEF Check, Admit, Idle
  <2> QED BY <1>5, <2>1, <2>2 DEF Check
<1>6. ASSUME NEW r \in Requests, Insert(r) PROVE Goal
  <2>1. req[r].id # id
    BY <1>6 DEF Insert
  <2>2. room'[id] = room[id]
    BY <1>6, <2>1 DEF Insert
  <2> QED BY <1>6, <2>2 DEF Insert, End, Idle
<1>7. ASSUME NEW r \in Requests, Delete(r) PROVE Goal
  <2>1. /\ room'[id].type = room[id].type
        /\ room'[id].admins \subseteq room[id].admins
        /\ room'[id].members \subseteq room[id].members
    BY <1>7 DEF Delete, Room
  <2> QED BY <1>7, <2>1 DEF Delete, End, Idle
<1>8. ASSUME NEW r \in Requests, Answer(r) \/ Abort(r) PROVE Goal
  BY <1>1, <1>8 DEF Answer, Abort, End, Idle
<1>9. CASE UNCHANGED vars
  BY <1>1, <1>9 DEF vars
<1> QED
  BY <1>2, <1>3, <1>4, <1>5, <1>6, <1>7, <1>8, <1>9 DEF Next, Step

(* A group that has lost its only chat admin is frozen for good: no step   *)
(* of any request brings somebody in or makes an admin.                    *)
THEOREM FrozenCorrect == Spec => FrozenForGood
<1> DEFINE Kept == \A id \in RoomIds :
                       Frozen(id) => /\ Frozen(id)'
                                     /\ room'[id].members \subseteq room[id].members
<1>1. Typed /\ [Next]_vars => [Kept]_vars
  BY FrozenKept DEF FrozenStep
<1>2. Spec => [][Kept]_vars
  BY <1>1, TypedInvariant, PTL DEF Spec
<1> QED BY <1>2 DEF FrozenForGood
-------------------------------------------------------------------------------
(* Who is in a direct room founded it; a request about to create one of a  *)
(* pair that has one is marked as racing.                                  *)
Founded == \A id \in RoomIds : room[id].type = "DIRECT" => room[id].members \subseteq founders[id]
Creates(r) == req[r].op = "direct" /\ req[r].pc = "create"
Marked ==
    \A r \in Requests, id \in RoomIds :
        Creates(r) /\ room[id].type = "DIRECT" /\ founders[id] = Pair(r) => racing[r]
Races == Founded /\ Marked /\ SecondRoomTakesRace

(* A step that makes no direct room and brings nobody into one, and after  *)
(* which a request is about to create only if it was.                      *)
LEMMA RacesStay ==
    ASSUME Races, UNCHANGED <<founders, raced>>,
           \A id \in RoomIds :
               /\ room'[id].type = room[id].type
               /\ room[id].type = "DIRECT" => room'[id].members \subseteq room[id].members,
           \A q \in Requests : Creates(q)' => req'[q] = req[q] /\ racing'[q] = racing[q]
    PROVE  Races'
<1>1. Founded'
  BY DEF Races, Founded
<1>2. Marked'
  BY DEF Races, Marked, Creates, Pair
<1>3. SecondRoomTakesRace'
  BY DEF Races, SecondRoomTakesRace
<1> QED BY <1>1, <1>2, <1>3 DEF Races

LEMMA RacesStep == Typed /\ DirectInv /\ Races /\ [Next]_vars => Races'
<1> SUFFICES ASSUME Typed, DirectInv, Races, [Next]_vars PROVE Races'
  OBVIOUS
<1> USE DEF Typed, TypeOK, Handlers
<1>1. ASSUME NEW r \in Requests, NEW u \in Users, Start(r, u) PROVE Races'
  <2>1. room' = room /\ founders' = founders /\ raced' = raced /\ racing' = racing
    BY <1>1 DEF Start, StartDirect, StartGroup, StartChange, Begin, history
  <2>2. \A q \in Requests : Creates(q)' => req'[q] = req[q]
    BY <1>1 DEF Start, StartDirect, StartGroup, StartChange, Begin, Idle, Creates
  <2> QED BY <2>1, <2>2, RacesStay
<1>2. ASSUME NEW r \in Requests, Lookup(r) PROVE Races'
  <2>1. UNCHANGED <<room, history>>
    BY <1>2 DEF Lookup
  <2>2. ASSUME NEW id \in RoomIds, Show(r, room[id].members) PROVE Races'
    <3>1. \A q \in Requests : Creates(q)' => req'[q] = req[q]
      BY <2>2, ShowTyped DEF Creates, Typed
    <3> QED BY <2>1, <3>1, RacesStay DEF history
  <2>3. CASE Matching(r) = {} /\ req' = [req EXCEPT ![r].pc = "create"]
    <3>1. \A q \in Requests : /\ Pair(q)' = Pair(q)
                              /\ q # r => req'[q] = req[q]
      BY <2>3 DEF Pair, Request
    <3>2. \A id \in RoomIds : room[id].type = "DIRECT" => founders[id] # Pair(r)
      BY <2>3 DEF Matching, Races, Founded
    <3>3. Marked'
      <4> SUFFICES ASSUME NEW q \in Requests, NEW id \in RoomIds,
                          Creates(q)', room'[id].type = "DIRECT", founders'[id] = Pair(q)'
                   PROVE  racing'[q]
        BY DEF Marked
      <4>1. q # r
        BY <2>1, <3>1, <3>2 DEF history
      <4> QED BY <2>1, <3>1, <4>1 DEF Races, Marked, Creates, history
    <3> QED BY <2>1, <3>3 DEF Races, Founded, SecondRoomTakesRace, history
  <2> QED BY <1>2, <2>2, <2>3 DEF Lookup, Matching
<1>3. ASSUME NEW r \in Requests, NEW id \in RoomIds, Create(r, id) PROVE Races'
  <2>1. /\ room[id].type = "none" /\ req[r].pc = "create"
        /\ room'[id].type = "DIRECT" => Creates(r)
        /\ room'[id].members = Pair(r) /\ founders'[id] = Pair(r)
        /\ raced'[id] = racing[r]
        /\ \A j \in RoomIds \ {id} : /\ room'[j] = room[j] /\ founders'[j] = founders[j]
                                     /\ raced'[j] = raced[j]
    BY <1>3 DEF Create, Creates, Exists
  <2>2. \A q \in Requests : Creates(q)' => q # r /\ req'[q] = req[q]
    <3>1. CASE Show(r, Pair(r))
      <4>1. req'[r].pc = "answer"
        BY <3>1 DEF Show, Idle
      <4> QED BY <3>1, <4>1, ShowTyped DEF Creates
    <3>2. CASE req' = [req EXCEPT ![r] = Idle]
      BY <3>2, IdleType DEF Creates
    <3> QED BY <1>3, <3>1, <3>2 DEF Create
  <2>3. \A q \in Requests : q # r /\ (racing[q] \/ q \in Overtaken(r)) => racing'[q]
    BY <1>3 DEF Create
  <2>4. Founded'
    BY <2>1 DEF Races, Founded
  <2>5. Marked'
    <3> SUFFICES ASSUME NEW q \in Requests, NEW j \in RoomIds,
                        Creates(q)', room'[j].type = "DIRECT", founders'[j] = Pair(q)'
                 PROVE  racing'[q]
      BY DEF Marked
    <3>1. q # r /\ Creates(q) /\ Pair(q)' = Pair(q)
      BY <2>2 DEF Creates, Pair
    <3>2. CASE j = id
      BY <2>1, <2>3, <3>1, <3>2 DEF Overtaken, Creates
    <3>3. CASE j # id
      BY <2>1, <2>3, <3>1, <3>3 DEF Races, Marked
    <3> QED BY <3>2, <3>3
  <2>6. \A j \in RoomIds \ {id} :
           room'[id].type = "DIRECT" /\ room[j].type = "DIRECT" /\ founders[j] = Pair(r)
               => raced'[id]
    BY <2>1 DEF Races, Marked
  <2>7. SecondRoomTakesRace'
    BY <2>1, <2>6 DEF Races, SecondRoomTakesRace
  <2> QED BY <2>4, <2>5, <2>7 DEF Races
<1>4. ASSUME NEW r \in Requests, Check(r) PROVE Races'
  <2>1. UNCHANGED <<room, founders, raced>>
    BY <1>4 DEF Check
  <2>2. \A q \in Requests : Creates(q)' => req'[q] = req[q] /\ racing'[q] = racing[q]
    <3>1. CASE End(r)
      BY <3>1 DEF End, Idle, Creates
    <3>2. CASE Admit(r, req[r].whom \ room[req[r].id].members)
      BY <3>2 DEF Admit, Idle, Creates
    <3> QED BY <1>4, <3>1, <3>2 DEF Check
  <2> QED BY <2>1, <2>2, RacesStay
<1>5. ASSUME NEW r \in Requests, End(r), UNCHANGED <<founders, raced>>,
             \A id \in RoomIds :
                 /\ room'[id].type = room[id].type
                 /\ room[id].type = "DIRECT" => room'[id].members \subseteq room[id].members
      PROVE  Races'
  <2>1. \A q \in Requests : Creates(q)' => req'[q] = req[q] /\ racing'[q] = racing[q]
    BY <1>5 DEF End, Idle, Creates
  <2> QED BY <1>5, <2>1, RacesStay
<1>6. ASSUME NEW r \in Requests, Insert(r) PROVE Races'
  <2>1. room[req[r].id].type = "GROUP" /\ req[r].id \in RoomIds
    BY <1>6 DEF Insert, DirectInv, DirectShape
  <2>2. \A id \in RoomIds :
           /\ room'[id].type = room[id].type
           /\ room[id].type = "DIRECT" => room'[id].members \subseteq room[id].members
    BY <1>6, <2>1 DEF Insert, Room
  <2> QED BY <1>5, <1>6, <2>2 DEF Insert
<1>7. ASSUME NEW r \in Requests, Delete(r) PROVE Races'
  <2>1. \A id \in RoomIds :
           /\ room'[id].type = room[id].type
           /\ room'[id].members \subseteq room[id].members
    BY <1>7 DEF Delete, Room
  <2> QED BY <1>5, <1>7, <2>1 DEF Delete
<1>8. ASSUME NEW r \in Requests, Answer(r) \/ Abort(r) PROVE Races'
  BY <1>5, <1>8 DEF Answer, Abort
<1>9. CASE UNCHANGED vars
  BY <1>9, RacesStay DEF vars, history
<1> QED
  BY <1>1, <1>2, <1>3, <1>4, <1>6, <1>7, <1>8, <1>9 DEF Next, Step

(* Two direct rooms of one pair take two requests at once: a request that  *)
(* finds the tables as the first one left them finds its room, even after  *)
(* one of the two has left it.                                             *)
THEOREM SecondRoomCorrect == Spec => []SecondRoomTakesRace
<1>1. Init => DirectInv /\ Races
  BY DEF Init, DirectInv, DirectShape, DirectStaysPair, NoSuchRoom, Idle,
         Races, Founded, Marked, Creates, SecondRoomTakesRace
<1>2. Spec => []DirectInv
  BY <1>1, DirectStep, TypedInvariant, PTL DEF Spec
<1> QED BY <1>1, <1>2, RacesStep, TypedInvariant, PTL DEF Spec, Races
-------------------------------------------------------------------------------
(* Every room was founded by somebody. *)
Peopled == \A id \in RoomIds : Exists(id) => founders[id] # {}

LEMMA PeopledStep == Typed /\ Peopled /\ [Next]_vars => Peopled'
<1> SUFFICES ASSUME Typed, Peopled, [Next]_vars PROVE Peopled'
  OBVIOUS
<1> USE DEF Typed, TypeOK, Handlers
<1>1. ASSUME founders' = founders, \A id \in RoomIds : room'[id].type = room[id].type
      PROVE  Peopled'
  BY <1>1 DEF Peopled, Exists
<1>2. ASSUME NEW r \in Requests, NEW id \in RoomIds, Create(r, id) PROVE Peopled'
  <2>1. /\ founders' = [founders EXCEPT ![id] = Pair(r)] /\ Pair(r) # {}
        /\ \A j \in RoomIds \ {id} : room'[j] = room[j]
    BY <1>2 DEF Create, Pair
  <2> QED BY <2>1 DEF Peopled, Exists
<1>3. ASSUME NEW r \in Requests, Insert(r) \/ Delete(r) PROVE Peopled'
  <2>1. \A id \in RoomIds : room'[id].type = room[id].type
    BY <1>3 DEF Insert, Delete, Room
  <2> QED BY <1>1, <1>3, <2>1 DEF Insert, Delete
<1>4. ASSUME NEW r \in Requests, Lookup(r) \/ Check(r) \/ Answer(r) \/ Abort(r)
      PROVE  Peopled'
  BY <1>1, <1>4 DEF Lookup, Check, Answer, Abort, history
<1>5. ASSUME NEW r \in Requests, NEW u \in Users, Start(r, u) PROVE Peopled'
  BY <1>1, <1>5 DEF Start, StartDirect, StartGroup, StartChange, Begin, history
<1>6. CASE UNCHANGED vars
  BY <1>1, <1>6 DEF vars, history
<1> QED BY <1>2, <1>3, <1>4, <1>5, <1>6 DEF Next, Step

(* Only direct requests look a room up. *)
LooksUp == \A r \in Requests : req[r].pc = "lookup" => req[r].op = "direct"

LEMMA LooksUpStep == Typed /\ LooksUp /\ [Next]_vars => LooksUp'
<1> SUFFICES ASSUME Typed, LooksUp, [Next]_vars PROVE LooksUp'
  OBVIOUS
<1>0. req \in [Requests -> Request]
  BY DEF Typed, TypeOK
<1>1. ASSUME \A q \in Requests : req'[q] = req[q] \/ req'[q].pc # "lookup" PROVE LooksUp'
  BY <1>1 DEF LooksUp
<1>2. ASSUME NEW r \in Requests, NEW u \in Users, Start(r, u) PROVE LooksUp'
  <2>1. ASSUME NEW other \in Users, StartDirect(r, u, other) PROVE LooksUp'
    BY <1>0, <2>1 DEF StartDirect, Begin, Idle, LooksUp
  <2>2. ASSUME NEW others \in SUBSET Users, StartGroup(r, u, others) PROVE LooksUp'
    BY <1>0, <1>1, <2>2 DEF StartGroup, Begin, Idle
  <2>3. ASSUME NEW op \in {"add", "remove", "leave"}, NEW id \in RoomIds,
               NEW whom \in SUBSET Users, StartChange(r, op, u, id, whom)
        PROVE  LooksUp'
    BY <1>0, <1>1, <2>3 DEF StartChange, Begin, Idle
  <2> QED BY <1>2, <2>1, <2>2, <2>3 DEF Start
<1>3. ASSUME NEW r \in Requests, NEW members, Show(r, members) PROVE LooksUp'
  BY <1>0, <1>1, <1>3 DEF Show, Idle
<1>4. ASSUME NEW r \in Requests, End(r) PROVE LooksUp'
  BY <1>0, <1>1, <1>4 DEF End, Idle
<1>5. ASSUME NEW r \in Requests, req' = [req EXCEPT ![r].pc = "create"] PROVE LooksUp'
  BY <1>0, <1>1, <1>5 DEF Request
<1>6. ASSUME NEW r \in Requests, NEW new, Admit(r, new) PROVE LooksUp'
  BY <1>0, <1>1, <1>6 DEF Admit, Idle
<1>7. CASE UNCHANGED vars
  BY <1>7 DEF vars, LooksUp
<1>8. ASSUME NEW r \in Requests, Lookup(r) \/ \E id \in RoomIds : Create(r, id) PROVE LooksUp'
  <2>1. ASSUME NEW id \in RoomIds, Create(r, id) PROVE LooksUp'
    <3>1. CASE req' = [req EXCEPT ![r] = Idle]
      BY <1>0, <1>1, <3>1 DEF Idle
    <3> QED BY <1>3, <2>1, <3>1 DEF Create
  <2> QED BY <1>3, <1>5, <1>8, <2>1 DEF Lookup
<1>9. ASSUME NEW r \in Requests, Check(r) \/ Insert(r) \/ Delete(r) \/ Answer(r) \/ Abort(r)
      PROVE  LooksUp'
  BY <1>4, <1>6, <1>9 DEF Check, Insert, Delete, Answer, Abort
<1> QED BY <1>2, <1>7, <1>8, <1>9 DEF Next, Step

(* When a direct request is answered a room its user is not in, that room  *)
(* is one somebody has left, or one the other participant has with himself *)
(* - there is no other way to the answers that DirectAnswerIsMine forbids. *)
StrangeAnswers ==
    \A r \in Requests :
        req[r].mine /\ ~req'[r].mine =>
            \E id \in RoomIds :
                /\ room[id].type = "DIRECT" /\ req[r].user \notin room[id].members
                /\ room[id].members # founders[id] \/ founders[id] = req[r].whom

(* createConversation answers a stranger's room for two reasons only. *)
THEOREM StrangeAnswersCorrect == Spec => [][StrangeAnswers]_vars
<1>1. Init => DirectInv /\ Peopled /\ LooksUp
  BY DEF Init, DirectInv, DirectShape, DirectStaysPair, NoSuchRoom, Idle, Peopled, Exists, LooksUp
<1>2. Typed /\ DirectInv /\ Peopled /\ LooksUp /\ [Next]_vars => [StrangeAnswers]_vars
  <2> SUFFICES ASSUME Typed, DirectInv, Peopled, LooksUp, [Next]_vars, NEW r \in Requests,
                      req[r].mine, ~req'[r].mine
               PROVE  \E id \in RoomIds :
                         /\ room[id].type = "DIRECT" /\ req[r].user \notin room[id].members
                         /\ room[id].members # founders[id] \/ founders[id] = req[r].whom
    BY DEF StrangeAnswers
  <2>0. req \in [Requests -> Request] /\ Idle.mine = TRUE
    BY DEF Typed, TypeOK, Idle
  <2>1. ASSUME NEW q \in Requests, NEW members, Show(q, members)
        PROVE  q = r /\ req[r].user \notin members
    BY <2>0, <2>1 DEF Show, Idle
  <2>2. ASSUME Lookup(r)
        PROVE  \E id \in RoomIds :
                  /\ room[id].type = "DIRECT" /\ req[r].user \notin room[id].members
                  /\ room[id].members # founders[id] \/ founders[id] = req[r].whom
    <3>1. req' # [req EXCEPT ![r].pc = "create"]
      BY <2>0 DEF Request
    <3>2. PICK id \in RoomIds : /\ room[id].type = "DIRECT" /\ room[id].members \subseteq Pair(r)
                                /\ req[r].user \notin room[id].members
      BY <2>1, <2>2, <3>1 DEF Lookup, Matching
    <3>3. \E other \in Users : req[r].whom = {other}
      BY <2>2 DEF Lookup, LooksUp, DirectInv, DirectShape
    <3>4. founders[id] # {}
      BY <3>2 DEF Peopled, Exists
    <3>5. room[id].members = founders[id] => founders[id] = req[r].whom
      BY <3>2, <3>3, <3>4 DEF Pair
    <3> QED BY <3>2, <3>5
  <2>3. ASSUME NEW q \in Requests, Lookup(q), q # r PROVE FALSE
    BY <2>0, <2>1, <2>3 DEF Lookup
  <2>4. ASSUME NEW q \in Requests, NEW id \in RoomIds, Create(q, id) PROVE FALSE
    <3>1. CASE Show(q, Pair(q))
      BY <2>1, <3>1 DEF Pair
    <3>2. CASE req' = [req EXCEPT ![q] = Idle]
      BY <2>0, <3>2
    <3> QED BY <2>4, <3>1, <3>2 DEF Create
  <2>5. ASSUME NEW q \in Requests, End(q) PROVE FALSE
    BY <2>0, <2>5 DEF End
  <2>6. ASSUME NEW q \in Requests, NEW u \in Users, Start(q, u) PROVE FALSE
    BY <2>0, <2>6 DEF Start, StartDirect, StartGroup, StartChange, Begin, Idle
  <2>7. ASSUME NEW q \in Requests, Check(q) PROVE FALSE
    <3>1. CASE Admit(q, req[q].whom \ room[req[q].id].members)
      BY <2>0, <3>1 DEF Admit, Idle
    <3> QED BY <2>5, <2>7, <3>1 DEF Check
  <2>8. CASE UNCHANGED vars
    BY <2>8 DEF vars
  <2> QED BY <2>2, <2>3, <2>4, <2>5, <2>6, <2>7, <2>8
          DEF Next, Step, Insert, Delete, Answer, Abort
<1> QED BY <1>1, <1>2, DirectStep, PeopledStep, LooksUpStep, TypedInvariant, PTL DEF Spec
===============================================================================
