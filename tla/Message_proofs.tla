---------------------------- MODULE Message_proofs ----------------------------
(***************************************************************************)
(* Theorems about Message, for any number of users, rooms, sockets,        *)
(* messages, files and handlers.                                           *)
(***************************************************************************)
EXTENDS Message, TLAPS

(* What a handler has found out before the await it is at. *)
Handlers ==
    \A t \in Tasks :
        /\ task[t].pc = "idle" => task[t].keys = {}
        /\ task[t].pc = "upload" => task[t].files > 0
        /\ task[t].pc \in {"upload", "create", "list"} => task[t].room \in RoomIds /\ task[t].user \in Users
        /\ task[t].pc \in {"touch", "erase", "position"} =>
              task[t].msg \in MessageIds /\ message[task[t].msg].state # "none"
        /\ task[t].pc = "position" => task[t].user \in Users
        /\ task[t].pc = "touch" => task[t].quote \in {0, message[task[t].msg].reply}

Rows ==
    \A m \in MessageIds :
        /\ message[m].state = "none" => message[m].keys = {}
        /\ message[m].state # "none" => message[m].room \in RoomIds /\ message[m].sender \in Users

Typed == MsgTypeOK /\ Handlers /\ Rows

LEMMA LocalTask ==
    ASSUME NEW pc \in {"idle", "upload", "create", "touch", "erase", "cleanup", "position", "list"},
           NEW u \in Users \cup {Nobody}, NEW id \in RoomIds \cup {Nowhere},
           NEW m \in MessageIds \cup {0}, NEW n \in 0..MaxFiles, NEW keys \in SUBSET Keys,
           NEW quote \in MessageIds \cup {0}
    PROVE  Local(pc, u, id, m, n, keys, quote) \in Task
BY DEF Local, Task

LEMMA NoRowType == NoRow \in Row /\ NoRow.state = "none" /\ NoRow.keys = {}
BY DEF NoRow, Row

(* Members and listeners only name users, rooms and sockets. *)
LEMMA ChannelTyped == ChannelTypeOK /\ [ChannelNext]_channel => ChannelTypeOK'
<1> SUFFICES ASSUME ChannelTypeOK, [ChannelNext]_channel PROVE ChannelTypeOK'
  OBVIOUS
<1> USE DEF ChannelTypeOK
<1>1. ASSUME NEW id \in RoomIds, NEW us \in SUBSET Users, Found(id, us) \/ Admit(id, us) \/ Drop(id, us)
      PROVE  ChannelTypeOK'
  BY <1>1 DEF Found, Admit, Drop
<1>2. ASSUME NEW id \in RoomIds, NEW s \in Sockets, NEW u \in Users, Listen(id, s, u)
      PROVE  ChannelTypeOK'
  BY <1>2 DEF Listen
<1>3. ASSUME NEW s \in Sockets, NEW ids \in SUBSET RoomIds, Hush({s}, ids)
      PROVE  ChannelTypeOK'
  BY <1>3 DEF Hush
<1>4. CASE UNCHANGED channel
  BY <1>4 DEF channel
<1> QED BY <1>1, <1>2, <1>3, <1>4 DEF ChannelNext

(* Rows that exist go on to exist, and to reply to what they reply to. *)
Lasting ==
    \A m \in MessageIds : message[m].state # "none" =>
        message'[m].state # "none" /\ message'[m].reply = message[m].reply

(* A handler that goes on with x keeps what is known of handlers. *)
LEMMA TaskKept ==
    ASSUME Typed, Lasting, NEW t \in Tasks, NEW x \in Task,
           task' = [task EXCEPT ![t] = x],
           x.pc = "idle" => x.keys = {},
           x.pc = "upload" => x.files > 0,
           x.pc \in {"upload", "create", "list"} => x.room \in RoomIds /\ x.user \in Users,
           x.pc \in {"touch", "erase", "position"} =>
              x.msg \in MessageIds /\ message'[x.msg].state # "none",
           x.pc = "position" => x.user \in Users,
           x.pc = "touch" => x.quote \in {0, message'[x.msg].reply}
    PROVE  task' \in [Tasks -> Task] /\ Handlers'
BY DEF Typed, MsgTypeOK, Handlers, Lasting

LEMMA TaskEnds ==
    ASSUME Typed, Lasting, NEW t \in Tasks,
           task' = [task EXCEPT ![t] = Rest]
    PROVE  task' \in [Tasks -> Task] /\ Handlers'
<1>1. Rest \in Task /\ Rest.pc = "idle" /\ Rest.keys = {}
  BY MaxFilesAssumption DEF Rest, At, Local, Task
<1> QED BY <1>1, TaskKept

LEMMA TaskCleans ==
    ASSUME Typed, Lasting, NEW t \in Tasks, NEW keys \in SUBSET Keys,
           task' = [task EXCEPT ![t] = At("cleanup", Nobody, Nowhere, 0, 0, keys)]
    PROVE  task' \in [Tasks -> Task] /\ Handlers'
<1> DEFINE x == At("cleanup", Nobody, Nowhere, 0, 0, keys)
<1>1. x \in Task /\ x.pc = "cleanup"
  BY MaxFilesAssumption DEF At, Local, Task
<1> QED BY <1>1, TaskKept

(* A row that is written keeps what is known of rows. *)
LEMMA RowKept ==
    ASSUME Typed, NEW m \in MessageIds, NEW y \in Row,
           message' = [message EXCEPT ![m] = y],
           y.state # "none", y.room \in RoomIds, y.sender \in Users,
           message[m].state # "none" => y.reply = message[m].reply
    PROVE  message' \in [MessageIds -> Row] /\ Rows' /\ Lasting
BY DEF Typed, MsgTypeOK, Rows, Lasting

LEMMA RowsStay ==
    ASSUME Typed, UNCHANGED message
    PROVE  message' \in [MessageIds -> Row] /\ Rows' /\ Lasting
BY DEF Typed, MsgTypeOK, Rows, Lasting

(* The local variables of a handler, at each await it may be at. *)
LEMMA TaskParts ==
    ASSUME Typed, NEW t \in Tasks
    PROVE  /\ task[t] \in Task /\ task[t].keys \in SUBSET Keys
           /\ task[t].pc = "upload" => task[t].files \in 1..MaxFiles
           /\ task[t].pc \in {"upload", "create", "list"} => task[t].room \in RoomIds /\ task[t].user \in Users
           /\ task[t].pc \in {"touch", "erase", "position"} =>
                 /\ task[t].msg \in MessageIds /\ message[task[t].msg] \in Row
                 /\ message[task[t].msg].state # "none"
           /\ task[t].pc = "touch" => task[t].quote \in {0, message[task[t].msg].reply}
           /\ task[t].quote \in MessageIds \cup {0}
           /\ task[t].pc = "position" => task[t].user \in Users
BY MaxFilesAssumption DEF Typed, MsgTypeOK, Handlers, Task

(* Types are kept. *)
LEMMA TypedStep == Typed /\ [MsgNext]_msgVars => Typed'
<1> SUFFICES ASSUME Typed, [MsgNext]_msgVars PROVE Typed'
  OBVIOUS
<1> DEFINE Others == /\ disk' \subseteq Keys /\ used' \subseteq Keys
                     /\ receipts' \subseteq MessageIds \X Users /\ lastRead' \subseteq RoomIds \X Users
                     /\ aired' \subseteq MessageIds
                     /\ shared' \subseteq Keys /\ broken' \subseteq MessageIds /\ lost' \subseteq Keys
           Tasked == task' \in [Tasks -> Task] /\ Handlers'
           Rowed == message' \in [MessageIds -> Row] /\ Rows' /\ Lasting
<1>t. /\ disk \subseteq Keys /\ used \subseteq Keys
      /\ receipts \subseteq MessageIds \X Users /\ lastRead \subseteq RoomIds \X Users
      /\ aired \subseteq MessageIds
      /\ shared \subseteq Keys /\ broken \subseteq MessageIds /\ lost \subseteq Keys
      /\ message \in [MessageIds -> Row] /\ Rows
  BY DEF Typed, MsgTypeOK
<1>c. UNCHANGED channel => ChannelTypeOK'
  BY ChannelTyped DEF Typed, MsgTypeOK
<1>q. ChannelTypeOK' /\ Others /\ Tasked /\ Rowed => Typed'
  BY DEF Typed, MsgTypeOK
<1>1. ASSUME NEW t \in Tasks, NEW u \in Users, NEW id \in RoomIds, NEW n \in 0..MaxFiles,
             NEW named \in SUBSET used, NEW quote \in Existing \cup {0},
             StartSend(t, u, id, n, named, quote)
      PROVE  Typed'
  <2> DEFINE x == Local(IF n > 0 THEN "upload" ELSE "create", u, id, 0, n, named, quote)
  <2>1. /\ x \in Task /\ x.pc \in {"upload", "create"}
        /\ x.pc = "upload" => x.files > 0
        /\ x.room = id /\ x.user = u
    BY <1>t, MaxFilesAssumption DEF Local, Task, Existing
  <2>2. Rowed
    BY <1>1, RowsStay DEF StartSend, Compose
  <2>3. task' = [task EXCEPT ![t] = x]
    BY <1>1 DEF StartSend, Compose, Start
  <2> HIDE DEF x
  <2>4. Tasked
    BY <2>1, <2>2, <2>3, TaskKept
  <2>5. Others
    BY <1>1, <1>t DEF StartSend, Compose, files, reading
  <2> QED BY <1>1, <1>c, <1>q, <2>2, <2>4, <2>5 DEF StartSend, Compose
<1>2. ASSUME NEW t \in Tasks, NEW u \in Users, NEW m \in MessageIds, StartDelete(t, u, m)
      PROVE  Typed'
  <2> DEFINE x == At("erase", Nobody, Nowhere, m, 0, message[m].keys)
  <2>1. x \in Task /\ x.pc = "erase" /\ x.msg = m
    BY <1>t, MaxFilesAssumption DEF At, Local, Task, Row
  <2>2. Rowed /\ message[m].state # "none"
    BY <1>2, RowsStay DEF StartDelete
  <2>3. task' = [task EXCEPT ![t] = x] /\ message' = message
    BY <1>2 DEF StartDelete, Start
  <2> HIDE DEF x
  <2>4. Tasked
    BY <2>1, <2>2, <2>3, TaskKept
  <2>5. Others
    BY <1>2, <1>t DEF StartDelete, files, reading, marks
  <2> QED BY <1>2, <1>c, <1>q, <2>2, <2>4, <2>5 DEF StartDelete
<1>3. ASSUME NEW t \in Tasks, NEW u \in Users, NEW m \in MessageIds, StartRead(t, u, m)
      PROVE  Typed'
  <2> DEFINE x == At("position", u, Nowhere, m, 0, {})
  <2>1. x \in Task /\ x.pc = "position" /\ x.msg = m /\ x.user = u
    BY MaxFilesAssumption DEF At, Local, Task
  <2>2. Rowed /\ message[m].state # "none"
    BY <1>3, RowsStay DEF StartRead
  <2>3. task' = [task EXCEPT ![t] = x] /\ message' = message
    BY <1>3 DEF StartRead, Start
  <2> HIDE DEF x
  <2>4. Tasked
    BY <2>1, <2>2, <2>3, TaskKept
  <2>5. Others
    BY <1>3, <1>t DEF StartRead, files, marks
  <2> QED BY <1>3, <1>c, <1>q, <2>2, <2>4, <2>5 DEF StartRead
<1>17. ASSUME NEW t \in Tasks, NEW u \in Users, NEW id \in RoomIds, StartList(t, u, id)
       PROVE  Typed'
  <2> DEFINE x == At("list", u, id, 0, 0, {})
  <2>1. x \in Task /\ x.pc = "list" /\ x.room = id /\ x.user = u
    BY MaxFilesAssumption DEF At, Local, Task
  <2>2. Rowed
    BY <1>17, RowsStay DEF StartList
  <2>3. task' = [task EXCEPT ![t] = x]
    BY <1>17 DEF StartList, Start
  <2> HIDE DEF x
  <2>4. Tasked
    BY <2>1, <2>2, <2>3, TaskKept
  <2>5. Others
    BY <1>17, <1>t DEF StartList, files, reading, marks
  <2> QED BY <1>17, <1>c, <1>q, <2>2, <2>4, <2>5 DEF StartList
<1>4. ASSUME NEW t \in Tasks, NEW k \in Keys, Upload(t, k) PROVE Typed'
  <2> DEFINE x == Local(IF task[t].files > 1 THEN "upload" ELSE "create", task[t].user,
                        task[t].room, 0, task[t].files - 1, task[t].keys \cup {k}, task[t].quote)
  <2>1. /\ x \in Task /\ x.pc \in {"upload", "create"}
        /\ x.pc = "upload" => x.files > 0
        /\ x.room \in RoomIds /\ x.user \in Users
    BY <1>4, TaskParts, MaxFilesAssumption DEF At, Local, Task, Upload
  <2>2. Rowed
    BY <1>4, RowsStay DEF Upload
  <2>3. task' = [task EXCEPT ![t] = x]
    BY <1>4 DEF Upload
  <2> HIDE DEF x
  <2>4. Tasked
    BY <2>1, <2>2, <2>3, TaskKept
  <2>5. Others
    BY <1>4, <1>t DEF Upload, reading, marks
  <2> QED BY <1>4, <1>c, <1>q, <2>2, <2>4, <2>5 DEF Upload
<1>5. ASSUME NEW t \in Tasks, UploadFails(t) PROVE Typed'
  <2>1. Rowed
    BY <1>5, RowsStay DEF UploadFails
  <2>2. Tasked
    BY <1>5, <2>1, TaskEnds DEF UploadFails, Stop
  <2>3. Others
    BY <1>5, <1>t DEF UploadFails, files, reading
  <2> QED BY <1>5, <1>c, <1>q, <2>1, <2>2, <2>3 DEF UploadFails
<1>6. ASSUME NEW t \in Tasks, NEW m \in MessageIds, Create(t, m) PROVE Typed'
  <2> DEFINE y == [ state |-> "stored", room |-> task[t].room, sender |-> task[t].user,
                    keys |-> task[t].keys, reply |-> task[t].quote ]
             x == Local("touch", Nobody, Nowhere, m, 0, task[t].keys, Quoted(task[t].quote))
  <2>1. /\ y \in Row /\ y.state # "none" /\ y.room \in RoomIds /\ y.sender \in Users
        /\ message' = [message EXCEPT ![m] = y]
        /\ message[m].state = "none"
    BY <1>6, TaskParts DEF Create, Row
  <2>2. /\ x \in Task /\ x.pc = "touch" /\ x.msg = m
        /\ x.quote \in {0, y.reply}
        /\ task' = [task EXCEPT ![t] = x]
    BY <1>6, TaskParts, MaxFilesAssumption DEF Create, Local, Task, Quoted
  <2> HIDE DEF x, y
  <2>3. Rowed
    BY <2>1, RowKept
  <2>4. message'[m].state # "none" /\ message'[m].reply = y.reply
    BY <1>t, <2>1
  <2>5. Tasked
    BY <2>2, <2>3, <2>4, TaskKept
  <2>6. Others
    BY <1>6, <1>t DEF Create, files, reading, marks
  <2> QED BY <1>6, <1>c, <1>q, <2>3, <2>5, <2>6 DEF Create
<1>7. ASSUME NEW t \in Tasks, CreateFails(t) PROVE Typed'
  <2>1. Rowed
    BY <1>7, RowsStay DEF CreateFails
  <2>2. Tasked
    BY <1>7, <2>1, TaskCleans, TaskParts DEF CreateFails, Cleanup
  <2>3. Others
    BY <1>7, <1>t DEF CreateFails, files, reading, marks
  <2> QED BY <1>7, <1>c, <1>q, <2>1, <2>2, <2>3 DEF CreateFails
<1>8. ASSUME NEW t \in Tasks, Broadcast(t) PROVE Typed'
  <2>1. Rowed
    BY <1>8, RowsStay DEF Broadcast
  <2>2. Tasked
    BY <1>8, <2>1, TaskEnds DEF Broadcast, Stop
  <2>3. Others
    BY <1>8, <1>t, TaskParts DEF Broadcast, files, reading, marks
  <2> QED BY <1>8, <1>c, <1>q, <2>1, <2>2, <2>3 DEF Broadcast
<1>9. ASSUME NEW t \in Tasks, TouchFails(t) PROVE Typed'
  <2>1. Rowed
    BY <1>9, RowsStay DEF TouchFails
  <2>2. Tasked
    BY <1>9, <2>1, TaskCleans, TaskParts DEF TouchFails, Cleanup
  <2>3. Others
    BY <1>9, <1>t, TaskParts DEF TouchFails, files, reading
  <2> QED BY <1>9, <1>c, <1>q, <2>1, <2>2, <2>3 DEF TouchFails
<1>10. ASSUME NEW t \in Tasks, Erase(t) PROVE Typed'
  <2> DEFINE m == task[t].msg
             y == [message[m] EXCEPT !.state = "deleted", !.keys = {}]
  <2>1. m \in MessageIds /\ message[m] \in Row /\ message[m].state # "none"
    BY <1>10, TaskParts DEF Erase
  <2>2. /\ y \in Row /\ y.state # "none" /\ y.room \in RoomIds /\ y.sender \in Users
        /\ y.reply = message[m].reply
    BY <1>t, <2>1 DEF Rows, Row
  <2>3. message' = [message EXCEPT ![m] = y]
    BY <1>10, <1>t, <2>1 DEF Erase, Row
  <2> HIDE DEF m, y
  <2>4. Rowed
    BY <2>1, <2>2, <2>3, RowKept
  <2>5. Tasked
    BY <1>10, <2>4, TaskCleans, TaskParts DEF Erase, Cleanup
  <2>6. Others
    BY <1>10, <1>t DEF Erase, files, reading, marks
  <2> QED BY <1>10, <1>c, <1>q, <2>4, <2>5, <2>6 DEF Erase
<1>11. ASSUME NEW t \in Tasks, NEW k \in Keys, Unlink(t, k) PROVE Typed'
  <2>1. Rowed
    BY <1>11, RowsStay DEF Unlink
  <2>2. task[t].keys \ {k} \in SUBSET Keys
    BY TaskParts
  <2>3. Tasked
    BY <1>11, <2>1, <2>2, TaskCleans DEF Unlink
  <2>4. Others
    BY <1>11, <1>t DEF Unlink, reading
  <2> QED BY <1>11, <1>c, <1>q, <2>1, <2>3, <2>4 DEF Unlink
<1>12. ASSUME NEW t \in Tasks, CleanedUp(t) \/ List(t) \/ Reject(t) PROVE Typed'
  <2>1. Rowed
    BY <1>12, RowsStay DEF CleanedUp, List, Reject
  <2>2. Tasked
    BY <1>12, <2>1, TaskEnds DEF CleanedUp, List, Reject, Stop
  <2>3. Others
    BY <1>12, <1>t DEF CleanedUp, List, Reject, files, reading, marks
  <2> QED BY <1>12, <1>c, <1>q, <2>1, <2>2, <2>3 DEF CleanedUp, List, Reject
<1>13. ASSUME NEW t \in Tasks, Position(t) PROVE Typed'
  <2>1. Rowed
    BY <1>13, RowsStay DEF Position
  <2>2. Tasked
    BY <1>13, <2>1, TaskEnds DEF Position, Stop
  <2>3. message[task[t].msg].room \in RoomIds /\ task[t].user \in Users
    BY <1>13, <1>t, TaskParts DEF Position, Rows
  <2>4. Others
    BY <1>13, <1>t, <2>3 DEF Position, files, marks
  <2> QED BY <1>13, <1>c, <1>q, <2>1, <2>2, <2>4 DEF Position
<1>14. CASE Crash
  <2>1. ChannelTypeOK'
    BY <1>14 DEF Crash, Hush, ChannelTypeOK, Typed, MsgTypeOK
  <2>2. Rowed
    BY <1>14, RowsStay DEF Crash
  <2>3. Tasked
    BY <1>14, MaxFilesAssumption DEF Crash, Rest, At, Local, Task, Handlers
  <2>4. Others
    BY <1>14, <1>t, TaskParts DEF Crash, files, reading
  <2> QED BY <1>q, <2>1, <2>2, <2>3, <2>4
<1>15. CASE Move
  <2>1. Rowed
    BY <1>15, RowsStay DEF Move
  <2>2. Tasked
    BY <1>15 DEF Move, Typed, MsgTypeOK, Handlers
  <2>3. Others
    BY <1>15, <1>t DEF Move, files, marks
  <2> QED BY <1>15, <1>q, <2>1, <2>2, <2>3, ChannelTyped DEF Move, Typed, MsgTypeOK
<1>16. CASE UNCHANGED msgVars
  BY <1>16, <1>c DEF msgVars, files, reading, marks, Typed, MsgTypeOK, Handlers, Rows
<1> QED BY <1>1, <1>2, <1>3, <1>4, <1>5, <1>6, <1>7, <1>8, <1>9, <1>10, <1>11, <1>12, <1>13,
           <1>14, <1>15, <1>16, <1>17 DEF MsgNext, Begin, Step
-------------------------------------------------------------------------------
(* Members and listeners are on record as members, and so are the senders  *)
(* of messages and the users whose messages are under way.                 *)
OnRecord ==
    /\ \A id \in RoomIds : members[id] \subseteq ever[id]
    /\ \A l \in audience : l[3] \in ever[l[1]]
Senders ==
    /\ \A t \in Tasks : task[t].pc \in {"upload", "create", "list"} => task[t].user \in ever[task[t].room]
    /\ \A m \in MessageIds : message[m].state # "none" => message[m].sender \in ever[message[m].room]

LEMMA ChannelKeeps ==
    ASSUME ChannelTypeOK, OnRecord, [ChannelNext]_channel
    PROVE  OnRecord' /\ \A id \in RoomIds : ever[id] \subseteq ever'[id]
<1> DEFINE Goal == OnRecord' /\ \A id \in RoomIds : ever[id] \subseteq ever'[id]
<1> USE DEF ChannelTypeOK, OnRecord
<1>1. ASSUME NEW id \in RoomIds, NEW us \in SUBSET Users, Found(id, us) PROVE Goal
  BY <1>1 DEF Found
<1>2. ASSUME NEW id \in RoomIds, NEW us \in SUBSET Users, Admit(id, us) PROVE Goal
  BY <1>2 DEF Admit
<1>3. ASSUME NEW id \in RoomIds, NEW us \in SUBSET Users, Drop(id, us) PROVE Goal
  BY <1>3 DEF Drop
<1>4. ASSUME NEW id \in RoomIds, NEW s \in Sockets, NEW u \in Users, Listen(id, s, u) PROVE Goal
  BY <1>4 DEF Listen
<1>5. ASSUME NEW s \in Sockets, NEW ids \in SUBSET RoomIds, Hush({s}, ids) PROVE Goal
  BY <1>5 DEF Hush
<1>6. CASE UNCHANGED channel
  BY <1>6 DEF channel
<1> QED BY <1>1, <1>2, <1>3, <1>4, <1>5, <1>6 DEF ChannelNext

LEMMA ReachStep == Typed /\ OnRecord /\ Senders /\ [MsgNext]_msgVars => OnRecord' /\ Senders'
<1> SUFFICES ASSUME Typed, OnRecord, Senders, [MsgNext]_msgVars PROVE OnRecord' /\ Senders'
  OBVIOUS
<1> DEFINE Goal == OnRecord' /\ Senders'
<1>c. UNCHANGED channel => OnRecord' /\ UNCHANGED ever
  BY DEF channel, OnRecord
<1>t. /\ task \in [Tasks -> Task] /\ message \in [MessageIds -> Row]
  BY DEF Typed, MsgTypeOK
<1>1. ASSUME NEW t \in Tasks, NEW u \in Users, NEW id \in RoomIds, NEW n \in 0..MaxFiles,
             NEW named \in SUBSET used, NEW quote \in Existing \cup {0},
             StartSend(t, u, id, n, named, quote)
      PROVE  Goal
  BY <1>1, <1>c, <1>t DEF StartSend, Compose, Start, At, Local, Senders, OnRecord
<1>13. ASSUME NEW t \in Tasks, NEW u \in Users, NEW id \in RoomIds, StartList(t, u, id) PROVE Goal
  BY <1>13, <1>c, <1>t DEF StartList, Start, At, Local, Senders, OnRecord
<1>2. ASSUME NEW t \in Tasks, NEW k \in Keys, Upload(t, k) PROVE Goal
  BY <1>2, <1>c, <1>t DEF Upload, At, Local, Senders
<1>3. ASSUME NEW t \in Tasks, NEW m \in MessageIds, Create(t, m) PROVE Goal
  BY <1>3, <1>c, <1>t DEF Create, At, Local, Senders
<1>4. ASSUME UNCHANGED <<message, channel>>,
             \A t \in Tasks : task'[t] = task[t] \/ task'[t].pc \notin {"upload", "create", "list"}
      PROVE  Goal
  BY <1>4, <1>c, <1>t DEF Senders
<1>5. ASSUME NEW t \in Tasks, NEW u \in Users, NEW m \in MessageIds,
             StartDelete(t, u, m) \/ StartRead(t, u, m)
      PROVE  Goal
  BY <1>5, <1>4, <1>t DEF StartDelete, StartRead, Start, At, Local
<1>6. ASSUME NEW t \in Tasks, UploadFails(t) \/ Broadcast(t) \/ Position(t) \/ CleanedUp(t) \/ List(t) \/ Reject(t)
      PROVE  Goal
  BY <1>6, <1>4, <1>t DEF UploadFails, Broadcast, Position, CleanedUp, List, Reject, Stop, Rest, At, Local
<1>7. ASSUME NEW t \in Tasks, CreateFails(t) \/ TouchFails(t) PROVE Goal
  BY <1>7, <1>4, <1>t DEF CreateFails, TouchFails, Cleanup, At, Local
<1>8. ASSUME NEW t \in Tasks, NEW k \in Keys, Unlink(t, k) PROVE Goal
  BY <1>8, <1>4, <1>t DEF Unlink, At, Local
<1>9. ASSUME NEW t \in Tasks, Erase(t) PROVE Goal
  BY <1>9, <1>c, <1>t, TaskParts DEF Erase, Cleanup, At, Local, Senders, Row
<1>10. CASE Crash
  <2>1. \A l \in audience' : l \in audience
    BY <1>10 DEF Crash, Hush
  <2> QED BY <1>10, <2>1 DEF Crash, Hush, Rest, At, Local, OnRecord, Senders
<1>11. CASE Move
  <2>1. OnRecord' /\ \A id \in RoomIds : ever[id] \subseteq ever'[id]
    BY <1>11, ChannelKeeps DEF Move, Typed, MsgTypeOK
  <2> QED BY <1>11, <2>1 DEF Move, Senders, Typed, Handlers, Rows
<1>12. CASE UNCHANGED msgVars
  BY <1>12, <1>4 DEF msgVars
<1> QED BY <1>1, <1>2, <1>3, <1>5, <1>6, <1>7, <1>8, <1>9, <1>10, <1>11, <1>12, <1>13
        DEF MsgNext, Begin, Step
-------------------------------------------------------------------------------
(* ToldOnce, and what keeps it: a message that is still to be told has not *)
(* been, nor failed, and only rows that exist have.                        *)
Telling ==
    /\ \A t, x \in Tasks :
          task[t].pc = "touch" /\ task[x].pc = "touch" /\ task[t].msg = task[x].msg => t = x
    /\ \A t \in Tasks : task[t].pc = "touch" => task[t].msg \notin aired \cup broken
    /\ \A m \in MessageIds : message[m].state # "none" =>
          m \in aired \cup broken \/ \E t \in Tasks : task[t].pc = "touch" /\ task[t].msg = m
    /\ aired \cap broken = {}
    /\ \A m \in aired \cup broken : message[m].state # "none"

LEMMA TellingIsToldOnce == Telling => ToldOnce
BY DEF Telling, ToldOnce

LEMMA TellingStep == Typed /\ Telling /\ [MsgNext]_msgVars => Telling'
<1> SUFFICES ASSUME Typed, Telling, [MsgNext]_msgVars PROVE Telling'
  OBVIOUS
<1>t. /\ task \in [Tasks -> Task] /\ message \in [MessageIds -> Row]
      /\ aired \subseteq MessageIds /\ broken \subseteq MessageIds
  BY DEF Typed, MsgTypeOK
<1>1. ASSUME UNCHANGED <<aired, broken>>,
             \A m \in MessageIds : message'[m].state = "none" <=> message[m].state = "none",
             \A t \in Tasks : task'[t] = task[t] \/ (task[t].pc # "touch" /\ task'[t].pc # "touch")
      PROVE  Telling'
  BY <1>1, <1>t DEF Telling
<1>2. ASSUME NEW t \in Tasks, NEW u \in Users, NEW id \in RoomIds, NEW n \in 0..MaxFiles,
             NEW named \in SUBSET used, NEW quote \in Existing \cup {0},
             StartSend(t, u, id, n, named, quote)
      PROVE  Telling'
  BY <1>1, <1>2, <1>t DEF StartSend, Compose, Start, At, Local
<1>3. ASSUME NEW t \in Tasks, NEW u \in Users, NEW m \in MessageIds,
             StartDelete(t, u, m) \/ StartRead(t, u, m)
      PROVE  Telling'
  BY <1>1, <1>3, <1>t DEF StartDelete, StartRead, Start, At, Local, marks
<1>13. ASSUME NEW t \in Tasks, NEW u \in Users, NEW id \in RoomIds, StartList(t, u, id)
       PROVE  Telling'
  BY <1>1, <1>13, <1>t DEF StartList, Start, At, Local, marks
<1>4. ASSUME NEW t \in Tasks, NEW k \in Keys, Upload(t, k) \/ Unlink(t, k) PROVE Telling'
  BY <1>1, <1>4, <1>t DEF Upload, Unlink, At, Local, marks
<1>5. ASSUME NEW t \in Tasks, UploadFails(t) \/ CreateFails(t) \/ Position(t) \/ CleanedUp(t) \/ List(t) \/ Reject(t)
      PROVE  Telling'
  BY <1>1, <1>5, <1>t DEF UploadFails, CreateFails, Position, CleanedUp, List, Reject, Stop, Cleanup,
     Rest, At, Local, marks
<1>6. ASSUME NEW t \in Tasks, NEW m \in MessageIds, Create(t, m) PROVE Telling'
  <2>1. \A x \in Tasks : task[x].pc = "touch" => task[x].msg # m
    BY <1>6 DEF Create, Typed, Handlers
  <2>2. m \notin aired \cup broken
    BY <1>6 DEF Create, Telling
  <2>3. /\ task'[t].pc = "touch" /\ task'[t].msg = m
        /\ \A x \in Tasks \ {t} : task'[x] = task[x]
    BY <1>6, <1>t DEF Create, At, Local
  <2>4. /\ task[t].pc # "touch" /\ message'[m].state # "none"
        /\ \A n \in MessageIds \ {m} : message'[n] = message[n]
        /\ UNCHANGED <<aired, broken>>
    BY <1>6, <1>t DEF Create, marks
  <2> QED BY <2>1, <2>2, <2>3, <2>4, <1>t DEF Telling
<1>7. ASSUME NEW t \in Tasks, Broadcast(t) PROVE Telling'
  BY <1>7, <1>t, TaskParts DEF Broadcast, Stop, Rest, At, Local, marks, Telling
<1>8. ASSUME NEW t \in Tasks, TouchFails(t) PROVE Telling'
  BY <1>8, <1>t, TaskParts DEF TouchFails, Cleanup, At, Local, Telling
<1>9. ASSUME NEW t \in Tasks, Erase(t) PROVE Telling'
  BY <1>1, <1>9, <1>t, TaskParts DEF Erase, Cleanup, At, Local, marks, Row
<1>10. CASE Crash
  <2>1. \A t \in Tasks : task'[t].pc # "touch"
    BY <1>10 DEF Crash, Rest, At, Local
  <2>2. /\ broken' = broken \cup {task[t].msg : t \in {x \in Tasks : task[x].pc = "touch"}}
        /\ UNCHANGED <<aired, message>>
    BY <1>10 DEF Crash
  <2> QED BY <2>1, <2>2, TaskParts DEF Telling
<1>11. CASE Move
  BY <1>1, <1>11, <1>t DEF Move, marks
<1>12. CASE UNCHANGED msgVars
  BY <1>1, <1>12 DEF msgVars, marks
<1> QED BY <1>2, <1>3, <1>4, <1>5, <1>6, <1>7, <1>8, <1>9, <1>10, <1>11, <1>12, <1>13
        DEF MsgNext, Begin, Step
-------------------------------------------------------------------------------
(* PositionHasReceipt, and a handler that is to move the position has      *)
(* written the receipt.                                                    *)
Reading ==
    /\ PositionHasReceipt
    /\ \A t \in Tasks : task[t].pc = "position" => <<task[t].msg, task[t].user>> \in receipts
    /\ \A p \in receipts : message[p[1]].state # "none"

LEMMA ReadingStep == Typed /\ Reading /\ [MsgNext]_msgVars => Reading'
<1> SUFFICES ASSUME Typed, Reading, [MsgNext]_msgVars PROVE Reading'
  OBVIOUS
<1>t. /\ task \in [Tasks -> Task] /\ message \in [MessageIds -> Row]
      /\ receipts \subseteq MessageIds \X Users
  BY DEF Typed, MsgTypeOK
<1>1. ASSUME receipts' = receipts, lastRead' \subseteq lastRead,
             \A m \in MessageIds : message[m].state # "none" =>
                message'[m].state # "none" /\ message'[m].room = message[m].room,
             \A t \in Tasks : task'[t] = task[t] \/ task'[t].pc # "position"
      PROVE  Reading'
  <2>1. PositionHasReceipt'
    BY <1>1, <1>t DEF Reading, PositionHasReceipt
  <2> QED BY <1>1, <1>t, <2>1 DEF Reading
<1>2. ASSUME NEW t \in Tasks, NEW u \in Users, NEW id \in RoomIds, NEW n \in 0..MaxFiles,
             NEW named \in SUBSET used, NEW quote \in Existing \cup {0},
             StartSend(t, u, id, n, named, quote)
      PROVE  Reading'
  BY <1>1, <1>2, <1>t DEF StartSend, Compose, Start, At, Local, reading
<1>3. ASSUME NEW t \in Tasks, NEW u \in Users, NEW m \in MessageIds, StartDelete(t, u, m)
      PROVE  Reading'
  BY <1>1, <1>3, <1>t DEF StartDelete, Start, At, Local, reading
<1>13. ASSUME NEW t \in Tasks, NEW u \in Users, NEW id \in RoomIds, StartList(t, u, id)
       PROVE  Reading'
  BY <1>1, <1>13, <1>t DEF StartList, Start, At, Local, reading
<1>4. ASSUME NEW t \in Tasks, NEW u \in Users, NEW m \in MessageIds, StartRead(t, u, m)
      PROVE  Reading'
  <2>1. PositionHasReceipt'
    BY <1>4 DEF StartRead, Reading, PositionHasReceipt
  <2> QED BY <1>4, <1>t, <2>1 DEF StartRead, Start, At, Local, Reading
<1>5. ASSUME NEW t \in Tasks, NEW k \in Keys, Upload(t, k) \/ Unlink(t, k) PROVE Reading'
  BY <1>1, <1>5, <1>t DEF Upload, Unlink, At, Local, reading
<1>6. ASSUME NEW t \in Tasks, UploadFails(t) \/ CreateFails(t) \/ Broadcast(t) \/ TouchFails(t)
                               \/ CleanedUp(t) \/ List(t) \/ Reject(t)
      PROVE  Reading'
  BY <1>1, <1>6, <1>t DEF UploadFails, CreateFails, Broadcast, TouchFails, CleanedUp, List, Reject,
     Stop, Cleanup, Rest, At, Local, reading
<1>7. ASSUME NEW t \in Tasks, NEW m \in MessageIds, Create(t, m) PROVE Reading'
  BY <1>1, <1>7, <1>t DEF Create, At, Local, reading
<1>8. ASSUME NEW t \in Tasks, Erase(t) PROVE Reading'
  BY <1>1, <1>8, <1>t, TaskParts DEF Erase, Cleanup, At, Local, reading, Row
<1>9. ASSUME NEW t \in Tasks, Position(t) PROVE Reading'
  <2>1. PositionHasReceipt'
    BY <1>9, TaskParts DEF Position, Reading, PositionHasReceipt
  <2> QED BY <1>9, <1>t, <2>1 DEF Position, Stop, Rest, At, Local, Reading
<1>10. CASE Crash
  BY <1>1, <1>10 DEF Crash, Rest, At, Local, reading
<1>11. CASE Move
  BY <1>1, <1>11, <1>t DEF Move
<1>12. CASE UNCHANGED msgVars
  BY <1>1, <1>12 DEF msgVars, reading
<1> QED BY <1>2, <1>3, <1>4, <1>5, <1>6, <1>7, <1>8, <1>9, <1>10, <1>11, <1>12, <1>13
        DEF MsgNext, Begin, Step
-------------------------------------------------------------------------------
(* StoredFilesExist, and what keeps it: whom a file that no client has     *)
(* named belongs to.  Until its message is created it is its handler's     *)
(* alone; then that one message's; and a handler that cleans up holds no   *)
(* file of a message that has to keep it.                                  *)
Fresh ==
    /\ \A t \in Tasks : task[t].keys \subseteq used
    /\ \A m \in MessageIds : message[m].keys \subseteq used
Held ==
    \A t \in Tasks : \A k \in task[t].keys \ shared :
        /\ task[t].pc \in {"upload", "create"} =>
              /\ k \in disk
              /\ \A x \in Tasks \ {t} : k \notin task[x].keys
              /\ \A m \in MessageIds : k \notin message[m].keys
        /\ task[t].pc \in {"touch", "erase"} =>
              \A m \in MessageIds : k \in message[m].keys => m = task[t].msg
        /\ task[t].pc = "cleanup" =>
              \A m \in MessageIds \ broken : k \notin message[m].keys
Own ==
    \A m, n \in MessageIds : \A k \in message[m].keys \ shared :
        k \in message[n].keys => m = n

Owning == Fresh /\ Held /\ Own /\ StoredFilesExist

LEMMA OwningStep == Typed /\ Owning /\ [MsgNext]_msgVars => Owning'
<1> SUFFICES ASSUME Typed, Owning, [MsgNext]_msgVars PROVE Owning'
  OBVIOUS
<1> USE DEF Owning, Fresh, Held, Own, StoredFilesExist
<1>t. /\ task \in [Tasks -> Task] /\ message \in [MessageIds -> Row]
      /\ \A t \in Tasks : task[t].pc = "idle" => task[t].keys = {}
  BY DEF Typed, MsgTypeOK, Handlers
<1>1. ASSUME UNCHANGED <<message, disk, used, broken>>, shared \subseteq shared',
             \A t \in Tasks : \/ task'[t] = task[t]
                              \/ task'[t].keys = {}
      PROVE  Owning'
  BY <1>1, <1>t
<1>2. ASSUME NEW t \in Tasks, NEW u \in Users, NEW id \in RoomIds, NEW n \in 0..MaxFiles,
             NEW named \in SUBSET used, NEW quote \in Existing \cup {0},
             StartSend(t, u, id, n, named, quote)
      PROVE  Owning'
  <2>1. /\ task'[t].keys = named /\ named \subseteq shared'
        /\ \A x \in Tasks \ {t} : task'[x] = task[x]
        /\ shared \subseteq shared' /\ UNCHANGED <<message, disk, used, broken>>
    BY <1>2, <1>t DEF StartSend, Compose, Start, At, Local, files
  <2> QED BY <2>1, <1>t
<1>3. ASSUME NEW t \in Tasks, NEW u \in Users, NEW m \in MessageIds, StartDelete(t, u, m)
      PROVE  Owning'
  <2>1. /\ task'[t].keys = message[m].keys /\ task'[t].pc = "erase" /\ task'[t].msg = m
        /\ \A x \in Tasks \ {t} : task'[x] = task[x]
        /\ UNCHANGED <<message, disk, used, shared, broken>>
    BY <1>3, <1>t DEF StartDelete, Start, At, Local, files, marks
  <2> QED BY <2>1, <1>t
<1>4. ASSUME NEW t \in Tasks, NEW u \in Users, NEW m \in MessageIds, StartRead(t, u, m)
      PROVE  Owning'
  BY <1>1, <1>4, <1>t DEF StartRead, Start, At, Local, files, marks
<1>15. ASSUME NEW t \in Tasks, NEW u \in Users, NEW id \in RoomIds, StartList(t, u, id)
       PROVE  Owning'
  BY <1>1, <1>15, <1>t DEF StartList, Start, At, Local, files, marks
<1>5. ASSUME NEW t \in Tasks, NEW k \in Keys, Upload(t, k) PROVE Owning'
  <2>1. /\ task'[t].keys = task[t].keys \cup {k} /\ task'[t].pc \in {"upload", "create"}
        /\ task[t].pc = "upload"
        /\ \A x \in Tasks \ {t} : task'[x] = task[x]
        /\ k \notin used /\ used' = used \cup {k} /\ disk' = disk \cup {k}
        /\ UNCHANGED <<message, shared, broken>>
    BY <1>5, <1>t DEF Upload, At, Local, marks
  <2>2. Fresh' /\ Own' /\ StoredFilesExist'
    BY <2>1, <1>t
  <2>3. Held'
    BY <2>1, <1>t
  <2> QED BY <2>2, <2>3
<1>6. ASSUME NEW t \in Tasks, UploadFails(t) \/ Broadcast(t) \/ Position(t) \/ CleanedUp(t) \/ List(t) \/ Reject(t)
      PROVE  Owning'
  BY <1>1, <1>6, <1>t DEF UploadFails, Broadcast, Position, CleanedUp, List, Reject, Stop, Rest, At, Local,
     files, marks
<1>7. ASSUME NEW t \in Tasks, NEW m \in MessageIds, Create(t, m) PROVE Owning'
  <2>1. /\ task[t].pc = "create" /\ task'[t].pc = "touch" /\ task'[t].msg = m
        /\ task'[t].keys = task[t].keys
        /\ \A x \in Tasks \ {t} : task'[x] = task[x]
        /\ message[m].state = "none" /\ message'[m].keys = task[t].keys
        /\ \A n \in MessageIds \ {m} : message'[n] = message[n]
        /\ UNCHANGED <<disk, used, shared, broken>>
    BY <1>7, <1>t DEF Create, At, Local, files, marks
  <2>2. message[m].keys = {}
    BY <2>1 DEF Typed, Rows
  <2>3. Fresh' /\ Own'
    BY <2>1, <2>2, <1>t
  <2>4. StoredFilesExist'
    BY <2>1, <1>t
  <2>5. Held'
    BY <2>1, <2>2, <1>t
  <2> QED BY <2>3, <2>4, <2>5
<1>8. ASSUME NEW t \in Tasks, CreateFails(t) PROVE Owning'
  <2>1. /\ task[t].pc = "create" /\ task'[t].pc = "cleanup" /\ task'[t].keys = task[t].keys
        /\ \A x \in Tasks \ {t} : task'[x] = task[x]
        /\ UNCHANGED <<message, disk, used, shared, broken>>
    BY <1>8, <1>t DEF CreateFails, Cleanup, At, Local, files, marks
  <2> QED BY <2>1, <1>t
<1>9. ASSUME NEW t \in Tasks, TouchFails(t) PROVE Owning'
  <2>1. /\ task[t].pc = "touch" /\ task'[t].pc = "cleanup" /\ task'[t].keys = task[t].keys
        /\ \A x \in Tasks \ {t} : task'[x] = task[x]
        /\ broken' = broken \cup {task[t].msg}
        /\ UNCHANGED <<message, disk, used, shared>>
    BY <1>9, <1>t DEF TouchFails, Cleanup, At, Local, files
  <2> QED BY <2>1, <1>t
<1>10. ASSUME NEW t \in Tasks, Erase(t) PROVE Owning'
  <2> DEFINE m == task[t].msg
  <2>1. /\ task[t].pc = "erase" /\ task'[t].pc = "cleanup" /\ task'[t].keys = task[t].keys
        /\ \A x \in Tasks \ {t} : task'[x] = task[x]
        /\ UNCHANGED <<disk, used, shared, broken>>
    BY <1>10, <1>t DEF Erase, Cleanup, At, Local, files, marks
  <2>2. /\ m \in MessageIds /\ message'[m].keys = {} /\ message'[m].state = "deleted"
        /\ \A n \in MessageIds \ {m} : message'[n] = message[n]
    BY <1>10, <1>t, TaskParts DEF Erase, Row
  <2> HIDE DEF m
  <2>3. \A k \in task[t].keys \ shared : \A n \in MessageIds : k \notin message'[n].keys
    BY <2>1, <2>2 DEF m
  <2> QED BY <2>1, <2>2, <2>3, <1>t
<1>11. ASSUME NEW t \in Tasks, NEW k \in Keys, Unlink(t, k) PROVE Owning'
  <2>1. /\ task[t].pc = "cleanup" /\ k \in task[t].keys
        /\ task'[t].pc = "cleanup" /\ task'[t].keys = task[t].keys \ {k}
        /\ \A x \in Tasks \ {t} : task'[x] = task[x]
        /\ disk \ {k} \subseteq disk'
        /\ UNCHANGED <<message, used, shared, broken>>
    BY <1>11, <1>t DEF Unlink, At, Local
  <2>2. StoredFilesExist'
    BY <2>1, <1>t
  <2>3. Held'
    BY <2>1, <1>t
  <2> QED BY <2>1, <2>2, <2>3
<1>12. CASE Crash
  <2>1. \A t \in Tasks : task'[t].keys = {}
    BY <1>12 DEF Crash, Rest, At, Local
  <2>2. broken \subseteq broken' /\ UNCHANGED <<message, disk, used, shared>>
    BY <1>12 DEF Crash, files
  <2> QED BY <2>1, <2>2
<1>13. CASE Move
  BY <1>1, <1>13 DEF Move, files, marks
<1>14. CASE UNCHANGED msgVars
  BY <1>1, <1>14 DEF msgVars, files, marks
<1> QED BY <1>2, <1>3, <1>4, <1>5, <1>6, <1>7, <1>8, <1>9, <1>10, <1>11, <1>12, <1>13, <1>14, <1>15
        DEF MsgNext, Begin, Step
-------------------------------------------------------------------------------
(* OrphansTakeFailure, and what keeps it: a handler that has stored a      *)
(* message does not count as a keeper of its files, and one that deletes a *)
(* message holds all of them when the rows go.                             *)
Keeping ==
    /\ \A k \in disk \ lost :
          \/ \E m \in MessageIds : k \in message[m].keys
          \/ \E t \in Tasks : task[t].pc \in {"upload", "create", "cleanup"} /\ k \in task[t].keys
    /\ \A t \in Tasks : task[t].pc = "erase" => message[task[t].msg].keys \subseteq task[t].keys

LEMMA KeepingStep == Typed /\ Keeping /\ [MsgNext]_msgVars => Keeping'
<1> SUFFICES ASSUME Typed, Keeping, [MsgNext]_msgVars PROVE Keeping'
  OBVIOUS
<1> USE DEF Keeping
<1>t. /\ task \in [Tasks -> Task] /\ message \in [MessageIds -> Row]
      /\ \A t \in Tasks : task[t].pc = "idle" => task[t].keys = {}
  BY DEF Typed, MsgTypeOK, Handlers
<1>1. ASSUME UNCHANGED <<message, disk>>, lost \subseteq lost', NEW t \in Tasks,
             task[t].keys \cap disk \subseteq lost' \/ task[t].pc \notin {"upload", "create", "cleanup"},
             task'[t].pc # "erase" \/ message[task'[t].msg].keys \subseteq task'[t].keys,
             \A x \in Tasks \ {t} : task'[x] = task[x]
      PROVE  Keeping'
  BY <1>1, <1>t
<1>2. ASSUME NEW t \in Tasks, NEW u \in Users, NEW id \in RoomIds, NEW n \in 0..MaxFiles,
             NEW named \in SUBSET used, NEW quote \in Existing \cup {0},
             StartSend(t, u, id, n, named, quote)
      PROVE  Keeping'
  BY <1>1, <1>2, <1>t DEF StartSend, Compose, Start, At, Local, files
<1>3. ASSUME NEW t \in Tasks, NEW u \in Users, NEW m \in MessageIds,
             StartDelete(t, u, m) \/ StartRead(t, u, m)
      PROVE  Keeping'
  BY <1>1, <1>3, <1>t DEF StartDelete, StartRead, Start, At, Local, files, marks
<1>14. ASSUME NEW t \in Tasks, NEW u \in Users, NEW id \in RoomIds, StartList(t, u, id)
       PROVE  Keeping'
  BY <1>1, <1>14, <1>t DEF StartList, Start, At, Local, files, marks
<1>4. ASSUME NEW t \in Tasks, NEW k \in Keys, Upload(t, k) PROVE Keeping'
  <2>1. /\ task'[t].keys = task[t].keys \cup {k} /\ task'[t].pc \in {"upload", "create"}
        /\ \A x \in Tasks \ {t} : task'[x] = task[x]
        /\ disk' = disk \cup {k} /\ UNCHANGED <<message, lost>>
    BY <1>4, <1>t DEF Upload, At, Local, marks
  <2> QED BY <2>1, <1>t
<1>5. ASSUME NEW t \in Tasks, UploadFails(t) PROVE Keeping'
  BY <1>1, <1>5, <1>t DEF UploadFails, Stop, Rest, At, Local, files
<1>6. ASSUME NEW t \in Tasks, Broadcast(t) \/ Position(t) \/ CleanedUp(t) \/ List(t) \/ Reject(t) PROVE Keeping'
  BY <1>1, <1>6, <1>t DEF Broadcast, Position, CleanedUp, List, Reject, Stop, Rest, At, Local, files, marks
<1>7. ASSUME NEW t \in Tasks, NEW m \in MessageIds, Create(t, m) PROVE Keeping'
  <2>1. /\ task'[t].pc = "touch"
        /\ \A x \in Tasks \ {t} : task'[x] = task[x]
        /\ message[m].state = "none" /\ message'[m].keys = task[t].keys
        /\ \A n \in MessageIds \ {m} : message'[n] = message[n]
        /\ UNCHANGED <<disk, lost>>
    BY <1>7, <1>t DEF Create, At, Local, files, marks
  <2>2. \A x \in Tasks : task[x].pc = "erase" => task[x].msg # m /\ task[x].msg \in MessageIds
    BY <2>1 DEF Typed, Handlers
  <2>3. message[m].keys = {}
    BY <2>1 DEF Typed, Rows
  <2> QED BY <2>1, <2>2, <2>3, <1>t
<1>8. ASSUME NEW t \in Tasks, CreateFails(t) \/ TouchFails(t) PROVE Keeping'
  <2>1. /\ task'[t].pc = "cleanup" /\ task'[t].keys = task[t].keys
        /\ \A x \in Tasks \ {t} : task'[x] = task[x]
        /\ UNCHANGED <<message, disk, lost>>
    BY <1>8, <1>t DEF CreateFails, TouchFails, Cleanup, At, Local, files, marks
  <2> QED BY <2>1, <1>t
<1>9. ASSUME NEW t \in Tasks, Erase(t) PROVE Keeping'
  <2> DEFINE m == task[t].msg
  <2>1. /\ task[t].pc = "erase" /\ task'[t].pc = "cleanup" /\ task'[t].keys = task[t].keys
        /\ \A x \in Tasks \ {t} : task'[x] = task[x]
        /\ UNCHANGED <<disk, lost>>
    BY <1>9, <1>t DEF Erase, Cleanup, At, Local, files, marks
  <2>2. /\ m \in MessageIds /\ message'[m].keys = {}
        /\ message[m].keys \subseteq task[t].keys
        /\ \A n \in MessageIds \ {m} : message'[n] = message[n]
    BY <1>9, <1>t, TaskParts DEF Erase, Row
  <2>3. \A x \in Tasks : task[x].pc = "erase" => task[x].msg \in MessageIds
    BY TaskParts
  <2> HIDE DEF m
  <2> QED BY <2>1, <2>2, <2>3, <1>t
<1>10. ASSUME NEW t \in Tasks, NEW k \in Keys, Unlink(t, k) PROVE Keeping'
  <2>1. /\ task[t].pc = "cleanup"
        /\ task'[t].pc = "cleanup" /\ task'[t].keys = task[t].keys \ {k}
        /\ \A x \in Tasks \ {t} : task'[x] = task[x]
        /\ UNCHANGED message
    BY <1>10, <1>t DEF Unlink, At, Local
  <2>2. \/ disk' \ lost' \subseteq (disk \ lost) \ {k}
        \/ k \notin disk' /\ disk' \ lost' \subseteq disk \ lost
    BY <1>10 DEF Unlink
  <2> QED BY <2>1, <2>2, <1>t
<1>11. CASE Crash
  <2>1. \A t \in Tasks : task'[t].pc # "erase" /\ task[t].keys \cap disk \subseteq lost'
    BY <1>11 DEF Crash, Rest, At, Local
  <2>2. lost \subseteq lost' /\ UNCHANGED <<message, disk>>
    BY <1>11 DEF Crash, files
  <2> QED BY <2>1, <2>2
<1>12. CASE Move
  BY <1>12 DEF Move, files, marks
<1>13. CASE UNCHANGED msgVars
  BY <1>13 DEF msgVars, files, marks
<1> QED BY <1>2, <1>3, <1>4, <1>5, <1>6, <1>7, <1>8, <1>9, <1>10, <1>11, <1>12, <1>13, <1>14
        DEF MsgNext, Begin, Step
-------------------------------------------------------------------------------
MsgInv == Typed /\ OnRecord /\ Senders /\ Telling /\ Reading /\ Owning /\ Keeping

(* The parts together. *)
LEMMA MsgInvariant == MsgSpec => []MsgInv
<1>1. MsgInit => MsgInv
  <2> SUFFICES ASSUME MsgInit PROVE MsgInv
    OBVIOUS
  <2>1. Typed
    BY MaxFilesAssumption DEF MsgInit, ChannelInit, ChannelTypeOK, Typed, MsgTypeOK, Handlers, Rows,
       NoRow, Row, Rest, At, Local, Task
  <2>2. OnRecord /\ Senders /\ Telling
    BY DEF MsgInit, ChannelInit, OnRecord, Senders, Telling, Rest, At, Local, NoRow
  <2>3. Reading /\ Owning /\ Keeping
    BY DEF MsgInit, Reading, PositionHasReceipt, Owning, Fresh, Held, Own, StoredFilesExist, Keeping,
       Rest, At, Local, NoRow
  <2> QED BY <2>1, <2>2, <2>3 DEF MsgInv
<1>2. MsgInv /\ [MsgNext]_msgVars => MsgInv'
  BY TypedStep, ReachStep, TellingStep, ReadingStep, OwningStep, KeepingStep DEF MsgInv
<1> QED BY <1>1, <1>2, PTL DEF MsgSpec

(* The tables, files and handlers keep their types. *)
THEOREM MessageTyped == MsgSpec => []MsgTypeOK
BY MsgInvariant, PTL DEF MsgInv, Typed

(* However sends, deletes, failures and crashes interleave, a stored       *)
(* message whose handler did not fail and whose files no client named      *)
(* elsewhere has its files.                                                *)
THEOREM FilesCorrect == MsgSpec => []StoredFilesExist
BY MsgInvariant, PTL DEF MsgInv, Owning

(* Files nobody will delete are only left by failures of sendMessage and   *)
(* deleteMessage at the awaits that have no handler for them.              *)
THEOREM OrphansCorrect == MsgSpec => []OrphansTakeFailure
<1>1. MsgInv => OrphansTakeFailure
  BY DEF MsgInv, Keeping, OrphansTakeFailure
<1> QED BY <1>1, MsgInvariant, PTL

(* Every message that has a row is broadcast once, or its failure is on    *)
(* record.                                                                 *)
THEOREM TellingCorrect == MsgSpec => []ToldOnce
<1>1. MsgInv => ToldOnce
  BY TellingIsToldOnce DEF MsgInv
<1> QED BY <1>1, MsgInvariant, PTL

(* Nobody has a read position without a receipt.                           *)
THEOREM ReadingCorrect == MsgSpec => []PositionHasReceipt
BY MsgInvariant, PTL DEF MsgInv, Reading

(* Sender and listeners of what is broadcast and readers of what is listed *)
(* have been members of the room, although the checks are awaits before,   *)
(* and the text of a message of another room comes with a reply only.      *)
THEOREM AmongMembers == MsgSpec => PassesAmongMembers
<1> DEFINE Told(t) ==
              LET m == task[t].msg
                  heard == {message[m].sender} \cup Hearers(message[m].room)
              IN  task[t].pc = "touch" =>
                     /\ \A u \in heard, x \in Sent(t) : MayReach(x, u)
                     /\ heard \subseteq ever[message[m].room]
           Shown(t) ==
              task[t].pc = "list" =>
                 /\ \A x \in Listed(task[t].room) : MayReach(x, task[t].user)
                 /\ task[t].user \in ever[task[t].room]
<1>1. ASSUME MsgInv, NEW t \in Tasks PROVE Told(t)
  <2> SUFFICES ASSUME task[t].pc = "touch",
                      NEW u \in {message[task[t].msg].sender} \cup Hearers(message[task[t].msg].room)
               PROVE  /\ u \in ever[message[task[t].msg].room]
                      /\ \A x \in Sent(t) : MayReach(x, u)
    OBVIOUS
  <2>1. /\ task[t].msg \in Existing /\ task[t].msg \in MessageIds
        /\ task[t].quote \in {0, message[task[t].msg].reply}
    BY <1>1, TaskParts DEF MsgInv, Existing
  <2>2. u \in ever[message[task[t].msg].room]
    BY <1>1, <2>1 DEF MsgInv, Senders, OnRecord, Hearers, Existing
  <2>3. ASSUME NEW x \in Sent(t) PROVE MayReach(x, u)
    <3>1. x = task[t].msg \/ message[task[t].msg].reply = x
      BY <2>1, <2>3 DEF Sent
    <3> QED BY <2>1, <2>2, <3>1 DEF MayReach
  <2> QED BY <2>2, <2>3
<1>2. ASSUME MsgInv, NEW t \in Tasks PROVE Shown(t)
  <2> SUFFICES ASSUME task[t].pc = "list"
               PROVE  /\ \A x \in Listed(task[t].room) : MayReach(x, task[t].user)
                      /\ task[t].user \in ever[task[t].room]
    OBVIOUS
  <2>1. task[t].user \in ever[task[t].room]
    BY <1>2 DEF MsgInv, Senders
  <2>2. ASSUME NEW x \in Listed(task[t].room) PROVE MayReach(x, task[t].user)
    <3>1. PICK m \in MessageIds : /\ message[m].state = "stored" /\ message[m].room = task[t].room
                                  /\ x \in {m, Quoted(message[m].reply)} \ {0}
      BY <2>2 DEF Listed
    <3>2. m \in Existing /\ (x = m \/ message[m].reply = x)
      BY <3>1 DEF Existing, Quoted
    <3> QED BY <2>1, <3>1, <3>2 DEF MayReach
  <2> QED BY <2>1, <2>2
<1> DEFINE Passes ==
              \A t \in Tasks :
                LET m == task[t].msg
                    heard == {message[m].sender} \cup Hearers(message[m].room)
                IN
                /\ task[t].pc = "touch" /\ m \in aired' \ aired =>
                      /\ \A u \in heard, x \in Sent(t) : MayReach(x, u)
                      /\ heard \subseteq ever[message[m].room]
                /\ task[t].pc = "list" /\ task'[t].pc # "list" =>
                      /\ \A x \in Listed(task[t].room) : MayReach(x, task[t].user)
                      /\ task[t].user \in ever[task[t].room]
<1>3. MsgInv => [Passes]_msgVars
  BY <1>1, <1>2
<1> QED BY <1>3, MsgInvariant, PTL DEF MsgSpec, PassesAmongMembers
===============================================================================
