-------------------------------- MODULE Message --------------------------------
(***************************************************************************)
(* Messages, their files and who reads them: MessageService                *)
(* (modules/message/message.service.ts) over the tables messages,          *)
(* message_attachments, read_receipts and room_members.lastReadAt, the     *)
(* files of StorageService (shared/storage.service.ts) and the broadcast   *)
(* of SocketEmitterService (socket/socket-emitter.service.ts).             *)
(*                                                                         *)
(* Rooms, members and listeners move as Channel allows, which Chat         *)
(* implements.  A handler is a task that goes from await to await, and the *)
(* process may die at any of them; it starts here when its first query is  *)
(* answered, since it has done nothing before.  Texts, media types and the *)
(* paging of listings change nothing of this and are left out.  The socket *)
(* a message came over is left out of the broadcast, but gets it as its    *)
(* answer: it counts as any other listener.                                *)
(***************************************************************************)
EXTENDS Channel, Naturals, FiniteSets

CONSTANTS
    MessageIds,     \* bound: the messages that can be created, in that order
    Keys,           \* bound: the files that can be written, each under a fresh uuid
    Tasks,          \* slots for handlers in flight at the same time
    MaxFiles,       \* bound: files uploaded with one message (the code: 10)
    Nobody,         \* "no user"
    Nowhere         \* "no room"

ASSUME MessageIdsAssumption == MessageIds \subseteq Nat \ {0}
ASSUME NobodyAssumption == Nobody \notin Users
ASSUME NowhereAssumption == Nowhere \notin RoomIds
ASSUME MaxFilesAssumption == MaxFiles \in Nat

VARIABLES
    message,    \* message id -> its row, with the keys of its message_attachments
    disk,       \* keys of the files below uploads/
    used,       \* keys that have been given to a file
    task,       \* slot -> the local variables of its handler
    receipts,   \* rows of read_receipts: <<message id, user>>
    lastRead    \* rows of room_members that have a lastReadAt: <<room id, user>>

(* History variables: no action reads them. *)
VARIABLES
    aired,      \* messages that have been broadcast
    shared,     \* keys that a client has named in the attachments of a message
    broken,     \* messages stored by a handler that failed before it broadcast them
    lost        \* keys of files that a failure left behind

files    == <<disk, used>>
reading  == <<receipts, lastRead>>
marks    == <<shared, broken, lost>>
msgVars  == <<channel, message, files, task, reading, aired, marks>>

Row == [ state : {"none", "stored", "deleted"}, room : RoomIds \cup {Nowhere},
         sender : Users \cup {Nobody}, keys : SUBSET Keys, reply : MessageIds \cup {0} ]
NoRow == [ state |-> "none", room |-> Nowhere, sender |-> Nobody, keys |-> {}, reply |-> 0 ]

(* pc names the await a handler is at; files are still to upload, keys are *)
(* those of the attachments it holds, the uploaded and the named ones.     *)
(* quote is the replyToId of the request, and once the message is created  *)
(* the row whose text came back with it.                                   *)
Task ==
    [ pc   : {"idle", "upload", "create", "touch", "erase", "cleanup", "position", "list"},
      user : Users \cup {Nobody}, room : RoomIds \cup {Nowhere},
      msg  : MessageIds \cup {0}, files : 0..MaxFiles, keys : SUBSET Keys,
      quote : MessageIds \cup {0} ]
Local(pc, user, id, m, n, keys, quote) ==
    [ pc |-> pc, user |-> user, room |-> id, msg |-> m, files |-> n, keys |-> keys,
      quote |-> quote ]
At(pc, user, id, m, n, keys) == Local(pc, user, id, m, n, keys, 0)
Rest == At("idle", Nobody, Nowhere, 0, 0, {})

MsgTypeOK ==
    /\ ChannelTypeOK
    /\ message \in [MessageIds -> Row]
    /\ disk \subseteq Keys /\ used \subseteq Keys
    /\ task \in [Tasks -> Task]
    /\ receipts \subseteq MessageIds \X Users
    /\ lastRead \subseteq RoomIds \X Users
    /\ aired \subseteq MessageIds
    /\ shared \subseteq Keys /\ broken \subseteq MessageIds /\ lost \subseteq Keys

MsgInit ==
    /\ ChannelInit
    /\ message = [m \in MessageIds |-> NoRow]
    /\ disk = {} /\ used = {}
    /\ task = [t \in Tasks |-> Rest]
    /\ receipts = {} /\ lastRead = {}
    /\ aired = {}
    /\ shared = {} /\ broken = {} /\ lost = {}
-------------------------------------------------------------------------------
Existing == {m \in MessageIds : message[m].state # "none"}

Start(t, local) ==
    /\ task[t].pc = "idle"
    /\ task' = [task EXCEPT ![t] = local]

(* The handler returns or throws. *)
Stop(t) == task' = [task EXCEPT ![t] = Rest]

(* cleanupAttachments is the last thing a handler does: it forgets all but *)
(* the keys.                                                               *)
Cleanup(t) == task' = [task EXCEPT ![t] = At("cleanup", Nobody, Nowhere, 0, 0, task[t].keys)]
-------------------------------------------------------------------------------
(* Mutant of Compose: the loop runs at least once. *)
ComposeUploads(t, u, id, n, named, quote) ==
    /\ named \subseteq used /\ quote \in Existing \cup {0}
    /\ Start(t, Local("upload", u, id, 0, n, named, quote))
    /\ shared' = shared \cup named
    /\ UNCHANGED <<channel, message, files, reading, aired, broken, lost>>

(* A new message: n files to upload, files that the client names, since it *)
(* knows of them (those of a message it forwards), and the message it      *)
(* replies to.                                                             *)
Compose(t, u, id, n, named, quote) ==
    /\ named \subseteq used /\ quote \in Existing \cup {0}
    /\ Start(t, Local(IF n > 0 THEN "upload" ELSE "create", u, id, 0, n, named, quote))
    /\ shared' = shared \cup named
    /\ UNCHANGED <<channel, message, files, reading, aired, broken, lost>>

(* Mutant of StartSend: the room only has to exist. *)
StartSendAnybody(t, u, id, n, named, quote) ==
    /\ ever[id] # {}
    /\ Compose(t, u, id, n, named, quote)

(* sendMessage of a member: over REST with files, or over a socket.  The   *)
(* message it replies to may be of any room, and nobody looks: only one    *)
(* that there is not is refused, by the foreign key (CreateFails).         *)
StartSend(t, u, id, n, named, quote) ==
    /\ u \in members[id]
    /\ Compose(t, u, id, n, named, quote)

(* uploadMessageFiles writes one file after the other, each under a fresh  *)
(* key.                                                                    *)
Upload(t, k) ==
    /\ task[t].pc = "upload"
    /\ k \notin used
    /\ disk' = disk \cup {k} /\ used' = used \cup {k}
    /\ task' = [task EXCEPT ![t] = Local(IF @.files > 1 THEN "upload" ELSE "create", @.user,
                                         @.room, 0, @.files - 1, @.keys \cup {k}, @.quote)]
    /\ UNCHANGED <<channel, message, reading, aired, marks>>

(* A file is refused by validateFile or cannot be written: the loop is     *)
(* outside the try block, and what it has written before stays.            *)
UploadFails(t) ==
    /\ task[t].pc = "upload"
    /\ lost' = lost \cup (task[t].keys \cap disk)
    /\ Stop(t)
    /\ UNCHANGED <<channel, message, files, reading, aired, shared, broken>>

(* The text that comes with a row: that of the message it replies to, of   *)
(* whatever room.  A deleted one has none.                                 *)
Quoted(reply) == IF reply # 0 /\ message[reply].state = "stored" THEN reply ELSE 0

(* message.create with its attachments; the row comes back with the        *)
(* message it replies to.                                                  *)
Create(t, m) ==
    LET new == task[t] IN
    /\ new.pc = "create"
    /\ message[m].state = "none"
    /\ \A n \in MessageIds : n < m => message[n].state # "none"
    /\ message' = [message EXCEPT ![m] =
          [ state |-> "stored", room |-> new.room, sender |-> new.user, keys |-> new.keys,
            reply |-> new.quote ]]
    /\ task' = [task EXCEPT ![t] = Local("touch", Nobody, Nowhere, m, 0, new.keys,
                                         Quoted(new.quote))]
    /\ UNCHANGED <<channel, files, reading, aired, marks>>

(* Mutant of CreateFails: the error is thrown past the cleanup. *)
CreateThrows(t) ==
    /\ task[t].pc = "create"
    /\ Stop(t)
    /\ UNCHANGED <<channel, message, files, reading, aired, marks>>

(* The catch block deletes the files of the attachments, the named ones    *)
(* too.                                                                    *)
CreateFails(t) ==
    /\ task[t].pc = "create"
    /\ Cleanup(t)
    /\ UNCHANGED <<channel, message, files, reading, aired, marks>>

Hearers(id) == {l[3] : l \in {x \in audience : x[1] = id}}

(* What emitToRoom sends: the row that create answered. *)
Sent(t) == {task[t].msg, task[t].quote} \ {0}

(* room.update, and emitToRoom in the same step of the event loop. *)
Broadcast(t) ==
    LET m == task[t].msg IN
    /\ task[t].pc = "touch"
    /\ aired' = aired \cup {m}
    /\ Stop(t)
    /\ UNCHANGED <<channel, message, files, reading, marks>>

(* Mutant of TouchFails: the broadcast comes before room.update. *)
TouchFailsTold(t) ==
    /\ task[t].pc = "touch"
    /\ broken' = broken \cup {task[t].msg} /\ aired' = aired \cup {task[t].msg}
    /\ Cleanup(t)
    /\ UNCHANGED <<channel, message, files, reading, shared, lost>>

(* room.update rejects: the same catch block, but the message is stored. *)
TouchFails(t) ==
    /\ task[t].pc = "touch"
    /\ broken' = broken \cup {task[t].msg}
    /\ Cleanup(t)
    /\ UNCHANGED <<channel, message, files, reading, aired, shared, lost>>
-------------------------------------------------------------------------------
(* Mutant of StartDelete: the files go before the rows. *)
StartDeleteFiles(t, u, m) ==
    /\ message[m].state # "none" /\ message[m].sender = u
    /\ Start(t, At("erase", Nobody, Nowhere, m, 0, {}))
    /\ disk' = disk \ message[m].keys
    /\ UNCHANGED <<channel, message, used, reading, aired, marks>>

(* deleteMessage: only its sender, who may have left the room; and a       *)
(* deleted one again.                                                      *)
StartDelete(t, u, m) ==
    /\ message[m].state # "none" /\ message[m].sender = u
    /\ Start(t, At("erase", Nobody, Nowhere, m, 0, message[m].keys))
    /\ UNCHANGED <<channel, message, files, reading, aired, marks>>

(* The transaction: attachment rows go and the message is marked. *)
Erase(t) ==
    LET m == task[t].msg IN
    /\ task[t].pc = "erase"
    /\ message' = [message EXCEPT ![m].state = "deleted", ![m].keys = {}]
    /\ Cleanup(t)
    /\ UNCHANGED <<channel, files, reading, aired, marks>>

(* deleteFiles starts the unlinks together; they end in any order, and a   *)
(* failed one is logged and forgotten.                                     *)
Unlink(t, k) ==
    /\ task[t].pc = "cleanup" /\ k \in task[t].keys
    /\ \/ disk' = disk \ {k} /\ UNCHANGED lost
       \/ k \in disk /\ lost' = lost \cup {k} /\ UNCHANGED disk
    /\ task' = [task EXCEPT ![t] = At("cleanup", Nobody, Nowhere, 0, 0, @.keys \ {k})]
    /\ UNCHANGED <<channel, message, used, reading, aired, shared, broken>>

CleanedUp(t) ==
    /\ task[t].pc = "cleanup" /\ task[t].keys = {}
    /\ Stop(t)
    /\ UNCHANGED <<channel, message, files, reading, aired, marks>>
-------------------------------------------------------------------------------
(* Mutant of StartRead: a deleted message gets no receipt. *)
StartReadStored(t, u, m) ==
    /\ message[m].state # "none"
    /\ receipts' = IF message[m].state = "stored" THEN receipts \cup {<<m, u>>} ELSE receipts
    /\ Start(t, At("position", u, Nowhere, m, 0, {}))
    /\ UNCHANGED <<channel, message, files, lastRead, aired, marks>>

(* markRead: the receipt first, which only needs the message to be there,  *)
(* deleted or not, of whatever room; ...                                   *)
StartRead(t, u, m) ==
    /\ message[m].state # "none"
    /\ receipts' = receipts \cup {<<m, u>>}
    /\ Start(t, At("position", u, Nowhere, m, 0, {}))
    /\ UNCHANGED <<channel, message, files, lastRead, aired, marks>>

(* ... then the read position of the member, which throws for others. *)
Position(t) ==
    LET id == message[task[t].msg].room IN
    /\ task[t].pc = "position"
    /\ lastRead' = IF task[t].user \in members[id]
                   THEN lastRead \cup {<<id, task[t].user>>} ELSE lastRead
    /\ Stop(t)
    /\ UNCHANGED <<channel, message, files, receipts, aired, marks>>

(* listMessages of a member, ... *)
StartList(t, u, id) ==
    /\ u \in members[id]
    /\ Start(t, At("list", u, id, 0, 0, {}))
    /\ UNCHANGED <<channel, message, files, reading, aired, marks>>

(* What the second query finds: the messages stored in the room by then,   *)
(* each with the one it replies to.                                        *)
Listed(id) ==
    UNION {{m, Quoted(message[m].reply)} \ {0} :
              m \in {x \in MessageIds : message[x].state = "stored" /\ message[x].room = id}}

(* ... who is shown that. *)
List(t) ==
    /\ task[t].pc = "list"
    /\ Stop(t)
    /\ UNCHANGED <<channel, message, files, reading, aired, marks>>

(* A query of these rejects: nothing is written and nothing cleaned up. *)
Reject(t) ==
    /\ task[t].pc \in {"erase", "position"}
    /\ Stop(t)
    /\ UNCHANGED <<channel, message, files, reading, aired, marks>>
-------------------------------------------------------------------------------
(* The process dies: handlers and listeners are gone, rows and files stay. *)
Crash ==
    LET held == UNION {task[t].keys : t \in Tasks} IN
    /\ \E t \in Tasks : task[t].pc # "idle"
    /\ task' = [t \in Tasks |-> Rest]
    /\ Hush(Sockets, RoomIds)
    /\ lost' = lost \cup (held \cap disk)
    /\ broken' = broken \cup {task[t].msg : t \in {x \in Tasks : task[x].pc = "touch"}}
    /\ UNCHANGED <<message, files, reading, aired, shared>>

(* Members and listeners move; a row of room_members takes its read        *)
(* position with it.                                                       *)
Move ==
    /\ ChannelNext
    /\ lastRead' = {p \in lastRead : p[2] \in members'[p[1]]}
    /\ UNCHANGED <<message, files, task, receipts, aired, marks>>

Begin(t) ==
    \E u \in Users :
        \/ \E id \in RoomIds, n \in 0..MaxFiles, named \in SUBSET used, quote \in Existing \cup {0} :
              StartSend(t, u, id, n, named, quote)
        \/ \E id \in RoomIds : StartList(t, u, id)
        \/ \E m \in MessageIds : StartDelete(t, u, m) \/ StartRead(t, u, m)

Step(t) ==
    \/ \E k \in Keys : Upload(t, k) \/ Unlink(t, k)
    \/ UploadFails(t)
    \/ \E m \in MessageIds : Create(t, m)
    \/ CreateFails(t)
    \/ Broadcast(t)
    \/ TouchFails(t)
    \/ Erase(t)
    \/ CleanedUp(t)
    \/ Position(t)
    \/ List(t)
    \/ Reject(t)

MsgNext ==
    \/ Move
    \/ Crash
    \/ \E t \in Tasks : Begin(t) \/ Step(t)

MsgSpec == MsgInit /\ [][MsgNext]_msgVars
-------------------------------------------------------------------------------
(* A stored message has its files, whatever is sent, deleted or failing    *)
(* beside it: the rows go before the files.  Two things take this promise  *)
(* away: its own room.update failed (the catch block has then deleted the  *)
(* files of a message that stays), or a client named the file in another   *)
(* message, whose failure or deletion takes it from both.                  *)
StoredFilesExist ==
    \A m \in MessageIds :
        message[m].state = "stored" /\ m \notin broken => message[m].keys \ shared \subseteq disk

(* No file stays behind that nothing will ever delete, unless a failure    *)
(* left it: a file is named by a stored message or held by a handler.      *)
OrphansTakeFailure ==
    \A k \in disk \ lost :
        \/ \E m \in MessageIds : k \in message[m].keys
        \/ \E t \in Tasks : k \in task[t].keys

(* A message that has a row is broadcast once, even if it is deleted       *)
(* meanwhile: it has been, or its one handler still will, or that failed   *)
(* and nobody is told.  So a message that is stored after another has been *)
(* answered is never broadcast before it.                                  *)
ToldOnce ==
    \A m \in MessageIds :
        LET teller == {t \in Tasks : task[t].pc = "touch" /\ task[t].msg = m} IN
        /\ message[m].state # "none" => m \in aired \cup broken \/ teller # {}
        /\ m \in aired => m \notin broken /\ teller = {}
        /\ \A t, x \in teller : t = x

(* The text of a message reaches only users who have been members of its   *)
(* room, or of a room with a reply to it, although the checks of sender,   *)
(* listener and reader are awaits before.  The reply is the one way out of *)
(* its room: whoever names the message in replyToId shows it to the room   *)
(* of the reply.                                                           *)
MayReach(m, u) ==
    \/ u \in ever[message[m].room]
    \/ \E q \in Existing : message[q].reply = m /\ u \in ever[message[q].room]

PassesAmongMembers ==
    [][ \A t \in Tasks :
          LET m == task[t].msg
              heard == {message[m].sender} \cup Hearers(message[m].room)
          IN
          /\ task[t].pc = "touch" /\ m \in aired' \ aired =>
                /\ \A u \in heard, x \in Sent(t) : MayReach(x, u)
                /\ heard \subseteq ever[message[m].room]
          /\ task[t].pc = "list" /\ task'[t].pc # "list" =>
                /\ \A x \in Listed(task[t].room) : MayReach(x, task[t].user)
                /\ task[t].user \in ever[task[t].room] ]_msgVars

(* Whoever has a read position in a room has a receipt for a message of    *)
(* it, although the two are written in two steps of which one may fail and *)
(* members come and go between them.                                       *)
PositionHasReceipt ==
    \A p \in lastRead : \E m \in MessageIds : message[m].room = p[1] /\ <<m, p[2]>> \in receipts
===============================================================================
