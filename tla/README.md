# TLA+ models of the NestJS chat and auth platform

This directory specifies the parts of the platform whose correctness depends on
the order in which concurrent requests, sockets, expirations and failures
happen. TLC checks each model on small instances; TLAPS proves the most
important facts for every instance. The reference is always the source; where
a comment or a document says something else, that is written down (see
"Disagreements").

## The system

One Node process (or several behind nginx) serves REST requests and Socket.IO
sockets. Its state is in PostgreSQL (through Prisma), in Redis (or, when Redis
is not reachable at start-up, in a map of the process), and in maps of
`SocketStateService`. Nothing is locked: a handler runs until its next `await`,
and other handlers run meanwhile. There are no transactions around the
read-then-write sequences described below, except for the deletion of a message.

| component | state | operations | talks to |
|---|---|---|---|
| Refresh sessions (`auth.service.ts`, `session.service.ts`, `auth.guard.ts`, `jwt.service.ts`) | keys `session:refresh:<user>:<hash>`, `blacklist:access:<hash>` | login, refresh, logout, revoke, guard | Redis, roles, presence |
| One-time codes (`auth.service.ts`) | keys `otp:*`, counters, blocks, `auth:rate:*` | sendOtp, verifyOtp, login | Redis, mail, sessions |
| Presence (`socket-state.service.ts`, `socket.adapter.ts`, `presence.gateway.ts`, `admin-seed.service.ts`) | two maps per process, `isOnline`/`lastSeenAt`, key `user:<id>:online` | connect, disconnect, heartbeat, touchPresence, reset | sockets, sessions |
| Conversations (`conversation.service.ts`) | tables `rooms`, `room_members` | create, add, remove, leave | chat |
| Chat gateway (`chat.gateway.ts`) | Socket.IO rooms | join, leave, send, typing | conversations, messages |
| Messages (`message.service.ts`, `message.controller.ts`, `storage.service.ts`, `socket-emitter.service.ts`) | tables `messages`, `message_attachments`, `read_receipts`, files below `uploads/` | send, delete, markRead, list | chat, conversations |
| Accounts (`auth.service.ts`, `oauth.service.ts`, `admin-seed.service.ts`) | tables `users`, `oauth_accounts`, `roles`, `user_roles` | register, verify, forgot and reset password, Google login, connect, seed | sessions, codes |
| Redis access (`redis.service.ts`) | Redis or a map without expiry | get, set, incr, expire, keys | everything |
| Users, roles, tenants, permissions | single rows | CRUD | claims of tokens |
| Notifications, queue, calls, audit, upload, health, mail, HTTP plumbing | none that another part reads | stubs or pure I/O | |

The hard behaviours: a revocation races a refresh; a token's identity is its
payload and its second; counters take two commands to get an expiry; two
handlers of one user write the presence row in either order; a lookup and the
creation after it are two queries; a membership check and the join after it are
two awaits; a crash leaves the row and the key of an online user behind; Redis
may be absent altogether. What makes each component correct is listed with its
module below, and every such place in the code, covered or not, is a hazard in
`PROJECT.json`.

## Modules

Common conventions. A request or a job is a slot with a `pc` that names the
`await` it is suspended at, and with the locals it still needs. Each action is
the code between two awaits. `Abort` (or `JobFails`) is an await that rejects:
what was written stays. Variables under "History variables" are read by no
action. Definitions named as mutants in a comment are deliberate bugs used to
test the properties; nothing refers to them. Real tokens, codes, names and
payloads are abstracted to what decides their fate.

### AuthSession and SessionRegistry

A signed token has no random part, so it *is* its payload: user, version of the
claims, second of signing. The two tokens of a pair share one value, with two
lifetimes. `sessions` and `blacklist` hold the second at which a Redis key
expires.

| action | code |
|---|---|
| `StartLogin`, `MintTokens`, `StoreSession`, `Respond` | `login` / `verifyOtp` / OAuth login, `issueTokens` |
| `StartRefresh`, ..., `DropOld`, `Respond` | `refreshTokens` |
| `StartLogout`, `Scan`, `DeleteOne`, `BlacklistAccess`, `Return` | `AuthGuard`, `logout` |
| `StartRevoke`, `Scan`, `DeleteOne`, `Return` | `resetPassword`, `changePassword`, `DELETE /sessions/users/:id` |
| `ChangeClaims` | `RoleService` |
| `Tick`, `Restart`, `Abort` | expiry, crash, a rejected await |

With `Fallback = TRUE` TTLs are ignored and a restart empties the store, as the
map of `RedisService` does. The password change that precedes a revocation, the
user row that the guard loads (a deleted or banned user), audit rows and the
unread key `refresh_token:<user>` are left out.

`SessionRegistry` is what the service promises about sessions, without
signatures, blacklists and answers: whoever is admitted opens one session of the
user admitted; a refresh may close the session it was admitted on, after it has
opened its own; a revocation may close what its user had when it listed the keys;
otherwise only time or the death of the in-memory store closes one. `AuthSession`
implements it under the mapping `Entry` (a request that has still to store a
pair), `Basis` (the pair presented to it) and `Closing` (what it has still to drop
or delete): `KeepsRegistry`, which `auth_session` checks and
`SessionsImplementRegistry` proves.

Properties: `RevocationComplete` (whatever of a user is live behind a
revocation's loop was stored after its listing), `LoggedOutTokenRefused` (an access
token whose logout wrote its blacklist entry is refused for good),
`OnlyLostAnswerStrands` (a refresh that ends at any await leaves its client a session
it knows of, unless the answer itself is lost after the old session was deleted),
`ClaimsAreCurrent`, `EveryRequestEnds`, `KeepsRegistry`.

`BlacklistAccess` has the three outcomes of the code: the entry is written; Redis
rejects the SET, `blacklistAccessToken` swallows the error and the logout is answered
all the same (such a token is not in `loggedOut`); or the handler dies.

### Otp

One identifier of one tenant. `counter`, `block`, `slot` and `byToken` are the
Redis keys with their remaining life (-1: no expiry); `payload` is what a code
was generated for; a request keeps the code it found. INCR and EXPIRE are two
steps; the reads of `findStoredOtp` are one. `verified` and `resetToken` are the
columns of the user row that a verification writes.

`Check` is `assertOtpNotBlocked` with the refusals of `sendOtp`; `Incr`,
`Expire`, `SetBlock`, `DropCounter` are the two bump functions and the login
limiter; `PutOtp`, `PutToken`, `Mail` the rest of `sendOtp`; `Find`,
`ClearResend`, `ClearInvalid`, `DeleteOtp`, `DeleteToken`, `Outcome` the rest of
`verifyOtp`. An identifier without user (404 after the guards were cleared) is
not modelled, nor the SMS variant, which stores nothing else.

Properties: `SpentCodesGone`, `ResetTakesResetCode`, `LimitEnforced`,
`BlockStopsRequests`, `CountersExpire`. `BlockStopsRequests` is about requests that
name the blocked purpose: a token finds its code whatever purpose the request names,
so a code of a blocked purpose can still be compared under another one.

### Presence

`Connect` and `Disconnect` are the synchronous parts of `addSocket` and
`removeSocket`; what they await is a job per socket and kind (`WriteRow`,
`WriteKey`, `Announce`), which the adapter does not wait for. `TouchRow` and
`TouchKey` are `touchPresence` of login and logout (one at a time per user, a bound
of the model); `Heartbeat` the gateway's;
`Restart` a crash with the start-up reset of `AdminSeedService` outside
production.

Properties: `MapsAgree`, `TransitionsBalance` (each online period of a user on
an instance owns one online and one offline job, however they overlap and
fail), `SerialJobsSettle` (a transition that had its user to itself leaves row,
key and registry agreeing whatever was there before), `StaleKeyExpires`.

### Conversation, Chat and Channel

`Conversation` has the tables: `Lookup` and `Create` are the two queries of
`createConversation`, `Check` and `Insert`/`Delete` those of `addMembers`,
`removeMember` and `leaveConversation`. `Chat` composes it with the Socket.IO
rooms: its next-state relation is a step of `Conversation` or of a socket
(`Connect` is a handshake that `authenticateSocket` has accepted, `AskJoin` is
`isMember`, `Join` the join after its answer, `LeaveRoom` and `Disconnect` end
it).

`Channel` is what the two promise to the messages, without requests, roles and
checks: rooms are founded once, admit and drop members, sockets of users who have
been members listen and fall silent. `Chat` implements it under a refinement
mapping (`KeepsChannel`: members from `rooms`, listeners from the sockets' rooms),
which `chat` checks and `ChatImplementsChannel` proves. `Message` is written over
`Channel`, so what is shown of messages holds with all requests of `Chat` around
them, at the price of a much smaller state.

Properties: `SecondRoomTakesRace`, `FrozenForGood` (the only chat admin is the
creator; without one, a group only shrinks), `DirectStaysPair`,
`ListenersWereMembers`, `KeepsChannel`.

### Message

A task is a handler of `MessageService`; `disk` is the upload directory, `used`
the keys that were ever given to a file (a key is a fresh uuid). A message may reply
to one of another room, since `sendMessage` stores any `replyToId` that exists; its
text comes back with the created row (`quote`), is broadcast (`Sent`) and listed
(`Listed`) with the reply. A client may name
files in the attachments of a message, as it does when it forwards one; the code
takes them as they are, so two messages may share a file (`shared`).

| action | code |
|---|---|
| `StartSend`, `Upload`, `UploadFails` | the membership check of `sendMessage`, `uploadMessageFiles`, the storage service |
| `Create`, `CreateFails` | `message.create` and the catch block behind it |
| `Broadcast`, `TouchFails` | `room.update` with `emitToRoom` behind it; the same catch block when it rejects |
| `StartDelete`, `Erase` | `deleteMessage`: find, transaction |
| `Unlink`, `CleanedUp` | `cleanupAttachments`: the unlinks, one by one, a failed one is only logged |
| `StartRead`, `Position` | `markRead`: the receipt, then `lastReadAt` of the member |
| `StartList`, `List` | `listMessages`: membership, then the messages |
| `Reject`, `Crash` | a query that rejects, the death of the process |
| `Move` | a step of Channel; a member who goes takes the read position along |

Properties: `StoredFilesExist` (with the two things that break it in the code
named: a `room.update` that failed, a file named by another message),
`OrphansTakeFailure` (a file that nothing will delete was left by a failure),
`ToldOnce` (every row is broadcast once, by its one handler, unless that failed),
`PositionHasReceipt`, `PassesAmongMembers` (a text reaches only users who have been
members of its room, or of a room with a reply to it).

### Account

What creates and names users. A task is a handler of registration, recovery,
Google login, `connectProvider` or of the administrator's seed.

| action | code |
|---|---|
| `StartRegister`, `CreateUser`, `FindRole`, `MakeRole`, `Grant` | `register`, `ensureDefaultRole` |
| `StartGoogle`, `Lookup`, `CreateUser`, `FindRole`, `MakeRole`, `Grant`, `Link`, `Enter` | the first `loginWithGoogle` of a Google account; `Enter` is `loginWithOAuthProvider`, which looks the account up again |
| `ReturnGoogle`, `Enter` | a later one |
| `StartConnect`, `Connect` | `connectProvider` |
| `StartSeed`, `Seed` | `AdminSeedService` |
| `StartVerify`, `Verify` | `verifyEmail`, `verifyOtp` for account_verification |
| `StartIssue`, `Issue` | `forgotPassword`, `verifyOtp` for password_reset |
| `StartReset`, `Reset` | `resetPassword`: find, hash, update |
| `PostRole` | `POST /roles`, which writes a USER role without looking for one |
| `Throw` | a query that rejects, also because of a unique index; death of the process |

The unique indexes are guards of the inserts: `users.email`, the provider account,
and (name, tenantId) of a role, which does not count NULL. Usernames and phones
are left out: a handler that finds its name taken after all rejects like any
other. An expired link or a lost mail is a link nobody uses.

Properties: `GoogleFindsItsUser` (a login that died half-way is mended by the
next), `GoogleUsersHaveRole` (of who logs in through Google, unless `connectProvider`
linked the account: those logins pass `ensureDefaultRole` by), `LoginKeepsUser`,
`RoleWithinTenant`, `SecondRoleTakesRace` (or a `POST /roles`), `SpentLinksGone`, `NewestLinkWorks`, `LinksNeverMove`.

## Runs

| run | instance | what it shows |
|---|---|---|
| `auth_session` | 1 user, 2 requests, 3 seconds, lifetimes of 2 seconds, Redis | `TypeOK`, `RevocationComplete`, `LoggedOutTokenRefused`, `OnlyLostAnswerStrands`, `KeepsRegistry` |
| `auth_session_memory` | 1 user, 2 requests, one change of roles, in-memory store, fairness | `ClaimsAreCurrent`, `EveryRequestEnds` |
| `presence` | 1 instance, 1 user, 2 sockets, TTL of 2 beats, production, failing awaits, fairness | all of Presence |
| `otp` | 2 requests, purposes login and password_reset, 2 codes, TTLs of 1, failing awaits, no production counters | `TypeOK`, `SpentCodesGone`, `ResetTakesResetCode` |
| `otp_counters` | 2 requests, purposes login and password_reset, limits 1 and 2, production, no failures, fairness | `LimitEnforced`, `BlockStopsRequests`, `CountersExpire` |
| `conversation` | 3 users, 2 rooms, 2 requests | `TypeOK`, `DirectStaysPair`, `SecondRoomTakesRace`, `FrozenForGood` |
| `chat` | 3 users, 1 room, 1 request, 2 sockets | `SocketsTypeOK`, `ListenersWereMembers`, `KeepsChannel` |
| `message` | a member and a stranger, 2 rooms, 1 socket, 2 messages, 1 key, 2 tasks, up to 2 files a message | all of Message |
| `account` | 2 users, 1 address (the administrator's too), 2 Google accounts, 1 tenant, 2 roles, 2 links, 2 tasks | all of Account |

Why these bounds are enough. Two request slots give every interleaving of two
handlers, and the properties are about pairs of handlers; a slot is used again,
so a behaviour has any number of requests. One user suffices where users share
no key (AuthSession, Presence, Otp): the proofs cover the rest. Three seconds
with lifetimes of two have tokens that are alive, expired, signed in one second
and signed in different ones. One change of roles tells old claims from new. Two
sockets have a first, a last and a middle connection. Two codes have a code
replaced by its successor, and a token that names the one while the slot holds
the other. The limits are smaller than the code's (3 and 10), so that they are
reached. Two rooms are needed for a second direct room, three users for a third
party, two requests for an addition that overtakes another between check and insert;
`Bounds` of `MCConversation` has at most two users present once both rooms exist.
In `otp_counters` codes are sent for login, and one request at a time may name
password_reset while one code is out (`LoginCodes`): that is the request that finds
a login code by its token and asks for the block of the other purpose. `MaxTime`, `MaxClaims`, `MaxSends`, `MaxAttempts`, `RoomIds`, `MessageIds`, `Keys`,
`MaxFiles`, `People`, `RoleIds` and `Links` are the bounds that are not the
program's. The purpose account_verification, the second channel and the in-memory
store of Otp are in the model, not in the instances.

`chat` has one request beside two sockets that join and leave: the sockets'
checks race the request; races of requests with each other are the matter of
`conversation`. In `message` the one key is written once and then forwarded,
deleted and cleaned up by two handlers at once; two messages are needed to share
it, and a second file to fail after the first. Its constraint `Bounds` has the member
in the first room and the stranger in the second only (both may try everything), one
receipt at a time, and files and receipts as long as there is neither a second room nor
a reply, because a reply touches no file. In
`account` one Google account shows an e-mail and one shows none; `Bounds` has one
of them in use at a time, and links made while there is one user, because links
of different users and logins of different Google accounts share no row but the
role; one role is posted, beside registrations and logins. Both address and administrator's address are one, so that seed, registration
and Google login meet. The proofs are without these bounds. Symmetry is used in runs
without liveness, for slots, users, rooms and sockets that nothing tells apart.

Fairness is weak fairness of the steps of handlers that are under way, because a
Redis or database command settles (`maxRetriesPerRequest: 1`, no offline queue),
and of the clock. Clients owe nothing: no property assumes that anybody logs in,
disconnects or beats. `CountersExpire` and `LimitEnforced` are checked without
failing requests: a process that dies between INCR and EXPIRE leaves a counter
for good, and one that dies before the block leaves a counter above its limit.
The login limiter is not in the traffic of that run; it uses the same two
commands.

Each property of a passing run has a mutant in `PROJECT.json`: a plausible bug of
the code that violates it.

## Disagreements

Three runs expect a violation.

- `refresh_same_second`: a refresh in the second its token was signed in answers
  200 with the token it was given, whose session it has just deleted. This is
  the only way to be answered a dead pair, another request or the TTL apart
  (`OtherPairsCorrect`).
- `logout_race`: a refresh that was admitted before a logout opens a session
  after it.
- `direct_room`: "the existing direct conversation" may be one with oneself, or
  one somebody has left; the requester need not be in it. There is no third
  cause (`StrangeAnswersCorrect`).

Others met while modelling:

- sessions and codes: two logins in one second share a session; a logout by
  cookie blacklists nothing, and one whose SET Redis rejects is answered although
  nothing was blacklisted; a refresh whose answer is lost leaves its client without a
  session; two verifications that read one code before either deletes it both
  succeed; "Invalid OTP attempts limited to 3; blocks for 6 hours after"
  (`docs/auth-platform-api.md:419`) holds of requests that name the blocked purpose,
  while a token finds its code under any purpose; concurrent wrong codes exceed the limit of three by
  the number of requests in flight; without Redis no code and no limit expires,
  so ten logins limit an identifier for as long as the process lives.
- presence: a heartbeat renews a key but never recreates one that has expired
  (`docs/presence.md` says that heartbeats refresh it); overlapping connections
  and disconnections, a crash in production, or a login without socket leave a
  row that says online; with several instances the last socket of one takes the
  user offline on all.
- conversations: who leaves stays in the Socket.IO room, and a socket lives on
  after its token has expired or was blacklisted; a group whose creator left can
  never get an admin; the second of two concurrent direct requests creates a
  second room.
- messages: `markRead` writes a receipt for somebody who is not a member before
  it fails; a message whose `room.update` fails is stored, never told to anybody,
  and its files are deleted; a reply shows the message it names, of whatever room;
  files uploaded before one that is refused stay; a
  forwarded file goes with the first of its messages; a message may be deleted
  before it is broadcast.
- accounts: a registration whose role fails leaves a user without; a second USER
  role without a tenant takes two handlers or a `POST /roles`; an account that a user
  without role has connected logs in without one; two resets with one link that both
  found it both set their password; a reset under way clears a newer link;
  a Google login that fails for an account without e-mail leaves a user that
  nothing finds again; a Google login finds a pending registration by its e-mail,
  links it, and is then refused until that user has verified.

## Proofs

The `_proofs` modules of AuthSession, Otp, Presence, Conversation, Chat, Message
and Account hold the theorems, for all values of the constants under the assumptions
in the modules (non-empty `Users`, TTLs above 0, the null values outside the sets
they complete, numbered messages and links).

- `TypeCorrect` (the first four; `SocketsTyped`, `MessageTyped` and `AccountTyped`
  of the others): the type invariant is inductive. In
  AuthSession it needs to know that a request at `store`, `drop` or `respond` has
  signed a pair (`PairSigned`): otherwise `StoreSession` and `Respond` could
  handle `NoToken`. In Conversation it needs to know that a request at work names
  a user and, once it acts on a room, that room (`Handlers`). In Otp it needs to
  know that who stores a code is a send and has one, and that who spends a code
  has found it (`Shape`).
- Otp: `SpentCorrect` and `ResetCorrect` come from `CodesInv`. A user gets a code
  when its send ends, so no code that can be spent is still being stored; a slot
  holds codes that were generated for it (`Filed`), so the deletion under the
  payload's purpose and channel leaves no other copy (`Sound`, `Gone`).
  `LimitCorrect` assumes that no await rejects (`~Faults`); its invariant adds
  that a request at `expire` whose INCR was one too many counts as on its way
  (`Enforces`). `LeakCorrect` assumes finitely many requests, and at least one:
  while a purpose is blocked, comparisons made for requests that name it and such
  requests about to compare are together fewer than the requests (`Bounded`), because the one that set the
  block is not among them and nobody passes the check any more.
- Otp: `ExpiryCorrect` is the safety half of `CountersExpire`: a counter without
  expiry has a request that was answered 1 by INCR and has EXPIRE before it
  (`Young`). It assumes Redis and that no await rejects, for the reasons given
  with the runs. `VerifiedCorrect` does without both: `verifyOtp` verifies a channel
  only by a spent account_verification code of that channel (`VerifiedEarned`), because
  `Filed` codes are what they were generated for. The other writers of that column
  (`verifyEmail`, Google logins, the seed) belong to Account and are not in Otp.
- `RevocationCorrect`: `RevocationComplete` is inductive on top of the types:
  `Scan` makes it true, every `StoreSession` adds its token to `since` of those
  that have listed, and a key leaves `todo` only when it is deleted.
- `LogoutCorrect`: a token is barred when it has expired, or has a blacklist
  entry that ends no earlier than the token, or not before the modelled time
  does (`Barred`). Every token in `loggedOut` is barred and so is that of a
  logout at `return` (`LogoutBars`), unless Redis rejected its SET (`refused`);
  `BlacklistAccess` bars it, and `Tick` keeps it barred because the token does not
  outlive the entry.
- `RefreshCorrect`: until `drop` the presented session is live, at `drop` the
  minted one too, and at `respond` the minted one or, signed in the second of the
  presented one, the same token; anything else was taken by another request and
  is recorded in `lost` (`RefreshKeeps`). So the one end of a refresh that leaves its
  client nothing is the death of the answer at `respond`.
- `ClaimsCorrect`: claims only move on, so what was minted is between the claims
  at the start and those now (`ClaimsMoveOn`).
- `SessionsImplementRegistry`: initial states map to initial states, and every
  step of a request maps to one step of the registry or to a stutter. It needs to
  know that a refresh has a session it was admitted on, and that who stores a pair
  has signed it for its own user (`Admitted`). `OwnSessionsCorrect` adds that what
  a refresh presents and a revocation lists is of that user too (`OfOneUser`), so
  that a session appears or goes only through a request of its own user, its TTL,
  or the death of the in-memory store.
- `OtherPairsCorrect` is a corollary of `RefreshKeeps`.
- `RunDownCorrect` is the safety half of `EveryRequestEnds`: `Remaining` counts
  the awaits a request has before it, its listing bounded by the tokens there
  are; each change of a request under way makes that smaller, and no other
  request's step touches it. It assumes finitely many users.
- `RegistryCorrect` (Presence): `MapsAgree` is inductive as it stands.
- `BalanceCorrect` (Presence) counts, by instance and user, the jobs that wait
  or run against the transitions recorded; a registered socket has no removal under way
  (`RemovalsWait`), so a step moves one job of one socket, which the
  cardinality lemmas turn into plus or minus one. Sockets are finitely many.
- `SerialCorrect` (Presence): while a transition has its user to itself
  (`Stretch`), row and key are settled up to what its job has still to write
  (`Settling`) and, behind it, entirely (`Settled`); an overlap ends the stretch.
  One instance is assumed, because with two the conclusion is false (see
  "Disagreements"). What stays true with any number is `NobodyLeftCorrect`: after
  such a transition nobody who is connected nowhere is shown online.
- `KeyFadesCorrect` (Presence): the safety half of `StaleKeyExpires`; only a
  socket, a job or a touch prolongs a key, and who is away has none.
- `DirectCorrect` (Conversation): a direct request names one other participant,
  so it creates a room of at most two (`PairSize`); an addition at `insert` has
  been admitted to a group (`DirectShape`), and no step changes a room's type.
- `SecondRoomCorrect` (Conversation): who is in a direct room founded it
  (`Founded`), and a request about to create one of a pair that has one is marked
  as racing (`Marked`); together with the property this is inductive (`Races`).
- `FrozenCorrect` (Conversation): an action property, one lemma per step from the
  types alone. Only an admitted addition brings anybody in, and `assertGroupAdmin`
  admits none to a room without an admin; `Frozen` says that none was admitted
  before, since one on its way would still be written.
- `StrangeAnswersCorrect` (Conversation): a direct room has lost nobody
  if its members are its founders, of whom there is at least one (`Peopled`), and
  only direct requests look a room up (`LooksUp`), by a filter that refuses a third
  party; so a room without the caller is one that somebody has
  left, or the other's room with himself.
- `ListenersCorrect` (Chat): the members of a room are on its record `ever`, and
  the record only grows (`EverGrows`: a creation finds it empty because additions
  go to existing rooms, `DirectShape`); so what the check of a join saw is still
  on record when the socket joins (`Asked`).
- `ChatImplementsConversation` (a lemma): sockets leave the tables alone, so the
  theorems of Conversation hold of the composition.
- `ChatImplementsChannel`: initial states map to initial states; a step of a
  request founds, admits, drops or stutters (`RequestRefines`, which needs that a
  room once created is never created again), a step of a socket listens, hushes
  or stutters (`SocketRefines`, which needs `ListenersWereMembers` and that a
  socket has one user).
- Message: `MsgInv` is one invariant in parts, each kept on top of the types.
  `Typed` knows that a handler past its insert names a row that exists. `OnRecord`
  and `Senders`: members, listeners, senders and readers under way are on the
  record of their room, and what comes with a row is what it replies to
  (`AmongMembers`). `Telling`: a message still to be told
  has one handler, and was neither told nor failed (`TellingCorrect`). `Reading`:
  a handler about to move a position has written its receipt (`ReadingCorrect`).
  `Owning`: a file named by one stored message and by no client has no second
  owner, so no clean-up of another handler can take it (`FilesCorrect`).
  `Keeping`: a deletion holds all the keys of its message when the rows go
  (`OrphansCorrect`).
- Account: `AccInv` likewise. `Typed` carries what each handler has found out at
  the await it is at (`Informed`), which lasts because no step removes a row,
  moves a Google account or changes a user's address or tenant (`Lasting`); this
  alone gives `LoginCorrect` and `LinksStay`. `Naming`: addresses are unique, a
  user whom a login created has its address, and a linked account is that of a
  user with the address and the role, or was connected (`GoogleCorrect`,
  `GoogleRoleCorrect`, `TenantCorrect`). `Tokens`: links are made in order and
  the one on a row is its user's (`SpentCorrect`, `NewestCorrect`). `Marked`: a
  handler about to make a role without tenant, when there is one, is marked as
  racing, so a second role that is not on record as posted is one of a race
  (`RoleRaceCorrect`).

TLC alone checks liveness: `EveryRequestEnds`, `CountersExpire` and
`StaleKeyExpires`. Liveness under fairness and ENABLED are out of the prover's
reach; `RunDownCorrect`, `ExpiryCorrect` and `KeyFadesCorrect` prove what each
of them rests on. Induction over data is out of reach too; no definition that is
proved about is recursive.

## Not modelled

- Typing events (no state), paging and texts of messages, the choice of usernames,
  phones, the exchange with Google, passwords themselves.
- Profiles, roles, permissions and tenants as CRUD on single rows; the default
  role and the tenant of a user are in Account.
- The token's life on an open socket: it is checked at the handshake only.
- `RedisSubscriber`: its one caller subscribes once, at start-up.
- Calls, notifications, audit log, queues, mail, uploads, health and HTTP plumbing:
  stubs, pure I/O or append-only rows; `PROJECT.json` gives the reason of each.

The in-memory store is a parameter of AuthSession and Otp; Presence always has
Redis.

## Plan

1. A refinement of Account's user rows by Otp's `verified` and `resetToken`.
2. Several instances in Presence with the messages of `RedisSubscriber`.
