# A verification project for simple-messeging-app

The repository is the backend of PLATEChatter: a NestJS application over MongoDB
(through Prisma) with a socket.io gateway and Firebase push messages. Drivers
chat, form groups, report and leave parking spots, rate each other and upload
vehicle documents. This directory models the parts of it whose correctness
depends on the order in which steps happen, checks them with TLC and proves
their central invariants with TLAPS.

## How the program runs, and what that means for a model

* One Node process handles many requests at once. A handler runs without
  interruption from one `await` to the next, so **the step of a model is what
  happens between two awaits**, usually one Prisma call. Steps of different
  requests interleave in any order.
* No handler opens a database transaction. A call that is rejected throws; what
  earlier calls of the handler wrote stays written.
* Single Prisma calls are atomic: nested writes (a room with its members), an
  `increment` and a `createMany` take effect at once or not at all. `update` and
  `delete` by id throw when the document is gone; a unique index rejects an
  insert; MongoDB itself does not check that a referenced document exists, and
  Prisma emulates `onDelete: Cascade`.
* Work that is launched without `await` (notification dispatches) goes on beside
  everything else after the request has been answered.
* socket.io rooms live in memory: a socket that disconnects leaves all its rooms.

## Inventory

| Component | State | Operations | Hard parts |
|---|---|---|---|
| Group chat (`group-chat/`) | rooms, membership rows with roles and read pointers, `group_members_count`, messages | create, add one or many, remove, leave (with succession and deletion), update, send, read | count kept apart from the rows; succession and deletion decided on earlier reads; cascade |
| Socket gateway and `SocketRoomService` (`chat/gateway`, `chat/services`) | socket rooms per user and group, typing states | connect, disconnect, join, leave, fetch (joins rooms), relay of messages | rooms must follow membership, which changes over HTTP too |
| Direct chat (`chat/chat.service.ts`) | chat rooms (unique pair), messages with delivered and read marks | send, send file, fetch (marks read), acknowledge | find-then-create of a room; block check; presence |
| Notification dispatcher (`notification/`) | events, preferences, credits of users | one dispatch per kind of event | loops that run detached; check and consumption of a credit are two calls |
| Parking reports (`parking-report/`) | reports with a ten-minute window, spots, credits and their ledger | report, leave, reserve, edit, delete, list | ten-minute guards by read and write; half-finished leaves |
| User documents (`user-document/`) | documents, the owner's badge and submission flag | upload, update, verify, delete, expiry check on request | two tables that must agree |
| Users (`user/`) | accounts with profile, vehicle, avatar file, licence, location; block flags | register, profile, vehicle, location, licence check, card, delete (soft), block toggle | look-up before insert; fields written back as they were read; files beside rows |
| Authentication (`auth/`, `jwt.guard.ts`) | passwords, one-time codes and the tokens they are exchanged for | sign in, guard, change password, forgotten password in three steps | comparisons and hashes between read and write; a code mailed and lost |
| Ratings (`rating/`) | one rating per pair with a moderation status | rate, update, moderate, delete | moderation of a text that changed |
| Block list, blacklisted words, preset messages, useful numbers, points, support, policies | one table each | create, read, update, delete | find-then-create |
| Geolocation (`common/services`) | user locations | distance, users within a radius | floating point |
| Push, mail, storage, templates, configuration | none | I/O | none modelled |

What makes each of the first components correct:

* **Group chat**: the count equals the number of rows up to what is under way; a
  group with members has an admin, and one without ends, unless named requests ran
  into each other; a deletion throws out nobody who was a member when the leave
  counted; whoever sits in the socket room without a row is accounted for; only
  members send, are notified and get files, and each of them is reached; a read
  pointer does not slip back.
* **Parking credits**: the balance, the counters, the ledger and the
  notifications add up; an overdraft is no larger than the loops that run at once;
  a spot earns in ten minutes at most a credit per request that runs at once and
  per report deleted; no report is paid twice, or left unpaid unaccounted for.
* **Direct chat**: a message is lost to the creation of a room only when it is one
  of the first two; no message is stored between users who blocked each other
  before it was sent; every message reaches its receiver live or as a notification.
* **Documents**: the badge says that a verified ownership document exists, the
  submission flag that a document does.
* **Accounts**: a locked account is served by nothing that began later; a change of
  password or a deletion behind the guard is made by who knew the password before
  it (a reset asks for a token, not for the password); what the owner was mailed or
  answered works until it was replaced; licences, vehicles, avatars and locations
  are what was asked for.
* **Notices**: nobody is notified of what they had switched off, and nobody else is
  left out, whichever calls fail for others.

The parts interact through rows and launches: a message, a membership, a rating, a
document, a report each launch a dispatch, which asks preferences, presence
and tokens, and leaves events. Blocks bar direct messages, the guard reads the
lock before every handler, membership decides who may send, who is notified and who
gets a file. Texts go to whoever sits in the socket room of the group, and a client
that asks for that room is let in without a look at its membership.

## Modules

### `GroupMembership`: one group room, its members and its socket room

| Model | Code |
|---|---|
| `room`, `count` | the `GroupChatRoom` document and its `group_members_count` |
| `joined[u]` | the membership row of `u`: its `createdAt` as a logical instant, 0 for none; also the identity of the row |
| `admins` | rows with `group_role = GROUP_ADMIN` |
| `inRoom` | users with a socket in `group-<id>` |
| `req[r]` | a handler in flight: its next call and the locals it carries across awaits |
| `clock` | instant of the last insert |
| `drift` | auxiliary: what rejected calls made the count err by; read by no action |

Each handler is a chain of actions: `AddBegin, AddExisting, AddCreate,
AddIncrement`; `RemoveBegin, RemoveFind, RemoveDelete, RemoveDecrement,
RemoveEvict`; `LeaveBegin, LeaveCountAdmins, LeaveFindEarliest, LeavePromote,
LeaveDelete, LeaveCountRemaining, LeaveVacate`, then `LeaveDropRoom` or
`LeaveDecrement`; `FetchRooms, FetchJoin`; `CreateGroup`, `JoinRoom` and
`Disconnect` are single steps. `Fail` is the rejection of any database call.
Two reads that nothing can tell from the step beside them are folded into it
(the re-read of added members, whose failure equals a failure of the increment).
`addGroupMember` is `addGroupMembers` for a single user. A removal over the
socket evicts twice, once in the service and once in the gateway, over HTTP
once; `RemoveEvict` does either. The socket calls themselves (`fetchSockets`,
`leave`) are one step each.

`GroupMembershipHistory` adds history variables, computed from the state before
and after each step and read by none: `lapsed` (an admin went or a member came
beside a leave that had already looked for the admin it leaves behind, or by a
request of an admin who had gone), `forsaken` (a removal took the last member, or
the leave that was to delete the group was rejected), `counted` (when a leave
counted the members that remain), `outrun` and `strays` (how somebody without a row
came into the socket room).

### `ParkingCredits`: credits, reports and dispatch loops

| Model | Code |
|---|---|
| `credit`, `submitted` | `parking_notifications_available` (default 1), `parking_reports_submitted` |
| `ledger[u]` | sum of the amounts of the user's `ParkingNotificationCredit` rows |
| `received[u]` | parking notification events of the user |
| `rows[u]` | reports of the user for the spot in the last ten minutes |
| `available` | `ParkingSpot.available` |
| `req[r]` | a request and the dispatch loop it launches |
| `paid`, `lost`, `unlogged` | auxiliary: awards in the window, and what faults swallowed |
| `deleted`, `published`, `stranded` | history, in `ParkingCreditsHistory`: reports of the window that were deleted, that were filed as reports and earn nothing, and those of leaves that threw |

One spot is followed; reports elsewhere (`ReportElsewhere`) only launch a
dispatch. Who is near, who wants notifications and in which order the loop meets
them is a free choice. Both dispatch methods of the code have the same calls in
the same order and are one loop: `DispatchCheck`, `DispatchConsume`,
`DispatchCharge`, `DispatchEvent`. `Age` lets ten minutes pass; it waits until the
user's handlers are past their writes, that is, a handler is assumed to be
answered within ten minutes.

### `DirectChat`: messages between two users and their dispatches

| Model | Code |
|---|---|
| `rooms` | `ChatRoom` documents, unique on `[user1_id, user2_id]` |
| `blocks` | `BlockList` |
| `msg[m]` | the request that sends `m`, then its detached dispatch: the call made next, sender and receiver |
| `createdAt[m]`, `read`, `delivered` | the `Chat` document, `is_read`, `is_delivered` |
| `online` | users with a socket in the room named by their id |
| `prefs`, `notify` | users with preferences; users with a push token whose preferences say (or will say, by default) that chat notifications are on |
| `events` | the notification events |
| `fetch[u]` | a `getRoomMessages` of `u`, between the page and the marks |
| `live`, `shown`, `met`, `known`, `barred`, `overtaken` | auxiliary, read by no action |

`SendBegin, SendCheckBlock, SendFindRoom, SendCreateRoom, SendStore, SendTouch`
are `createMessage` with `createChatRoomIfNotExists`, and `sendFileMessage`, which
makes the same calls. `DispatchPrefs, DispatchNewPrefs, DispatchPresence,
DispatchEvent` are `dispatchChatNotification`. The emission to the receiver's
sockets happens in the same step as the launch of the dispatch: there is no
`await` between the two. `Fail` rejects any call of either.
A user has one fetch in flight; two of them would mark the same messages.
`Acknowledge` marks any message that is stored: neither the gateway nor the service
asks who calls, or whether the receiver has it.

`barred` holds the messages whose two users have been blocked since the sending
began; `known` those whose sending began with a room; `met` those whose receiver
connected while the dispatch was under way (and loads the room from there);
`overtaken` those whose dispatch failed because another had just created the same
preferences.

### `VehicleVerification`: ownership documents and the two flags of their owner

| Model | Code |
|---|---|
| `docs`, `verified` | the user's `UserDocument` rows of the ownership type, and those with `is_verified` |
| `matching` | rows whose `unique_id` is the user's `licence_id` |
| `badge`, `submitted` | `is_vehicle_verified`, `is_vehicle_ownership_document_submitted` |
| `req[r]` | a handler in flight: its next call, the document, the flag it carries |
| `torn`, `overlapped` | auxiliary: a handler failed between its two writes; two handlers have been in flight at once |

`UploadBegin, UploadExisting, UploadCreate, UploadSubmit`; `UpdateBegin,
UpdateRow`; `DeleteBegin, DeleteRow, DeleteWithdraw`; `VerifyBegin, VerifyRow,
VerifyAward`; `Fail`. An identity is used again once nobody holds it: a new
document is only required to differ from those that exist or are held.

### `Roster` and `GroupMembershipRoster`: what a group promises

`Roster` is the abstract specification: a group is created, admits, parts with,
appoints and is disbanded, each in one step, and its size is always right.
`GroupMembershipRoster` maps `GroupMembership` to it. The members are the rows
while the room is open; the size is the counter with what requests in flight
still owe it, and what rejected calls made it err by, settled
(`RosterSize`). `ImplementsRoster` is checked as a property and proved: whatever
interleaves and fails, nobody is admitted or parts twice, the role goes with the
member, and only members are appointed.

### `GroupMessages`: sending, hearing and reading in one group

| Model | Code |
|---|---|
| `members`, `online`, `room` | membership rows; users with a socket; those in `group-<id>` |
| `msg[m]`, `createdAt[m]` | the request that sends `m` and its `GroupMessage` row |
| `loop[m]` | the detached `dispatchGroupChatNotification` of `m` |
| `heard[m]`, `events` | live copies and notification events |
| `fetch[f]`, `lastRead[u]` | a `getGroupChatMessages` in flight and the pointer it sets |
| `steady`, `during`, `moved`, `aside` | auxiliary: who was a member throughout or at some moment, who connected or disconnected beside the loop, who was connected outside the room |

`SendBegin, SendCheckMember, SendStore, SendTouch, SendFanout`; `LoopMembers,
LoopNext, LoopEvent, LoopFail`; `FetchBegin, FetchPage, FetchMark`; `Join`,
`Depart`, `Evict`, `Subscribe`, `Connect`, `Disconnect` are what
`GroupMembership` models in detail, one step each here. A text is broadcast to the
room of the group, a file to the rooms of the members; both are `SendFanout`.
`Subscribe` is open to everybody who is connected, member or not, as
`JOIN_GROUP_CHAT` is.

### `AccountAccess`: one account, its password, codes and locks

| Model | Code |
|---|---|
| `password`, `otp`, `fresh`, `token`, `blocked`, `deleted`, `device` | the `User` row: `password`, `otp`, whether `otp_expires` is ahead, `otp_verification_token`, the two flags, `fcm_token` |
| `req[r]` | a request behind `JwtGuard`, or one of sign-in and reset without it |
| `inbox`, `handed` | codes that were mailed, tokens that were answered |
| `over`, `spent`, `flips`, `crossed`, and `barred`, `right` of a request | auxiliary |

`SignBegin, SignFind, SignDevice`; `Guard` for the requests of the owner;
`ChangeRead, ChangeWrite`; `DeleteRead, DeleteWrite`; `CodeStore, CodeMail`;
`VerifyFind, VerifyWrite, VerifyAnswer`; `ResetFind, ResetWrite`; `ToggleFind,
ToggleWrite`; `Expire` lets the ten minutes of a code pass; `Fail` rejects any
database call or mail. A comparison or hash of a password awaits, but reads nothing
others write, and belongs to the read before it. `VerifyBegin` and `ResetBegin` are
public: they come with what was mailed or answered, or with any other text (`None`),
which is accepted while no code or token is stored.

### `AccountRecords`: the rows of the users

| Model | Code |
|---|---|
| `users`, `name`, `licence` | `User` rows, their unique names and their licences, each a plate as it was spelt, which no index makes unique |
| `vehicle`, `avatar`, `files` | the vehicle fields, the path of the avatar, the files on disk |
| `verified`, `located`, `coded` | `license_no_verified`, `UserLocation`, `qr_code` |
| `met`, `asked`, `raced`, `frayed` | auxiliary: pairs of users whose registrations ran together, the vehicle asked for last, and what races and rejected calls may have undone |

Registration looks up the nick name and the address (names), then the licence, and
inserts. It compares licences as they are spelt, the check of a licence
(`LicenceRead`) by the plate alone, without case and surrounding blanks. A profile
update reads the row, unlinks the old avatar when a new one came, and writes back
every field, those its body leaves out as they were read (`Merged`). An upload gets
a file name that no row and no request has (`Unnamed`): multer makes it
of a random UUID.

### `Notifications`: the other dispatches, and who launches them

| Model | Code |
|---|---|
| `prefs`, `edit[u]` | `NotificationPreference` rows; an `updatePreferences` in flight |
| `token`, `online` | `fcm_token`; connected sockets |
| `member`, `due`, `rating`, `author`, `mod` | the callers: a group row, the expiry of a document, the rating of one user by another, its author's request, the moderator's |
| `job[j]` | a dispatch: the call made next, users to visit, the one it is at |
| `events`, `pushed` | the feed of events, and pushes |
| `told`, `on`, `steady`, `there` | auxiliary: every event there was; who had the type on, or was connected, meanwhile |

One loop stands for the dispatches of ratings, group news, verdicts on
documents, notices to admins and to an area, and of both expiry checks. They ask
the same things in an order that differs per kind (`Allowed`, `JobUser`,
`JobEvent`, `JobPresence`): group news record an event without a push token, an
area only what was pushed, and expired documents are listed without tokens, so
that nobody is told of them. `scene` chooses the kinds that meet in one
behaviour. `DecideRating` sets any status, for any signed-in user and whether or
not anybody looked at the text; one such request runs at a time. `viewed` only
records that a list for moderators showed the text.

### Variants

An operator whose comment starts with *Variant* is not part of the
specification. It is a plausible mistake in the action that follows it; put in
the place of that action it makes a property fail, which shows that the property
depends on what the code does there.

## Runs

| Run | Instance | Shows |
|---|---|---|
| `GroupMembershipConcurrent` | 3 users, 2 handlers, no add starts after 2 inserts, faults | `CountAccounted`: adds, removals and leaves that overlap, and rejected calls, never make the count wrong beyond what is owed or was lost; `AdminlessByRaceOnly`, `EmptyGroupEnds`, `DropsNewcomersOnly`: succession and deletion go wrong in no other way than the interleavings named; `ImplementsRoster`; `TypeOK` (an admin has a row) |
| `GroupMembershipSockets` | 2 users, 2 handlers, faults, with the socket room | `SeatsAccounted`: who sits there without a row |
| `V_HasAdmin` | 3 users, 2 handlers | two admins who leave together leave no admin |
| `GroupMessages` | 2 users, 1 old and 1 new message, 2 page loads, faults | `OnlyMembers`, `ReachesMember`, `PointerForward` |
| `ParkingFaults` | 2 users, 2 slots, every request, faults | `OverdraftBounded`, `ReceivedAccounted`, `LedgerAccounted`, `AwardsBounded`, `ReportsAccounted` |
| `ParkingSerial` | 2 users, 1 slot, every request, faults | `ReceivedCatchesUp` under fairness |
| `V_NoOverdraft` | 2 dispatches | one credit is charged twice |
| `DirectChatConcurrent` | 2 users, 2 messages, pages of one, one active user, faults | `BlockHolds`, `ClashOnlyAtFirst`, `ReachesReceiver`; `TypeOK` (what is marked, shown or notified of exists) |
| `VehicleFlags` | 3 identities, 2 handlers, faults | `DocumentsAgree` (one document; badge and submission flag agree with it) |
| `AccountAccess` | 2 passwords, 2 requests, 2 codes, faults | `LockedStaysOut`, `TrustedKnewPassword`, `CodesWork`, `ToggleCounted`; `TypeOK` (an expiry stands beside a code only) |
| `AccountRecords` | 2 users, one of them active, 2 names, 1 plate in 2 spellings, 1 vehicle, 2 files, 2 requests, faults | `LicenceSharedByRaceOnly`, `VehicleAsAsked`, `AvatarOnDisk`, `RowsSound` (types, and locations clash only at the first) |
| `Notifications` | 2 users, 2 dispatches, five scenes, faults | `SilentWhenOff`, `ReachedByEvent`; `TypeOK` (the feed holds an event once) |

The `V_` runs end in a counterexample: the property is what a comment of the
code says (`PROJECT.json` quotes it), and the trace is what the code does.

**What an excuse excuses.** Where the code has a race, the property that speaks
about it names the race by an auxiliary variable and claims everything else. How
much that leaves differs:

* Narrow: `lapsed` and `forsaken` name the interleavings or rejections by which
  an admin, or the end of a group, can be missed, and one request alone never sets
  them but by a rejected call; `known` leaves out the first messages between two
  users only; `met` (in `AccountRecords`) the very pair of users whose
  registrations ran together; `raced` the user whose profile update overlapped a
  change of vehicle; `frayed` the avatar whose update was rejected or overlapped
  another; `overtaken` the one dispatch; `moved` and `aside` (`GroupMessages`) the
  user who came, went or sat outside the room during that one message.
* Wide: `overlapped` and `torn` (`VehicleVerification`) say nothing any more once
  two handlers have been in flight together or one broke off between its two
  writes, and `crossed` (`AccountAccess`) once two toggles have. There the claim is
  one about handlers that come one after the other, over every sequence of them.
* `ReachedByEvent` leaves out the kind `expired`: that check lists owners without
  their tokens (`ExpiredOwners` is empty), so nobody is told.

**Claims the code does not keep.** Comments, messages and guards of the repository
also claim what follows. Each is defined in its module under the comment *The code
does not keep this*, no run lists it, and TLC refutes it within seconds when
it stands alone in place of the properties of the configuration named.

| Claim | Said at (under `src/src/modules/`) | Configuration | What the code does |
|---|---|---|---|
| `LeaveReturnsAwarded`: a leave that is answered with an earlier report was paid for one | `parking-report/dtos/parking-credit.dto.ts:6` | `ParkingFaults` | the earlier report may be no leave, or a leave that threw before the award (`parking-report.service.ts:510-520`) |
| `DeliveredWasReceived`: what is marked delivered reached the receiver | `chat/gateway/chat.gateway.ts:164` | `DirectChatConcurrent` | anybody may acknowledge any stored message (`chat.service.ts:528-535`) |
| `OneDocumentPerType`: a user has one document of a type | `user-document/user-document.controller.ts:48` | `VehicleFlags` | two uploads at once both find none (`user-document.service.ts:30`) |
| `VerifiedMatches`: a document that becomes verified names the owner's licence | `user-document/user-document.service.ts:427` | `VehicleFlags` | the `unique_id` may change between the comparison and the update (`:432`) |
| `VerifiedOwnsPlate`: no two accounts have verified the same plate | `auth/auth.service.ts:131` | `AccountRecords` with `Active = {u1, u2}` | registration compares spellings (`auth.service.ts:127`), the licence check plates (`user/user.service.ts:901`) |
| `OnlyMembersHear`: a text of a group is heard by members only | `chat/gateway/chat.gateway.ts:267` | `GroupMessages` | any client joins the room of the group (`chat.gateway.ts:293-298`) |
| `PublishedWasSeen`: a published text was shown to moderators | `rating/rating.service.ts:78` | `Notifications` | the status is set by anybody, before anybody looked (`rating.controller.ts:53`, `rating.service.ts:87-98`) |
| `ExpiredAreTold`: owners of expired documents are told | `user-document/document-expiry-check.service.ts:63` | `Notifications` | the owners are listed without their push tokens (`user-document.service.ts:315`) |

**Bounds.** Three users are the least with which a leaver, a racing second
requester and a bystander are distinct (an heir, a member who is added or thrown
out). Two handlers are enough for every race listed: each is between two
requests. The proofs remove both bounds. `MaxJoins` limits how often rows are
inserted: no add starts once `clock` has reached it. Two are enough for a user
to be created, removed and added again while another request still holds the
first row's identity, and adds that are under way by then make it three. The
view `RowsAndCount` of the concurrent run leaves the socket room and its history
(`outrun`, `strays`) out: no guard reads the room, and of the properties of that
run only its type does; the run of the sockets keeps them. `MaxLeaves` limits
the credits a user earns; two, with two slots and a deletion, let a third credit
of a window be attempted, and the number of charges is then limited by the
credits and by `OverdraftBounded`. The constraint `FewFaults` of `ParkingFaults`
ends behaviours in which faults swallowed more than one notification or one
ledger entry, or more than one report of the windows was deleted, filed as a
report or stranded, or both kinds meet; its view `CreditsAndReports` leaves out
the flag of the spot, which no step reads and of which no property but its type
speaks. In `DirectChat` two messages are the least with which two room
creations, two creations of preferences, and a page that leaves a message out
(`Limit` 1) happen; `Active` names the one user who connects, fetches and
blocks, either user sends, and `Newcomers` has no preferences yet. In
`VehicleVerification` a document, one that replaces it and one that a second
upload adds make three. In `GroupMessages` a page holds one message, so that
page 2 (`Pages` 1) is the older of the two; one user comes and goes, the other
sends. In `AccountAccess` two codes let a second one replace the first; two
passwords tell a right one from a wrong one; the view `Seen` leaves out what no
step reads and no property but the type. In `AccountRecords` one plate is enough
to be shared, two spellings to miss that it is, and `Active` is the one user who
edits. In `Notifications` one of the two users is an admin, and the other is
`Active`; `Near` holds both. Two dispatches are followed; a third is launched
without being followed. Symmetry is used only in runs without liveness
properties.

**Fairness.** One run needs it. `FairSpec` of `ParkingCredits` assumes weak
fairness of the steps of a handler that is in flight (`Handle`) and of its loop
(`Loop`): Node resumes a handler when the call it awaits is answered, and the
driver answers or rejects every call. Nothing is assumed of clients: no request
ever has to arrive. A rejected call may end a handler, or pass a user over in a
loop; what is lost that way is in the property. One slot is used, since with
more of them some charge may always be on its way. That an emptied group ends is
stated as a safety property instead (`EmptyGroupEnds`: a leave is about to end
it), since the code does not always get there: the races named leave an empty
group behind for good.

**Deadlock** is checked in every run: clients can always do something.

## Proofs

All theorems hold for every set of users, messages and slots, finite where
something is counted, for every value of the bounds, with any number of requests at
once and with rejected calls; each module's `ConstantsAssumption` asks for nothing
else, and no theorem has another hypothesis. Every invariant and every action
property of a passing run is stated by a theorem.

None of the invariants but the type invariants is inductive alone; what follows
says what each proof adds.

* `GroupMembershipProofs`
  * `TypeCorrect`: `TypeOK` is inductive.
  * `CountCorrect`: `CountAccounted`. It is not inductive alone: before the room
    exists nothing may be under way (`NothingBeforeCreate`). A step moves one
    request; `DebtChange` says that the two sets of pending updates change by what
    that request owes, and `Balance` that the changes of count, rows, debts and
    drift cancel.
  * `AdminlessCorrect`: `AdminlessByRaceOnly`. The strengthening `AInv` says what a
    leave has established once it looked for another admin (`Leaves`), and that
    nobody removes or promotes itself (`Apart`). A step that takes an admin away or
    brings a member sets `lapsed`, or finds no other admin's leave past its look
    (`Overtakes`).
  * `EmptyGroupCorrect` and `DropsNewcomersCorrect` from `EInv`: a leave holds `last`
    only between its count and its end, and `Departs` says what the request that acts
    does to the rows and to its own `last`, which is all that matters to either.
  * `SeatsCorrect`: `SeatsAccounted`. `SInv` adds that a fetch about to join is one of
    a member, or `outrun`; a seat that was accounted for stays so (`KeptSeat`), and
    one that is taken is (`NewSeat`).
  * `RosterImplemented`: `ImplementsRoster`. With the count accounted for, the mapped
    size is the number of rows, so each action maps to one step of `Roster` or to a
    stutter.
* `ParkingCreditsProofs`
  * `TypeCorrect`.
  * `OverdraftCorrect`: `OverdraftBounded`. The balance alone is not inductive; the
    balance minus the loops that stand between check and decrement
    (`DueBounded`) is: the check of a loop needs a credit that exists, and no more
    loops than there are slots can stand there.
  * `ReceivedCorrect` and `LedgerCorrect`: `ReceivedAccounted` and `LedgerAccounted`,
    by an account of what the slot that moves owes.
  * `AwardsCorrect` and `ReportsCorrect`: `AwardsBounded` and `ReportsAccounted`. The
    strengthening `WInv` counts the handlers about to file among the reports (`Filing`),
    and those about to be paid among the credits (`Awarding`): a handler passes the
    look at earlier reports only when there is none, and then no more handlers stand
    between look and insertion than there are slots.
* `DirectChatProofs`
  * `TypeCorrect`: `TypeOK` with `Placed`, which ties the stage of a message to the
    existence of its document: marks are set on documents that exist because
    fetches and acknowledgements start from such.
  * `BlockCorrect`: `BlockHolds`. The strengthening `BlockInv` says that a message
    sent under a block that lasts stands before the check or was refused.
  * `ClashCorrect`: `ClashOnlyAtFirst`, from the fact that rooms are never deleted.
  * `ReachesCorrect`: `ReachesReceiver`. `ReachInv` says that while a dispatch is
    under way, a connected receiver had the message emitted or connected since.
* `VehicleVerificationProofs`
  * `TypeCorrect`.
  * `DocumentsAgreeCorrect` from the strengthening `SerialInv`: what the single
    handler in flight has established at each of its points (until two have
    overlapped, after which nothing is claimed).
* `AccountAccessProofs`
  * `TypeCorrect`: `TypeOK` with what a request carries at each point (`TInv`).
  * `LockedStaysOutCorrect` and `TrustedKnewPasswordCorrect`: while a lock lasts no
    barred request passes the guard; a request behind a comparison was right then,
    and stays so.
  * `ToggleCountedCorrect`: a toggle that has read the flag alone finds it as it was.
  * `CodesWorkCorrect`: a code on its way to the owner is the stored one or is
    over, and so for tokens (`Work`).
* `AccountRecordsProofs`
  * `RowsAreSound`: `RowsSound`. `TInv` adds what requests rely on: a registration
    works for a user without a row and no two for the same one; every other request
    has a user with a row; one that knew of a location will update it (`Carried`).
  * `LicencesSharedByRaceOnly`: `LInv` adds that the users of registrations that stand
    side by side are paired in `met` (`Crossing`), and that one past the look-up of
    its licence shares it with a row only of a user it is paired with (`Cleared`).
  * `VehiclesAsAsked`: a profile update that fills in the vehicle it read holds the
    one asked for last, or its user is in `raced` already (`Asked`).
  * `AvatarsOnDisk`: a file belongs to one user (`OneOwner`), a new one is on disk and
    in no row until its update writes it (`Uploaded`), updates that stand side by
    side are in `frayed` (`Beside`), and the old file an update holds is there and
    the row's, unless it was replaced by an upload (`Intact`). Without `OneOwner` the
    unlink of one user's avatar could take another's.
* `GroupMessagesProofs`
  * `TypeCorrect`.
  * `OnlyMembersCorrect`: a sender past the check, and whoever a loop or a file has
    listed, was a member at some moment of the sending.
  * `ReachesMemberCorrect`: a member throughout heard the message, is still ahead of
    the loop, has an event, or is excused.
  * `PointerForwardCorrect`: a load of the first page that nothing overtook holds a
    message that the pointer is not later than (`Loading`), since that page starts
    with the newest message stored (`Newest`).
* `NotificationsProofs`
  * `SilentWhenOffCorrect` and `ReachedByEventCorrect` from `JInv`: while a dispatch asks
    or notifies, whoever has the type on is among `on`, `steady` have it on, and
    whoever it owes an event is ahead of it or told (`Sound`).
  * `TypeCorrect`: that a feed holds one event of a dispatch for a user is not
    inductive; whoever is ahead of a dispatch has not been told of it (`FreshInv`),
    and an event in a feed was told (`FeedInv`).

Only model-checked: the liveness property `ReceivedCatchesUp` (the prover does not
handle fairness or ENABLED). The two `V_` runs, and the claims the code does not
keep, are counterexamples, of which there is nothing to prove.

## Not modelled

* Listings and their pagination, formats of responses, file storage other than
  avatars, e-mail, push delivery, token signing and the distance formula: they
  change no state that a property relates, or are external.
* The tables of useful numbers, blacklisted words, preset messages, points, help
  requests and policies: single calls on one row, except that two first writes of a
  policy may both create it.
* Typing states: a hint that is broadcast and that nothing reads.
* Of the documents, other types than the vehicle ownership: they set no flag.
* Editing a parking report, and the arithmetic of its ten minutes.
* Names and images of groups; admin edits of accounts.
* What nobody calls: `bulkCreate` and `cleanup` of events, enabling or disabling all
  preferences, resending a verification code, a code by mail at registration,
  `findAdminByEmail`, `getUsersForAddingToGroup`. `checkExpiredDocuments` is called by
  nobody either, but is written to be; it is modelled, and tells nobody
  (`ExpiredOwners`).

Behaviour that the models show and no document of the repository speaks about,
so that no property is stated: rows can be inserted for a group that a last leave
has just deleted; marks of a page reach messages beyond it; a member who was
removed and at once added again may lose the live messages to the second
eviction; an owner may change the `unique_id` of a verified document and keep the
badge; every run of the expiry check notifies again.

## What could follow

A credit account and a badge written in one step as abstract specifications of
`ParkingCredits` and `VehicleVerification`, proved like `RosterImplemented`; the
ten-minute window of a report as arithmetic.
