# Verification of the Real-Time Chat System

This directory holds TLA+ models of the services under `src/`, the TLC runs that
check them on small instances, and TLAPS proofs of what holds for every instance.
`PROJECT.json` lists the parts of the system, the runs, the faulty variants
("mutants") that show each property can fail, the hazards, the theorems, and the
lines of code behind each definition.

Contents: 1 inventory, 2 models and code, 3 runs, 4 fairness and deadlock, 5 proofs,
6 where the code disagrees with what is said of it, 7 what is not modelled,
8 plan, 9 how to run.

## 1. Inventory of the system

The system is a set of asyncio (FastAPI) services that share nothing but HTTP calls,
a Kafka broker and a Redis; each has a PostgreSQL database of its own. Inside a
service every `await` lets other requests run, several processes of a service may run
at once, and the databases work at READ COMMITTED without explicit locks. Between
services calls fail, time out and are served late.

| Part | State | Operations | What makes it hard | What makes it correct | Module |
| --- | --- | --- | --- | --- | --- |
| chat-service: chats and members (`chat-service/app/api.py`, `crud.py`, `models.py`) | tables `chats`, `chat_members`; the topic `chat-events` | get or create a DM, create group or channel, update, add, remove, change a role, leave, delete | role checked before an await, change committed after it; no lock and no unique constraint on members; event sent after the commit | roles come from owners and members from managers, rows have chats, a DM stays a pair, events are true; each request changes at most the entry it names | `ChatRoster`, `ChatMembership` |
| chat-service: Kafka producer (`services/kafka_producer.py`) | one producer per process | start, stop, publish | the broker fails after the commit | an event tells of something committed | publishing in `ChatMembership` |
| auth-service: sessions and tokens (`auth-service/app/api.py`, `crud.py`, `security.py`, `dependencies.py`), and the check of a token in chat- and user-service (`dependencies.py`) | table `user_sessions`, `blacklist:*` keys in Redis, tokens in clients' hands | login, refresh, logout (one device or all), validate, call any endpoint | refresh racing logout or refresh; a token checked while it is revoked; whole seconds; the blacklist is set before the session ends, and either may fail | an ended session stays ended, a revoked token is refused where the blacklist is asked, a session lives as long as the tokens it names | `SessionBook`, `AuthSession` |
| auth-service and user-service: registration (`auth-service/app/api.py`, `crud.py`, `services/user_client.py`; `user-service/app/api.py`, `crud.py`) | tables `users`, `user_local_auth`; table `user_profiles` | register (over both services), verify email, change email | two databases and no transaction over them; time-outs; checks separated from inserts | the services mean the same person by an id; a name is won once; what a failed registration leaves behind is nobody's | `Identity`, `Registration` |
| user-service: contacts (`user-service/app/api.py`, `crud.py`, `models.py`) | table `user_contacts` | add friend, block, remove | select, then insert, update or delete; a retry after a conflict; rows cached by the session | each request writes its own pair, once, what it was asked; the retry ends | `ContactBook`, `UserContacts` |
| user-service: profiles and avatars (`user-service/app/api.py`, `crud.py`, `services/file_upload_client.py`) | table `user_profiles`; files in the File service | update, upload avatar, show, search, list contacts | two services; concurrent updates of one row; a commit and a refresh that are two transactions | no update undoes another, what is shown was in the table, the avatar is the file saved last | `ProfileBook`, `Profiles`; the email in `Registration` |
| websocket-service: connections (`manager.py`, `main.py`) | `active_connections` in memory, `presence:*` keys in Redis | connect, disconnect, send | Redis calls in the middle of connect and disconnect; lists change under an iteration; a device that does not read | lists hold the open sockets, presence is backed by a socket | `WebSocketGateway` |
| websocket-service: Kafka worker (`worker.py`) | one consumer per process, the offsets of its group | start, consume, commit, push to the recipients' devices, die | crash and redelivery; commits before the work is done; consumer groups; a task that nobody starts again | in order, once, to every device; no message lost but by a crash or before the group has an offset; in the end | `MessageFeed`, `WebSocketGateway` |

How they interact: the auth-service calls the user-service to make a profile and takes
its id for the local user. All services validate JWTs signed by the auth-service and
(auth, user, chat) ask Redis for a blacklist key. The chat-service writes events to Kafka and
nobody in this repository reads them. The websocket-service reads another topic,
written by a Message Service that is not in the repository, and shares presence keys
among its instances.

## 2. Models and code

Common to all modules:

- **One action per await that matters.** A handler is split at its database, Redis,
  HTTP and `send_json` calls. Whatever the code does between two of these is part of
  one action. A request that is refused by its first query changes nothing, so refusal
  there is the absence of an action; later refusals are disjuncts that answer.
- **Requests.** `pc[w]` is the next step of the request served by worker `w` and
  `req[w]` what it has been given and has loaded: this, not the table, is what a later
  step works from. When it is answered, both are reset; a worker then serves another.
- **SQLAlchemy.** A commit sends an UPDATE by primary key of the changed columns only
  and fails if the row is gone (`StaleDataError`); a DELETE of a row that is gone does
  nothing; assigning the value that was loaded sends no UPDATE; a row that the session
  holds keeps the values it was loaded with; `scalar_one_or_none` raises on two rows.
- **Failures.** `Abort` ends a request at any await (database, broker, Redis, HTTP or
  process): what was committed stays, the rest is gone. Clients may send any request
  again at any time, which covers retries.
- **Ids** made with `uuid4` are never reused, also not while a request holds one.

### ChatMembership

`chat` and `members` are the two tables, `topic` the last `RetainedEvents` events.
`GetOrCreateDm`/`InsertDm`/`ReloadChat` are `get_or_create_dm` with its re-read;
`CreateRoom` is `create_chat` for groups and channels; the endpoints under
`/chats/{chat_id}` begin with `CheckCaller` (`get_member` and the role check of each),
go on with `LoadTarget` or `LoadChat`, one of the `Commit...` actions, and `Publish`.
The name and settings of a chat are left out (an update only publishes). A row of
`chat_members` is a record with its own key since the code can make two for one user.

`ChatRoster` is what the service promises: who is in which chat in which role, and for each
request in flight what its caller was allowed to ask for. A wish is granted by a role held
when it was asked, and done at most once, in its own chat and about its own user; by then the
role may be gone, which is the window the code leaves open. `Roster` in `ChatMembership` is the
refinement mapping: the rows without their keys, and of each request past its role check
what it asked for and whether it has committed.

### WebSocketGateway

`active` is `manager.active_connections` of each instance, a list per user; `sock` says
where the endpoint of a socket is; `presence` are the keys in Redis. `Connect` and
`SetPresence` are `connect` before and after its Redis call, `Disconnect` and
`DeletePresence` those of `disconnect`. `worker[i]` is where the Kafka worker is: `Consume` takes a
message of which its group is not past, and `BeginList`, `NextSocket`, `EndList` are the `for` loop of
`send_personal_message` over the *live* list: the cursor of a Python list iterator is a
position, so a removal before it makes it skip one. `attached` says whether the list
it goes through is still the one in the dictionary. `on` is the socket whose `send_json` has
not returned: a device that stops reading (`Stall`) holds the worker until `EndStall`.

`task` is the asyncio task of the worker: `StartConsumer` begins where its group has an offset,
and after the latest message where it has none (`missed` notes what that passes over);
`AutoCommit` commits what was fetched, finished or not; a Kafka error ends the task for good
(`WorkerDies`), and `Crash` takes the group back to what was committed. `taken`, `based` and
`pending` are the broker's view of this, and `finished` is history: the messages an instance has gone
through to the end. `Lost(h)` are the messages that the group `h` is past while none of its instances has finished
them or is at them; the automatic commit makes this possible, and a group that has no offset yet. Faults come from the
environment and are switched on by `Faults`.

Two things are assumed of parts outside the repository. `Recipients` has no repetitions: `worker.py:34` does not remove them, so
a user whom the Message Service named twice would be served twice. And Kafka hands a message out again only after
a crash of the instance that had fetched it: that the broker throws a live consumer out of its group
(a worker held by a device for longer than `max.poll.interval`) and lets it start again from the committed offset is
not in the model. `InOrderOnce` and `ImplementsMessageFeed` rest on both.

`MessageFeed` is what the service promises a device: of the messages on the topic some of those
addressed to its user, in their order, none twice, nothing once it has left. `Feed` in
`WebSocketGateway` is the mapping: the recipients of each message, the user of each socket, what it `received`, and as `Online` the
sockets whose device is there; lists, cursors, keys and offsets are of no concern to a device.

### AuthSession

`session` is `user_sessions`, `token` all tokens handed out, `blacklist` the expiry of each
Redis key. The clock counts ticks, `TicksPerSecond` to the second: `exp` in a JWT and
the time to live of a key are whole seconds while `expires_at` is exact. `Refresh`
finds the active session and reads the clock (the time that the query takes to come
back is not modelled: tokens and row get the same time, so nothing compares the two);
`CommitRefresh` rotates it. A token is admitted at three places. `Present` (it is decoded) and
`CheckBlacklist` (Redis is asked, one await later) are `get_current_user_data` of the auth-, user- and chat-service;
`Call` and `Serve` are the endpoints behind it, of which the other modules say what they do, and `Logout` is
`logout`, whose `Blacklist` and `Deactivate` are its two halves. `OpenSocket` is `validate_token` of the
websocket-service and, like `Refresh`, does not look at the blacklist: `CheckRefusesRevoked` is about
`CheckBlacklist` only, and what a logout does to renewals is said by `OverForGood`: none after the session has ended, and
until then (before `Deactivate`, or without it) a token that was logged out still renews. A login begins where the password is right; `Login` and
`InsertSession` are cut at the insert.

`SessionBook` is what the service promises: who holds which session, whether it is live, lapsed or ended,
which tokens were handed out for it, and what each request in flight was allowed to do. A request is
let in by a login or by a token; a renewal needs a session that is live when it asks, and leaves it ended
if it was ended in between. Times, `jti`s in the row and the blacklist are not in the book. `Book` in
`AuthSession` is the mapping.

### Registration

`profiles` and `accounts` are the tables of the two services, `calls` what the user-service
is serving. `Register`, `CheckUsername` (with the sending of the call), `Receive` and
`CreateLocalUser` are `register_user`; `ServeUsername`, `ServeEmail` and `CreateProfile` are
`create_user_profile_internal`, on the other side. When a request is aborted while it
waits, the call goes on: that is the time-out of 5 seconds, an answer lost, and an
answer that cannot be read. At this commit every answer is of the last kind (section 6);
the runs and proofs cover those behaviours and the ones where the answer is read, as
with the client that the tests put in its place. `ChangeEmail` is `update_users_me` as
far as an email goes; `FindCode` and `MarkVerified` are `verify_email`. Codes are drawn
from a set and may repeat. Usernames and emails may coincide, as nothing forbids it.

`Identity` is what the two services promise together, without the call between them: a profile is made
for a registration, of which either the person is admitted to log in as the profile says, or the
profile is abandoned for good. `Pending` in `Registration` is what the mapping has to find: the
profiles which a call or an answer on its way can still turn into an account.

### Profiles

`profile` is `user_profiles` by column, `uploader` the files of the File service. `UpdateMe` is
`update_users_me` and `UploadAvatar` with `UploadFile`/`UploadFails` is `upload_user_avatar`; both go on
with `Select`, `Commit` (the columns that differ from what was loaded, and no others), `Refresh`
(another transaction) and `Sign`. `ReadUsersMe`, `ReadUserProfile` and `SearchUsers` show what one
query finds; `GetContacts` and `LookUpContact` are `get_my_contacts`, a query for each contact. Which rows
match a search is left open. `versions` and `saved` are history: what the rows of a request
have been since it came, and the files that became an avatar.

`ProfileBook` is what a change promises: the request finds out, at one moment, which of the columns it names differ
from what it asks for (`Settle`), and later writes these, and no others, together and once (`Write`), whatever the row
holds by then. `Book` in `Profiles` is the mapping; an upload of an avatar asks for nothing until the File
service has answered.

### ContactBook and UserContacts

`ContactBook` says what contacts promise: a status for each ordered pair of users, and
requests that each write at most once, their own pair, what they were asked to.
`UserContacts` is the code: `Put` (`add_friend`, `block_user`, with what the profile of
the contact brings into the session), `Select`, `CommitUpdate` or `CommitInsert`,
`Retry`, `Refresh`; `Remove` and `CommitDelete`. `held` is a history variable for one
property. `Book` is the refinement mapping: the status of the rows, and of each request
what it wants and whether it has written.

## 3. Runs

Bounds are given as the sizes of the sets in the `.cfg`. State counts are distinct
states; all passing runs explore the whole reachable space of their bounds.

| Run | Bounds | States | What it shows |
| --- | --- | --- | --- |
| `chat_concurrent` | 2 users, 2 chats, 3 rows, 2 requests, no topic | 2,667,000 | `RowsHaveTheirChat`, `DmIsAPair`, `DmIsThereToReturn`, `RemovalIsDone`, `DmOnlyShrinks`, `RolesComeFromOwners`, `MembersComeFromManagers` under every interleaving of two requests |
| `chat_events` | 2 users, 1 chat, 2 rows, 2 requests, 1 event kept | 641,000 | `TypeOK`; `EventsAreTrue`: an event that arrives late still tells of something committed and final; `ImplementsChatRoster` |
| `chat_double_dm` | 2 chats, 4 rows | violated | `OneDmPerPair`: two overlapping `get_or_create_dm` make two DMs |
| `chat_owner_race` | 1 chat, 2 rows | violated | `OwnerNeverLeaves`: who is made owner while leaving, leaves |
| `gateway_delivery` | 2 users, 3 sockets, 1 instance, 2 messages; Redis fails, crashes and commits | 3,662,000 | `ListsAreRegistered`, `InOrderOnce`, `UndisturbedSendReachesAll`; `OnlyCrashOrNewGroupLoses`: nothing is lost but, by a crash, the message that the worker was at, and what was there before the group had an offset; `ImplementsMessageFeed` |
| `gateway_instances` | 1 user, 2 sockets, 2 instances with a group each, 2 messages; devices stop reading or vanish, keys expire, Kafka fails; fair workers | 542,000 | `TypeOK`, `PresenceIsBacked`, `PushedInTheEnd` |
| `gateway_presence_race` | 1 user, 2 sockets | violated | `OnlineIsShown`: the delete of a leaving device overtakes the set of a new one |
| `auth_sessions` | 2 users, 2 sessions, 4 token ids, 2 requests, 2 ticks a second, clock to 2 | 1,689,000 | `TypeOK`, `OverForGood`, `LogoutEndsOwnSessions`, `RowOutlivesItsTokens`, `CheckRefusesRevoked` (`get_current_user_data` only), `ImplementsSessionBook` |
| `auth_reuse` | 1 session, 6 token ids, 1 request | violated | `ReuseIsRefused`: an exchanged refresh token is exchanged again |
| `contacts` | 2 users, 4 rows, 2 requests, fair requests | 830,000 | `TypeOK`, `WishWasGranted`, `ImplementsContactBook`, `AnsweredWhenAlone` |
| `profiles` | 2 users, 1 column besides the avatar, 1 value and null, 2 files, 2 requests | 670,000 | `TypeOK`, `ShownIsAVersion`, `AskedWasInTheTable`, `AvatarIsTheLastSaved`, `ColumnsAreIndependent`, `ImplementsProfileBook` |
| `registration` | 2 usernames and 2 emails with one in common, 3 ids, 2 codes, 2 requests, 2 calls | 1,820,000 | `TypeOK`, `NameIsWon`, `AccountsMatchProfiles`, `VerifiedWithItsCode`, `ImplementsIdentity` |

Why the bounds are enough to see what can happen:

- *Two requests.* Every race found here is between two requests, the one that has
  checked or loaded something and the one that changes it. More requests are covered
  by the proofs, which put no bound on them. When one is answered, its worker serves
  another, so behaviours have any number of requests one after the other.
- *Chats.* Two chats tell a request of one from a request of another; two users are both
  ends of a DM (that no third gets into one is left to the proof), or caller and target, and each may be either. Three rows are a DM and
  a room, or an owner and two others. Ids are used up, so a run ends after a few rows:
  the second row of one user (`add_participant` twice) fits. The re-use of a row key is
  impossible in the code too.
- *Sockets.* Three sockets are what it takes for the removal of one to move another
  past the cursor of the loop and leave a third (`gateway_delivery`). For presence two do: the one
  that leaves and the one that comes, each on either instance.
- *Messages.* Two messages are in order or not, and one can be passed over or handed out again
  with the other. `MaxMessages` is the only counter that is capped, besides `MaxTime`.
- *Faults.* They are shared out over the two runs, as all of them together do not fit. Stalled
  devices are in the run with liveness, which they threaten, and so is the Kafka error; crashes
  and commits are in the run with the properties of delivery. That delivery stays in order, implements the feed, and loses
  only what it may, with all faults at once, is proved; the last also for instances that share a group, which no run has.
- *Time.* A second has 2 ticks: with 1 the boundary that `CheckRefusesRevoked` is about does
  not exist. The access token lives 1 second, so with the clock to 2 it lapses while requests are
  in flight; a key of Redis that lapses before its token needs a clock to 3, which the proof covers.
- *Profiles.* Two requests on one row, each of a column of its own or both of one, and one
  request on another row; the second file replaces the first. More columns tell nothing more
  apart than the two there are.
- *Registration.* With two names of each kind two users race for one, and the third
  id is for an attempt whose profile has been left behind. The last clause of
  `NameIsWon` needs its longest race (checked, registered by another, changed there,
  called), which is reached.

Every property has a mutant in `PROJECT.json`: a faulty variant of one definition (a
dropped guard, a missing WHERE, a stale comparison) under which the run must find the
property violated. They are marked "mutant" in the modules and used by nothing else.

Symmetry is used in runs that check invariants, action properties and refinements (of
specifications without fairness) only, over sets that no definition tells apart, in the abstract specifications neither; the runs with liveness properties have none.

## 4. Fairness and deadlock

- `gateway_instances`: weak fairness of `StartConsumer(i) \/ Consume(i) \/ Work(i)` for each instance:
  the event loop resumes the worker when Kafka or the end of a send is there. And of
  `EndStall(s)`: a `send_json` to a device that does not read ends when the device reads again or, at the
  latest, when the WebSocket server finds its ping unanswered and closes (the server is outside the repository,
  and the code sets no time-out of its own). Devices, messages and faults are free. Sockets
  connect once, so only so many of them lengthen a list while it is gone through. A
  worker that died is excepted: nothing starts it again.
- `contacts`: weak fairness of each request's next step. Nobody has to send a
  request and nothing has to fail. `AnsweredWhenAlone` promises an answer only once
  the others are done, since each turn of the retry needs another request to
  come in between. It is not promised otherwise.
- The gateway may come to rest: its sockets and messages are used once, and when all are,
  nothing is left to do. Its configurations therefore do not check for deadlock. All others do.

## 5. Proofs

The proof modules hold for any sets of users, rows, ids, tokens, sockets and instances,
any number of requests in flight and any lifetimes and bounds. They assume of the
constants only the named `ASSUME`s: `None` is none of the values it is compared with,
what a request wants of an abstract specification is not `None` either (`WishAssumption`, `LoginAssumption`),
bounds are natural numbers, `HostOf` is a function, a second has at least one tick and access
tokens do not outlive refresh tokens. TLC evaluates these in every run.

| Module | Theorems | Argument |
| --- | --- | --- |
| `ChatMembershipProofs` | `TypeCorrect`, `MembersOfChats`, `DmPair`, `DmReturned`, `RemovalDone`, `DmShrinks`, `OwnersPassOnOwnership`, `ManagersLetIn`, `TopicTellsTheTruth` | The tables alone are not inductive: what a commit does depends on what was loaded. `IInv` says what requests in flight know (a request cleared by a role check names a chat that is not a DM; the row it holds is, if still there, a row of its chat), and `TableStep` bounds what any step may do to the tables, so that one lemma (`PlacedSurvives`) shows requests undisturbed by the others. |
| `ChatRosterProofs` | `Implements` | The refinement: from the invariant of `ChatMembershipProofs` each action is an `Open`, `Ask`, `Do`, `Answer` or nothing to the roster. The invariant has to say that the row a request holds is, when it commits, of the user it names. A row of a user with two can change without a change of the roster, which is why `Do` may keep the entry it replaces. |
| `WebSocketGatewayProofs` | `TypeCorrect`, `ListsRight`, `PresenceBacked`, `DevicesInOrder` | Lists hold exactly the registered sockets, each once; the work is in lemmas on `Append` and `RemoveAt`. `PresenceBacked` assumes that Redis answers and instances stay up: with either fault a key can be left behind. `DevicesInOrder` assumes a group for each instance. `OffsetInv`: a group is past a prefix of the topic, what it has not committed is the end of that prefix, and the worker is at its last message. `SentInv`: what a registered socket was sent is in that prefix, and of the message the worker is at only what the cursor has been past; since a removal moves sockets towards the front, none comes by twice. |
| `WebSocketDeliveryProofs` | `UndisturbedReached`, `LossesExplained`, `ImplementsFeed` | `LoopOf`: while no device that was in the list when the loop began has left it, those devices stand at the front in their old order, and the cursor has served all of them that it is past. A device that leaves breaks this for good, as a socket connects once; one that came later and leaves moves only what came later still. `LossesExplained` holds however instances share groups, and needs that a worker has finished, or is at, whatever it fetched and has not committed, and is at no message when it has nobody left to serve (`LossInv`). `ImplementsFeed` needs besides that a worker serves recipients of its message, and waits for a device of the recipient it is at (`AddressInv`); that the message is later than all the device was sent is `SentInv` after the step. It assumes a group for each instance. |
| `AuthSessionProofs` | `TypeCorrect`, `SessionsEnd`, `OwnLogout`, `RevokedFailsCheck`, `RowOutlives`, `ImplementsBook` | `sub` and `sid` of a token and of a request belong together through every refresh, and a `jti` names one token. `RevokedFailsCheck` adds an invariant on the clock, the keys and the requests between decoding and check: `q = n \div t` gives `n - t < q * t`. `RowOutlives` needs that the ids of new tokens are in no row. `ImplementsBook` is the refinement: a tick is a `Lapse`, and a request's user and session are those of a token or a row, so what it wants stays what it was allowed. |
| `ProfilesProofs` | `TypeCorrect`, `ShownWasThere`, `AskedWasThere`, `AvatarIsSaved`, `ColumnsApart`, `ImplementsBook` | `VersionInv`: the rows in a session are among the versions since the request came, and so is, after the commit, each value it asked for. `FileInv`: a file that was uploaded and not yet saved is with one request only, of its uploader, so that no file is saved twice and the last one saved is the avatar. `ImplementsBook` needs that what a request still has to change does not depend on what others write after it has loaded the row, and that requests that only read want nothing (`ReaderInv`). |
| `UserContactsProofs` | `TypeCorrect`, `WishGranted`, `Implements` | Whatever the session has with the status asked for, the table had since the request arrived. `Implements` is the refinement: each action is an `Ask`, a `Write`, an `Answer` or nothing to the book, from the same invariant. |
| `RegistrationProofs` | `TypeCorrect`, `NameWon`, `SamePerson`, `OwnCode`, `ImplementsIds` | A profile without a local user is in the hands of at most one call or request (`Apart`), as it was asked for (`Owns`); a local user has a profile of its username (`HasProfile`). `ImplementsIds` follows the profiles in hands: a step takes at most one out of them, by an account or by a failure. |

Only model-checked: the liveness properties (`PushedInTheEnd`, `AnsweredWhenAlone`),
which are out of the reach of the prover, and the violations.

## 6. Where the code disagrees with what is said of it

Shown by runs:

- `chat_double_dm`: `chat-service/tests/test_crud.py:20` expects one DM for a pair; two overlapping calls make two, and then `scalar_one_or_none` raises for both users.
- `chat_owner_race`: "Owner cannot leave" (`chat-service/app/api.py:215`), but the role is read before an await.
- `gateway_presence_race`: "Real-time online/offline status" (`README.md:13`), but the delete of the key can overtake the set.
- `auth_reuse`: "Session expired or reused" (`auth-service/app/api.py:217`), but reuse is not looked at.

Noted while modelling, with no run of their own:

- `add_participant` makes a second row for a member, after which `get_member` raises for that user (`chat-service/app/api.py:142`). The model has it.
- Only an owner's row can be removed or demoted by an owner and none has to be left: a room can have no owner, and then nobody can change roles or delete it (`RolesComeFromOwners` says what follows).
- Presence keys live 300 seconds and nothing sets them again (`manager.py:21`), and one killed process leaves its keys until then; a device is skipped when another leaves while the list is gone through (`manager.py:35` says "all devices").
- "Unique per instance" (`worker.py:15`): the group id comes from `app_host`, whose default is the same everywhere (`settings.py:11`); instances that share it share messages.
- A token whose last second has begun is accepted after logout (`auth-service/app/api.py:277`, whole seconds).
- A registration that fails after the call leaves a profile that takes the username and email for good; nothing removes it. `README.md:32-33` has the auth-service make the `user_id` and the user-service follow by events; the code does it the other way round, by a call.
- `create_user_profile_internal` asks for the email with the username (`user-service/app/api.py:53`): a taken email is a 500 from the constraint, and a username that is someone's email a 409 about emails. The model has it.
- `UserClient.create_user_profile` wants `is_active` and `roles` (`user_client.py:32-33`), which the user-service never sends: every registration fails after its profile was made. Errors of the call end in a `TypeError` as `UserClientError` has no `detail`.
- The email in the user-service and the one for logging in part ways with `update_users_me`.
- `enable_auto_commit` (the default, `worker.py:12-17`) commits what was fetched every 5 seconds, also what is being pushed: after a crash the devices that were to come are not served (`OnlyCrashOrNewGroupLoses` says that this one message is all that a crash loses). A worker that Kafka failed is gone until the process is restarted, while the service goes on accepting devices.
- Assembly of the services: `get_session_local` of auth and user is `async` under `lru_cache`; the chat-service reads `settings.secret_key`, which is not there; the user-service checks HS256 and awaits a synchronous Redis client; attributes are read after commits that expire them. The tests replace these parts. The models describe the handlers as they run with sessions that work.
- `update_chat` changes the JSON settings in place, which the ORM does not notice (`chat-service/app/api.py:121-123`); `scopes_set.union(...)` is computed and dropped (`auth-service/app/api.py:131-134`); the websocket-service (`main.py:42-50`) and `/auth/refresh` (`api.py:201-214`) do not look at the blacklist, so that a token that was logged out still opens a socket, and renews its session as long as that is active; no document or test says otherwise, the tests of revocation are about `get_current_user_data`; every service takes a refresh token for an access token; `README.md` promises messages to oneself, `chat-service/app/api.py:34-35` refuses them.

## 7. What is not modelled

- Passwords, roles and scopes: library code, constant tables, and a result that is dropped. No
  token has scopes, so `require_permission` refuses everybody.
- What names and settings of chats hold. The read endpoints of the chat-service are one or two
  queries over the tables of `ChatMembership`, and decide nothing. That `update_chat` loses its changes of
  the settings (section 6) is said by no property: it would restate that no action writes them.
- `start` and `stop` of the Kafka producer, awaited before the first request and after the last.
- Configuration, logging, middlewares, the wording of errors; creation of engines, tables and
  migrations; the API gateway and the Message, File and Notification services, which are not
  in the repository.
- Network partitions within one database, and PostgreSQL or Kafka losing what they have
  acknowledged: the code relies on both.

## 8. Plan

Done: every component with state that changes under concurrency has a module, every safety and action property of
the passing runs a theorem, and each of the six modules is proved to implement an abstract specification.

1. `PushedInTheEnd` and `AnsweredWhenAlone` as far as safety goes: a bound on the steps of a loop or a retry in terms of
   what others did meanwhile, from which liveness follows under the fairness of section 4.
2. That an abstract specification alone implies properties of its component (`OverForGood` of `SessionBook`, `NameIsWon` of
   `Identity`), proved once there.
3. The gateway's presence with a key that is renewed, if the code ever does.
4. The settings of a chat, once `update_chat` saves them.

## 9. How to run

    tlc -workers 2 -config chat_events.cfg MCChatMembership
    tlc -workers 2 -config gateway_delivery.cfg MCWebSocketGateway
    tlc -workers 2 -config auth_sessions.cfg MCAuthSession
    tlc -workers 2 -config contacts.cfg UserContacts
    tlc -workers 2 -config registration.cfg Registration
    tlc -workers 2 -config profiles.cfg MCProfiles
    tlapm ChatMembershipProofs.tla

The other configurations are run with the MC module of their prefix.
