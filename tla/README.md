# A verification of the Tumblr bridge

The program is a bridge between Matrix rooms and Tumblr conversations, written
on the framework `bridgev2`. Tumblr has no client-side message IDs, no
idempotent POST and no delivery receipt: a message that was sent is recognised
only when it is read back. Most of the bridge's own logic exists because of
that, and it is spread over handlers, workers, timers, database statements and
locks that may belong to several processes. This project models that logic in
TLA+, checks it with TLC on small instances and proves it with TLAPS where a
proof for every instance says more.

All paths below are under `src/pkg/connector/` unless they start with `src/`.

## The system

### Components, their state and their operations

| Component | State | Operations | Correct when |
|---|---|---|---|
| Outbox tables (`tumblrdb/outbound.go`, `schema.sql`) | one row per (login, transaction): state, conversation, staged conversation, remote ID, baseline, notice claim, due time, age; one receipt per Matrix event | about twenty compare-and-swap statements | an event is submitted once, a message claimed once, a finished row stays finished, no statement meets a CHECK |
| Outbound delivery (`client.go` 707-1276, `outbound.go`, `sync.go`) | program position of every handler, worker and sync; echoes awaited in memory; submission lock | deliver event, POST, answer, echo, recover, reconcile, report | one POST, no wrong status, no silence, no echo bridged as a new message, nothing held back for ever |
| Candidate matching (`outbound.go` 76-130, 1410-1570) | none | forced matches, closure over unverified images | a match is claimed only when every largest assignment contains it |
| Conversation jobs, inbound sync (`inbound_sync.go`, `sync.go`, `tumblrdb/job.go`) | job rows with revision, attempts and due time; per-conversation progress and completed head | enqueue, probe the head, process, finish if unchanged, reconcile | a newer request is not lost behind an older job; the head never passes an unconfirmed message |
| Conversation deletion (`conversation_delete.go`) | cached conversation walk, delete jobs | verify, terminalize the outbox, delete portal, complete | a conversation that still exists is not deleted; a stop halfway is resumed |
| Connection lifecycle (`lifecycle.go`, `client.go`) | generation, owned operations, connected flags | connect, disconnect, replace, own an operation | an old generation reports nothing after a new one took over; shutdown ends |
| Metadata saves (`client.go` 256-288) | chain of save slots | save with a waiter that may give up | saves take effect in order |
| Push registration (`push.go`) | pending, active and retiring registrations, persistent IDs | register, promote, retire, receive, roll back | no registration is lost or active twice; no ID is forgotten |
| Push receiver (`src/internal/pushreceiver/`) | stream IDs, unacknowledged IDs | connect, receive, acknowledge | a message is acknowledged only when it was handled |
| Database locks (`tumblrdb/portal_reid_lock.go`) | coordination slots, advisory locks, nested sessions | acquire, nest, release | one holder, and no wait for a slot that a waiter holds |
| Portal binding (`outbound.go` 1039-1326, `startchat.go`) | owner of a room | stage, move the room, bind, park | a row is bound to the conversation that owns its room |
| Login flow (`login.go`) | the dialogue of one login | replace or add a login | the client it replaces is silent before the new one connects |
| API client, blocks, read receipts, backfill, media, configuration | little or none | requests and conversions | not modelled, see the end |

### How they interact

A Matrix event reaches `HandleMatrixMessage`. Under the per-login submission lock
the handler inserts an outbox row (`prepared`), reads the conversation's messages
as a baseline, marks the row `submitting` and POSTs. An accepted POST makes the row
`awaiting_echo`; an unknown outcome makes it `uncertain`; a definite refusal makes
it `not_submitted`. Pushes, the periodic reconciliation and the recovery worker
start a sync of the conversation: under the lock it fetches, ties drafts to the
conversation, matches messages against the rows in flight and claims them
(`resolved`); it then releases the lock and hands the messages to the framework,
which calls back the echo handler for those it still awaits. The recovery worker
takes the oldest due row, whatever its state, and brings it one step closer to
`completed`, `not_submitted` or `unconfirmed`; failures are reported behind a claim
with a token and an expiry. Deleted conversations end all their rows at once.

### What is hard about it

* The row and the POST are two steps. A process may stop, lose the database session
  that holds its lock, or see its statement fail although it was applied, between them.
* The answer, the echo and the worker race; each may find the row finished by another.
* Two messages with the same text are indistinguishable; a guess may report the
  wrong one as delivered.
* Messages that may be echoes are kept back from the room, and must come out in the end.
* Delivery happens outside the lock, from a fetch made inside it.
* A status may be shown although the call that showed it failed.

`PROJECT.json` lists these hazards at their lines, with the properties that cover
them.

## Modules

| Module | Contents |
|---|---|
| `OutboundStore` | the tables, one action per statement or transaction; `StoreNext` runs any of them at any time |
| `OutboundThread` | state of the threads, the lock, Tumblr and the user; what a step of a thread is made of |
| `OutboundHandler` | `sendMatrixMessageToTumblr`, from the event to the answer of the POST |
| `OutboundRecovery` | the worker, and what it shares with the others: binding, reporting, finishing |
| `OutboundSync` | a sync of the conversation, with reconciliation, delivery and the echo handler |
| `Outbound` | composes them with the environment; fairness; the properties |
| `OutboundAssignment` | what a forced match is: an edge of every largest assignment |
| `OutboundMatching` | how the code finds the forced matches: what an unverified image blocks, the search along augmenting paths call by call, the test of every edge |
| `OutboundMatchingProofs` | theorems about `OutboundMatching` |
| `OutboundPromise` | the abstract specification: one send seen from outside |
| `OutboundStoreProofs` | theorems about `OutboundStore` |
| `OutboundProofs` | theorems about `Outbound` |
| `ConversationJob` | the row of a conversation's job: what each statement makes of it |
| `ConversationSync` | the state that processes share, and the steps of a sync: select, fetch, prepare, deliver, commit, acknowledge, retry |
| `ConversationDelete` | the verification and removal of a gone conversation; the chat deletion in Matrix with the framework's part |
| `Conversations` | composes them with what asks for a sync (pushes, the head probe, walks through the list), Tumblr and crashes; fairness; the properties |
| `ConversationProofs` | theorems about `Conversations`, for any number of processes |
| `ConversationRequestProofs` | the theorem that needs one worker |
| `DatabaseLocks` | the submission locks and the portal lock: mutexes, coordination slots, connections, advisory locks and lock files |
| `DatabaseLocksProofs` | theorems about `DatabaseLocks` |
| `LoginSaves` | the chain in which saves of the metadata wait for each other |
| `Connection` | the client of a login: generations, owned operations, retirement and replacement, on top of the saves |
| `ConnectionProofs` | lemmas about the chain, theorems about `Connection` |
| `PushRegistration` | the push endpoints of a login: stage, register, promote, clean up, log out |
| `Push` | the receiver on top of them: Google's queue, the receive loop, acknowledgements, the supervisor |
| `PushProofs` | theorems about `Push` |
| `MCOutboundStore`, `MCOutbound`, `MCOutboundMatching`, `MCConversations`, `MCDatabaseLocks`, `MCConnection`, `MCPush` | instances for TLC |

`OutboundThread`, `OutboundHandler`, `OutboundRecovery`, `OutboundSync` and `Outbound`
extend each other in this order; `OutboundThread` extends `OutboundStore`, so a thread's
step is a statement of the store together with the thread's own change. `OutboundSync` and
`OutboundMatching` both extend `OutboundAssignment`: the one claims what is forced by its meaning, the
other is the algorithm that finds it, and its proof is the link between them. `Conversations`
extends `ConversationDelete`, that `ConversationSync`, that `ConversationJob`. The two families
meet at a sync: `Outbound` models what it does to the sends and their echoes,
`Conversations` when it happens, what it completes, and how it ends. `Connection` extends
`LoginSaves`, and `Push` extends `PushRegistration`. These two, and `DatabaseLocks`, meet the
others at what those take for granted: a fence that has one holder while its session lives
(`OutboundThread`, `ConversationSync`), a save that takes effect in order (`PushRegistration`), and a
push about the conversation that becomes a job row before it is acknowledged (`evidence` of
`Conversations`).

### How the model corresponds to the code

* **Rows.** Every column a statement compares is a variable of `OutboundStore`. A
  timestamp is modelled by the question the statements ask of it: `terminal`, `notified`,
  `lapsed`, `due`, `aged`. Hashes, the media digest, the sender and `attempt_count` are
  left out; no statement that changes the row compares them except to refuse a caller
  whose own copy differs, and a caller never changes its copy.
* **Statements.** A statement's WHERE clause is the action's guard (`Submittable`,
  `Rejectable`, `FreeRemote`, ...), its SET list the action's assignments. The transaction
  of `withTerminalReceipt` is one action. `DeleteNotSubmitted` and `DeleteUnconfirmed`
  have the same guard over either failed state and are one action.
* **Threads.** `pc` names what a thread does next. A step is one statement, one network
  call or one local decision. `mem` is the rest of its local state; `mem.next` is where a
  sub-call returns to. A thread decides on the row as the table has it at that step.
* **Lock.** `fence` is the mutex of a process, `session` the database session's lock. The
  session may be lost (`LoseSession`) while the holder goes on, as in the code, which
  does not notice until it releases.
* **Tumblr.** A POST puts a send in flight; it lands (`Land`) or is refused (`Refuse`) at any
  later time, and the answer may be unknown at any time. Messages written on Tumblr
  itself (`Write`) may have the same content.
* **Rooms.** `owner` is the portal table: a room has one portal, and a portal one room at most
  (`OneRoomPerConv`). `MoveRoom` is `ReIDPortal` onto a portal without a room; `Move`'s `Collide` is the
  one onto a portal that has another room, which removes the room of the draft. A draft's portal has no
  message rows, so nothing mapped is lost with it; `LoseRoom` forgets every mapping of its conversation.
* **Failures.** `Spend` takes one unit of `MaxFaults`: a crash, a lost session, a failed call,
  a room or a conversation that goes away. `MarkSubmitting` is the one statement whose
  "applied, but reported as an error" is modelled, because it is the one where the
  difference licenses a POST.
* **Statuses.** `told` holds the statuses that the outbox decides. The error that a handler
  returns is shown by the framework and is not part of `told`.
* **One conversation.** `Outbound` has one login and one conversation, and drafts that
  become it. `OutboundStore` has any number of both.

### How `OutboundMatching` corresponds to the code

* **Calls.** `assign` of `maximumOutboundCandidateMatching` calls itself. Its stack is `calls`: a call is a
  send and how far it is in its list. `Ask` is the recursive call, `Take` and `TakeOver` the two ways to
  assign a message, `GiveUp` the end of the loop. `visited` is made anew for every send.
* **Tests.** `without` is the excluded edge of a search. `Baseline` keeps the first matching,
  `Test` searches again without one of its edges, `Judge` compares the sizes.
* **Blockade.** `Spread` adds one send and its message at a time to `blockedSends` and `blockedMessages`;
  the code goes through all candidates until nothing changes, which is one order of these steps.
* Left out: the contents. `Inputs` are lists of candidates and relations that were not verified, any of them.

### How `Conversations` corresponds to the code

* **The row.** `job` is the row of `tumblr_conversation_sync_job`; an operator of
  `ConversationJob` is one statement's SET list, and those that name a revision do nothing
  to another. `next_attempt_ts` is `due`. `rev` starts at 1 again after a DELETE, as in SQL.
* **Threads.** `Workers` are the holders of `inboundProcessLock` (the loop, or a push that
  wakes the process in the background), `Syncers` the outbound worker, for a pending send. A
  step is a request, a statement or a section that holds the fence and cannot be seen from
  outside. Everything between `Take` and `Prepare`, and from `Relock` on, holds the fence;
  `Deliver` and `ListBlocks` do not.
* **Requests for a sync.** `evidence` holds the messages whose push is under way or which a
  walk has listed; it may be lost at any time. `ListHeads` and `QueueChangedHead` are the two
  halves of the head probe, with `observed` its cache. `ListAll` is the walk for missing
  conversations and `QueueMissing` what it does about one; it may also miss one that is listed (it moved
  from page to page, `Missing`), `walk` times.
* **The cached walk.** What a complete walk found is remembered for a process (`listedConversations`), by
  the walk for missing conversations, by the judgement of this conversation (`NotListed`) or of another
  (`ListForAnother`), until it is too old (`Expire`). `listed` has the processes whose walk had the
  conversation. Whether one that did not have it counts depends on the row: it must have begun after the row was
  last written, or the row be the one that it queued. So `job.absent` has the processes whose walk counts against the row
  as it stands; a write of the row empties it (`Raise`, `MarkRetry`), `Against` fills it. `Overtaken` is a walk
  under way whose memory another one has replaced; the row it queues is then not remembered as its own.
* **404.** Tumblr's history answers 404 when the conversation is gone, when the peer is
  blocked, and when the bridge uses an old blog name (which may also be a 403). Only the
  list, the account's blog name and the block list tell these apart, in this order (`Judge`): the list as
  the cached walk has it (`StillListed`, `NotListed`), and only without one that counts a new walk.
* **Held messages.** `Prepare` may hold the newest message back as a possible echo, as `Match`
  of `OutboundSync` does; it costs one unit of `fault`.
* **The framework.** After `HandleMatrixDeleteChat` bridgev2 removes the portal and the room
  without the fence, and its event loop handles nothing else of that portal in the process
  meanwhile. An event for a portal without a room is ignored and reported as a success.
* **Histories.** `asked` holds the rooms that the conversation had when its user asked to delete the chat,
  `released` those that a row stopped to name while they were being removed (by a sign of life, or by
  another name written over it), `outdated` those about which a list of Tumblr's was believed that was not
  so: the peer was blocked after the block list had been read, or a walk that counted did not have the
  conversation although it is there. `unlisted` has the processes whose last walk did not have it, with no sign of
  life since; the proof compares `job.absent` with it. `Undisturbed` says that nobody asked for a deletion and no
  such list was believed. No action reads a history, but to write another.
* **Pages.** A page of the history has `PageSize` messages. With a room a sync reads down to the completed
  head; without one it reads the newest page only (`Fetched`), and the room it makes gets the rest by the
  framework's `backfill`. `Provided` is what is in Matrix or left to it.
* **Abstractions.** One conversation. A history, and a list, is read in one step: a fetch that
  comes to its boundary late or a cursor that repeats is a failure, and a later page that fails is a failure of the
  whole fetch. What the framework's backfill does is not modelled. The portal and
  its room appear together. `fence` is never lost here; `Outbound` models that.

### How `DatabaseLocks` corresponds to the code

* **Two layers.** `mutex` is the process's own lock (`acquireOutboundSubmissionLock`,
  `acquirePortalMutationLock`), `owner` the lock of the database: an advisory lock of a session, or
  a lock file. The same actions serve both; with SQLite there is no slot and no connection.
* **Sessions.** A submission lock takes a coordination slot, a connection of the pool and then the
  lock, on which it polls. The portal lock polls on the connection that the context carries. Every
  caller in the repository takes the portal lock inside the submission lock; one that did not
  would take a slot of its own, and could then wait for a holder that waits for the mutex.
* **Ends.** A failed unlock marks the connection bad, and its session's locks go (`EndSession`), also
  the other lock of the thread; `lost` remembers whose. A connection whose query failed or was
  cancelled is closed by the driver, so that a wait that is called off leaves no lock.
* **Queries** (`Work`) take a connection of the pool and give it back, as one step.
* Left out: how the path of the SQLite file is found, and a database in memory, which has no lock file.

### How `Connection` corresponds to the code

* **Generations.** `current` is `tc.generation`, a change is the section of `beginGenerationChange`
  that holds `generationChange`. One thread stands for all goroutines of a generation; it is `Alive`
  from the moment Connect has reserved it until the wait group is empty.
* **Threads.** `Callers` are calls of the framework, `Handlers` Matrix events, `Login` the end of a login
  flow (`completeLogin`). A Connect of a retired client returns at once and is no step. The
  unregistering of `LogoutRemote` is `Logout` and what follows it in `PushRegistration`.
* **Bootstrap.** `Apply` is `applySelectedBlog` and what comes after it. It fails the generation when the metadata
  is not valid any more; a save that fails there is only logged.
* **Retirement** is two steps, as in the code: nothing begins any more, then what runs is waited for.
  `quiet` is the time between the second and the reactivation.
* **Saves.** A place in `LoginSaves` is the channel of `saveTail`. `Write` may have been done although it
  failed. A version number stands for the metadata; `NewLogin` writes outside the chain, which
  is empty by then.
* **Refusals.** `failConnect` reads the current generation in one step and fails it in another;
  `failGeneration` checks, logs out, cancels and tells in separate steps.

### How `Push` corresponds to the code

* **Registrations.** `keys` and `disk` are `PushKeys` in memory and in the database; `done` is
  `FCMRegisteredTS`. Every change is two steps, the change and the save, and a failed save takes
  back what its code takes back. `registered` is what Tumblr sends to. A renewal keeps the credentials and the
  app ID of the active registration and may be given the same endpoint again (`Given`).
* **Logout** goes through what the metadata name (`Logout`): an endpoint is unregistered and taken from
  the memory (`LogoutEndpoint`), or stays when that fails, and then the metadata are saved (`SaveDropped`), which
  may fail. After the last one the framework deletes the login (`DeleteLogin`). A crash anywhere before that
  leaves the login as the database has it, and it starts again.
* **The supervisor** is `sup`, the goroutine of the cleanup `cleanup`, the receive loop `link`, `cur` and
  `unacked`. `completed` is the wait of the loop for the handler: it takes no message before.
* **Messages.** `HandlePayload` succeeds in two ways: the conversation's job is written (`jobs`), or the message is
  `ignored`, because it has no data, no conversation, cannot be decrypted, or is for another blog. In both its ID is
  saved and it is acknowledged. What a message turns out to be stays the same when it comes again.
* **Google's server** keeps a message for an endpoint until it is acknowledged by its ID at a login,
  by a `StreamAck` or by a heartbeat. A token that is not a renewal's own is new; `CHOOSE` picks it, because
  tokens are alike.
* **Histories.** `unsure` holds endpoints whose registration was never saved; `pinged` messages that a
  heartbeat acknowledged while they were handled; `early` endpoints that a cleanup took into its list
  before their retirement was saved, or that a logout unregistered.
* Left out: the key material, the refresh of a check-in (only that it may demand a new registration,
  `Rotate`), the bound on the list of IDs, the endpoints that a Matrix client registers itself. A
  refused session ends the generation, as `Stop`.

## Checks

A run takes a minute at most with two workers. Safety is proved for every bound (see Proofs), so the
bounds are chosen for every step to happen and for liveness, and no larger.

| Run | Instance | Shows |
|---|---|---|
| `store` | three rows over two events (two logins relay one event), one message, one claim token | `SchemaHolds`, `AtMostOneSubmission`, `RemoteClaimedOnce`, `Finality`, `OutcomesAgree`, for statements in any order |
| `same_text` | two sends with one text, delivered up to twice, a handler and a worker in one process, no faults | `OutboundTypeOK`, `CertainFailure`, `HonestSuccess`, `HeldBack` |
| `two_hosts` | one send over two processes, delivered up to twice, one fault | `AtMostOnePost`, `NeverSilent`, `UsesStore` (every step is the store's or leaves it alone), `KeepsPromise` (the system implements `OutboundPromise`) |
| `recovers` | one send and a foreign message of the same text, a handler and a thread that is worker and sync by turns, one delivery, one fault; fair | `EverySendReported`, `EveryMessageBridged` |
| `matching` | every order of the candidates of three sends and two messages or two sends and three messages; every graph of three and three; every set of unverified relations of three sends and two messages | `ClaimsForced` |
| `shared` | a worker and the sync of a pending send in one process, in six scenarios: two messages and a failure; two messages and a crash; a chat deletion, a blocked peer and a failure; a peer blocked and unblocked, a walk that misses the conversation, one that is forgotten and a failure; a rename, a blocked peer and two failures; a rename with walks that miss, are made for another conversation or forgotten, and a scan | `ConversationTypeOK`, `HeadConfirmed`, `NoLostRequest`, `LiveRoomKept`, `RoomAccounted` |
| `settles` | lost pushes; two messages with an end of the conversation or with a crash, or one with an end and a crash or a rename; fair | `EveryMessageArrives`, `EveryDeletionFinishes` |
| `locks` | four threads of two processes and two logins, a pool of two connections or SQLite, three faults; fair | `LocksTypeOK`, `Exclusive`, `SpareConnection`, `NoLeakedLock`, `EveryCallFinishes` |
| `connection` | a caller, a login flow and a Matrix event, three generations, three acts; fair | `ConnectionTypeOK`, `OneGeneration`, `RetiredIsSilent`, `SavesInOrder`, `StatesInOrder`, `EveryCallReturns` |
| `push` | one message, four endpoints, a failure, two renewals, stops or crashes, logouts; fair | `PushTypeOK`, `NoForgottenEndpoint`, `ListenedIsRegistered`, `AckedIsDurable`, `EveryMessageHandled`, `RetiredEndpointLeaves` |
| `stranded_room` | a crash and a conversation that ends | violates `NoStrandedRoom` |
| `two_workers` | two processes with one worker each; nothing fails | violates `NoLostRequest` |

The two violations are disagreements between comments of the code and what it does.

* **A room may be left behind.** The row names the room before the portal is removed, so
  that a crash in between is resumed. But any sign of life (a push that was under way, a scan,
  the head probe) calls `PutLiveConversation`, which clears `delete_room_id`, also when the room
  is no portal's any more. The same happens when another room's deletion writes its own name
  over it (`ScheduleDelete`, `SetDeleteRoom`). `RoomAccounted` excepts exactly these rooms (`released`).
* **Two processes may lose a request.** The worker acknowledges a revision after it has given
  up the fence and taken it again; revisions are reused after a DELETE. The head probe or a
  scan finds the message later. With one process a worker's own row cannot be deleted
  under it and `NoLostRequest` holds.

`ClaimsForced` says two things of the result at once. With nothing unverified it is what every largest
assignment contains, no more and no less: a search that does not move a send, or forgets one, breaks it.
With unverified relations it is that whichever of them are real, as far as the sends that are
not blocked go: a blockade that spreads from messages to sends only, or not at all, breaks it.

The checks also rest on exceptions, each of which is something the code does.

* `HeldBack` excepts an echo for which the outbox took another send with its content (`Took`), or gave
  one up that may have been it. Run `same_text` does not need the exception; with faults and messages
  that others wrote it is needed. Two sends and two written messages have one text, and the second
  send's baseline has the written ones; it is refused. A sync sees one candidate for it, the first
  one's echo, and claims it; the worker maps it; the room is deleted and the mapping with it; the
  delivery of that sync finds the message unmapped and bridges it as an ordinary one, while the
  first send, which has the written messages for candidates, still waits.
* `AckedIsDurable` excepts a message that was acknowledged by a heartbeat while it was handled
  (`mcs.go` 126): `incomingStreamID` counts it as soon as it is read. If its handling then fails, the
  server may have forgotten it, and the head probe of the conversations must find it. A message that is
  `ignored` counts as handled.
* `NoForgottenEndpoint` excepts an endpoint whose registration may have reached Tumblr but was never
  saved: Google's token goes with it.
* `ListenedIsRegistered` excepts an endpoint that the cleanup took from memory while its retirement was
  being saved (`push.go` 698-730): when that save fails, or the process crashes before it, the endpoint
  is the active or the pending one again, and the cleanup unregisters it. It also excepts one that a logout
  unregistered (`push.go` 883-905): when the save fails or the process crashes before the login is
  deleted, the database still has it as the active or the pending one, and the receiver listens there in vain
  until the registration is renewed.
* `LiveRoomKept`, `HeadConfirmed` and `NoLostRequest` except a room about which a list was believed that was not
  so (`outdated`). There are two ways. The peer is blocked after the block list was read: it is read without the
  fence, and what it said is believed under it (`inbound_sync.go` 366). Or a walk that counts against the row
  missed the conversation, which moved between its pages, or is older than the conversation's return, and no sign
  of life has come since; the history then answers 404 for another reason, a rename, and the block list says
  nothing against it: the code asks for the blog's name only of a conversation that is listed
  (`conversation_delete.go` 121-144), so the room of a living conversation goes. A walk from before the last sign
  of life removes nothing: that is the comparison of `recentListedConversation` (329), and the property's mutant
  drops it. `LiveRoomKept` also excepts a room whose user asked to delete the chat (`asked`).
* `StatesInOrder` excepts a Matrix event that failed as its generation was replaced: `failConnect` reads
  the generation and acts on it later (`client.go` 147), and may log out the next one.
* `RetiredEndpointLeaves` needs that no older cleanup is at work: that one has its own list, and a second
  one does not start beside it (`push.go` 683). What it leaves waits for the next connection.
* No property speaks of `loggedIn` with a generation: `Disconnect` clears it after its change has ended
  (`client.go` 587), also when a Connect has come in between.

### Bounds

* `MaxCalls` (1 or 2) bounds how often the framework delivers an event: the first
  delivery makes the row, the second meets it, or its receipt, in every state.
* `MaxFaults` (0 or 1) bounds what goes wrong. One fault is a crash, a lost lock, a call that fails or that
  fails after it took effect, a room or a conversation that goes away, or a message that someone
  writes on Tumblr in the middle (`Write`); the messages that are there from the start cost nothing. Pairs of
  faults are left to the theorems, which have no bound, and liveness is claimed for single ones.
* `recovers` has one thread for the worker and the sync. A process has one goroutine for either, and the lock
  lets one of them at the rows at a time; run `two_hosts` has both.
* Two sends of one text with two messages are the smallest instance in which a match is
  ambiguous; with one send and a foreign message of its text a send can be taken for a
  message that is not its own, which the code permits and `HonestSuccess` allows.
* One message and one conversation are enough in `store`, because the statements compare
  nothing across conversations but the equality of one; the theorems have no bound.
* `Limits` of `Conversations` is a set of scenarios, each saying how often the outside world acts, per kind. One failure and one
  crash meet every step; two failures let a deletion fail, be called off and then fail in
  its verification, or make a failing block list be given up (`MaxAttempts` 1 stands for
  `maxBlockCheckAttempts` 3). Two toggles of `block` let a peer be unblocked while the block
  list is read. A third one (blocked again in time) makes the unfenced answer believed and the portal
  of a living conversation removed; a fourth, also a message lost behind a stale completed
  head. The properties except such a room (`outdated`), and the theorems have no such bound. `MaxRevision` keeps the walk from raising the revision for ever. `Rooms` has one
  room more than the runs create. `PageSize` is 1, so that with two messages a first page leaves one to
  the backfill. A miss (`walk`), a walk for another conversation (`another`) and one forgotten
  (`expire`) are what a cached walk needs to be wrong, overtaken and replaced.
* `HeadConfirmed` and `EveryMessageArrives` are not checked with a chat deletion together with a
  rename or a block. A 404 then counts as deleted (`delete.go` 86), the framework removes the
  room of a conversation that is alive, as the user asked, and a sync that was under way
  may save a head whose messages went with it: nothing is queued before the next message.
* `matching`: three sends and two messages, or two and three, are the smallest instances in which a send is
  moved and something stays unmatched; three of each have a chain of two moves. Unverified relations
  need two sends that share a candidate.
* `locks`: two threads of one process for the same login meet at the mutex, two logins at the slot and
  at the portal lock, two processes at the database. Two connections are the smallest pool the code
  accepts. Three faults let an unlock fail, another session end and a process crash.
* `connection`: the caller and the login flow are the two threads that may change the generation. A third generation is needed for a failed replacement that reconnects while a Connect is
  under way. Three acts are three of: a call, a replacement, a Matrix event, a save by a worker.
* `push`: an endpoint for every registration that a failure and two turns can ask for. One message
  is enough, because the receive loop has one at a time and the IDs of different messages do not meet;
  `MaxUnacked` 1 makes every message reach the stream's acknowledgement.
* `CHECK_DEADLOCK FALSE` in `connection` and `push`, whose acts are bounded, in `matching`,
  which ends with its result, and in the runs of `Outbound`: with calls and faults bounded, the system
  does stop, when every row is gone. The store never stops.

### Fairness

`LiveSpec` assumes what the code's scheduling provides.

* `WF(Continue(t))`: a call that has begun goes on. Requests and statements have deadlines,
  and no call waits inside a critical section for another call.
* `SF(Relock(t) \/ Due(t))` for a worker, `SF(Sync(t))` for a thread that syncs: whoever asks for the lock again
  and again gets it. Go mutexes hand over to waiters that have starved. A lock of the database is polled every 50 ms
  (`portal_reid_lock.go` 193-220); that the polls do not miss it for ever is an assumption.
  A due row is taken when it is the oldest due row, and a sync request is a job row that
  stays until it is processed.
* `SF(session = NoThread /\ FallDue(s))`: a row's next attempt comes while no one holds the
  lock. A sync retry backs off from 2 seconds to 5 minutes, a row is rescheduled by 1 second,
  so a row does fall due between two syncs.
* `WF(LapseClaim(s) \/ GrowOld(s))`: clocks go on. A claim expires; a row becomes a day old.

`FairSpec` of `Conversations` assumes that a loop that runs goes on: `WF` of the head probe's halves,
of the walk for conversations that are really missing, of the row's due time, of the
framework's removal, and of a thread's next step. A free fence is granted; weak fairness is
enough, because the fence is free again and again only while other threads finish. Pushes
and scans are not fair: they may all be lost.

`FairSpec` of `DatabaseLocks`: a holder goes on (its queries get the spare connection) and the poll of a
dead session fails (`WF`); a mutex, a slot (a Go channel) and a connection are handed over in
turn, and a polled lock is got in the end (`SF`, the assumption above).

`FairSpec` of `Connection`: goroutines go on, a cancelled context ends what waits for it, a save that has
its turn returns, and the goroutine that a waiter left its place to passes it on (`WF`). Nothing
makes a bootstrap succeed, a caller give up or a worker end of its own accord.

`FairSpec` of `Push`: the supervisor, the cleanup and the receive loop go on, and a stopped generation
starts again (`WF`); a logout that was asked for goes on. Rotations, heartbeats, stops, logouts and sends are not fair.

Faults are never fair. Crashes are bounded by `MaxFaults`, so liveness is claimed for a
process that in the end stays up.

## Proofs

`OutboundStoreProofs` proves every property of run `store` for all sets of sends, events,
rooms, conversations, messages and tokens. The assumptions are `StoreAssumption`: the
columns that are empty have a value that no key has, and every send has one event and one
room. `AtMostOneSubmission` is not inductive: a state in which an event's receipt belongs to
another row, or an event has two rows, could submit it again. `IInv` adds

* `OneRowPerEvent`: an event has one row at most, over all logins;
* `ReceiptsMatch`: a row is terminal exactly in its final states, then the receipt of its
  event is its own, and an event with an open row has no receipt yet;
* `SubmissionsTraced`: a send that was submitted is in flight, resolved, or has the receipt.

There is one lemma per statement, each proving `SafeStep` (the invariant afterwards and both
action properties); `EndRow` is shared by the statements that end a row.

`OutboundProofs` proves `OutboundTypeOK`, `UsesStore`, `AtMostOnePost`, `CertainFailure` and
`KeepsPromise` for every number of processes, threads, sends and messages and for every
value of the bounds. It assumes `OutboundAssumption`: sends have different events and become
different messages, tokens are the claiming threads, any set of messages may be a baseline.
None of the five is inductive. `OutboundInv` consists of

* `Typed`: `IInv` for the tables, which every step keeps because it is a statement of the store
  or none; and `ThreadsOK`, by which a thread has at hand what its next label works on. Its
  part `Equipped` is what lets the other conjuncts speak of `cur[t]` as a send at all.
* `Licensed`: a thread that is about to POST holds the only licence of its send (`submits` is 1,
  `posts` is 0, no other thread is there with the same send). A second licence would need a
  prepared row of a submitted event; `ReceiptsMatch` and `SubmissionsTraced` exclude it.
* `OnTumblr`: what is in flight, landed or refused was posted, and is only one of the three.
* `Judged`: what is said of a send, in its row, in a status the user has seen or in one that a
  thread has decided and not yet shown (`Said`), is true of it (`Unsent`, `Kept`) and stays true.
  It has to cover the decided ones because a thread decides from the row and shows the
  status in a later step, when the row may be gone. `Kept` excludes the opposite verdict, and
  `Settling` extends it to a worker that is about to report a success.

A lemma per action shows that it is `Sound` (it licenses nothing, sends nothing, says only
what it had decided), or is the licence or the POST itself. With the faults, time and Tumblr
every step falls into one of five `Kinds`, and each kind keeps each conjunct. `PromiseKept`
is the refinement: `Journey` maps the network's variables to where the message is, a POST
is a departure, `Land` and `Refuse` an end, `Tell` and `Succeed` a verdict; all else stutters.

`HonestSuccess` and `NeverSilent` follow from `ReportInv`, on top of `OutboundInv`. They compare what
was said once with the tables of today, so that everything in between has to be carried along:

* `RowsTrue`: a claimed message is in the conversation and has the send's content; a success is shown by
  a mapping, or its room is gone; a completed or notified row has said so; an erased one too.
* `ThreadTrue`: what a thread read (`view`), planned (`plan`) or is about to map, to report, to complete
  or to mark is so at that place. A success is true when it is decided (`succeed`) and must still be
  when it is said, although another thread may map, move or end anything in between.
* A step of a thread is `Careful` when it completes or marks a row only after its user was told, claims
  only messages that are real, says a success only of a send that is shown, and knows what its
  next place relies on; there is a lemma per action. What is shown stays so (`ShownStays`): a mapping is
  never overwritten, and it goes with its room only. `OneRoomPerConv` is needed for that: in a
  conversation with two rooms, the end of one would forget mappings that the other's sends stand for. The
  attempt to prove `HonestSuccess` found that the model allowed this, and the framework does not.

`HeldBack` follows from `QuarantineInv`, on top of both. A sync looks for matches under the fence and
delivers after it has released it, so the invariant follows the messages from the one to the other:

* `EchoesTrue`: a send in flight does not have its echo in its baseline; an ordinary mapping of an echo that
  is awaited has a send that was `Taken` for it, and so has every other mapping. A baseline is read before the POST
  that it licenses (`BaselinesSeen`), and only a POST brings the echo (`OnTumblr`).
* `Guarded`: before the matching every send whose echo may be at hand is tied to the conversation
  (`AllBound`), and is thus among those it considers; after it no echo at hand is awaited (`AllTaken`), unless
  taken. What is to be delivered as an echo (`tx`) or mapped to a send was taken for it.
* A step is `Steady`: no send begins to wait for a message that is on Tumblr already, so what a
  sync knows of its messages outlives the fence. `MatchingHoldsBack` is the core: an awaited echo at hand is a
  candidate of its send, or it is taken; so setting the candidates aside is enough, whichever of them are forced.

`DatabaseLocksProofs` proves the four invariants of run `locks` for any number of processes, threads,
logins, connections and faults, from `LocksAssumption` (threads are finitely many; a pool has no
limit or two connections at least). `Exclusive` and `NoLeakedLock` say what an owner is; `LocksInv` says
it for every place of the program: `Shape` (who has a slot and a connection; an ended session
is on a broken one), `Owned` (an owner is inside the lock, and a thread inside it whose session lives is the owner)
and `Bounded` (a process gives out fewer slots than the pool has connections), from which
`SpareConnection` follows by cardinality.

`PushProofs` proves the four invariants of run `push` for any number of endpoints, messages, failures and
turns, from `PushAssumption` and `ReceiverAssumption`. `IInv` says of the keys in memory, of those in the database and of the
copy that a failed save goes back to (`old`, while there is one) the same three things: together with
the unsaved one they name all that Tumblr sends to (`Remembered`), an endpoint has one role (`Apart`), and
what they would use is registered and not in the cleanup's list, unless it was taken early, by the cleanup
or by a logout (`Usable`).
The copy matters because a save that fails makes it the present again. `PlaceInv` ties the
supervisor's own endpoint to the keys at each of its places, without which none of the three survives
a promotion. In a logout an endpoint is unregistered before the memory drops it, and the database is behind
both, so that neither forgets one. `DurableInv` does the same for messages: an ID that
is stored belongs to a message that has a job or was ignored, and the stream is ahead of these by the message in hand. `ListenedIsRegistered` was false
before it excepted `early`; the proof found the cleanup that begins while a retirement is being saved.

`ConversationProofs` proves the invariants of run `shared` for any number of processes, threads, messages,
rooms, failures, toggles and revisions, from the assumptions on constants in `ConversationJob`,
`ConversationSync` and `Conversations`. `IInv` consists of

* `RowInv`: whoever is at a fenced place has the fence, and while it has it nobody else names a room on
  the row. So a removal finds the name it wrote, and an acknowledgement finds no room that is left.
* `GoneInv`: an answer of the block list that says "not blocked" although the peer is, is about a room
  in `outdated`. With the order of the three questions, and with `AbsentInv`, it makes a detached portal one of a
  conversation that has gone, or one in `outdated`.
* `FetchInv`, `HeadInv`: what a thread fetched is in Matrix or in its own hands, as long as the portal is
  there; a portal that goes, or a row that names a room, leaves no head above what Tumblr deleted. The
  completed head is the maximum of such heads, whoever commits last. What a first page leaves below it is
  in the backfill, which a portal that goes takes along.
* `RoomInv`, `UserInv`: every room made is in Matrix or `Gone`; a row names only rooms that may go, and
  what a chat deletion still has to remove is on the row or released.

Beside it goes `AbsentInv`: a walk that counts against the row (`job.absent`) is one that has not had the
conversation since the last sign of life (`unlisted`).

`ConversationRequestProofs` proves `NoLostRequest` with one more hypothesis, `OneWorker`: only one thread
works on due jobs, as `inboundProcessLock` sees to within a process. Run `two_workers` shows the
property violated without it. `WorkerInv` says what the revision that the worker selected is good for:
if the row still has it, the request is covered by what was fetched, and when it is
acknowledged, by what is in Matrix. It needs `IInv`, because a message may leave Matrix with its room.
The proof found the stale answer of the block list (`outdated`), of which the run's bound knew nothing.

`ConnectionProofs` proves every safety property of run `connection` for any number of callers, handlers
and generations, from `ConnectionAssumption` (the kinds of threads are disjoint; a generation
has a thread of its own). `ConnectionInv` consists of

* `Chain`: the closed places are the first ones of the chain, an open one belongs to one thread at most,
  so one thread writes at a time, and what it writes is not older than the database. It
  is what `SavesInOrder` needs: a waiter that gave up still stands between an older and a newer save.
* `Owners`: a Connect, a Matrix event or a save under way is an owned operation, and when the client
  is quiet there is none. Then nobody who could save, report or connect is at a place to do so.
* `Generations`: one thread changes the generation at a time; a reserved generation belongs to one
  Connect; only the newest can be alive, and the one before has ended when it is made. This gives
  `OneGeneration`, and with what handlers may still hold (`HandlersLate`) `StatesInOrder`.

The chain's own lemmas come first and speak of no thread of the client.

`OutboundMatchingProofs` proves `ClaimsForced` for any sends, messages, candidate lists and unverified
relations, from `MatchingAssumption`: the messages are finitely many, a list is a sequence of them. The
argument is about graphs first, then about the search, then about what the tests add up to.

* Lemma `ForcedByRemoval`: an edge is in every largest matching exactly if the matching is smaller without it,
  and only the edges of one largest matching have to be tested. Lemma `ForcedApart`: edges that have no
  send and no message in common with others do not change which of the others are forced. Both
  are about any finite sets of edges.
* `SearchInv` is the invariant of a search. Its certificate is `Exhausted`: some sends have no candidates but
  certain messages, each of these messages belongs to one of these sends, and every other send that the
  search has passed has a message. No matching can do better for such sends, so that at the end none
  is larger (`SearchFindsLargest`). The usual proof flips an augmenting path; this one needs no paths, which would
  be an induction over data. When a send gives up, it and the owners of what was visited for it join the
  exhausted ones. `Tried` prepares that: what the waiting calls have behind them in their lists is visited, and
  the owner of a visited message is a waiting call or has nothing left but visited messages. `Waiting` and
  `Matched` say how a chain of `TakeOver`s moves the sends: one send at a time has two messages (`Loose`), and the older
  one goes to the call above.
* `ResultInv`: a finished test says whether its edge is in `Forced`, and the blockade is closed when the
  first search begins. Then the candidates that are left have nothing in common with what is blocked
  or not verified, and `ForcedApart` gives `ClaimsForced`.

### What is only model-checked

* Liveness, which is beyond the prover: `EverySendReported`, `EveryMessageBridged`, `EveryCallFinishes`,
  `EveryCallReturns`, `EveryMessageArrives`, `EveryDeletionFinishes`, `EveryMessageHandled`, `RetiredEndpointLeaves`.

Every invariant and every action property of a passing run is proved.

## What is not modelled

* **Columns that no statement compares**: hashes and lengths of the content, the media
  digest, the sender, `attempt_count`, timestamps shown to nobody.
* **Contents.** Whether a send and a message have the same content is a constant (`Content`); the download
  and comparison of images is not modelled, its failure is (`Blocked` of `OutboundMatching`).
* **Of the conversation jobs**: cursors, the failure of a later page, the watermark of the list, rate limits, the
  caches of seen messages, the framework's backfill, read receipts, and several conversations.
* **Of the connection**: the states that only inform (`setRemoteForbidden`, `setRemoteUnavailable`), a second
  login in conflict with the new one, which is retired and not reactivated when the new one
  fails (`login.go` 785-788), and the races of `loggedIn` above.
* **Of the pushes**: see the correspondence of `Push`; also what a push says, but for whether it asks for a
  sync of a conversation of this login.
* **The dialogue of a login, API client, models and conversions, blocks, read receipts, backfill, media
  and configuration**: requests and conversions with no state of their own beyond a
  request, or with state that belongs to the framework.
* **The framework** (`bridgev2`) and the databases are external. What is assumed of them: an
  event may be delivered more than once, a statement or a transaction is atomic, and a
  lock of a session ends with its session.

## Plan

In this order, the most important behaviour first. All but the last are done.

1. `OutboundStore`, `OutboundStoreProofs`.
2. `Outbound` and its parts, `OutboundPromise`, `OutboundProofs`.
3. `ConversationJob`, `ConversationSync`, `ConversationDelete`, `Conversations`.
4. `DatabaseLocks`, `DatabaseLocksProofs`.
5. `LoginSaves`, `Connection` and their proofs.
6. `PushRegistration`, `Push`.
7. `ConversationProofs`, `ConversationRequestProofs`.
8. `PushProofs`.
9. Invariants for `HonestSuccess`, `NeverSilent` and `HeldBack` (`ReportInv`, `QuarantineInv`).
10. `OutboundAssignment`, `OutboundMatching` as a state machine, `OutboundMatchingProofs`.
11. The cached walk, a new portal's first page, the logout in steps.
12. `ConversationScan`: the scan for changed conversations with its watermark, and the cursors of the lists.

A run of a new module takes the place of a run whose question another one has come to
answer.
