# Verification of session-cli

TLA+ models of the Rust server of this repository, the TLC runs that check
them on small instances, and proofs that the TLAPS proof system checks. Paths
below are relative to `src/libsession-ui-core/src/` unless they say otherwise.

To repeat a run: `tlc -config <run>.cfg <module>` (`PROJECT.json` names the
module of each run). To repeat the proofs: `tlapm <Module>Proofs.tla`.

Contents: 1 the system, 2 the modules and the code, 3 the runs, 4 bounds and
fairness, 5 the proofs, 6 what the checks found, 7 what is not modelled, 8 the
plan, done and left.

## 1. The system

The program is a server that a Flutter UI drives over HTTP. It holds any
number of Session accounts; each account keeps a SQLite database in step with
the Session network (a swarm of storage servers per account or group, reached
by onion requests) and with community servers, which are ordinary HTTP servers.

| Component | State it keeps | Operations | Talks to |
|---|---|---|---|
| Account manager `service/manager/` | list of accounts in a `watch` channel, table `accounts` of `global.db`, a directory and a running `Account` per account | create, restore, delete, list (a stream), dispatch a request to an account; a task saves the list, one per account copies its profile to the list | account service; config changes |
| Account service `service/account/` | per account: repository, configs, channels to the workers | HTTP handlers: conversations, contacts, messages, files, network status | database, community commands |
| Account synchronisation `worker/sync_account.rs` | the joined futures of an account, channels between them | start all, dispatch side-channel messages; the first error ends all | everything below |
| Config synchronisation `config/wrapper.rs`, `worker/sync_config.rs`, `worker/poll_swarm_messages_once.rs`, `db/config.rs` | a libsession config behind a lock, change notifications (broadcast, 1), push requests (unbounded), saved dump, saved rows, last hash per swarm node | mutate, merge, poll, dump, push, confirm | swarm, database |
| Group synchronisation `worker/group/` | per group: keys, info and members configs, side channels | wait for keys, sync the configs, handle kicks | config synchronisation |
| Regular messages `worker/sync_messages.rs`, `worker/send_swarm_messages.rs`, `db/messages.rs` | message tables, last hash | poll, decode, save; sending is not called at this commit | swarm, database |
| Community rooms `worker/sync_generic_groups.rs`, `worker/community/` | a task and a channel per room in the config | start, stop and command rooms; poll a room's info; page its messages | community server, database, RPC batching |
| RPC batching `batcher.rs`, `rpc.rs`, `oxenss/batch.rs` | channel of requests (10), batches waiting for their window, futures under way | execute one request; send a batch and deal its results | network |
| Network `network/` | the onion path and swarm node lists in `SharedAsyncRetrieveState` cells; the current network | execute a request over a path, report its failure | seed nodes, service nodes |
| Reactive database `utils/sqlite/reactive.rs` | SQLite pool, table-change broadcast (1) | query, transact, watch a query | all users of the database |
| HTTP cache and file trimming `utils/http/`, `worker/trim_file_cache.rs`, `service/account/get_file.rs` | cached responses in the database and files | get through the cache, trim | community commands, database |

`PROJECT.json` lists all components, also those that are data, formats or
presentation.

What is hard in this code:

- *Two levels of concurrency.* Futures joined with `try_join!` share a task and
  interleave at awaits only; API threads and other tasks interleave wherever a
  lock is free. A model has to keep the two apart.
- *Bounded channels everywhere.* A `broadcast::channel(1)` lags after two
  notifications without an await, and a lag is an error that ends a loop. An
  `mpsc::channel(1)` blocks its sender, and senders are often loops with other
  duties.
- *State saved in pieces.* A config's dump, its rows and the last hash are
  saved at different times, by different futures, in separate statements.
- *Errors end everything.* The first error of a joined future ends its
  siblings, and few things restart.
- *Values shared by many callers* that fetch, fail, report and are cancelled.

What makes each component correct: a caller who is told Ok got what it asked
for (config, RPC, retrieval); nothing is lost, neither a change that waits to be
saved or pushed nor a message in a recorded range; a notification that is
needed is on its way; tasks follow the config that names them; every call
ends. The hazards in `PROJECT.json` are these, each at the line where it bites.

## 2. The modules and the code

### ConfigSync, PushContract, ConfigSyncProofs, MCConfigSync

One config of an account with the task that synchronises it. A config's content
is the set of updates merged or edited into it; `cfg.state` is libsession's
Clean, Dirty or Waiting, `cfg.needsDump` its flag. Variables follow the fields:
`queued` is `push_requests`, `notif` the broadcast receiver of the dump loop,
`dbDump`, `dbRows`, `lastHash` the three places it is saved. Actions of the API
side (`Mutate`, `Notify`, `AnswerUnneeded`, `Request`) are the parts of
`do_mutate` between which the lock is free; actions of the task (`PollStart`,
`PollReply`, `PollError`, `SideChannel`, `DumpStep`, `PushStep`) are the parts
of its four futures between awaits, and `AtAwait` says when another future may
run. `Restart` ends the process anywhere and loads what was saved.

libsession-util is external C++ and is taken at its contract: `push` makes a
config Waiting, `confirm_pushed` makes it Clean if nothing was edited since,
`merge` adds updates. At this commit a push sends nothing over the network
(`worker/sync_config.rs:154`, "TODO: Push delete and confirm"): `pushed` is
what the code confirms as pushed. No handler calls `mutate_and_await_push` at
this commit either, so the callers model the wrapper's public promise. The
fault model is the process's: any of the four futures may fail, and a restart
may come anywhere.

`PushContract` is the promise to those callers: an edit is submitted, pushed at
most after it was submitted, and Ok is answered only after its own push.
`ConfigSync` implements it (`ImplementsContract`).

### AsyncRetrieve, LegacyNetwork, NetworkProofs

`SharedAsyncRetrieveState` with the callers of `network/legacy.rs`, who use the
value and report failures (`ForceRetryNext`, `SetError`). A value is the number
of the retrieval that brought it, so "newest" can be said. The async mutex
(`holder`) is held across the fetch; `Cancel` drops a future at its await.

`LegacyNetwork` EXTENDS it to the account's network: a request to a random node
asks for the path twice, once to choose the node from its list (`ChooseNode`)
and once to go over it (`Perform`), and other requests may report failures in
between. Each of its steps is a step of `AsyncRetrieve` or leaves its variables
alone, which is proved (`NetworkUsesCell`). `DynamicNetwork` passes requests on;
its watchers of the network's state are left out (section 7).

### RPCContract, Batcher, MCBatcher, NetworkProofs

`BatchRPCExecutor`: the callers' side (`Submit`, `Send`, `DirectRun`,
`DirectReply`, `Abandon`) and the runner (`Receive`, `Tick`, `StartBatch`,
`Execute`, `DealResults`, `BatchFails`). `wire` holds the batch requests, which
a server runs once or never (`Serve`), and whose answer may be short, wrong or
missing. The channel has ten slots in the code (`batcher.rs:48`). `RPCContract`
is what `RPCExecutor::execute` promises one caller; the batcher implements it
(`ImplementsRPC`). `DueInOrder` says why a runner may sleep on the deadline of
its front batch alone (`batcher.rs:144`).

### CommunityMessages, CommunityMessagesProofs

The download of one room: the task's cursor `mem`, the row `stored`, the server
that posts, reacts and deletes (external), the three requests (`Since`,
`Before`, `Recent`) and `Advance`, the code that moves the cursor.
`LosePage` is a page whose transaction fails, `Restart` the process. The marks
of deletion are set by server id alone (`db/messages.rs:265`), so deletions in
other rooms (`elsewhere`) hide rows of this one.

### CommunityRooms, MCCommunityRooms, CommunityRoomsProofs

The loop that starts and stops a task per room, and the way of a command:
the account's channel, the loop (`Take`, `Hand`, `Refuse`), the room's task
(`Serve`, `Forward`, `RPCDone`) and its download (`LoadEarlier`). The loop over
groups is the same function. `Places` names everywhere a command can be, for
`CommandKept`: while its caller waits it is in exactly one of them, and with no
room's task but its own. The executor behind an RPC is the batcher, whose
property `AllAnswered` justifies the fairness of `RPCDone`.

### AccountManager, AccountManagerProofs

The list (`names`, and `hosted` for the running instance in an entry), its
table (`rows`), the directories (`disk`: gone, bare or with the identity) and
the accounts that run (`live`). Requests have no await in them, so their steps
are the stretches between two uses of the watch's lock or the file system:
`LoginDir`, `LoginOpens`, `LoginAdds` for restore (create is a restore of an id
never used before); `Dispatch`, then `DispatchStarts` and its siblings under
the lock; `Delete`, then `RemoveDir`. `Notify` sets the receivers' unseen flag,
as the watch does for its version. The inside of `sync_account_state` is one
action here, `ShowProfile`, which may come from an account that was dropped;
`FileCache` has its steps.

### GroupSync, GroupSyncProofs

One closed group. The swarm (`keyCount`, `log`) and the user's entry of the
group (`entry`) belong to others. The task waits for its keys (`ReadResult`,
`Decide`) while the sync of the keys config polls (`KeyPoll`), dumps
(`DumpKeys`) and reads its side channel (`MergePushedKeys`), and then reads the
rest (`ContentPoll`, `SavePushed`), where a message that no known key decrypts
is left out while the hash goes past it. A poll saves its hash in the step that
merges, for there is no await between; the dump is a step of its own. Side
channel messages come down four channels: `Dispatch`, `Take`, `Hand`, `Handle`,
`Deliver`. `Look` starts and aborts the task with the config, `TaskFails` ends
it and leaves its handle, `Restart` is the process's.

### ReactiveQuery, RoomInfo, MCRoomInfo, RoomInfoProofs

`ReactiveQuery` is the database: writers (`Begin`, `Statement`, `Finish`,
`Fail`, `Announce`) in a connection, where each statement commits, or in a
transaction; the broadcast of the changed tables, which keeps one message
(`Deliver`); and streams (`Open`, then `Subscribe`, `Skip`, `Refetch`, `Break`)
with the frames of the response body, since a body is polled between frames and
the debounce decides when the receiver is looked at. A table's contents are its
version.

`RoomInfo` EXTENDS it with a community's task as one of the writers: the
capabilities asked for once, the user's ids saved, then the room's details asked
for and saved over and over (`Capabilities`, `Answer`, `SaveBegins` to
`SaveIsTold`). Its saves are the writer's actions, so the property
`DetailsAreShown` goes from the server to the client's screen.

### FileCache, FileCacheProofs

`CachingHttpExecutor` with its table (`Ask`, `Serve`, `Save`, `Lose`), which API
calls and the profile feed `sync_account_state` share; the feed's steps
(`ReadProfile`, `Picture`, `Show`, `Listen`) beside new profiles, a deletion and
restarts; and the task that trims the cache (`TrimDue`, `TrimAsked`,
`TrimFails`), whose deadline the database keeps over restarts.

History variables (marked so in the modules) record what a property needs to
speak about the past and are never read by a guard.

## 3. The runs

| Run | Question | States |
|---|---|---|
| `ConfigSync_callers` | Two API calls edit while the task merges, dumps, pushes, fails and restarts: is Ok true, is nothing taken as pushed that was not, is a change that waits always on somebody's list, and is `PushContract` implemented? | 1.3 M |
| `ConfigSync_live` | Is every caller answered and every needed push made, and does a saved hash ever skip an update? | 166 k |
| `LegacyNetwork_path` | Three callers of one path, one of them for a random node: is an answer the newest value, is an error explained, are retries paced, does the path know the node, and is everybody served? | 32 k |
| `Batcher_rpc` | Four requests, two destinations, one that cannot be batched, bad responses, leaving callers, a dying runner: does a caller notice the batching, and does a batch wait longer than its window? | 86 k |
| `CommunityMessages_range` | Paging both ways with a lost page, a restart and another room's deletions: has the recorded range gaps, is anything hidden that nobody deleted, and does polling catch up? | 476 k |
| `CommunityRooms_serve` | Calls through four bounded channels while the config changes: do tasks follow the config, is a command lost or served twice, are the others left alone, and do calls end? | 73 k |
| `AccountManager_list` | Two threads log in, open and delete, a save may fail, the process may crash: one account runs, the list is saved and shown, what is listed can be opened. | 707 k |
| `GroupSync_keys` | Keys and messages from two nodes and a side channel, with aborts and a restart: is a key that a hash went past ever lost, and a message that could have been read? | 1.2 M |
| `GroupSync_pushes` | Five side-channel messages into a task that waits for keys, reads, or is stuck: does the wait end, and does the account's dispatcher get rid of its messages? | 264 k |
| `RoomInfo_live` | A room's task, another writer and a client's stream: is an outdated result always announced, and do the room's details reach the client? | 424 k |
| `FileCache_live` | A call and the profile feed fetch one picture while the profile, the server and the process change: does the list show the newest profile, with its own picture; do cached answers settle; is the cache trimmed over any number of restarts? | 185 k |
| `CommunityMessages_failedSave` | What the schema's comment says and the code does not do (section 6). | |

Several properties have an exception in them, and the exception is a fact about
the code:

- `DumpIsNotified` excepts a change made before the dump loop subscribed
  (`worker/sync_config.rs:103`), and speaks of a dump loop that lives: a
  confirmed push sends two notifications without an await, the loop's receiver
  lags, and the loop ends with Ok. From then on the config is not saved until
  the next start, while hashes still are; `ResumeIsCovered` excepts that.
- `RangeRightUnlessSkipped` excepts a page saved after one that was lost, and
  `CaughtUpOrStalled` a page that is full and moves nothing: a page of 256
  deletions or undecodable messages is asked for for ever.
- `ServedUnlessDown` assumes that no room's server stays silent for ever.
- `ListedCanBeOpened` excepts an id whose directory was removed under a login
  or a listing, and a deletion that a crash cut off before its save.
- `ListIsSaved` excepts a task that ended in a failing save
  (`service/manager/state.rs:96`): nobody starts it again.
- `KeysCovered` excepts keys that were merged and forgotten before the dump
  (`lost`), and `PassedAreSaved` the messages that needed them.
- `WaitEnds` and `DispatcherFlows` except `LoopStuck`, the three ways in which a
  group holds up the loop over all groups for ever (section 6).
- `StaleIsAnnounced` excepts a change between a stream's first run and its
  subscription, and statements that were committed before their closure failed;
  `DetailsAreShown` also a stream that broke and details that are `KeptBack`.
- `ProfileIsShown` excepts a profile that came between the feed's reading and its
  listening, and a feed that ended after a lag.
- `TrimsThoughRestarted` excepts a trimming task that ended.

Every property of a passing run has a mutant: a definition beside the one it
replaces, named in `PROJECT.json`, that changes the model as a plausible bug
would and that breaks the property under the run's own configuration.

## 4. Bounds and fairness

Channel capacities are constants of the modules; where the code has more than
one slot the runs take one, which makes full channels common, and since senders
wait, what the properties say does not depend on the number. The broadcast
channels have the code's capacity of one. The other bounds:

- *ConfigSync*: one remote message suffices for a merge between any two steps
  of a push; two callers suffice for an edit between `push()` and
  `confirm_pushed()` of another's. The live run has two messages, the first
  undecodable, so that a hash can be past a message that brought nothing. One
  push failure ends the task, and more repeat it. Symmetry is used in the run
  that checks safety only (a refinement without fairness is safety).
- *LegacyNetwork*: three callers: while one whose request goes to a random node is
  between its two retrievals, another may hold the mutex or report a failure and
  the third wait; two fetched values tell newest from older. The theorems are for
  any number.
- *Batcher*: a window of one tick, a capacity of one, two requests for one
  destination and two for another, one of which goes alone.
- *CommunityMessages*: pages of two in a room of five sequence numbers: three
  pages, so there are a first, a middle and a short one; one lost page, one
  restart, one deletion elsewhere.
- *CommunityRooms*: three calls to one room fill its channel, the loop's hand
  and the account's channel; the other room shows who is held up.
- *AccountManager*: one id. Accounts meet only in the saving of the whole list,
  which is one value to the model; the theorems are for any number. Three
  instances are an account, its replacement and one opened by a dispatch after
  either.
- *GroupSync*: two nodes for the keys, since hashes are kept per node and one
  may be ahead of another; two generations, one message, one push, one change of
  the entry and one restart. The pushes run needs five messages: one in each
  place on the way to a receiver that is full. It has one node and no content,
  which only make more of the same.
- *RoomInfo*: a stream that reads one of two tables, so that it is told of
  changes that do not concern it; another writer with one statement, so that
  two announcements can meet in a channel of one; one change of the room, two
  starts of its task. The theorems are for any tables, queries and writers.
- *FileCache*: one caller and the feed on one picture: two fetches of one URL.
  Two profiles and another change: two notifications make the feed lag.
  Restarts are not bounded.

Fairness is weak fairness of what the runtime schedules: the loops of a task
and the remaining steps of a call once begun. Nothing makes a caller call, a
server answer, a node store or a process restart. Where more is assumed:

- *AsyncRetrieve* and *LegacyNetwork*: strong fairness of taking the mutex,
  because tokio's mutex is first come first served. That a retrieval ends is an
  assumption about the network: the client for the seed nodes has no timeout
  (`network/legacy.rs:156`).
- *Batcher*: a batch ends in a response or an error: an onion request has ten
  seconds (`network/legacy.rs:121`), and a retrieval of the path is assumed to
  end as above.
- *CommunityMessages*: the server answers some polls.
- *CommunityRooms*: RPCs end, by the batcher's liveness. A server's first
  answers (`CapsArrive`, `InitialLoaded`) are not fair.

- *GroupSync*: a key poll that is made again and again is answered some time
  (strong fairness of `KeyPoll`, which needs an entry that may sign). tokio's
  channels serve their senders in turn: strong fairness of `ReportPush`, which
  competes with the poll loop for one slot. Nothing makes a poll of the content
  be answered, nor `TaskFails` or `Restart` happen.
- *RoomInfo*: closures on the database end, a client that listens is sent its
  body, and a request for the room's details that is made over and over, and
  that the server would accept, is answered some time (strong fairness of
  `Answer`). Whether a save fails, and whether the task runs, is free.
- *FileCache*: a fetch of the feed ends, well or badly, for the same reasons.
  Deadlines pass, and a process that starts gives the trimming task the time for
  a turn. Calls that wait for the one slot are served in turn.

`CHECK_DEADLOCK FALSE` stands where a model really stops: all calls answered
and the task ended, or a bound of the environment reached. LegacyNetwork's and
AccountManager's runs check deadlock.

## 5. The proofs

The theorems hold for every value of the constants that satisfies the module's
`ConstantsOK` (`BatchConstantsOK` in `Batcher`, `NetworkConstantsOK` in
`LegacyNetwork`, `RoomConstantsOK` in `RoomInfo`), which TLC evaluates in every run.

*ConfigSyncProofs.* `TypeCorrect` first. `OkMeansPushed` and
`CleanConfigIsShared` rest on the inductive invariant `AckInv`: `PushAckSound`
alone is not inductive, because whether Ok is true is decided when the loop
takes callbacks and content under different locks. `EditIsHeld` says where each
caller's edit is at each point of its call; `PushIsSound` that the content the
loop sent covers the edits of all callbacks it took, and that a config still
Waiting after an edit-free await has nothing newer; `ContentIsKnown` that there
are no other updates. `CallbackAlwaysHeld` is inductive with `PushIsSound`,
since an idle push loop has to have taken nobody's callback.
`PushAlwaysRequested` is inductive with types. `DumpAlwaysNotified` and
`DumpFlagIsSound` are conjuncts of `DumpInv`, which adds what holds while a dump
is being saved: the flag is down, and no push is under way, so that nothing
raises it unseen. `ResumeCovered` needs `ResumeInv`, which says the same of the
position the poll in flight asked from. `ContractImplemented` maps each step to
a step of `PushContract` or to a stutter, from `AckInv`.

*NetworkProofs.* Of the retrievals, `RetrieveInv`: who retrieves holds the mutex
and asked for the next value (`HolderInv`), the cell holds the newest value or
none for a reason (`CellInv`), and a recent attempt answers from the cell unless
a retry was forced (`PaceInv`). From it `AnswersNewest`, `ErrorsExplained` and
`RetrievalsPaced`, which are action properties. `NetworkUsesCell` carries them
to `LegacyNetwork`. `PathKnowsItsNode` needs `PathInv`: neither the node list a
caller chose from nor the path it got is newer than the newest retrieval, so
whatever it is answered the second time is no older.

Of the batches, `BatchInv`, which follows a request through the runner: it is in
one place at a time (`PlacesApart`, and once in it: `QueuedOnce`, `BatchedOnce`,
`UnderwayOnce`, `SentOnce`); its caller waits or went away, and who waits is kept
(`KeptWait`); a future's results are those of its callers in their order, each
run once (`RunsFollowWire`, `RanInTurn`); and one batch at most collects for a
destination (`OneBatchPerKey`), so that the first that is found is the one. From
it `CallbackAlwaysKept`, and `BatchingInvisible`: each step is one of
`RPCContract` or goes unnoticed by the callers, a batch's answers being dealt in
one step. `DueInOrderAlways` is inductive with types, since a request that joins
a batch does not renew its deadline and a new batch is due last.

*AccountManagerProofs.* One inductive invariant in independent parts, each with
a lemma: types; `RowsAreCurrent` with `TakenIsCurrent` (what the task has in
hand is the list if nothing is unseen: marking the change as seen *before* the
list is read is what makes it inductive); `NoAccountLeaks`; and
`ListedCanBeOpened` with `LoginHasIdentity`, since a login holds an account
between opening and listing it.

*CommunityMessagesProofs.* The range is right because pages are closed: a page
of later messages has everything between the cursor and its last entry
(`SinceClosed`), a page of earlier ones everything that follows its first
(`BeforeClosed`). `RoomInv` says what a room is (ids without gaps, no sequence
number used twice), `CursorInv` that the cursor names numbers of the room, and
`RangeKept` is the property for the cursor in memory and for the stored one at
once, since a page is saved against one and read from the other. `AdvanceCursor`
says where a page moves the cursor, `SaveRange` that a page which covers what
the cursor jumps over (`Covers`) keeps the range; `LatestCovers`,
`EarlierCovers` and `InitialCovers` that the pages of the three requests do.
Reactions and deletions (`EventStep`) give a message a number after the range.

*CommunityRoomsProofs.* `Follows` is `HandlesFollowConfig` without its first
conjunct; `Delivered`, that a task only ever holds calls to its own room, makes
`OthersUndisturbed` true: a task that is dropped fails its own callers only.
`CommandAlwaysKept` needs `OnceInv`: no command is twice in the account's
channel or in a task (`ChannelOnce`, `TasksOnce`), nor in two of these, and the
callers of what is kept wait or went away (`KeptWait`), so that one is never
served for another. A lemma, `StepOnce`, covers the steps of one task, which
move commands between its queue, its hands, its RPCs and its download.

*GroupSyncProofs.* `KeysAreCovered` is inductive with types and with the second
half of `DueCovered` (a task that is off knows no keys). `PassedAreSavedAlways`
needs the first half: from the first good result on (`GoodNews`), every key the
task had to know is known or lost. `UnservedIsEmpty` keeps side-channel keys from
being merged before that.

*RoomInfoProofs.* Both specifications, the database alone and the one with a
room's task in it, take the same steps on the database (`QueryStep`), so
`StaleStep` is proved once and gives `StaleResultsAreAnnounced` and
`RoomIsAnnounced`. `SignedWithOwnId` (no request of a room is signed with an id
that the saved row does not have) needs `SaveInv`: what the task's connection is
doing while it saves.

*FileCacheProofs.* `CachedSettles` needs `FetchInv`: a fetch that was sent began
while its URL was not cached. `NameAndPictureTogether` needs `HeldTogether`, the
same of what the feed has in hand. `ListenerIsUpToDate` is the safety half of
`ProfileIsShown`, and needs `HeldIsNewest`: what the feed has in hand is the
newest profile, or one was missed.

Two invariants are stated beside their proofs, and the runs check what they
are for, in the long run: `HandlesFollowConfig` (`ServedUnlessDown`), and
`ShownUnlessTold` (`ProfileIsShown`), which excepts the profile that came while the feed was not
subscribed.

Only model-checked: all liveness (`CallersAnswered`, `EventuallyPushed`,
`CallersServed`, `AllAnswered`, `CaughtUpOrStalled`,
`ServedUnlessDown`, `ListIsSaved`, `ListIsShown`, `WaitEnds`, `DispatcherFlows`,
`DetailsAreShown`, `ProfileIsShown`, `TrimsThoughRestarted`), since the prover
does neither fairness nor ENABLED; and `RangeIsSynced`, which does not hold
(section 6).

## 6. What the checks found

One run shows the code to do other than its text says:

- `CommunityMessages_failedSave`: the cursor moves before the transaction
  (`worker/community/download_community_messages.rs:257`); one failure leaves a
  gap that the recorded range hides for ever.

Other facts that came up while modelling. Those that a model has in it are named
exceptions of its properties (section 3); none of them contradicts a text of
the repository, but for the two marked *.

- `utils/sync/async_retrieve.rs:147` *: a failed forced retry drops a value known
  to be good and answers with an error, where a comment of the tests (`:236`) says
  the last success is returned. `:61` *: a fatal error that is reported after a
  retryable one turns the forced retry off (`network/legacy.rs:134`).
- A confirmed push makes the dump loop lag and end (`config/wrapper.rs:39`); the
  feed that copies an account's profile to the list ends for the same reason
  (`service/manager/state.rs:304`).
- Every stream of query results breaks when two announcements come within its
  debounce time (`utils/sqlite/reactive.rs:126`).
- A group's first good poll without a key in it ends the task ("Group expired",
  `worker/group/sync_group.rs:111`); its handle stays, so it is not started again
  before the group leaves the config or the application restarts. Results of key
  polls are read once, so polling the keys stops with the third (`:88`). The
  receiver for kicked messages is never read (`:154`). A group that leaves while
  its task waits for keys, with commands in front of it, holds up the loop over
  all groups and then the dispatcher of all side-channel messages.
- The loops over groups and rooms await the send of a command
  (`worker/sync_generic_groups.rs:94`): a room that leaves the config meanwhile
  is not stopped.
- A key that a poll merged and no dump has saved is lost when the group is
  aborted, since the node's hash has gone past it.
- Deletions of community messages go by server id alone
  (`db/messages.rs:265`) and hide messages of other rooms.
- A 4xx response is cached for ever and shown as a picture
  (`http_api/caching.rs:45`); `invalidate_cache` is not read, and `trim_cache`
  deletes nothing; the days to keep are multiplied as 32 bits
  (`service/account/trim_file_cache.rs:19`).
- The feed of an account that was deleted goes on and may write to the entry of
  the same account added again.
- The capabilities of a community are read once
  (`worker/community/sync_community.rs:47`): a server that comes to want blinded
  ids refuses every request until a restart. Details whose save failed are not
  asked for again until the room changes
  (`worker/community/sync_community_info.rs:62`).
- `watch_state` subscribes to a watcher that nobody sends to
  (`network/dynamic.rs:90`), so what clients are shown stays Idle for ever.

## 7. What is not modelled

Message formats, signatures, encryption, key derivation, SQL views and typed
accessors of the configs are data without control of their own. The C++
libraries (libsession-util, the QUIC network) are external: their sources are
not in the repository. The CLI, the FFI library and the Flutter UI start or
call what is modelled. Some code has no caller at this commit: sending of swarm
messages (`worker/send_swarm_messages.rs`, whose query compares with `'QUEUED'`
a column that holds `'Queued'`), requeueing, pending attachments, and
calibration of the clock. Of a group, the dumps and pushes of its info and
members configs are left out, and so is what a merge of keys changes in them
past their notifications (`config/group_keys.rs:230`). The text of messages and
receipts are left out, and with them that an edit never replaces a text once
saved (`db/messages.rs:149`). Two hazards in `PROJECT.json` have no property for
this reason; a third is the seed node that never answers
(`network/legacy.rs:156`), which the models assume away.

The state of a network is left out: a retrieval announces "Connecting" to one
watcher (`network/legacy.rs:150`), a task copies it to a second, which nobody
reads, and clients watch a third, which never changes (section 6).

Smaller simplifications. `FileCache` has one key per picture, where the look-up
compares URLs without their case (`db/http_cache.rs:21`) and the save does not.
`ReactiveQuery` takes a stream to watch every table that its query reads, where
`find_tables_read_by_sql` finds those whose own b-tree is opened and not one read
through a covering index alone; the queries in use open their tables.

## 8. The plan, done and left

| Module | Models | State |
|---|---|---|
| PushContract, ConfigSync, ConfigSyncProofs | config synchronisation and its promise | done; all safety properties proved |
| AsyncRetrieve, LegacyNetwork, NetworkProofs | the shared cell, its callers, the network's requests | done; all safety properties proved |
| RPCContract, Batcher, NetworkProofs | batching and its promise | done; all safety properties proved |
| CommunityMessages, CommunityMessagesProofs | a room's cursor | done; all safety properties proved |
| CommunityRooms, CommunityRoomsProofs | rooms, commands, channels | done; all safety properties proved |
| AccountManager, AccountManagerProofs | accounts | done; all safety properties proved |
| GroupSync, GroupSyncProofs | one group and the channels to it | done but for info and members dumps; all safety properties proved |
| ReactiveQuery, RoomInfo, RoomInfoProofs | the database, its streams and a room's task | done; all safety properties proved |
| FileCache, FileCacheProofs | the HTTP cache, the profile feed, trimming | done; all safety properties proved |

Left, by worth: the three coupled configs of a group in one model, with `rekey`;
`MessageStore` (receipts, reactions and the triggers of the message tables) once
sending has a caller; the composition of an account's joined futures, where
today each module has the end of the others as its own failure or restart.
