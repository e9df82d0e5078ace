# TLA+ models of avapmost

avapmost is a messaging server (a Go fork of Mattermost) with a TypeScript web
client. This directory holds TLA+ models of the parts of it in which goroutines,
cluster nodes and clients interact, the TLC configurations that check them, and
TLAPS proofs.

    tlc -workers 2 -config MCWebSocketSafety.cfg MCReliableWebSocket.tla
    tlapm DeadQueueProofs.tla

Paths below are relative to `src/`. `server/channels/app/platform/` is written
`platform/`, and `server/public/pluginapi/cluster/` is written `cluster/`,
`server/channels/jobs/` is written `jobs/`, and
`webapp/channels/src/packages/mattermost-redux/src/` is written `redux/`.

## 1. Inventory

### Modelled

| Component | State | Operations | What is hard, and what makes it correct |
|---|---|---|---|
| **WebConn** `platform/web_conn.go` | send channel (256), dead queue (ring of 128) and pointer, `Sequence`, `Active`, connection ID, `reuseCount` | `NewWebConn`, `PopulateWebConnConfig`, `Pump`, `writePump`, `readPump`, `addToDeadQueue`, `drainDeadQueue`, `clearDeadQueue` | Reconnects at any point of the stream; roll-over of the ring; a reset with messages still in the channel. Events in order, once, and none lost silently. |
| **Hub** `platform/web_hub.go` | the connection index | one goroutine: `register`, `unregister`, `checkConn`, `broadcast`, reaper, recovery from panic | Handlers of several sockets between two calls to the hub; closing full channels. Queues have one owner; no send on a closed channel. |
| **Moving queues between nodes** `platform/websocket_reliable.go` | none of its own | `GetWSQueues`, `marshalDQ`, `UnmarshalDQ` | What is handed over must be exactly what the client misses. |
| **Handshake** `server/channels/api4/websocket.go` | a goroutine per request | `connectWebSocket` | Three calls to the hub, anything may happen between them. |
| **Client library** `webapp/platform/client/src/websocket.ts` | socket, `connectionId`, `serverSequence` | `initialize`, `onclose`, `onmessage`, ping timeout | Wrong sequence numbers, late closes. Must neither miss an event for good nor loop for ever. |
| **Cluster mutex** `cluster/mutex.go`, `store/sqlstore/plugin_store.go` | a key with an expiry in the plugins' store; a refresh task per holder | `Lock`, `LockWithContext`, `tryLock`, `refreshLock`, `Unlock` | Expiry against refresh, slow and failing calls, crashes; a value that does not say whose the key is. One holder, and nobody barred for ever. |
| **One-time jobs** `cluster/job_once.go`, `job_once_scheduler.go` | an entry per job in the same store; per instance the JobOnces it tracks, each with a goroutine | `ScheduleOnce`, `Cancel` (of a key, of a JobOnce), `run`, the poller | All instances wake up for one entry; cancelling and scheduling again while old goroutines are about; three locks, of which the mutex may be lost; entries are read from replicas. A schedule runs once, not after it was cancelled, and in the end. |
| **Job server** `jobs/`, `store/sqlstore/job_store.go`, `app/job.go` | the Jobs table; per node a worker for each type and a watcher | `CreateJob`, `CreateJobOnce`, `PollAndNotify`, `ClaimJob`, the `SetJob...` statements, `RequestCancellation`, workers' `DoJob`, `Run`, `Stop` | Statements with and without a comparison of the status, on several nodes; stopping and resuming; cancelling. A job has one worker, ends once, and has done everything when it succeeded (an indexer that was taken up has not). |
| **Posts of a channel in the web client** `redux/reducers/entities/posts.ts`, `redux/actions/posts.ts`, `webapp/channels/src/actions/` | the blocks of `postsInChannel`, the posts in the store, stamps of the last synchronisation | the reducers of loads, pages, synchronisations, new and deleted posts; the reconnection; prefetching | Events, answers and reconnections in any order. A block stands for a run of the channel without a gap: a gap nobody will fill is a post that the user never sees. Answers of the server may miss posts, and stamps come from the clock of the browser. |

### Not modelled yet, in the order of the plan

| Component | State | Operations | Hard behaviour and correctness |
|---|---|---|---|
| Scheduled jobs `cluster/job.go` | when the job last ran | `run`, `Close` | A loop around the mutex on wall clocks. At most one instance runs the job, at its interval. |
| Schedulers `jobs/schedulers.go`, `jobs/base_schedulers.go` | when each type runs next, whether this node leads | leader change, configuration change | Every node starts as leader; two leaders. A job is scheduled once. |
| Hub across nodes | a hub per node, cluster messages | `GetWSQueues` by gossip, `Publish` | A queue moves while events reach the nodes at different times. |
| Presence `platform/status.go` | status cache and table | set online, away, offline; DND expiry; queue of offline updates | Last connection leaving against a new one; manual statuses must survive. |
| Sessions `platform/session.go` | session cache and table | get, revoke, extend | A revoked session must not come back from the cache. |
| Local cache layer `store/localcachelayer/` | caches per node | read through, invalidate, cluster invalidation | A read that started before a write must not leave a stale entry for good. |
| Post creation `app/post.go` | pending post IDs cache | `deduplicateCreatePost` | A retry while the first request runs. |
| Upload sessions `app/upload.go` | upload offset, file | `UploadData`, two requests on one session | Offset and content agree. |
| Push notifications hub `app/notification_push.go` | a queue and a semaphore | send, clear, update badge | Stop drains the queue. |
| Email batching `app/email/email_batching.go` | pending map | add, check pending | A notification is sent once, or cancelled by viewing. |
| Shared channels and remote clusters `platform/services/` | cursors, task queue, topic listeners | sync loop, retries, receive | Cursors never move past what was not sent. |
| Busy flag `platform/busy.go` | flag, expiry timer | set, clear, cluster message | The timer of an older call. |
| Plugin environment and health `plugin/` | states and failure stamps of plugins | activate, deactivate, crash, restart | Too many restarts deactivate. |
| Threads, unread counters, scheduled posts, drafts | tables | mark read, new post, process due posts | Counters agree with the posts; a post is sent once. |

### Left out for good

The REST handlers (`api4`), SQL text, retry, timer and search layers of the
store (generated), message export, search engines, `mmctl`, the web client's
pages and its other reducers, `e2e-tests`, plugins bundled as such, i18n, migrations,
build files: they are sequential code, I/O or generated code, whose interest is
in data and not in interleavings.

## 2. Modules

| Module | Kind | Stands for |
|---|---|---|
| `DeadQueue` | operators | the loops over the ring in `web_conn.go` and `websocket_reliable.go`, and the prologue of `writePump` |
| `DeadQueueSpec` | specification | the life of one dead queue: writes, resumes, moves to other nodes |
| `DeadQueueRing` | proofs | lemmas about the operators of `DeadQueue` on a ring of numbered messages |
| `DeadQueueProofs` | proofs | theorems of `DeadQueueSpec` |
| `ReliableWebSocket` | specification | the hub, the WebConns, the network and the client of one user on one node |
| `ReliableWebSocketProofs` | proofs | theorems of `ReliableWebSocket`: who owns a queue; numbers of queues, sockets and clients |
| `ReliableWebSocketStream` | proofs | theorems of `ReliableWebSocket`: the event stream is in order and complete |
| `EventStream` | abstract specification | what the application is promised |
| `MCDeadQueue`, `MCReliableWebSocket` | instances for TLC | |
| `ClusterLock` | abstract specification | what the mutex promises |
| `ClusterMutex` | specification | the cluster mutex and the key it is made of |
| `ClusterMutexProofs` | proofs | theorems of `ClusterMutex` |
| `JobOnce` | specification | one-time jobs of one key, on top of `ClusterLock` |
| `JobOnceProofs` | proofs | theorems of `JobOnce` |
| `MCClusterMutex`, `MCJobOnce` | instances for TLC | |
| `JobServer` | specification | the Jobs table and the workers of several nodes for one type of jobs |
| `JobServerProofs` | proofs | theorems of `JobServer` |
| `PostsInChannel` | specification | the posts of one channel in the web client, the requests and events that fill them |
| `PostsInChannelProofs` | proofs | theorems of `PostsInChannel`, with the induction they need |
| `MCJobServer`, `MCPostsInChannel` | instances for TLC | |

### DeadQueue, DeadQueueSpec

The ring is a function on `Slots`, an event is a record with its sequence
number. Loops with a `break` are written as the first index at which the break
happens (`Matches`, `RolledOverLength`), so they say what the loop does on every
content of the ring, not only on the ones that should occur. `Prologue` is
`writePump` before its loop, as a function from the state of the queue and the
client's number to the new state and what is written.

`DeadQueueSpec` adds histories: `written`, the events since the last reset,
`base`, where this node's queue can begin, and `acked`, the number of the last
reconnect. A client's number is anything from `acked` to `written`: all it can
have read of what was written.

### ReliableWebSocket

A WebConn is a number from `Conns`, in the order of handshakes. `pc[c]` is
where its handler is:

    unused -> handshake -> checked -> registered -> pump -> ended -> gone
             (CheckConn)  (Register) (prologue)  (writePump loop)  (Unregister)

Each arrow is one message to the hub, or one step of the write pump; between
them the steps of all others may come. `queue[c]` says which send channel and
dead queue the WebConn works on: its own, or the one it took over in
`ResumeConn`. `deadQueuePointer` and `Sequence` are the WebConn's own fields and
are copied, as in the code.

| Action | Code |
|---|---|
| `Connect` | `initialize()`: the URL carries `connectionId` and `serverSequence` |
| `FreshConn`, `ResumeConn` | `PopulateWebConnConfig` with `checkConn` of the hub, and `NewWebConn` |
| `Register`, `RegisterFails` | the `register` case; its error path in `connectWebSocket` |
| `StartPump` | `writePump` up to the loop |
| `PumpMessage`, `PumpEncodeError`, `PumpClosed` | the `wc.send` case of the loop: written, could not be encoded, channel closed |
| `PumpEnd`, `Unregister` | `readPump` failing, `endWritePump`, then the `unregister` case |
| `Broadcast` | the `broadcast` case with `closeAndRemoveConn` |
| `Reap`, `HubPanic`, `ServerRestart` | the ticker case; `doRecover`; the process dies |
| `Break`, `OnClose`, `PingTimeout` | the socket breaks; `onclose`; no answer to a ping |
| `OnHello`, `OnEvent`, `OnWrongSequence` | `onmessage` |

`WriteOk` and `WriteError` are the two outcomes of writing to a socket: the
write to a broken one fails, or succeeds into a buffer nobody reads. What was
written before the break may still be read by the client, all, some or none of it.

History variables, which no action of the program reads: `published` numbers the
events, `view` is the last event the client knows, `lastEvent` the last it was
given under this connection ID, `gaps` the events it was led past, `missed` the
events a queue never got although its client was meant to get them (published
during a handover, or not encodable), `written` how many messages a dead queue got
before an event that could not be encoded left a number out.

Decisions that a reader may want to question:

- The first hello message counts as the start of the client's view: the
  application loads its state when it starts.
- A resync is the client's `missedEventCallback`. The web application also
  refetches some data on each reopened socket (its `reconnect` listener); what it
  fetches depends on the page, so it is not counted as a resync.
- `RemoveInactiveConnections` compares clocks; `Reap` takes any of the inactive
  connections at any time.
- All events are meant for the user. Dropping of typing and status events when
  the queue is half full, filters for guests or other channels, rejected events
  of broadcast hooks and expired sessions are left out; so are replies to
  requests, except that a missing reply to a ping is `PingTimeout`.
- Direct messages and the authentication challenge are left out.

### EventStream

Three variables: the events published, the view of the application, and `lost`,
the events that the promise leaves out. A delivery may pass over lost events
only; a resync brings everything. `ImplementsEventStream` maps `lost` to the
union of `missed`.

### ClusterMutex, ClusterLock

Time goes in ticks, and only what is left of the key's life is kept: `expiry`.
That is all there is to the key, since its value is the same for all. A locker
goes `idle -> waiting -> acquired -> locked -> unlocking -> idle`; `acquired` is
the time between the insertion of the key and the start of the refresh task.
`refresher` and `ticker` are the goroutine that `LockWithContext` starts.

`ExpireAt` is computed before the call goes to the database
(`NewPluginKeyValueFromOptions`), so a key can be written with part of its life
gone, by `MaxDelay` at most. `Tick` cannot pass a locker that has been busy for
`MaxDelay`: this is where calls to the store are assumed to be fast.

| Action | Code |
|---|---|
| `Lock`, `GiveUp` | entering the loop of `LockWithContext`; `ctx.Done()` |
| `TryLock`, `TryLockError` | `tryLock`: `CompareAndSet` with no old value; the same with the answer lost |
| `Locked` | `LockWithContext` from line 137 on |
| `Refresh`, `RefreshGone`, `RefreshError` | `refreshLock` succeeds, finds no key, fails |
| `StopRefresh`, `Unlock`, `UnlockError` | `Unlock` up to the deletion; the deletion; the deletion failing |
| `Crash` | the plugin instance dies |

`Refresh` and `Unlock` do not ask whose key it is, as in the code. A try that finds the
key taken, or fails without effect, changes nothing and is not an action.
`ClusterLock` is a variable `owner` with `Acquire` and `Release`; `owner` is
mapped to whoever is past `tryLock` and has not deleted the key.

### JobOnce

One key, and the entry stored under it: `kv` is the number of the `ScheduleOnce`
call that stored it. `runAt` gives each call its time; two calls may ask for the
same one, which is all a goroutine can compare. JobOnce objects and callers are
processes. `mutex` is the cluster mutex, taken as a `ClusterLock` until a refresh fails;
`Writable` is the in-memory lock `activeJobs.mu`, of which only the long hold in
`scheduler.Cancel` is visible.

    goroutine: waiting -> locking -> read -> execute -> delete -> close -> unlock -> waiting ...
    Cancel:    cancelLocking -> delete -> close -> join -> return
    ScheduleOnce: saveLocking -> save -> saved -> track

`Delete` and `Close` are `cancelWhileHoldingMutex`, which both use. `Close`
takes whatever the node has under the key out of `activeJobs`, as the code does.
A goroutine in `waiting` may wake up although `done` is closed: with a time that
has passed, both cases of the `select` can be ready. `Poll` and `TrackFromDB`
are two steps, as the poller's list is older than what it does with it.

Five kinds of faults may come at any point:

| Fault | Action | Code |
|---|---|---|
| `"read"` | `ReadError` | `readMetadata` fails (`job_once.go:129`) |
| `"delete"` | `DeleteError`, `DeleteFromDBError` | `KVDelete` fails, with the error dropped (`job_once.go:214`) or returned |
| `"lag"` | `ReadStale`, `PollStale` | `KVGet` and `KVList` read a replica (`store/sqlstore/plugin_store.go:220`, `:310`), while entries are stored and deleted on the master |
| `"refresh"` | `LoseMutex` | a refresh fails and ends the refresh task (`cluster/mutex.go:146-148`): the key expires under its holder, who goes on |
| `"crash"` | `Crash` | the plugin instance dies |

A replica that lags may answer with any earlier state of the entry (`Earlier`): nothing,
or an entry that was there once. A goroutine then runs an entry that has been run or
cancelled, or takes a new one for absent and deletes it (`job_once.go:142-143`): then the
entry is in `misread`. `Release` deletes the key whoever has it, as `Unlock` does; so one who
lost the mutex may take it from the next holder. `slips` counts the faults that are not failed
reads: each of them may cost one more run, and the properties say that it costs no more.

`Crash` restarts an instance: its goroutines, callers and maps are gone, and its
mutex is free (it expires). `Start` then does what the poller does. The goroutine of a JobOnce
and its `Cancel` share one `Mutex` object: after a lost mutex the second `Unlock` finds
`stopRefresh` nil and panics (`mutex.go:175`); what that does to the instance is what `Crash`
does. A failed deletion of the key of the mutex only delays the next holder (`ClusterMutex`). Left
out: errors while storing a new entry (nothing is stored), `SetCallback`, the lock
around the callback (the mutex already keeps runs of one key apart), other keys.

### JobServer

Types of jobs have workers and channels of their own, so one type is modelled; `kind`
says which worker it has, and Init chooses it: `SimpleWorker`, `BatchWorker` with
the batches of `BatchMigrationWorker`, or `IndexerWorker`. The table is
`status` and `saved`, the cursor in `Jobs.Data`. `worker[w].pc` says where the
goroutine of the worker stands:

    off -> idle -> claim -> work <-> progress -> finish -> success -> idle
                              |         (either call may fail: error, error2)

An indexer has `Entities` kinds of entities to index, posts first, then channels, users, files,
and goes through them in phases (`IndexBatch`). `progress.LastEntityTime` is `batch`, and
`start_time` in Data, which is `saved`, is the same: it does not say of which kind. Who takes the
job up makes it `StartAtTime` (`start`) and `LastEntityTime`, begins with the posts there
(`parseStartTime`), and after each kind goes back to `start` (`EndPhase`, `indexing_job.go:374`,
`:389`). A kind ends with a batch that reaches `EndAtTime` or with an empty one. So a resumed
indexer does not index channels, users and files from before the point where it stopped among the
posts, and the job succeeds; `resumedAt`, a history, is the furthest such point, and
`SuccessIsComplete` allows for exactly these entities and no others.

Every statement on the table is one step, and between two of them anything may come:
`RequestCancellation` is two (`RequestCancellation`, `AskWorker`), `SetJobError` is two
(`SetJobError`, `SetJobErrorCancelled`). Which statements compare the status follows
the code: `UpdateOptimistically` and `SaveData` do, `UpdateStatus` does not.

| Action | Code |
|---|---|
| `CreateJob`, `CreateJobOnce` | `_createJob` with `Save`; a starting node's `doDelete...Migration` with `SaveOnce` |
| `Notify` | `PollAndNotify` |
| `Claim`, `Begin`, `ClaimError` | `ClaimJob` in `DoJob`, and `initProgress`; it fails, or is done and not known to be |
| `DoBatch`, `EndPhase`, `BatchError` | `execute`, `doMigrationBatch`, `IndexBatch` |
| `Progress`, `ProgressError` | `SetJobProgress` with the Data of the batch just done |
| `Finish`, `FinishError`, `Succeed`, `SucceedError` | `setJobSuccess`, with its two statements |
| `SetJobError`, `SetJobErrorCancelled`, `SetJobErrorFails` | `SetJobError` |
| `ResetJob` | `resetJob` of a migration whose cluster is not in sync |
| `Stop`, `Stopped`, `StopJob`, `StopJobError`, `Start` | `Stop`; the stop case of `Run` and of `DoJob` (`SetJobPending`); `go w.Run()` |
| `RequestCancellation`, `AskWorker`, `WatchCancellation`, `CancelJob`, `CancelJobError` | `RequestCancellation`; `CancellationWatcher`; `SetJobCanceled` |
| `SetStatus` | `UpdateJobStatus`; `CreateAccessControlSyncJob`, `InvalidateAllResendInviteEmailJobs` |
| `Crash` | the process dies, after `HandleJobPanic` or not |

Three more histories: `done`, the batches executed, by phase; `forced`, the jobs whose status somebody
wrote from outside with a statement that compares nothing (the properties exempt them, since
they fail for them: a running job set to pending gets a second worker); `failed`, the
jobs that the code leaves without a worker for ever, because the row says that somebody has
the job: after a crash, a lost answer, a failed `SetJobPending`. There is no recovery for
them in the code.

Migrations (`kind = "batch"`) are created by `CreateJobOnce` alone, and neither cancelled nor set
from outside: `SessionHasPermissionToCreateJob` and `SessionHasPermissionToManageJob`
know no such type. `SaveOnce` counts and inserts in one serializable transaction, so it is one
step; what the node reads before it (that the migration has not been marked as complete, that
no job is pending) may be old by then, and is left out. A job is thus created after the
migration has been completed too; it finds nothing to do.

A watcher's poll and the offer of a job are one step: whatever becomes of the job between
the two may as well happen between the offer and the claim, which compares the status.

### PostsInChannel

Post n is the n-th post of the channel. The server answers each kind of request
(`Answers`) when it handles it; the answer is applied later (`Receive`).
A block is `order`, the newest first, with the marks `recent` and `oldest`.
The reducers are operators with the names of the code, from blocks to blocks;
`ok` is FALSE where the code throws (it reads `create_at` of a post that is not in the
store) and its answer is wasted. Sequences are filtered and sorted by rank (`InOrder`): the k-th
element is the one that k - 1 others come before. That is what `filter` and `sort` return, and,
unlike `SelectSeq` and `SortSeq`, something the proofs can expand.

| Action | Code |
|---|---|
| `CreatePost`, `DeletePost` | other users post and delete; the event is queued for the client |
| `Close`, `Open`, `HelloResumed`, `HelloNew` | the websocket goes and comes back, resumed with its events or new without them; `reconnect` and `restart` |
| `HandleEvent`, `ThreadLoaded`, `ThreadFails` | `handleNewPost` to `completePostReceive`, which fetches the thread of a reply first; `POST_DELETED` |
| `Visit`, `VisitPermalink`, `Leave`, `Prefetch`, `LoadMore` | the post list on mount, a permalink, leaving, `prefetchChannelPosts`, `canLoadMorePosts` |
| `Answer`, `Receive`, `Fail` | the server handles a request; its answer is applied; it fails |

The server computes an answer from the posts that its queries see (`Views`): the live ones
or, as an action that the bound counts, any others that were ever created. That stands for a replica
that lags (`post_store.go:1465`, `:1743`), a cache that is old (`post_layer.go:106-154`), and for
`create_at` that are equal: the queries for a page compare it strictly with that of the edge
(`post_store.go:1722`), so a post created in that millisecond is in no page, as if it had not been
seen. It allows more than these do. Whether a page is the newest or the oldest is asked of the
master (`getPostIdAroundTime`, `post_store.go:1827`), or told from the number of its posts; `Pages`
has both. An answer to `since` takes any `SinceLimit` of the posts updated since then, for `LIMIT 1000`
has no `ORDER BY` (`post_store.go:1452-1458`), and the roots of those. `leftOut` are the posts that
an answer should have had and had not; the code has nothing that would find out, so `NothingSkipped`
and `LostIsFetched` exempt them, and say that no reducer, event or stamp loses any other.

`lastGetPosts` is `Date.now()` of the browser when the request was sent, and goes to the server as
`since`. `Clock` makes of it, as another action that counts, any time of the server. It is compared
with `lastDisconnectAt`, another time of the browser, as it is. A time that is too early only brings
more; one that is ahead skips posts for good, and ends `calm`.

Abstractions of `create_at` and of answers that remain: the client tells posts with equal `create_at`
apart by number (for it, they decide only whether two blocks of the same millisecond are joined, and
the order within it); the thread of a waiting reply is read from the live posts; edits and reactions,
which also move `UpdateAt`, are left out, and `SinceLimit` stands for the posts they add to an answer.

`lost` are posts whose event a new connection never delivers, `dropped` those whose event
the client ignores because the channel is not loaded, while an answer that may not
have them is on its way. `calm` are the histories in which the client can be held
responsible for a lost post: the user looks at the newest posts, nothing fails or
is deleted, no answer comes too late, no stamp is ahead of the server, and no event puts a post in
front of a newer one (`Late`).
With such an event the last post of the recent block is not its oldest, and a synchronisation,
which compares with the last one, leaves out posts that the client lacks. An answer comes too late
when the reducer cannot take a synchronisation as a whole (`InTime`), when a page takes the mark of
the recent block from one with newer posts, and when a page that reached the end makes a second
recent block (`OneIsRecent`, `posts.ts:815`): no synchronisation asks for what is then between
the two.

## 3. Runs

| Run | Instance | Checks |
|---|---|---|
| `dead_queue` | ring of 4, 14 events | `TypeOK`, `RingInv`, `ResumeClassified`, `DrainExact` |
| `websocket_safety` | 3 handshakes, 4 events, channels of 2, ring of 2, one disturbance of any kind | `TypeOK`, `SingleOwner`, `NoSendOnClosed`, `NeverAhead`, `InOrderOnce`, `NoSilentLoss`, `ImplementsEventStream` |
| `websocket_liveness` | 4 handshakes, 2 events, channels of 1, ring of 2, one disturbance of any kind | `EventuallySeen` |
| `handover_loss` | 2 handshakes, 2 events, one break | `NoMessageLoss`, violated |
| `cluster_mutex` | 3 instances, any two of a crash, a lost answer, a failed refresh, a failed deletion | `TypeOK`, `OneHolder`, `ImplementsLock`, `NobodyBarred` |
| `job_once_safety` | 2 instances, 2 JobOnces, 3 calls, one fault of any kind | `TypeOK`, `AtMostOnce`, `CancelHolds` |
| `job_once_liveness` | 2 instances, 3 JobOnces, one schedule, one fault of any kind | `EventuallyRuns` |
| `job_once_cancel` | 2 instances, 2 calls | `CancelReturns`, violated |
| `job_once_lost` | 2 instances, 3 calls | `NotLost`, violated |
| `job_server` | 2 nodes, 2 jobs of 2 batches (of 2 kinds of entities for an indexer), each kind of worker, 2 events of any kind | `TypeOK`, `OneWorker`, `OneMigration`, `SuccessIsComplete`, `FinalStays`, `JobEnds` |
| `posts_in_channel` | 4 posts, one of them there at the start and one a reply, pages of 1, synchronisations of 2, 2 actions of the user or disturbances, among them incomplete answers and a clock that is off | `TypeOK`, `NoDuplicates`, `NothingSkipped`, `LostIsFetched`, `RecentStays`, `SyncClosesGaps` |
| `posts_recent` | 3 posts, pages of 1, 2 actions | `RecentIsNewest`, violated |

Bounds. A ring of four slots is the smallest in which the first, a middle and the
last slot differ, and 14 events turn it three times. In the runs of the whole
system a ring of two rolls over with the hello message and two events; four events are what it takes
to lose the ones a client wants, come round to slot 0, and go on. So all three
outcomes of the prologue occur, and a channel of one or two fills up.
Three handshakes are a first connection, a reconnect and a reconnect of that.
The bounds are on handshakes, events and disturbances; at the bounds the system
stops, so deadlock is not checked there.

`handover_loss`. The hub removes the old connection from its index when it answers
`CheckConn`; the new one is in the index only after `Register`. An event
broadcast in between gets into no channel and gets no number, so the client's
next number and the dead queue still agree and the reconnect counts as lossless.
`NoSilentLoss` and `ImplementsEventStream` show that this window and encoding
errors are the only ways to lose an event silently.

The mutex runs have `ttl = 6`, `refreshInterval = 2`, `MaxDelay = 1`: the
smallest numbers that satisfy `ttl > refreshInterval + 3 * MaxDelay`. In the code
`ttl` is 15 s and `refreshInterval` half of it, so the assumption is that a call
to the store takes less than 2.5 s. Faults are the only bound; the system never
stops and deadlock is checked. In the job runs three calls are a schedule, a
cancellation and a new schedule, with one JobOnce on each instance, or both on one; three JobOnces
allow for one that a crash takes. At the bounds the system stops. `job_once_liveness` has one
call: with two schedules `NotLost` fails, and a `Cancel` may hold the mutex for
ever (`job_once_cancel`), with the entry still there if its deletion failed. There
`maxNumFails` is 1, so that one failing read is the most that must be survived.
In `job_once_safety` one fault comes at any point: with it a schedule may run twice, or once although
it was cancelled, and TLC sees that it never runs more often; without it, once and not at all. That this
goes on with every further fault is proved. `EventuallyRuns` leaves out an entry that its own job was told
is not there: the job deletes it then, and nothing brings it back.

`cluster_mutex`. One error of `refreshLock` ends the refresh task
(mutex.go:146-148) while the holder goes on; the key expires, and a second instance
locks the mutex. `OneHolder` and `ImplementsLock` are therefore about the time before
that has happened (`unrefreshed`); the failure itself is one of the faults of the run, since
`NobodyBarred` and `TypeOK` must hold with it.

`job_once_cancel`. `Cancel` holds the cluster mutex and waits for the goroutine,
which has woken up and waits for the cluster mutex. Two more ways lead to the same
end. In the same instance: a JobOnce whose goroutine was never started (`pc` is
`"idle"`), because the poller had tracked the entry before `ScheduleOnce` came to
it; its `Cancel` waits for a `join` that nobody closes. With two callers on one
instance: `scheduler.Cancel` waits for the cluster mutex with `activeJobs.mu`
locked for reading, while a `Cancel` of a JobOnce that has run already holds the mutex and
waits to write there.

`job_once_lost`. After a cancel and a new schedule, a goroutine of another
instance that still waits for the old one wakes up, sees another `runAt`, and
deletes the entry, which is the new one. If the new
schedule has the same `runAt`, that goroutine cannot tell: it runs the new entry with its
own, old props. The runs and theorems keep the times apart.

`job_server`. The events that `MaxEvents` bounds are cancellations, stops, settings from
outside, crashes and failing statements: two are what it takes to cancel a job and stop
its worker in between, or to stop both nodes. Two batches tell a job that is resumed in its
middle from one that begins again; two kinds of entities show what a resumed indexer leaves out;
two jobs make a worker busy when it is offered another. At
the bounds everything ends, so deadlock is not checked.

`posts_in_channel`. Two actions are a visit and what disturbs it: a disconnection,
a permalink, a page, a deletion, a failure, an answer that misses posts, a stamp that is off. Pages of
one post make several blocks of four posts, and answers that overlap, touch or miss them; a
synchronisation may be cut to two. `MaxPending` is 1: one request may be on its way when such an action
happens, and the action may add its own, so that two answers are out at the same time. An instance with
pages of two and three actions on three posts was checked too and takes longer than the run. Without
the exemption of `leftOut`, `NothingSkipped` and `LostIsFetched` are violated.

`posts_recent`. The reducer gives the mark `recent` to the block of an answer that
the server called the newest page and takes it from the others, without a look at
which is newer. If posts have come since by the websocket, an answer that was delayed
makes a lower block the recent one, and the next new post is put behind a gap.

### Fairness

`FairSpec` has weak fairness of the steps of each WebConn's goroutines (with the
hub's answers: its `select` serves all its channels) and of the client (event loop
and reconnect timer of the browser). There is none on `Broadcast`, `Reap` or any
fault: nothing makes somebody publish. `EventuallySeen` needs one handshake more
than disturbances can break, hence `MaxConns = 4` with one disturbance: a client
that runs out of handshakes would be stuck at the bound.

`FairSpec` of the mutex has weak fairness of time and of each locker's steps:
somebody who holds the mutex unlocks it or dies. No single locker is promised the
mutex, as tries are random (`nextWaitInterval`); `NobodyBarred` says somebody
gets it. `FairSpec` of `JobOnce` has weak fairness of each goroutine, caller and
poller; with the bound on calls no contention for the mutex goes on for ever.

`FairSpec` of `JobServer` has weak fairness of each worker's own steps and of each
watcher, whose polls are on a timer. Nobody has to create, cancel, start or stop, and a
failure never has to happen. `JobEnds` asks that from some time on there is always a node
with a running worker, and leaves out `failed` and `forced` jobs.

## 4. Proofs

`DeadQueueProofs` shows, for every `deadQueueSize >= 2` and every `MaxSequence`,
`RingInv`, `ResumeClassified` and `DrainExact`. The inductive invariant is
`TypeOK /\ RingInv`: the content of every slot is a function of the pointer, of
`written` and of `base` (`Content`). It is needed because the code tells an empty
slot, a turn of the ring and a gap apart from sequence numbers alone. The lemmas of
`DeadQueueRing` compute from it what `Matches`, `HasMsgLoss`, `RolledOverLength` and
`DrainDeadQueue` return, for messages of any kind (`Ring`); the prologue and a move to
another node then re-establish the same shape with another `base`.

`ReliableWebSocketProofs` shows `SingleOwner` and `NoSendOnClosed` for any number
of connections, events and faults. `OwnerInv` adds what makes them inductive: a
WebConn's queue was made by itself or by an earlier one, unused WebConns still
have their own, untouched queue, one that is inactive in the index has left its
pumps, and a closed channel belongs to nobody the hub can reach.

It also shows `TypeOK` and `NeverAhead`, for rings of any size and any
number of connections, events and faults of every kind. `TypeOK` needs more than types: that a
replay contains no empty slot depends on the number the client comes back with. The inductive
invariant is `OwnerInv /\ TypeOK /\ NumberInv`, over the WebConns that hold queues (`Holders`), the
first number that each queue lacks (`Written`), the connection ID the client will be under once
it has read its socket (`WireId`), and the number it expects there (`Start`). An event that cannot be
encoded uses up its number: the queue then goes on past the gap, where two messages may
even have one number, as a resume after it continues from the client's. What makes the code
right all the same is that nobody ever asks for a number past the gap:

- `RingsInv`: up to `Written` a dead queue is a ring of consecutive numbers from 0, the hello message,
  on; behind that its numbers are larger (`FrayedRing`), and then `Sequence` is as well. The lemmas
  about `FrayedRing` say that `HasMsgLoss`, `IndexOf` and `DrainDeadQueue` still answer rightly for
  a number up to `Written`. `PrologueOnRing` says that the prologue either leaves the ring, and
  sends all from the client's number on, or begins again with a hello message.
- `ChanInv`, `FreshInv`: the hello message comes first, and a WebConn has nothing before it.
- `LinkInv`, `IdInv`: the client has one socket and one request; an ID has one holder.
- `AheadInv`, `WireInv`: neither `serverSequence`, nor the number in a request, nor what the client will
  read of its socket (`InStep`: the messages up to the first that is out of order, at which it drops
  the socket) passes `Written` of the queue with that ID. They carry the bound across a
  break and a new handshake, while the old WebConn still writes.

`ReliableWebSocketStream` shows `InOrderOnce`, `NoSilentLoss` and the refinement to `EventStream`
(`ImplementsEventStream`), without further assumptions. A message is looked at as a mark, its number
and its event, wherever it is: in the send channel, where its place gives it its number, in the dead
queue, on the client's socket, or as the last one the client has read. `StreamMarks` are the marks of
the stream of a WebConn, up to its gap if it has one (`Torn`), and `ReadMarks` those on the way to
the client. A channel behind a gap is no part of the stream, but goes into the next one if the
numbering starts over; `NextMarks` keeps its order. `StreamInv` says of them:

- `OrderInv`: along a stream, numbers and events go up together, so that a client that reads
  consecutive numbers reads rising events. This is what `InOrderOnce` needs.
- `QueueComplete`: an event that the client lacks is in the stream of the connection ID it would
  resume, unless it was broadcast in a handover, or a number the client lacks has been overwritten in
  the ring or left out; then the reconnect is not taken for one without loss.
- `SocketComplete`: the same for the socket the client reads, without the exception: what it lacks
  is on its way, number by number, or lost.
- `ViewInv`: the client has seen no more than was broadcast.

Most steps only move marks (`MoveKeepsOrder`, `MoveKeepsQueues`, `MoveKeepsAll`); a broadcast adds one
above all others (`OrderedAppend`); a new start of the numbering (`RestartOrdered`) and the replay
(`SocketFromQueue`) are the steps that need `PrologueOnRing`. An event that cannot be encoded is a step
`Lose` of the abstract stream; it is one that was published (`EncodedWasPublished`).

`ClusterMutexProofs` shows `TypeOK`, `OneHolder` and `ImplementsLock` for any number of
instances and any times, the last two until a refresh fails. `OneHolder` is not
inductive: that a second `TryLock` finds a key depends on how old it is. `Margin`
adds, for each place a holder can be in, how much life its key has left at least;
`HolderHasKey` concludes that it has some, from `ttl > refreshInterval + 3 * MaxDelay`.
The refinement follows: `Owner` changes only by an insertion when nobody holds and by
the end of a hold.

`JobOnceProofs` shows `TypeOK`, `CancelHolds` and `AtMostOnce`, for any number of
instances, callers, schedules and faults of every kind. `ObjectInv`, `FreshInv` and
`EntryInv` are inductive: a call about to store has a number nobody used, and the entry that is
stored is not a cancelled one. `CountInv` adds what makes the number of runs come out. Processes that
are past a lock without holding the mutex are `Lost`, and there are no more of them than slips; one in
`execute` will run the callback (`Running`), and one in `execute` or `delete` will delete the entry
(`About`). While the entry of s is stored,

    ran[s] + |Running(s)| + |Lost| <= |About(s)| + slips

and without it ran[s] + |Running(s)| is at most 1 + slips, or slips if s was cancelled. A step of
one who holds the mutex keeps this because nobody else but the lost is past the lock; a stale read
adds to `Running`, a failed deletion takes from `About`, a lost mutex adds to `Lost`, a crash takes
who was about to delete: each pays with its slip. The lemmas `CountExecute`, `CountDelete`,
`CountLose` and so on are one for each. Both theorems assume that each schedule has a time of its own
(`RunAtInjective`), for a goroutine can tell entries apart by nothing else.

`JobServerProofs` shows `TypeOK`, `OneWorker`, `OneMigration`, `SuccessIsComplete` and `FinalStays`,
for any number of nodes, jobs, batches and kinds of entities and whatever fails. `StatusInv` makes `OneWorker`
inductive: a job that somebody works on is neither pending, so that no claim
succeeds, nor canceled, and is under way unless its worker has come to the end of it; that is
also why the statements without a comparison cannot write over an end. `BatchInv` says that
`saved` is not ahead of the batches of posts executed, whatever kind it was stored for (`SavedInv`), and
that a worker has executed what comes before where it stands, but for the further kinds from before
where it began (`Covered`, in `WorkersInv`): so `SuccessIsComplete` says how far a resumed indexer is
complete, and no more than that. `MigrationInv` says that one job at most of a migration is pending or in
progress, which a claim, a reset and a return to pending keep because nobody cancels it; with
`OneWorker` it gives `OneMigration`.

`PostsInChannelProofs` shows `TypeOK`, `NoDuplicates`, `NothingSkipped`, `LostIsFetched`,
`RecentStays` and `SyncClosesGaps` of `PostsInChannel`, for any number of posts, any threads, pages
of any size, any limit of a synchronisation, any number of faults and requests, and answers computed
from any of the posts. The first part goes in three steps.

- What sorting and merging return. The library's induction rules are out of reach, but `WFMin` is
  about a set, and gives induction over a set of numbers (`LeastNumber`, `InductionOverNat`). From it
  come the operators by rank (`InOrderSorts`, `DescSorts`, `KeepFilters`, `NewestFirstSorts`) and the
  fold of the merge as a chain of steps (`MergedBySteps`).
- What a reducer does to the blocks as a set. `Covers(b, p)` says that p lies in the run b stands for.
  `Gathers`: after a merge the blocks hold the same posts and cover nothing that was not covered or held;
  one is still recent; none shows a post twice. It holds of one step of the loop because the blocks
  come sorted by their newest post (`MergedUpTo`), and of the whole by `MergedGathers`. `Takes` adds a
  block that comes in with an answer, for the reducers of loads and pages (`ReduceTakes`).
- What the rest of the client does. `Accounted(p)`: a block holds p, its event is coming, lost or
  dropped, or an answer left it out. `StaysAccounted`: no step changes that for a live post. This is where `Counts`, the events
  of replies that wait for their thread, and the deletion of a root with its replies come in.

The inductive invariant `IInv` is `TypeOK`, `NoDuplicates` and:

- `BlocksWhole`: a live post that a block covers is accounted for. `NothingSkipped` follows.
- `RepliesWhole`: so is one that the block made of an answer on its way will cover. A
  page is complete, but for what it leaves out, when the server computes it (`PagesAreConvex`); a post created later is in no
  page but has an event on its way, and this has to be kept until the answer is received.
- `EventsInOrder`: events come in the order of the posts, so that a post that is put in
  front of the recent block, and makes it reach further, passes none whose event is gone.
- `AwaitedInOrder`: the same for a reply that waits for its thread and comes after newer posts.
- `RootsClosed`: a reply to a deleted root is deleted, as only these leave the blocks.

For `SyncClosesGaps`, `ReceivedSince` says which posts of an answer the reducer adds.
The proof made the property more exact: the synchronisation closes the gaps above the last post
of the block, and only if the posts of the block are in the store.

`LostIsFetched` needs a second invariant, `CalmInv`, about what each synchronisation asks for and
when. `Kept(p)` says that the blocks reach p or that p is sought: it waits for its thread, a
synchronisation on its way will bring it, or an answer left it out.

- `GapsSought`: a gap older than a post of its block is sought, or its event was dropped.
- `AskedKept`: what a synchronisation does not ask for, because it is older than the newest post
  shown or than the last call, is kept. `StampKept` says so of the time of the last call, which the
  next one starts from, whatever the clock showed, if not ahead; `LostKept` of the posts lost with a connection.
- `OnTop` and `InStore`: one block at most is recent, no other has newer posts, and what is shown is
  in the store. A post that is kept but not shown is then a gap and so sought (`RecentReached`).
- `RepliesExact`: an answer has all posts of its run up to its newest, but for those left out, and the
  time of its request is not beyond that one (`AnswerExact`, for each kind of answer).
- `EventsOnce` and `LinkUp`: the event of a post is in one place, events come in the order of the
  posts, and nothing is lost without a disconnection.

Blocks are followed with `Inside`, which is `Covers` without what is newer than a block: `Fills` and
`TakesNewer` say for each reducer what comes to lie inside a block. `SoughtStays` is the heart: what
is sought is shown once the synchronisation is received (`ReceiveInCalm`). Settled means
that nothing is sought but what was left out, so no other lost post is a gap. The proof corrected the statement: without
`OneIsRecent` in `calm` it holds of the small instances, and fails with five posts and four
disturbances.

Assumed: the named assumptions on constants in the modules, nothing else.

Only model-checked: the liveness properties (`EventuallySeen`, `NobodyBarred`, `EventuallyRuns`,
`JobEnds`), which are beyond the prover. Every invariant and every action
property of the passing runs is proved.

## 5. Hazards without a property

Besides those in `PROJECT.json`, which lists with a note the ones that are modelled and that no property
can deny, as the code does not guard against them: a resumed indexer (`indexing_job.go:387` says "We reset
the last entity time to the beginning", which is where the job was taken up; `original_start_time`, `:300`,
is stored and never read), answers and stamps that are wrong about what the client has, a second recent
block, a holder of the mutex whose refresh has failed:

- `platform/web_conn.go:536`: `SetConnectionID` changes the ID of a connection that is in
  the index under the old one; `byConnectionId` is not modelled.
- `platform/web_hub.go:621`: presence at unregister, with a new connection registering
  while the user is set offline.
- `platform/busy.go:71`: the timer of an older `Set` clears the flag of a newer one.
- `jobs/batch_worker.go:92`: `Stop` before the goroutine of `Run` has set `stopped` to
  false returns at once, and the worker runs on. `Start` is one step in the model.
- `jobs/batch_report_worker.go:109`: `processChunk` returns `err`, which is nil there, instead
  of `appErr`: a chunk that could not be saved is skipped. Reports are not modelled.
- `redux/reducers/entities/posts.ts:766`: a page is dropped as identical to the recent block
  when length, first and last post are equal. Needs larger pages than the run has.
- `webapp/channels/src/actions/new_post.ts:50`: a reply whose thread is fetched is shown
  although its deletion was handled meanwhile.
- `webapp/channels/src/components/post_view/post_list/post_list.tsx:242` and `:300`: two requests
  for the same page after a synchronisation; an empty newer page leaves the loader at the bottom.

## 6. Plan

1. Schedulers and leader changes, on top of `JobServer`; the report
   worker and the migrations worker.
2. `ClusterWebSocket`: two hubs, the move of queues between them, cluster messages.
3. `UserStatus`: presence at unregister, DND, the queue of offline updates.
4. `SessionCache` and `LocalCache`: read-through against invalidation.
5. `ScheduledJob` (`cluster/job.go`), `UploadSession`, `PostDedup`, `BusyFlag`, `PushHub`, `SharedChannelSync`.
