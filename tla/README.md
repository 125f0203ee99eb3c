# A TLA+ development of UnichatGo

UnichatGo is a chat service: a Go backend (`src/backend`) that keeps users,
sessions and messages in SQLite or MySQL, optionally Redis as a cache, and
streams the answers of language models to a Vue frontend. This directory holds
TLA+ models of its concurrent parts, the TLC runs that check them and the
theorems TLAPS proves about them. Paths below are relative to
`src/backend/internal` unless they start with `src/`.

## 1. Inventory

| Component | State | Operations | Talks to |
|---|---|---|---|
| Job dispatcher, `worker/dispatcher.go`, `worker/manager.go:179-247` | `JobQueue` (buffered channel), `queues`, `ready`, `positions` under `d.mu`; the job in the hand of `run` | `enqueueJob` with a timer, `run`, `dispatchOne`, `CancelUser` | worker pool (`acquire`, the job channel); callers blocked on a result channel |
| Worker pool, `worker/pool.go`, `worker/worker.go` | `idle`, `metadata`, `running`, the flags of each `workerMeta` under `p.mu`; the atomics `minDynamic`, `minBoostUntil` | `acquire`, `spawnWorker`, `MarkIdle`, `retire`, `tryBoostBoundary`, `decayBoundary`, `shutdownExpired` | dispatcher, workers, a ticker |
| Message handler and idempotency table, `api/handlers.go:358-568` | `clientMessageTable`, one `idempotencyEntry` per message in progress | `captureInput`, `beginIdempotencyEntry`, `completeIdempotencyEntry`, `respondWithCachedResult` | database, `Manager.Stream`, the client's event stream |
| Session state and worker cache, `worker/manager.go`, `worker/state.go`, `worker/redis.go` | a `userState` per user (ready, sessions, history, resources, files), three Redis keys per session | `InitSession`, `Stream`, `handleInit`, `handleStream`, `Purge`, `ResetUser`, `InvalidateTempFiles`, `applyInvalidation` | database, Redis (cache and publish/subscribe), model providers |
| Login tokens, `auth/` | table `user_tokens`, a Redis key per token | `IssueToken`, `ValidateToken`, `RevokeToken`, `RevokeUserTokens` | database, Redis, the handlers of login, logout and user deletion |
| Uploads, `api/handlers.go:737-830`, `service/assistant/clean_assistant.go` | files on disk, table `temp_files` | `filesUpload`, `getUniqueFilePath`, `cleanupExpiredFiles`, `DeleteSession`, `DeleteUser` | database, file system, session state |
| Users, sessions, messages, `service/assistant/` | tables `users`, `sessions`, `messages`, `apiKeys` | one statement or one transaction each | database |
| AI service and tools, `service/ai/` | a history per session inside one `aiService` | `StreamChat`, the tools | model providers |
| Token encryption, configuration, storage, routing | none that changes | | |
| Frontend store, `src/frontend/src/store/session.js` | session list, messages shown, attachments, `sending`, the current session | `loadSessions`, `createSession`, `resumeSession`, `removeSession`, `sendMessage` and its event callbacks, `uploadFiles`, `removeAttachment` | HTTP API |

What is hard about it:

- Four kinds of goroutines share the dispatcher and the pool: request handlers,
  `run`, the workers and the janitor `purgeStaleWorkers`. Signals, sends and
  atomic accesses happen outside the locks.
- `CancelUser` runs on the goroutine of a logout, between any two steps of `run`.
- Handlers wait for other handlers (idempotency) and for jobs (result channels)
  without a timer of their own.
- The state of a session lives in three places (memory of each instance, Redis,
  database) that are written one after the other; a login token lives in two.
- The quota, the unique name and the record of a file are read and written in
  separate steps, with a cleaner and deletions in between.
- The page gives way at every `await`, and its functions keep what they read before.
- The backend may stop at any step, and keeps Redis, the database and the files.

What makes each component correct:

- dispatcher: no job lost, doubled or run after it was dropped; every caller
  answered; the order and fairness its documentation names;
- pool: one owner for every waiting worker, no lost wake-up, counts that agree,
  never below the base size, every acquire ends;
- idempotency: one request at a time works for a message, the others learn what
  became of it, no path forgets to complete the entry;
- session state: a ready session is loaded, a model sees the whole conversation,
  nothing comes back after a reset;
- login tokens: a revoked token leaves Redis too, or for a named reason does
  not and then ends in bounded time; one that is out stays out;
- uploads: the quota is passed by no more than what was in flight, a live record
  keeps its own file, no file is forgotten, expired records go;
- frontend: a message is shown once, the list shown ends up as the one stored,
  no attachment is lost or sent twice, the composer is unlocked again.

## 2. Modules

| Module | What it is |
|---|---|
| `Dispatcher` | the dispatcher, its callers and `CancelUser` |
| `FifoService` | what the dispatcher comes to: one line of accepted jobs, whoever they are of |
| `DispatcherOrder` | `Dispatcher` with history variables, to speak of the order its documentation promises |
| `WorkerPool` | the pool, its workers, the dispatcher inside `acquire`, the janitor |
| `Idempotency` | concurrent `POST /conversation/msg` requests |
| `SessionCache` | one session in memory, Redis and the database |
| `AuthTokens` | login tokens in the database and in Redis, with the clock |
| `Uploads` | files, their records, the quota, the cleaner and deletions |
| `ChatStore` | the page: the frontend store against the backend's requests |
| `MCDispatcher`, `MCDispatcherOrder`, `MCWorkerPool`, `MCIdempotency`, `MCSessionCache`, `MCAuthTokens`, `MCUploads`, `MCChatStore` | instances for TLC |
| `Sublists` | the operator for what a filtering loop leaves of a list, which the pool and the page share |
| `SequenceLemmas` | facts about sequences and sublists for the proofs |
| `DispatcherProofs`, `WorkerPoolProofs`, `IdempotencyProofs`, `SessionCacheProofs`, `AuthTokensProofs`, `UploadsProofs`, `ChatStoreProofs` | the theorems |

The dispatcher and the pool meet in `acquire`. `Dispatcher` abstracts the pool
to a number: `Handoff` is enabled while fewer than `MaxWorkers` jobs run.
`WorkerPool` shows that this is what the pool gives: every `acquire` ends with a
worker that receives the job (`AcquireCompletes`), as long as handlers end. In
turn `WorkerPool` abstracts jobs away, and `Idempotency` takes `Stream` as an
outcome, one of which, `LoseJob`, is the dropped job of `Dispatcher`.
`SessionCache` is what the jobs do: its `initQueued` and `streamQueued` stand for
the dispatcher, and its `CancelUser` may drop a queued job as `Dispatcher` does.
`AuthTokens` and `Uploads` stand beside them: what they share with the rest is the
deletion of a user and of a session. `ChatStore` is the other end of the
connection: its backend part is what a client sees of `Idempotency` and
`SessionCache`, a question that is acknowledged, streamed, and answered or failed.

### Dispatcher

`jobQueue` is the channel, `queues`, `ready` and `positions` are the fields of
the same name (`queues` is a function whose domain is the keys present, so that
`CancelUser` really deletes), `pc` and `hand` are the program counter and the
local job of `run`. One element of `Jobs` is one caller of `enqueueJob`; `status`
says where it is. Each critical section under `d.mu` is one action
(`DispatchOne`, `EnqueueJob`, `CancelUser`); so is each channel operation (`Send`,
`Receive`, `Poll`). `Handoff` is `acquire` and the send of the job.
The timer of `enqueueJob` is abstracted: `EnqueueTimeout` may happen whenever the
channel is full. A job of type Stop never passes here and is left out.

### WorkerPool

`wpc` is the program counter of every worker goroutine, `dpc` and `dch` those of
the dispatcher within `acquire`, `jpc`, `snap` and `stale` those of the janitor.
`metadata`, `enqueued`, `discarded`, `idle`, `running`, `minDynamic` are the
fields; a worker's channel and its meta are the same model value. A critical
section under `p.mu` is one action, except that `acquire` calls
`tryBoostBoundary` under it: the atomics it writes are read by the janitor
without the lock, so the swap (`Boost`) and the store of the clock (`Arm`) are
steps of their own and the other lockers wait (`MuFree`). `Signal` and
`Broadcast` are steps after the unlock; `SendStop` is a rendezvous.

Time is abstracted. `boosted` is `minBoostUntil # 0`; at a tick any prefix of the
idle list has expired and the boost deadline has passed or not (`idle` is in
order of `lastUsed`, because `MarkIdle` appends). `CaughtUp` says that a tick
finds no goroutine in the middle of something that needs the processor only:
ticks are an expiry apart, and the expiry is configured in whole minutes. A
worker that is busy, or blocked on its channel, may stay so across ticks.

### Idempotency

One element of `Requests` is one HTTP request with its goroutine; an entry is
named by the request that created it. `table` is a function whose domain is the
keys present. The database, the AI check, the event stream and `workers.Stream`
each succeed or fail. `completeIdempotencyEntry` is two steps, `Publish` (inside
`once`) and `Unlist` (the deletion under the lock). What the client is told on an
error path comes after both in the code, and is recorded in `reply` when the
path is taken.

### SessionCache

One session of one user. `row`, `title` and `messages` are its rows; `rSession`
and `rHistory` its two Redis keys; `mem` holds every `userState` made since the
start, and `current` says which of them is in `Manager.state`. A handler keeps the
`userState` it got from `getState` in `at`: after `ResetUser` it works on, with one
nobody else can reach, which is why old ones stay in the model. `rpc` is the
place of each request, from the HTTP handler through `InitSession` or `Stream`,
the queue, `handleInit` and `handleStream`, one step per database, Redis or
memory access. `local` is the handler's variable `history`.

`cleaner` holds the goroutines that clear copies: a `ResetUser` (logout, deleted
provider token or user), a `deleteSession` with its `Purge`, and the listener,
which receives what this backend published itself (`echoes`). There is one of
each; a reset takes the entry out of the map (`Detach`), cancels the user's jobs,
reads the session ids and clears (`ClearState`), deletes the Redis keys and
publishes, each in its own step.

A text file attached to a question goes into the history before it
(`attachFileSummaries`): `StoreSummary` is the row of its summary, `KeepSummary` its
place in memory, `SetSummaries` and `CacheSummaries` what `handleStream` does once
every file has one. A further file that fails leaves the first in memory and out of
Redis (`Fail` at "kept").

Redis only helps: a SET, DEL or PUBLISH that fails is logged and passed over, a GET
that fails of the session key is a miss, of the history key a hit with no messages
(`redis.go:164`). The model has every such failure, each counted with the resets,
expired keys and restarts in `upsets`. Two history variables say what they leave
behind, and the properties except exactly that:

- `behind`: memory changed and Redis was not told, because the SET of the history
  failed, the stream ended between the first summary and the last, or the backend
  stopped between the two SETs of `cacheSession`. It ends with the next SET of the
  history.
- `gap`: a history was loaded from Redis while that was behind, gone or not to be
  read. It ends when one is loaded from the database because Redis has no session.

Choices: a history is a value, although the slices of two overlapping streams may
share an array, because every property about the content of a history is stated
for requests that do not overlap. The history key is set after the session key and
more often, so `Expire` takes the session key first unless a SET of the history
failed, and never in the instant between the two reads of `loadSession`. A title is
named by the message it was generated from. The title inside session objects in
memory and in Redis, the lists of attached files with `InvalidateTempFiles`, and
other instances are left out.

### AuthTokens

`rows`, `owner`, `expires` are the table `user_tokens`, `keys` the Redis keys with
the time each ends, `held` the tokens a client has got. A request in `req` is a
login (`IssueInsert`, `CacheIssued`), or a validation (`LookupHit` or `LookupMiss`,
the SELECT, `CacheRead`) followed by the handler behind the middleware: any other
request (`Serve`), `logoutUser` (`RevokeToken`, `DropKey`) or `deleteUser`
(`Collect`, `PurgeRows`, `PurgeKey`, `DropUser`). Every statement to the database
or to Redis is a step, and each may fail in the way the code treats the failure:
`SetKey` and `DelKey` are only logged, an error of `collectUserTokens` shortens its
list, the others end the request. The clock counts seconds; `SetKey` gives at least
one, as `cacheToken` does.

`exposed` is a history variable with the tokens whose revocation was raced (by a
request between its SELECT or INSERT and its Set, or by a login during the
deletion of the user) or failed (a Del, a stop before it). The properties say
exactly what holds without such an event, and `KeysLapse` bounds what such an
event can do. `ForeignKeys` is what a connection enforces: `storage/database.go`
switches foreign keys on with one PRAGMA, which SQLite remembers per
connection, so with a pool of connections both values are possible.

### Uploads

`disk` maps a path (session and name) to the upload whose bytes are there, `rows` and
`expired` are `temp_files`, `user` says whether the user exists, `pc` and `cand` follow
each `filesUpload` through the quota (`CheckQuota`), `getUniqueFilePath` (`Stat`, one
candidate at a time), `SaveUploadedFile` and `RecordTempFile`. A name is a numbered
candidate, or the time-stamped one `getUniqueFilePath` falls back to, which is the
upload's own; a `Stat` that fails for another reason than a missing file passes over
the candidate as one that exists. `cleaner` is the
goroutine of `clean_assistant.go`: it lists, and for each file removes it and then its
record, as two steps that fail separately. `DeleteSession` is its transaction, and
`RemovePath` the removals after the commit. All uploads of a session bring the same
name, which is the case in which they can meet. `shared` and `leaked` are history
variables: files saved where something else had a claim to the path, and files that
a failure, a stop or the deletion of a user (which removes no files) left behind.

### ChatStore

`sessions`, `current`, `shown`, `files`, `sending` are `sessions`,
`currentSessionId`, `messagesBySession`, `attachmentsBySession` and `sending` of
`store/session.js`. An async function at work is a record in `task`: `pc` says which
request it awaits ("load") or has the answer of ("loaded"), and the step after the
answer is its code up to the next await. `turn` is `sendMessage` from
`streamConversation` on: `held` says whether the array it captured is still the one
shown, `temp` is `tempAssistantIndex`, `events` what the page has still to read. The
actions named `Serve...` are the backend: it carries a request out before the page
hears of it, so a request that fails for the page (`CallFails`) may have been
carried out or not. `StartLost` and `ServeLost` are a job that `CancelUser` dropped
(the deletion of a provider token, a logout elsewhere): the backend waits for its
result for ever, and so does the page (`Lost`) until the connection breaks. A click that the buttons do not offer (a second send while
`sending`) is not taken.

## 3. Runs

| Run | Instance | Shows |
|---|---|---|
| `dispatcher` | 2 users, 3 + 1 jobs, a queue of 2, 2 workers; 21,502 states | types, consistency of list, map and flags, no job lost, every call returns, the refinement of `FifoService` with its fairness |
| `dispatcher_unanswered` | the same, queue of 1, 1 worker | **violated**: an accepted job whose user is cancelled is never answered |
| `dispatcher_order` | queue of 3, 2 workers | **violated**: users neither get their answers in order nor take turns |
| `pool` | 4 channels, base 1, maximum 4; 433,709 states | all safety of the pool; acquire completes; stopped workers retire |
| `idempotency` | 3 requests for one message, 1 for another; 321,784 states | single flight, shared outcome, every request ends |
| `session` | 3 messages and a resume between them, 2 upsets, one thing at a time; 3,143,943 states | types; the model sees the whole conversation; memory and Redis agree; titles stay |
| `session_overlap` | the creation, 1 message, 2 upsets, 3 things at a time; 2,507,749 states | a ready session is loaded; a session in Redis has its history unless its SET failed |
| `session_first_title` | 1 message, 2 upsets | **violated**: a first message without a title |
| `tokens` | 1 user, 2 tokens, 2 requests at a time, 4 seconds, both kinds of connection, symmetry; 3,730,716 states | when a revoked token leaves Redis and when not, for how long it stays, and that one that is out stays out |
| `uploads` | 3 uploads of one session, room for one, 2 at a time, 2 candidate names, both kinds of connection; 342,251 states | how far the quota is passed; live records keep their files; every file is somebody's; expired records go |
| `chat` | 2 sessions, 2 questions, 1 chunk, no files, one click at a time, symmetry; 7,403,041 states | types; no message is shown twice; the list shown ends up as the one stored |
| `chat_files` | 1 session, 2 files, 1 question; 909,404 states | no attachment is lost or comes back; every send ends that the backend did not lose |

The bounds are the least in which the interesting cases happen.

- Dispatcher: two users for the round-robin list, three jobs of one of them so
  that one runs, one is held and one queues, a channel that gets full.
- Pool: the janitor can stop a worker only when the boundary has been lowered
  during a burst, which takes a maximum of four with a base of one (checked by
  looking for a `stale` worker in smaller instances, where none is reachable).
  There are as many channels as workers, so a start may have to wait until a
  retired worker is quite gone, which takes only the scheduler.
- Idempotency: three requests for a key, so that one may start anew while another
  still reports the first outcome.
- Session: three messages, so that one may fail between two that are answered;
  two upsets, so that a command to Redis may fail, or a copy be lost, before a
  restart makes the other copy count, or one be lost after it was rebuilt. The
  constraint `MCInTurn` names the messages in the order in which they start, which
  changes nothing because they are alike, and puts the resume after the first and
  before the last. The theorems hold for any number of each, in any order. `MaxActive`
  bounds the requests and cleaners at work at one time: with 1, each ends before the
  next begins (an echo is received between them), while keys expire and the
  backend restarts at any point; with 3, a creation, a message and a reset, deletion
  or listener overlap. Two streams of one session that overlap do lose each other's
  messages in memory and in Redis (each writes back the history it read); nothing in
  the repository promises otherwise, so `AnsweredInContext` and `CachesAgree` are
  checked with `MaxActive = 1`.
- Tokens: no step relates the tokens of two users, so one user with two tokens and
  two requests at a time has every race; four seconds let a token of two seconds be
  issued, cached late and end.
- Uploads: two overlap and a third comes when their files may be recorded, expired or
  being deleted; sizes of 2 with a limit of 2, so one file fills the quota, and three
  could pass what `QuotaBound` allows. `MCInTurn` lets them start in the order of
  their names, which changes nothing because they are alike; it binds only
  the beginning of an upload, to which no fairness is owed, so that `CleanedUp` is
  not made easier by it. The safety properties are proved for any number.
- Chat: a send, an upload and one click of the side bar run against each other; the
  second session gives `removeSession` something to fall back to, and the second
  question something that an earlier load may still overwrite. Files multiply the
  states, and the session they belong to is what matters, so they have a run of
  their own with one session.

Deadlock is checked in the dispatcher, pool and chat runs. In the others all
requests may have been answered, and the clock of `tokens` is bounded. In the
dispatcher `CancelUser`, and in the chat a click, is nearly always possible, so the
check says little there; the liveness properties stand for it.

### The violated properties

They state what the documentation says, and TLC shows a behaviour of the code
that differs.

- `EveryAcceptedJobAnswered`. `CancelUser` forgets the jobs of a user without
  telling the callers, who wait on the result channel only. `CallsReturn`, which
  holds, says that these are the only calls that do not return.
- `OrderOrIsolation`. `src/README.md:48` promises in one breath a queue per user with
  round-robin scheduling (as `worker/dispatcher.go:21` does), "ensuring response
  order and resource isolation even under high concurrency". Neither holds.
  `AnsweredInOrder`: `run` hands each job to a worker and goes on, so two jobs of one
  user run at once and the later may answer first. `ServedInTurn`: `run` takes one
  job from the channel per job it dispatches, so the per-user queues never hold two
  users to choose from, and one user's backlog is started before another user's
  only job. The property is the disjunction of the two, and so is violated only
  where both are: at the end of TLC's behaviour the second job of a user is answered
  while the first runs, and all three jobs of that user were started while the one
  of the other waited.
- `FirstMessageTitled`. The question is stored before the job is queued, and
  `handleStream` gives a title only when the history it has holds no question. When
  the session has to be read from the database in between, the history holds the
  very question being answered. `TitleKept`, which holds, is the other half of the
  same test: once a question was answered, no reload makes a later one look like
  the first, unless Redis lost the history or could not give it.

### What holds and may surprise

- `ImplementsFairFifo`, and the theorem `NothingToChoose`: all users wait in one line.
  That the dispatcher implements `FifoService` is a true account of the code and not
  of its documentation, which promises turns; `OrderOrIsolation` reports the
  difference. What the refinement is worth is that no accepted job of anyone waits
  for ever, unless it is dropped.
- `GrownForGood`. The retention boundary follows `running` up, and comes down only
  while fewer workers run than the boundary less one; but workers are stopped only
  above the boundary. No history of bursts brings a grown pool back to its base, as the
  comments at `worker/pool.go:125` and `:249` might be read to say.
- `SharedOutcome` speaks of requests at work at one time. The entry is deleted as soon
  as it is completed (`api/handlers.go:543`), so a client that repeats a message later
  has it stored and answered again: `src/backend/README.md:10`, "repeated calls with
  the same ID reuse the cached response", is not so once the response is there. The
  only response that is ever reused is one still being made. `RequestsEnd` excepts a
  request whose owner's job was dropped (`OwnerLost`), and those that wait for it.
- `AnsweredInContext` and `TitleKept` except a memory with a `gap`. A history that Redis
  lost, or has but cannot give at the moment, counts as no messages: the model is
  asked without the conversation so far, and the next question is taken for a first
  one and gives the session a new title, although `src/backend/README.md:177` says
  "Existing sessions keep their stored titles". The properties say that this takes
  such a loss, and that nothing else does it.
- `CachesAgree` and `HistoryFollowsSession` except `behind`. When a SET fails nobody
  tries again before the next change of the history; a backend that restarts then
  answers from what Redis last heard, or, when the session was cached and its history
  never was, from nothing.
- `KeysFollowRows` and `KeysLapse`. A revoked token may stay in Redis after a race or a
  failed Del, and is then accepted until its key ends: at most until the row would
  have expired, and the little that a late Set adds. `DeletedUsersOut` names the
  tokens that may outlive their user.
- `QuotaBound`. The quota of `api/handlers.go:715` ("50 MB per user") may be passed, by
  what the other uploads in flight bring.
- `RecordsKept` excepts the files in `shared`, whose path something else had a claim to
  when they were saved: two uploads that found the same name free overwrite each
  other, and the cleaner removes by path what may have been saved anew.
  `FilesAccounted` excepts `leaked`: a save or a record that failed, a stop, a removal that
  failed, the deletion of a user. Neither property rules these out; they say that
  there is no other way to lose or forget a file.
- `ShownIsStored` excepts sessions that went `astray`, where a send crossed a load or one
  of the two failed: the list shown may then lack a message until it is loaded anew.
- `FilesTracked` excepts an upload that a send or a removal `crossed`: `uploadFiles` puts
  back the list it read before its awaits, so an attachment that was sent or removed
  meanwhile may be listed again. It also excepts the opposite case: the end of a send
  empties the list (`store/session.js:286` and `:321`) with what an upload put there
  in the meantime.
- `SendEnds` excepts a failed `createSession` (`stuck`), which `sendMessage` awaits before
  its `try`, so that `sending` stays true and the composer locked until the page is
  loaded anew; and a send whose job the backend dropped (`Lost`), which waits as long
  as the connection stands.

## 4. Fairness

- The goroutine of `run`, the janitor and each worker are scheduled: weak
  fairness of their steps. `p.mu` is a Go mutex, which hands over to a waiter
  after a millisecond.
- `Answer` and `Finish` are weakly fair: `captureInput` gives the job's context a
  deadline of two minutes (`api/handlers.go:407`), so a handler ends.
- `Send \/ EnqueueTimeout` is weakly fair: the timer fires.
- Callers need not call, users need not log out, ticks need not come.
- In `Idempotency` handlers go on until they return; `RefuseDuplicate`,
  `BeginNew` and `LoseJob` are never obliged to happen.
- `Uploads` assumes only the cleaner goroutine (`CleanerFairness`), which runs on a
  ticker: it lists again and again (`SF` of `CleanList`, because a restart may clear
  the list it holds), it finishes a list (`WF` of `CleanEnd`), and what it tries in
  every round succeeds in some round (`SF` of each `CleanRemove(f)` and of
  `DeleteRecord`). Restarts and failures may come any number of times. Uploads and
  deletions owe nothing.
- `ChatStore` assumes that the backend answers, fails or loses a request of the send
  and a question (weak fairness), and that the page reads what has arrived. That a
  lost one is ever answered is not assumed: a job that `CancelUser` dropped never is
  (`EveryAcceptedJobAnswered`). A broken connection is possible at any time and never
  assumed.
- `SessionCache` and `AuthTokens` state safety only, and assume no fairness.

## 5. Proofs

Theorems hold for every value of the constants that satisfies the assumptions:
`DispatcherAssumption` (at least one worker and one place in the queue, which
`NewManager` ensures), `PoolAssumption` (a finite set of channels, no fewer than
the maximum; base at least one and at most the maximum) and
`IdempotencyAssumption`; `SessionCacheAssumption` (the kinds of requests are
disjoint, `Absent` is no history); `AuthTokensAssumption` (the bounds are numbers, a
positive life of a token), `UploadsAssumption` (no file larger than
`maxUploadBytes`, no candidate number the name of an upload) and `ChatStoreAssumption` (finitely many sessions; `None` is no
session and no list; a click of the side bar is neither a send nor an upload).

- **Dispatcher** (`DispatcherProofs`). `IInv` is `TypeOK` and `Shape`: the user
  queues and the list are all empty, or `run` is about to dispatch and they hold
  one job of one user. `QueuesConsistent` alone is not inductive (`EnqueueJob` must
  know what else is queued); it follows from `Shape`, as does `AtMostOneQueued`.
  `NoJobLost` is `Flow`, proved inductive relative to `IInv`, and `Shape`. The
  refinement maps the pipeline, hand, then queue, then channel, to the line of
  `FifoService`; with at most one job outside the channel, moving it from one
  place to the next is a stutter (`RunStutters`), and `CancelUser` drops the front
  of the line or nothing (`CancelDrops`).
- **Pool** (`WorkerPoolProofs`). `IInv` joins the properties with what the
  janitor knows at each of its program points (`JanitorShape`), what the
  dispatcher knows while it holds the lock in `tryBoostBoundary`
  (`BoostShape`), and that the pool is either at its base in every respect or
  grown, with the boundary above the base (`AtBase \/ Grown`). `BaseKept` and
  `GrownForGood` follow from the last; it also covers a boundary read before the
  pool grew and used after, which is harmless because growth finds the idle list
  empty, so that nobody in it has expired. `Shutdown`
  needs that the list of stale workers is a sublist of the idle list with distinct
  elements, which `SequenceLemmas` shows of `Sublist` by counting ranks.
- **Idempotency** (`IdempotencyProofs`). `IInv` adds to the properties where an
  owner's entry is closed, what it has stored and what it will publish at each
  program point (`OwnerShape`), that a closed entry holds its owner's verdict
  (`ClosedShape`), and what waiters have been told (`WaiterShape`).
- **Session** (`SessionCacheProofs`). `ReadyMeansLoaded` is not inductive: a handler
  between `SetSession` and `MarkReady` relies on nobody clearing the memory it
  holds while that is the memory in use. `Installed` says so, and rests on two
  facts about the cleaners: what `ClearState` clears has left the map before
  (`Detached`), and `Purge`, which clears the memory in use, runs only after the row
  is deleted (`RowStages`). `SendsOnly` and `BeforeRow` say who can be where before
  the session exists. There is one lemma per action, with one step per conjunct
  of `IInv` that the action can disturb. `AnsweredInContext`, `CachesAgree` and
  `TitleKept` speak of requests and cleaners that do not overlap: `BoundOfOne` shows
  that `MaxActive = 1`, their hypothesis, makes them so (`OneAtATime`), and
  `SerialInvariance` holds of every behaviour in which they do not overlap, whatever
  the bounds. `Serial` says that the memory in use, unless it has a `gap`, and
  Redis, unless it is `behind`, each cover the messages of the questions that were
  answered, in the order of the database, and agree but for the steps that write one
  after the other (`CopiesCover`); what the handler at
  work knows of the memory it holds and the history it carries (`Handling`), in
  particular that question and answer stand at the end of it when the answer is
  stored; and that every message is stored once, the question at work last
  (`Recorded`). `CacheHistoryFacts` states once what
  the SET of a history, done or failed, leaves in Redis, for the three steps that make
  one. `HistoryWithSession` says that a session in Redis has its history unless the
  last SET of it failed, and `CachesStayAgreed` that memory and Redis agree between
  requests unless a change was not followed; both for every behaviour, with commands
  failing at any step. `CoversMore`, `CoversItself` and `CoversAnswered` are the three ways a
  history comes to cover the database: it grew by something not answered, it was
  read from there, or its last question was just answered.
- **Tokens** (`AuthTokensProofs`). `KeysFollowRows` is not inductive: a request that
  is about to write a key must have a token whose row is still there, or whose
  race was noted when the row went (`CachersNoted`). For `DeletedUsersOut` the rows of a
  user being deleted must be on the deletion's list or issued since (`RowsListed`), and
  none but those be left when the user is gone (`NoRowsLeft`). `InTime` says how long ago
  a request took the time it computes with; `KeysLapse` follows. `TokenStaysOut`, an
  action property, follows from the same invariant: whoever could still write the key
  of a token that is out would have made it exposed.
- **Uploads** (`UploadsProofs`). A held file is one that was saved where nothing else had
  a claim, is saved or recorded, and has not expired. `RecordsKept` is part of `Kept`, a
  held file is at its path, and needs that nothing gets a claim to that path later
  (`Alone`), that a file stored anywhere is at its own path (`Located`), that what the
  cleaner goes through has expired (`TodoOld`) and that files are removed for a session
  only once it is gone (`DeletedFirst`). `FilesAccounted` needs that the record the
  cleaner is about to delete has lost its file (`CleanedFirst`). `Usage` is a sum over
  records, written as the number of bytes in them, the cardinality of a set, so that no
  induction is needed. `QuotaBound` alone is not inductive: what passed the check and is
  not recorded yet counts too. `Ceiling` bounds the bytes of both together; only
  `CheckQuota` adds to them, at a moment when the recorded bytes fit the limit and
  the others at work are at most `MaxActive - 1`.
- **Chat** (`ChatStoreProofs`), in four layers. `Base` is the types and what each async
  function holds at its awaits: an answer to a list request names sessions that were
  created, a load is for a session that was, the arrays a send captured exist
  (`HeldTypes`). `ListInv` gives `ShownOnce`: the lists in the database, those on their
  way and those shown without a send at work are clean, without a message twice and
  without a draft (`StoredClean`, `GotClean`, `ShownClean`); the list a send holds has
  of its question what the events read so far brought, and the events still to come
  bring the rest once (`EventsInv`, `HeldInv`). A load that finishes during a send
  takes the array out of its hands (`LetGo`), which is why the two cannot add up.
  `FilesInv` gives `FilesTracked`: a file is listed only with its own session and never
  while an upload carries it (`FilesApart`), an upload holds all that its session
  lists (`UploadFits`), and what an uncrossed upload holds was not spent (`FilesHeld`).
  `StoredInv` gives `ShownIsStored`: in a session that did not go astray no load and
  question overlap, what a load brought is what is stored (`LoadsAgree`), and while
  a question is open the list shown and the events still to read make up the list
  stored (`Mirrors`), case by case of whether the acknowledgement, the draft and the
  answer have been read.

Only model-checked: liveness (`CallsReturn`, the fairness in `ImplementsFairFifo`,
`AcquireCompletes`, `StopsRetire`, `RequestsEnd`, `CleanedUp`, `SendEnds`), because
fairness and `ENABLED` are beyond the prover. Every invariant and every action property
of the passing runs is a theorem, and so is the safety part of the refinement of
`FifoService`. No module uses a recursive operator.

## 6. Not modelled

- Wording of errors and events, logging, configuration, migrations, views, the
  `debug` worker number. They change no state the properties speak of.
- The branch of `enqueueJob` without a timer (`NewManager` always sets one), and
  jobs of type Stop within the dispatcher (only the janitor sends them, to workers).
- AI service and tools (`service/ai/`): `StreamChat` is one step that answers or
  fails. The history an `aiService` keeps is replaced at each call by the one
  `handleStream` passes, which is never empty, so it matters only while two streams
  of a session overlap, which share the service. (The question is in the history
  passed and is appended again.) The loop of tool calls is inside the provider's
  library; the tools compute an answer from their arguments and files. That every
  error of `Recv` ends an answer as if it were complete (`service/ai/service.go:147`)
  is below the grain of the models, in which an answer is one value.
- Token encryption: AES-GCM of the standard library, with no state. The comparison of
  CSRF tokens and the hashing of passwords: checks of one request.
- Provider tokens (`SetUserToken`, `DeleteUserToken`): one statement each; that the
  deletion resets the worker's state is `ResetUser` in `SessionCache`.
- Of `SessionCache`: the lists of attached files in memory and in Redis, with
  `InvalidateTempFiles`. They have hazards of their own, listed in
  `PROJECT.json`: without an entry for the user `InvalidateTempFiles` leaves the Redis
  list as it is (`worker/manager.go:264`), and a list outlives the files the cleaner
  removes. Several instances (the listener receives what this backend
  published itself, and so the same handler runs); the title inside session objects in memory and in Redis, which nothing compares.
- Of the frontend: the login page (`store/auth.js`), providers, titles and previews.
