# ASWG: a TLA+ model of the session gateway

ASWG (Agent Session Web Gateway) is a Go server that shows the sessions of
coding agents in a browser: it lists them, replays and streams their events
over WebSocket, and continues them by running the agent. Two adapters speak to
agents: *codex* (a CLI process per run, JSONL session files on disk) and
*picoclaw* (a WebSocket service). A plain JavaScript console is the client.

This directory holds TLA+ models of its concurrent core, the TLC
configurations that check them, and proofs that TLAPS checks. Paths below are
relative to the repository; `codex` stands for
`backend/internal/adapter/codex/adapter.go`, `picoclaw` for
`backend/internal/adapter/picoclaw/adapter.go`, `server` for
`backend/internal/server/`.

## 1. Inventory

| Component | State it keeps | Operations | Talks to |
| --- | --- | --- | --- |
| codex: event log and fan-out | per session `events`, `nextSeq`, `subscribers` (channel of 64, `ready`, `backlog`) | `appendEvent`, `Subscribe`, `unsubscribe` | runs and follower append; WebSocket handlers read; deletion closes the channels |
| codex: session table | `sessions`, `deletedSessions`, the cached history index and its age | `CreateSession`, `ensureSessionLoaded`, `GetSession`, `GetSessionEvents`, `DiscoverSessions`, `DeleteSession` | history files; all REST handlers |
| codex: runs | `activeRuns`, `detail.Status`, `idempotency`, locals of the run goroutine | `ContinueSession`, `emit*ContinueEvents`, `finishSessionRun`, `setSessionStatus`, `applyHistoryDetail` | CLI process, event log |
| codex: history follower | `historyOffset`, `historyFollowActive`, `historyFollowPaused` | `ensureHistoryFollower`, `followHistory`, `resumeHistoryFollow` | history file, event log, runs |
| codex: parsers | none | history lines, CLI lines, approvals | runs, loader, follower |
| picoclaw: sessions and runs | as codex, plus `suppressLiveUntil` | continue over a WebSocket to the agent | agent service, event log |
| picoclaw: live watchers | `liveWatchers` (one cancel function per session), `liveDoneSeen`, locals of the goroutine | `ensureLiveWatcher`, `stopLiveWatcher`, `handleLiveMessage` | agent service, status, event log |
| picoclaw: history sync | `events`, `nextSeq`, `deletedSessions`, `history_imported`, `UpdatedAt` | `syncHistorySessions`, at the start of every call | agent's session files, event log |
| server: push | queue, `seen`, `deltaAt`; subscriptions in a map and a file | `Publish`, `loop`, sinks, subscribe, unsubscribe | event observer of the adapters, push services |
| server: presence | counts of connections, which nothing reads | `Add`, `Remove` | WebSocket handlers |
| server: session meta | a map and its file | get, upsert, delete | REST handlers, deletion |
| server: rate limiter | count and window per client | `allow` | REST middleware |
| server: routing | none | REST, WebSocket loop, auth | adapters |
| model: cursors and paging | none | encode, decode, clamp | REST handlers |
| adapter registry | adapters, default | fixed at start | server |
| frontend console | last seq, socket, timers, lists | connect, reconnect, poll, render | REST, WebSocket |
| mock-pico, scripts | | test double, deployment | |

All sessions of an adapter share one `sync.RWMutex`, `Adapter.mu`. It is
held for short sections only, and nearly everything that can go wrong lies
between two sections of the same call.

What is hard here, and what makes each part correct:

* **Event log and fan-out.** Events are numbered under the mutex and sent after
  it, on channels that others may close, to subscribers that become ready while
  appenders run. Correct: nothing lost, nothing twice, in order per connection,
  a reconnecting client resumes without a gap, a slow or leaving subscriber
  does not stop the others for ever.
* **Session table.** Every call checks that the session exists in one section
  and uses it in another; deletions, loads of history files (without the mutex)
  and a cache with a TTL run in between. Correct: a deleted session stays
  deleted, a loaded state is never replaced, each call has the answer the API
  promises.
* **Runs.** A run ends by reply, exit code, timeout, approval request or mock
  fallback; several runs share one session; two other writers set the status.
  Correct: one answer per run, last; status and count follow the runs;
  idempotency keys start one run.
* **History follower.** It starts and stops with subscribers, reads a file
  somebody is writing, and must step aside for runs that log the same messages
  themselves. Correct: one follower, every line once and in order.
* **picoclaw runs and watchers.** The agent sends a session's messages to the
  run's connection and to the watcher's; connections break, texts are replayed,
  a deadline ends a run without a message; both write one status. Correct: one
  terminal message per run unless its deadline passes, each text logged by one
  of the two and once, one watcher, a status that settles.
* **picoclaw history.** Files are read without the mutex and applied later.
  Correct: a deleted session stays deleted, a log never goes back to an older
  file, seq numbers are not used again (they are).
* **Session meta and deletion.** The map changes before the file does, writes
  fail, the process restarts, a deletion is two steps. Correct: what was
  answered is kept, a deletion leaves nothing.
* **Push.** Ids and pace are tested in two sections by many goroutines, the
  queue is bounded, an answer may come after the subscription has changed.
  Correct: once per id, paced deltas, final messages announced, subscriptions
  as the client was told, runs that never wait.

`PROJECT.json` lists all of these under `hazards`, each at its line, with the
properties that cover it.

## 2. Modules

| Module | What it models | Role |
| --- | --- | --- |
| `EventFeed` | what a stream promises: attach, then every later event in order | abstract specification |
| `SessionStream` | `appendEvent`, `Subscribe`, `unsubscribe`, `DeleteSession`'s closing of channels, the loop of `handleWSRoutes` | implements `EventFeed` |
| `SessionTable` | all calls on one session id, at the grain of mutex sections | |
| `RunLifecycle` | continue, run goroutine, status, keys | |
| `HistoryFollow` | follower goroutine, subscriptions, the file, pause by runs | |
| `PicoLive` | picoclaw runs, live watchers, deletion, on one session | |
| `PicoHistory` | the log of one picoclaw session, its history file, the sync | composed by `SessionGateway` |
| `SessionMeta` | the meta store: map and file | composed by `SessionGateway` |
| `SessionGateway` | the server's requests on a session and its meta data, over `PicoHistory` and `SessionMeta` | composition |
| `PushStore` | the subscription store: map and file | composed by `PushDispatch` |
| `PushDispatch` | `Publish`, the loop, both sinks, the browsers, over `PushStore` | composition |
| `MC*` | instances for TLC (symmetry sets) | |
| `Consecutive` | runs of consecutive numbers as sequences, with their lemmas | used by proofs |
| `*Proofs` | theorems about the module they are named after | |

Definitions marked *Mutant* state a plausible slip in the definition that
follows them. They are not part of any specification; each shows that a
property would notice that slip.

### SessionStream

One loaded session. An event is its `seq`. One action per section under `mu`
and one per channel send; `carried`, `cur`, `todo` are the locals of an
`appendEvent` that has left its section and is sending; `sending` is what
`Subscribe` still has to send. `readySubs` is filled from a Go map, so the next
target is any of the remaining ones. A send on a closed channel panics and is
recovered in `sendEvent`: the event is dropped. A connection that reconnects is
another member of `Conns` with the `last_seq` it has kept; `Register` takes any
`fromSeq`. `Register` on a deleted session panics with the mutex locked
(`mu = "leaked"`), as `codex:696` does.

### SessionTable

One id, any number of concurrent calls (`get`, `events`, `subscribe`,
`continue`, `list`, `delete`), each a program counter over the sections of its
code: tombstone check, look-up, `loadExternalSessionIndex` in its own steps
(cached or walked, filtered, stored, cloned), second tombstone check and parse,
insert, use. The table entry is the number of the load that made the state, so
that replacing a state is visible. The history index is one flag for this id,
its age a flag that `ExpireIndex` clears. `down` is the Go runtime's fatal
error for a map read and written concurrently. `late` remembers that a
deletion had already been answered when a call began. `historyEnabled` is
taken to be true.

### RunLifecycle

One loaded session and its runs. `phase` is the run goroutine's program
counter; `lines` bounds the CLI's output; `deltas`, `completion`, `blocked` are
the locals that decide the outcome in `Reap`. `counted` says that the run was
added to `activeRuns`, which a run accepted for a deleted session is not.
`appendEvent` ends with sends outside its section (`sendEvent`, no context): a
goroutine that has logged an event is `sending` and does nothing else until
`Deliver`. The channels themselves are in `SessionStream`; here they are that
wait, of any length.
The writers of the status from outside (`setSessionStatus` by the follower,
`applyHistoryDetail` by `GetSession` and `DiscoverSessions`) are actions with
any argument. `ctx` of a run is `context.Background()` (`server.go:521`), so
the cancellation branches are unreachable and left out.

### HistoryFollow

One history-backed session and its file. A line is the process that wrote it;
positions count half lines, so that a read may end, and a load may stop, in
the middle of one. A follower belongs to the subscription that started it, so
that two of them could exist. `resumeHistoryFollow` is three steps (clear the
flag, stat the file, store the size), `followHistory` one per section and one
for the read. Another program's CLI (`Other`) and the runs' CLIs write the
file; that part is external, and a process finishes the line it is writing
before another begins one. Unreadable files (`err != nil`, retried at the next
tick) are left out.

### PicoLive

One session. `phase` is the run goroutine (`streamPicoSession`), `pc` the
watcher goroutine (`liveWatchLoop`, `liveWatchReadLoop`, `handleLiveMessage`),
one action per section under `Adapter.mu` with the local steps before it. A
text is a model value; `Broadcast` puts it into the connection of every run
that streams and of every watcher, `Replay` puts it into a watcher's again.
`window` stands for `suppressLiveUntil`. `liveDoneSeen` holds the keys of the
texts handled in the last twelve seconds (`liveDoneDedupeTTL`): the
`message_id` of a message that has one (`Identified`), the text of any other.
`ForgetDone` is the passing of the twelve seconds; a text with a `message_id`
is also in the cache of its connection (`cached`), and repeated on it says
nothing new. `DeleteSession` is three sections: `DeleteUnregisters` takes the
watcher off the registry, `DeleteCancels` calls its cancel function after the
unlock, `DeleteRemoves` removes the session with its window and keys. `Ensure`
may start a watcher between any two of them; one started after the second goes
on without a session. The hidden recorder, asked first in one session, delays
a run and is left out.

Two assumptions are about time and are in the module: `KeepsUp` and the guard
of `WindowCloses` say that a watcher reads its copy of a text within the three
seconds after the run that logged it. Without them `NotTwice` fails, which is
what the window is for. Nothing is assumed of the twelve seconds: a watcher
that gives its connection up after 45 silent seconds (`readIdleTimeout`) and
waits up to 15 more before it dials again may be told a text that is forgotten,
and logs a second `message.done` for it. `OneDonePerTTL` counts the times a text
was forgotten (`lapses`, at most `MaxLapses`) and allows one `message.done` more
than that.

### PicoHistory, SessionMeta and SessionGateway

`PicoHistory` counts: the file is the number of its messages, the log its
length, `known` the last version of the file that is not newer than
`UpdatedAt`. The file only grows. `ReadHistory` and `SyncHistory` are the two
halves of `syncHistorySessions`; `SyncHistory` imports, rebuilds or moves
`UpdatedAt`, as the code does. `SessionMeta` is one entry of a map, the same
entry in the file, and a flag that says whether the store has a path
(`server.New` goes on with a store in memory when the file cannot be read);
`Persist(ok)` may fail, `WriteOther` is a write for another session, which
saves the whole map. `SessionGateway` has the requests: each syncs, finds the
session, and then writes the store, with nothing held in between. `Restart`
kills all of it. `expect` is what the last answered write has left, `Unknown`
while writes overlap.

### PushStore and PushDispatch

`PushStore` is the same kind of store, by endpoint. A request of a browser is
the section of the store; the answer after it changes no state of the server, so
`want` is what the last section for the endpoint wrote, whether its answer, or
that of an earlier request, is still on its way or lost. In `PushDispatch`, `pc` is
how far each event is: `new`, `throttle`, `enqueue` are in `Publish`, `queued`
and `taken` in the loop, the rest are ends. `Forget` and `GapOver` are time
passing. The webhook sink has no state here: it ends with an answer or its
client's timeout. `Send` ends in any answer; 404 and 410 come only from
endpoints that were given up (`gone`). `webpush.SendNotification` is called
without a context, so a push service that never answers stops the loop: `Send`
has no fairness, and no property speaks of the progress of the loop, only of the
goroutines that must not wait for it (`PublishReturns`).

## 3. Runs

Twelve configurations. Deadlock checking is off in all of them: sessions are
deleted, callers finish, files and logs reach their bound, and the system may
then rest.

| Run | Shows | Instance |
| --- | --- | --- |
| `stream_safety` | `TypeOK`, `ExactlyOnce`, `BacklogInOrder` | 2 appenders, 2 connections, 2 slots, 3 events |
| `stream_one_appender` | `ImplementsEventFeed`, `EventuallyDelivered`, `ShortHistoryReturns` | 1 appender, 2 connections, 2 slots, 4 events, fairness |
| `table_races` | `TypeOK`, `NoResurrection`, `LateCallsRefused`, `DeletedOnce`, `NeverReplaced` | 3 calls of any kind |
| `run` | `TypeOK`, `ActiveRunsExact`, `RunningWhileActive`, `OneAnswerPerRun`, `IdleMeansAnswered`, `OneRunPerKey`, `EveryRunFinishes` | 2 runs of 2 lines and 1 line, 1 key, fairness, of the clients too |
| `follow` | `TypeOK`, `OneFollower`, `FollowedInOrder`, `FollowerDelivers` | 2 subscriptions, 1 run, 3 lines, fairness |
| `pico_live` | `TypeOK`, `ActiveRunsExact`, `AnsweredUnlessDeadline`, `NotTwice`, `OneDonePerTTL`, `OneWatcher`, `SettlesIdle` | 2 runs, 2 watchers, 1 text with a `message_id`, forgotten once, 1 deletion |
| `gateway` | `TypeOK`, `NoResurrection`, `SavedIsKept`, `NothingLeft`, `SyncForward` | 2 requests at a time, any number in all, 2 values, a file of 2, a log of 3 |
| `push` | `TypeOK`, `OncePerId`, `DeltasPaced`, `FinalsAnnounced`, `SubscriptionKept`, `PublishReturns` | 4 events of one session, queue of 1, 1 endpoint, 2 filters, fairness |
| `stream_long_history` | `SubscribeReturns` is violated | 1 slot, 2 events, fairness |
| `table_stale` | `CallsSound` is violated | 2 calls |
| `follow_lost` | `SubscribersFollowed` is violated | 2 subscriptions, 2 lines, fairness |
| `pico_rewind` | `SeqNeverReused` is violated | 1 call, a file of 2, a log of 3 |

Why the bounds are enough. A channel of two slots fills up, drains and fills
again with four events, and an appender blocks on it while the other
connection leaves; two appenders are what an overtaking needs; of three calls,
two can race and the third observe, or one delete, one load and one walk the
directory. Two lines are what the longest condition of `Reap` needs (a delta
and a completion, or a delta and an approval); the theorems do away with that
bound. Three lines in `follow` allow a line half written at load time, one
read by a first follower and one by a second. Two watchers are the one that
was stopped and the one that follows it; one text is enough to be logged twice,
to be replayed, to be forgotten and to be replayed again; it has a `message_id`,
the case with more code (the cache of the connection); the theorems leave it
open which texts have one; a run can start while another ends. Two requests are what a
race of the gateway has, and each caller may come back with another one after
it was answered. The four events of `push` are two deltas that the pace
separates, a final message whose id is that of a delta, and an event that is
not announced; a queue of one slot is full after one. The theorems do away with
all of these bounds except where section 4 says so.

Bounds that are part of the models: `MaxSeq` (appending stops), `MaxLines`
(the CLI's output, the file), `Capacity` for the 64 slots of a channel.
Histories in `Init` have at most `MaxSeq` events. `MaxFile` and `MaxLength`
(messages of the history file, events of the log) bound `PicoHistory`.
`MaxLapses` bounds how often `PicoLive` forgets a text. `Capacity`
of `PushDispatch` is `PushQueueSize`.

### Fairness

* `SessionStream`: weak fairness of each send and of each connection's
  handler: goroutines are scheduled and a network that takes frames. The
  server sets no write deadline, so a client that stops reading without
  closing stops its handler; `EventuallyDelivered` does not speak about that
  case. No fairness of appending, leaving, deleting.
* `RunLifecycle`: weak fairness of each run goroutine. It includes that a CLI
  process ends, which `cliTimeout` (always positive, `loadRuntimeOptions`)
  enforces for the process itself, and that its output ends with it. And
  `ReadersGoOn`, weak fairness of `Deliver`: the same assumption about clients
  as in `SessionStream`. The code does not see to it: `sendEvent` has neither
  context nor deadline, and without `ReadersGoOn` TLC finds a run that logs its
  prompt and never goes on, because one client has stopped reading and not
  closed. So `EveryRunFinishes` is a statement about sessions whose clients
  read on or leave; with no client subscribed it needs nothing of them.
* `HistoryFollow`: weak fairness of the follower (its ticker ticks), of a
  `Subscribe` under way, and of a run that is ending. None of writers:
  a line may stay half written for ever. `LogNext` and `EnsureHistoryFollower`
  are steps that happen, which takes it that `appendEvent` and `Subscribe` do
  not block: that clients read on or leave, as above, and that what a client
  asks for fits its channel; the first disagreement below is what happens
  otherwise, so `FollowerDelivers` is about short histories.
* `PushDispatch`: some goroutine that is in `Publish` takes its next step. None of
  the loop, which waits for the webhook and the push services.
* `PicoLive`, `PicoHistory` and `SessionGateway` assume none and have no
  liveness property: a watcher waits for a service outside, and nothing bounds
  how long.

### Disagreements between code and documents

1. More than 64 events to resend and `Subscribe` never returns
   (`stream_long_history`; api-contract-v1.md 5.1). Channels, tests and the
   console's small histories hide it.
2. A deletion between check and use: `GetSession`, `GetSessionEvents` and
   `Subscribe` panic, the last two with the adapter's mutex held for ever;
   `ContinueSession` accepts a run for nothing; and the index map is iterated
   after it was published, while a deletion writes it. `CallsSound` is the
   conjunction of the three. The counterexample of `table_stale` is
   `GetSessionEvents` (`codex:595`): the nil entry is met under the read lock,
   which stays held (`mu = "read"`), where api-contract-v1.md (line 366) has
   code 4003 for a session that does not exist.
3. A subscription that begins while the follower leaves is not followed
   (`follow_lost`).
4. A history sync rebuilds a log from fewer messages than it had events, and
   `seq` starts again behind what clients have seen (`pico_rewind`;
   api-contract-v1.md 5.3).

Seen while modelling, without a run of their own:

* `seq` on one connection is not monotonic with two appenders: events are
  numbered under the mutex and sent after it. With one appender
  `ImplementsEventFeed` holds; with more only `ExactlyOnce` does, and a frame
  is early by at most the number of the other appenders (`NearlyInOrderAlways`).
* A picoclaw run that meets its deadline ends without `message.done`, although
  api-contract-v1.md 4.7.5 (line 313) says of a failure at run time, a timeout of
  the CLI being its example: "应输出 `message.done`，并在 `payload.raw_type=assistant_error`
  中携带错误文本". `AnsweredUnlessDeadline` leaves these runs out (`silent`) and says
  nothing of what they log; for all others the contract is kept.
* The comment at `picoclaw:1411` says that a session is not left running when
  the connection drops; it is when the drop comes while the watcher is
  suppressed and the run that suppressed it has already set `idle`
  (`unsettled` in `SettlesIdle`).
* A delta enters its id into `seen` before its pace is looked at, and keeps it
  there when it is held back or dropped from a full queue, so its repetition is
  not pushed either. A delta without a `message_id` has the id of its seq; when
  that seq was taken back (4.) and is used again for a final message, the final
  message is taken for a duplicate of the delta that was held back, and nothing
  is pushed under the id, where ios-webpush.md (line 22) says "会话出现 `assistant`
  消息后，后端发送 Web Push". With `MCPushDispatch`: `deltaA` passes and paces the
  session, `deltaB` (seq 2) is held back, `final` (seq 2) is a duplicate.
  `FinalsAnnounced` leaves out the messages whose id a held-back delta has
  (`HeldBack`); without that TLC finds these steps. A picoclaw reply whose
  `message.done` has no text is not announced either, only its deltas are, and
  those as far as their pace allows.
* A text that picoclaw repeats after twelve seconds is a second `message.done`
  (`lapses` in `OneDonePerTTL`); no document says for how long it should not be.

What holds when these are set aside is checked too: `Subscribe` returns when what
it sends fits the channel.

## 4. Proofs

TLAPS proves, for every value of the constants:

* `SessionStreamProofs`: `TypeCorrect`, `BacklogInOrderAlways`,
  `ExactlyOnceAlways`, for any finite set of appenders and any connections,
  capacity and history, and `FeedImplemented`, the refinement of `EventFeed`,
  for one appender. Before a subscriber is ready its channel, pending history
  and backlog follow one another without a gap (`InLine`), because appenders
  turn to ready subscribers only (`CarryInv`). Afterwards the events it asked for
  are those received, in its channel or carried to it, and as many places hold
  one as there are events (`Counted`): appenders are finitely many so that this
  count exists. With one appender the count leaves room for one event, the last
  one published, so what a channel is given is what comes next (`Streaming`);
  each step of the stream is then a step of the feed or none (`FeedSteps`).
  The first disagreement of section 3 is settled for every capacity, not only for
  the one of the run: `ShortHistoryHasRoom`, as long as the events asked for fit
  the channel no send of `Subscribe` finds it full; `LongHistoryNeverReturns`,
  once they do not, nothing but a departure or a deletion ends the call. Both
  follow from `InLine` and from the bound of the channel (`ChannelInv`).
  `SubscribeWindsDown`: the flush loop uses up some of the channel in each send
  and each turn, so `Subscribe` takes at most 2 * `Capacity` + 1 steps of its own
  however fast events are appended; with `ShortHistoryHasRoom` this is what
  `ShortHistoryReturns` rests on besides the scheduling.
  `NearlyInOrderAlways` bounds how far the frames of a connection are out of
  order: the i-th frame is early by at most the number of appenders less one,
  for a frame can have overtaken only what the others carry (`Counted`); with one
  appender this is the order of `FeedImplemented`.
* `SessionTableProofs`: `TypeCorrect`, `NoResurrectionAlways`,
  `NeverReplacedAlways`, `DeletedOnceAlways`, `LateCallsRefusedAlways`, for any
  set of callers. Assumption: `Nobody` is no caller. Only `Insert` and `Remove`
  write the table and both look at the tombstone in the same section, which
  makes the first two inductive as they stand. The third needs that a
  successful deletion has left its tombstone (`DeleteInv`). The fourth needs the
  path a late call can take (`LatePath`): it never gets past the first
  tombstone check, or it is listing and meets the filter.
  `UnsoundOnlyWhenDeleted` bounds the second disagreement: without a deletion
  after the check `CallsSound` holds and the mutex is free, because a call past
  its check finds the session loaded (`LoadedInv`).
* `RunLifecycleProofs`: `TypeCorrect`, `ActiveRunsExactAlways`,
  `RunningWhileActiveAlways`, `OneAnswerPerRunAlways`,
  `IdleMeansAnsweredAlways`, `OneRunPerKeyAlways`, for any finite set of runs,
  any keys and output of any length. The count is not inductive alone:
  `Finish` subtracts one, which is right because in a live session every run
  that was accepted was counted (`AllCounted`); the status follows from
  `StatusFollows`. The answer needs, per run, that a live log is empty exactly
  until the prompt is logged (`EmptyAtFirst`) and that the log has an end
  exactly when the run is past its last event (`EndedWhenAnswered`).
  `IdleMeansAnswered` combines the two: idle means no goroutine at work, so all
  have finished, so all have answered.
  `RunsWindDown` is what `EveryRunFinishes` rests on besides fairness: each
  step of a run, the return of its sends included, lowers the number of steps
  it has left (`StepsLeft`) and no step of anyone raises it.
* `HistoryFollowProofs`: `TypeCorrect`, `OneFollowerAlways`,
  `FollowedInOrderAlways`, for any set of subscriptions, runs and writers and a
  file of any length. The second is inductive: a follower is started and
  stopped in the section that writes the flag. The types say that no offset
  lies beyond the end of the file, which holds because positions are only taken
  from the file and the file only grows. For the order, what has been logged
  and what a follower has still to log are two adjoining stretches of the file,
  and end at the offset or, between a read and the section that stores where it
  stopped, at that position (`InOrder`); one follower at a time keeps the
  offset from moving during its read.
  Four theorems follow from it about steps. `ReadsWhatIsLeftAlways`: of the
  complete lines since the load a read returns exactly those that are not logged
  yet. `OffsetForwardAlways`: the offset never goes back, because a follower that
  has read stands at or ahead of it (`Ahead`). `FollowerWindsDown`: each step of
  the follower brings a line that is complete and not logged nearer to the log,
  and no other step puts it off (`StepsToLog`), which is what `FollowerDelivers`
  rests on besides the scheduling. `LostOnlyByLeavingAlways` bounds the third
  disagreement: a session that is subscribed to loses its follower in no other
  step than the second section of one that leaves, and gets one again only by
  another subscription. With runs, which move the offset back and forth, there
  remains `OnlyNewLinesAlways`: no line that began before the load is logged,
  because no position that may still be read from or stored lies before it
  (`NewInv`).
* `PicoLiveProofs`: `TypeCorrect`, `ActiveRunsExactAlways`,
  `AnsweredUnlessDeadlineAlways`, `NotTwiceAlways`, `OneDonePerTTLAlways`,
  `OneWatcherAlways`, `SettlesIdleAlways`, for any finite sets of runs and
  watchers and any texts and deletions. `OneWatcher` says that the watchers that
  go on are the registered one and those a deletion has taken off the registry
  and not cancelled yet; it needs that no watcher is in both roles, nor in two
  deletions' hands (`WatcherInv`). `NotTwice` needs where a text may still be
  while a run streams: what a run may log was not let through by a watcher, and
  what a watcher has read is not in a run's log once suppression is over
  (`LogInv`). `OneDonePerTTL` needs that what is logged for a text, and what
  watchers are past the check with, is no more than the times it was forgotten
  and the once it is remembered (`DoneInv`). `SettlesIdle` needs which watcher
  still owes the `idle` (`SettleInv`).
* `SessionGatewayProofs`: `TypeCorrect`, `NoResurrectionAlways`,
  `SyncForwardAlways`, `SavedIsKeptAlways`, `NothingLeftAlways`, for any number
  of requests and a file and log of any length. The sync tests the deletion and
  compares with `UpdatedAt` in the section that applies; `SyncForward` needs
  that what a log shows is not newer than `known`. `SavedIsKept` needs what the
  one write under way may do to the entry, `NothingLeft` that a PUT past
  `Find` of a deleted session was overtaken.
  `ImplementsAdapter` and `ImplementsStore`: each step of the composition is a
  step of `PicoHistory` or none, and likewise of `SessionMeta`. On the first
  rests `OwnSeqsKeptAlways`: the fourth disagreement is about imported sessions
  only; in one that was created here no seq is sent twice, because what clients
  have been sent is never longer than its log (`KeptInv`).
* `PushDispatchProofs`: `TypeCorrect`, `OncePerIdAlways`, `DeltasPacedAlways`,
  `FinalsAnnouncedAlways`, `SubscriptionKeptAlways`, for any events, queue and
  endpoints. An event let through has its id in `seen` or in `lapsed`, its
  session in `paced` or in `relaxed`; both are entered in the section that
  tests them.
  `ImplementsStore`: each step is a step of `PushStore` or none.

`Consecutive` states once what it means that a sequence counts on from a number
(`Follows`) and how that is kept when the sequence grows, shrinks or is joined;
the proofs of the event log and of the follower cite it.

Model-checked only: the liveness properties (`EventuallyDelivered`,
`ShortHistoryReturns`, `EveryRunFinishes`, `FollowerDelivers`, `PublishReturns`
and the two that are violated), which need fairness and are out of the prover's
reach.

## 5. Not modelled

* Rate limiter: one counter per client, read and written in one section. Its
  buckets are never removed and a fixed window lets twice the limit pass around
  its edge; a model would restate that.
* Cursors and paging, DTOs: conversions and slices of values.
* Presence counts: nothing reads them.
* codex parsers, labels, titles; the alias merge and the summary parser of
  `DiscoverSessions`; `ensureGatewayRunning` (starting the agent's process, once per
  dial that fails): text conversions and I/O. What they decide is an input of the
  models.
* Idempotency keys, event order and channels of picoclaw: the code repeats that of
  codex, modelled in `RunLifecycle` and `SessionStream`.
* Configuration, HTTP parsing, authentication, WebSocket framing, the registry
  (written once at start): no shared state, or none that changes.
* The console renders what it gets in one thread; the mock service and the
  scripts are no part of the system.
* What a run owes while it and the follower write one log (the pause is a flag
  and not a count, the offset is set in a later section): the steps are in
  `HistoryFollow`, but no document says what is owed.
