# TLA+ models of omniweb-agents

This directory holds TLA+ models of the parts of omniweb-agents that spend money, publish, react to events, run sessions,
and keep what they know - posts and sources - in a database and files, with the TLC configurations that check them and the
TLAPS proofs about them. The reference is the code: every definition is translated from it (`PROJECT.json`, "map", gives
the lines), and where a document, a comment or a message of the program says something else, a
run or section 3 says where they differ.

Paths below are relative to the repository root: the toolkit is `src/toolkit/`, the commands are `cli/`.

## 1. Inventory

omniweb-agents is a TypeScript toolkit for agents that observe, attest and publish on the SuperColony network over the
Demos chain. Three kinds of processes act for one wallet: the session runner (`cli/session-runner.ts`, by command),
the event runner (`cli/event-runner.ts`, under systemd) and programs that call the toolkit's tools. They do not talk to
one another; they share files (`FileStateStore`, JSON state under the home directory) and the chain.

| part | state | operations | hard behaviours | correct when |
|---|---|---|---|---|
| pay tool and guards (`src/toolkit/tools/pay.ts`, `guards/pay-*.ts`, `state-store.ts`) | spend ledger and receipt log per wallet, lock files | check receipt, reserve, settle, roll back, deliver, record | concurrent calls, crash between any two awaits, refused or lost settlement | the rolling cap holds, no payment is forgotten, a receipt prevents a second payment, locks come free |
| write-rate ledger and writers (`guards/write-rate-limit.ts`, `guards/state-helpers.ts`, `cli/publish-executor.ts`, `tools/publish.ts`, `cli/event-runner.ts`) | entries per wallet, entries of the reactive key | reserve, roll back, check, record | reservation against check-then-record, roll back by timestamp, entries stamped before the lock | no slot lost or stolen, limits kept |
| event runner (`src/toolkit/reactive/`, `src/reactive/`, `cli/event-runner.ts`) | snapshot per source, feed cache, watermark file, stream cursor | poll, warm up, diff, dispatch, save, stop | interleaved polls, failed requests, restart, stream fall-back | no event twice without a reason, none missed, polling never ends |
| dedup, tip and back-off guards (`guards/dedup-guard.ts`, `tip-spend-cap.ts`, `backoff.ts`, `tools/tip.ts`, `tools/publish.ts`) | two logs per wallet | check, record | several sessions between the check and the record of a transaction | logs within their limits, and nothing kept out of them without another's entry |
| session (`src/toolkit/session.ts`, `tools/connect.ts`, `tools/tool-wrapper.ts`) | signing handle, last activity, expired flag | touch, ask, disconnect, connect | expiry while a call is under way, a touch before the question | calls of an expired session get no bridge |
| SDK bridge and transactions (`src/toolkit/sdk-bridge.ts`, `chain/tx-pipeline.ts`) | none beyond a call, but for the auth token | store, confirm, broadcast, attest with retry | an error for a transaction that has landed | its callers bear that |
| spending policy, tips, budget (`src/lib/spending-policy.ts`, `tips.ts`, `src/plugins/tips-plugin.ts`, `budget-tracker.ts`) | day's ledger, tip state | load, check, spend, record, save, warm up | crash between transaction and save, change of the day, two states in two files | daily cap, one tip per post, warm-up before live |
| session runner and V3 loop (`cli/session-runner.ts`, `v3-loop.ts`, `publish-executor.ts`, `src/lib/state.ts`) | state and lock file per session, session number in `improvements.json` | start, acquire, phase, publish, resume, clean up, time out, interrupt | lock left by the dead, crash between post and save, resume beside a running process | one process per session, no phase undone, no post forgotten, sessions keep ending |
| scheduled tool loop, V2 state (`cli/run-loop.ts`, `src/lib/state-v2.ts`) | temporary files | one tool after the other | - | superseded |
| source registry (`src/toolkit/sources/`, `src/plugins/lifecycle-plugin.ts`, `cli/source-lifecycle.ts`) | catalogue file, token buckets | sample, test, move, replace the file, fetch | whole-file writes of several processes over one temporary file | sources move along the automaton, the file can always be read |
| colony database (`src/toolkit/colony/`, `cli/v3-loop-helpers.ts`, `cli/sse-sense-adapter.ts`) | SQLite tables, back-fill offset, reaction cache, dead letters | walk the feed, ingest a window of the chain, ingest a window of the feed, back-fill, retry | four writers, crash between two rows, failed requests | nothing passed over, no gap, full rows stay full but for one race, newest posts arrive |
| agent loop (`src/toolkit/agent-loop.ts`, `agent-runtime.ts`, `util/limiter.ts`) | iteration, abort signal | observe, decide, act | abort, errors | loop ends when told |
| strategy, quality gates, providers, compiler, LLM, primitives | none, or caches | pure decisions, requests | - | data-heavy, not state machines |
| reporting commands, TLSN browser bridge, consumer package | files | one-shot | - | I/O |

How they interact: the publish executor, the publish tools and the event runner's action executor call the write-rate
guard with the same `FileStateStore`; `pay()` calls its two guards; the sources of the event runner share one feed cache
and one watermark store; everything that publishes goes through the SDK bridge to the chain. Before a session acts it
fills the colony database and reads its observations from there, and its hooks after acting tip posts and test sources.

The hazards - what a test would hardly reach - are listed with their lines in `PROJECT.json`, "hazards".

## 2. Modules

| module | what it is |
|---|---|
| `SpendBudget` | abstract specification: what a rolling cap promises, with no files or processes |
| `Pay` | `pay()` with both guards over the file store, for several callers |
| `MCPay`, `MCPay*.cfg` | its instances for TLC |
| `PayProofs` | theorems about `Pay` |
| `WriteRate` | the shared and the reactive write-rate ledger with all their writers |
| `MCWriteRate`, `MCWriteRate*.cfg` | its instances |
| `WriteRateProofs` | theorems about `WriteRate` |
| `EventLoop` | the event runner: polling chains, sources, cache, watermarks, replies, process life |
| `MCEventLoop`, `MCEvent*.cfg` | its instances |
| `EventLoopProofs` | theorems about `EventLoop` |
| `SessionRun` | the session runner: processes, lock and state files, phases, posts, ends of all kinds |
| `MCSession`, `MCSession*.cfg` | its instances |
| `SessionRunProofs` | theorems about `SessionRun` |
| `ColonySync` | the colony database and its four writers: feed walk, chain window, feed window, back-fill |
| `MCColony`, `MCColony*.cfg` | its instances |
| `ColonySyncProofs` | theorems about `ColonySync` |
| `Spending` | bets and tips of the sessions, under the spending policy, over its two files |
| `MCSpending`, `MCSpending*.cfg` | its instances |
| `SpendingProofs` | theorems about `Spending` |
| `ToolCalls` | the toolkit's `publish()` and `tip()` with dedup and tip guard, session expiry and reconnection |
| `MCToolCalls` | its instance |
| `ToolCallsProofs` | theorems about `ToolCalls` |
| `SourceLifecycle` | the source catalogue: sampling, tests, state machine, and the file under hook and command |
| `MCSources` | its instance |
| `SourceLifecycleProofs` | theorems about `SourceLifecycle` |

Definitions whose name extends the name of another one (`ReserveIgnoringAmount` beside `Reserve`, `EventsNewestOnly`
beside `Events`) are not part of the models: they are the faulty variants that show each property to be sensitive to a
plausible bug; no specification uses them.

### Pay

One caller is one call of `pay()` in some process of the wallet; `pc` names the await it is at. `ledger` and
`receipts` are what `loadState` would return from the two state files, `lock` the lock files of `proper-lockfile`
(`Stale`: its holder died). `FileStateStore.set` is `writeFile`, which truncates first: between truncation and write the
file reads as its default, so `Reserve`, `Undo` and `Record` empty the file and `ReserveWrite`, `UndoWrite` and
`RecordWrite` fill it. `checkPayReceipt` (lock, load, find, unlock) is one step, `Start` or `Replay`, as nothing is
written. The server and the chain are external: a server demands some amount of a small set, `payD402` settles, is
refused, or throws with the money moved or not. `entry` is the call's request and then its reservation; amounts are
counted unit by unit (`Units`), so that sums can be proved about.

Left out: the content of requests and answers, allow-lists and URL checks (one action, `NoPayment`, for all of them),
and `checkPaySpend`/`recordPaySpend`, the older pair of functions nothing calls.

Bounds: `MaxTime` stops the clock, `MaxReservations` the number of reservations. The instance has two callers, two
requests, a cap of two payments, a window of one time unit and a retention of two within a clock of two: reservations
expire, are pruned by another caller and rolled back after that, and receipts outlive the window.

### WriteRate

Entries of a ledger are a bag of timestamps (`ledger[t]`). Each access runs under the file's lock in the code and is
one step here; the lock itself is modelled in `Pay`. A session (publish executor) takes its timestamp (`BeginReserve`),
then waits for the lock (`Reserve`), drafts and publishes (`Publish`, `Skip`, `PublishLate` when something throws after
the post has landed) and rolls back by timestamp. Tools and reactors check, post and only then record; the refusal of
`checkAndRecordWrite(..., true)` is ignored by them, as in the code. Reactors have a second ledger with limits computed
by subtraction. `kept`, `leaked` and `disturbed` are history.

The passing run has one writer of each kind, limits of two a day and one an hour, a day of two hours and all faults: each
window closes while writers wait. `ReactiveBase` is 4 in the code where the limit is 5; the passing run gives it the
limit's value, `MCWriteRateReactive` the value in the code.

### EventLoop

Posts are numbered in the order they appear. Each source has one chain of promises, `pc`: timer, request, threads,
answer, dispatch, watermark. Three kinds of sources: over the shared feed (`social:replies`, `social:mentions`, ...)
through `feedCache`; over a search with a look at each thread (`social:opinions`); over the SSE stream with its cursor,
failure count and fall-back to the feed (`sse:feed`). An answer is computed when the server answers (`Answer`) and used
when it arrives (`Arrive`), so answers overtake one another and an older one may replace the cache; requests can take
long because `apiCall` retries a 502 three times. A failed request is an empty answer, a failed thread look-up an
unanswered thread, as in the code. `seeded`, `warm`, `based`, `snap` are `seeded`, `hasWatermark`, and the presence and
content of `snapshots[src.id]`. The watermark's value matters in the code only by being there or not. `Stop`, `Exits`,
`Crash` and `Restart` are SIGTERM, `process.exit`, death, and systemd.

Abstracted: adaptive intervals (a timer fires at any time), the handlers' wording and filters (every post asks for a
reply and gets one, or its handling fails), and the own-hash filter.

Bounds: `MaxPosts`, `MaxTroubles` (faults in a behaviour), `MaxReconnect`, `FeedLimit`. Two posts, of which the server
returns the latest two, and one or two faults in any place: an event is repeated after exactly one fault followed by a
good answer, so more of them would only repeat the patterns; the theorem has no bound. `MCEventStream` checks the one
property that the stream source, as a second writer of the cache, could break.

### SessionRun

A process is one run of `session-runner.ts` for one agent; `pc` is the point it has reached. It starts a new session with
the number of `improvements.json` (`StartNew`; `next = 0` is a file that does not parse, which counts as number 1) or
resumes the latest session whose state file parses (`StartResume`), as read before the lock is had. `acquireLock` is one
action per system call: `Create` (`O_CREAT | O_EXCL`), `WriteLock`, `Inspect`, `Steal` (`unlink`), `Recreate`. A lock file
is "empty" until its pid is written; `owner` is who created it, `NoProc` once that process is dead. From `Save` on the
process has the lock: `Begin` and `Complete` are `beginPhase` and `completePhase` with their `saveState`, `Publish` is the
post on its way, `Record` its return (`appendState`, logs, counter, `saveState`), then `Increment`, `Clear`, `Release`,
and `ReleaseLast` in the `finally` block. A state is reduced to its completed phases and its posts: pending, in progress
and failed phases are all run again.

The faults: `Fail` (a phase throws; the handler saves and calls `process.exit`), `PublishLate` (the post has landed and
`publishPost` throws), `RecordUnlogged` (the log throws after `appendState`), `Timeout`, `Interrupt`, `Crash`, and a
death inside `writeFileSync` (`TearState`, `TearNumber`). `checked`, `unlogged` and `forgotten` are history; `forgotten`
grows in exactly the steps in which the code drops its last record of a post.

`Overlap` says whether the lock calls of two processes may interleave. They may, if two processes are started within the
same instant; `MCSessionRace` has the consequence. With `Overlap = FALSE` (`Alone`) one process at a time is between its
start and its lock, a matter of milliseconds: whoever starts sessions, by hand or from a script, does not start two at
once; all else still interleaves freely, and a process that was killed inside `acquireLock` leaves whatever it had
written.

Left out: V1 and V2 sessions, which `session-runner.ts:1215` refuses (among them those of `scripts/scheduled-run.sh`),
dry runs and shadow mode, light actions, which topics are posted (so a resumed ACT may post a topic again), and a pid
reused by another process, which would make a dead lock look alive.

Bounds: `MaxSession`, `MaxPosts`, `MaxTroubles`. Two processes are what one lock, one resume and one theft need; two
numbers let a session follow another or be repeated. `PostsAccounted` speaks of each post by itself, so one post is
enough; two faults leave a lock or a state and strike the process that meets it. The theorems have none of these bounds.

### ColonySync

Posts, reactions and dead letters are rows of SQLite tables; the chain is a numbered sequence of transactions of which
`head` are there. A session is one process with three stages in a row: `Sync` is one page of `syncColonyFromApi`
(`api-backfill.ts`), newest post first, which ends at a page without news, at the end of the feed, or - foreign keys are
on - when a reply comes before its parent (`Orphans`); `IngestChain` is the chain window of `v3-loop-helpers.ts`, one
transaction with foreign keys off; then comes the window of `sse-sense-adapter.ts`: `FetchFeed` is the answer of the
API, and post by post `LookUp` is `getPost` and `InsertRow` is `insertPost`, which stores it without thread and tags
(`bare`). These two are separate statements, and what another process stores in between is overwritten: `overtaken`
notes that it has happened to the row at hand. The back-fill (`backfill.ts`) is a second process: `StartFill` from the
saved offset or from the start, `Fill` one page of transactions up to `limit`, the offset behind it, `FillEnds` and the
recount of the reaction cache. `cut` is history: what the limit of a back-fill stopped before, in a page that the offset
then passed; so is `abandoned`: the reactions that a back-fill cut short by a failed request or a crash has left
uncounted, until a later run recounts them. Failing requests end a stage, as in the code, and `CrashSession` and
`CrashFill` strike between two rows of a page.

Left out: authors, votes and text, proof ingestion and the retries of dead letters, which work on rows already there,
intelligence tables, embeddings and queries. What a decoder makes of a transaction is its `Kind`; a malformed one becomes
a dead letter.

Bounds: six transactions: a post, a reaction, a reply whose parent nobody knows, one that does not decode, a reply to
the first post, and one more post; pages, windows and limit are so small that the walk takes several pages, the windows
miss posts, and the limit cuts a page of the back-fill. Two faults of three kinds. `MCColonyRace` has two posts and no
fault. The theorems have no bound.

### Spending

A session loads the ledger (`StartSession`), places bets one by one (`PlaceBet`: `canSpend` and `checkSessionBudget`
before the transaction; `BetReturns`: `recordSpend` and `saveSpendingLedger` after it), then runs the tip hook: `OpenHook`
counts the warm-up, filters all candidates against the state as loaded and loads the ledger again; `Tip` checks a
candidate; `TipReturns` records in memory; after the loop `SaveSpends` and `SaveTips` write the two files one after the
other. `number` is the session's number, which a session that crashed leaves to the next. `Midnight` may strike anywhere.
Transactions are refused, do not land, or land and report an error; a tip that throws ends the hook and all that it has
recorded. `history` says what has landed and what of it no file will ever know.

Left out: scores, the cool-down between tips and the allow-list, which choose among candidates (the model takes any
choice); `budget-tracker.ts`, which estimates costs for a report; the light strategy's tips, which never come near the
ledger (see below). The policy's dry run is left out, as `runV3Loop` refuses every oversight but `autonomous`
(`v3-loop.ts:58`). Sessions run one after the other: those of one number exclude each other, as `SessionRun` shows, and
the number grows at the end of a session only.

Bounds: four sessions over two days, four posts of two authors, caps that a few spends exhaust, two warm-up sessions of
which one may crash and be started again, two faults in any place. `CHECK_DEADLOCK FALSE`, as the sessions of a behaviour
are counted.

### ToolCalls

A call of `tip()` or `publish()` checks its guard's log (`Check`), then asks for the bridge, which an expired session does
not give, sends its transaction (`Land`) and records it (`Record`: check and write under the store's lock; a refusal is
ignored by the tool). `log` holds the entries of both guards, told apart by what they are about. Sessions are independent
processes on one wallet; the calls of one session follow one another, as `session.ts` demands. `Begin` touches the session
first, `Look` is a call that asks for the bridge without a touch, `Disconnect` and `Connect` are the calls of that name.
The store is one step per access; `Pay` has its locks in detail.

Left out: `maxPerTip`, which tests only the input, the wallet and its policies, the refresh of the auth token.

Bounds: two interchangeable sessions, a post and a text, two tips per post and day, a day of three ticks in a clock of
four, so that entries leave the window, three transactions and a fault. `CHECK_DEADLOCK FALSE`, as clock and transactions
are bounded.

### SourceLifecycle

`catalog` is the file as `loadCatalog` finds it. The hook (`Load` with a sample of `sampleSources`) and the command
(`Load` with any selection) read it, test sources (`Tested` is `updateRating`, `Transition` is `evaluateTransition`, over
the same conditions in the same order), and write the whole catalogue back: `Open` truncates `catalog.json.tmp`, `Write`
fills it, `Rename` moves it. A process that still writes to a file that another one has renamed writes into the catalogue
(`at`). `Crash` may come between any two of these; `Quit` is a dry run, or a command whose test throws. `alone` and
`shared` are history.

Left out: how a test is done (its outcome is chosen), the token buckets (`rate-limit.ts`), fetch, cascade and matcher, and
records that do not validate.

Bounds: two sources, one rated 50 as all of the repository's catalogue, one rated 60, from which a recovery is possible;
thresholds of one and two in place of three to fourteen; a hook and a command in three runs. `CHECK_DEADLOCK FALSE`, as
runs and days are bounded.

## 3. Runs

| run | shows |
|---|---|
| `MCPay` | with crashes, throws, refusals and lost deliveries, two callers keep the cap, forget no payment, hold no money without a reason, never pay again for a known receipt, lose no lock; `Pay` implements `SpendBudget` |
| `MCWriteRate` | no slot is lost or stolen in any interleaving; recorded posts stay in the limits; without overlap all posts do |
| `MCWriteRateReactive` (violation) | a third reactive post in an hour, where message and decision record say two |
| `MCEventLoop` | feed and opinion source with all faults: repeats only for a reason, nothing missed, polling goes on |
| `MCEventStream` | repeats only for a reason also beside a stream source that falls back on the shared feed, two faults |
| `MCSession` | with all faults: one process per session, a file fit for a resume at every await, completed phases stay, no post disappears without a reason, and sessions keep coming to their end as long as somebody starts them |
| `MCSessionRace` (violation) | two processes in `acquireLock` at once both get the lock: one takes the other's file, created and not yet written, for a corrupt one |
| `MCColony` | with failing requests and crashes between rows: the back-fill's offset passes nothing but what its limit cut, the walk down the feed leaves no gap behind it, the reaction cache lacks only what a run cut short has left out, full rows stay full unless one was stored between a session's look-up and its insert, and the newest posts arrive as long as sessions are started |
| `MCColonyRace` (violation) | without any fault, a post that the back-fill stores in full between `getPost` and `insertPost` of the feed window loses its thread and tags, where the code says that known posts are skipped |
| `MCSpending` | with refusals, lost answers and crashes: a day stays within its cap but for what was lost, no post is tipped twice unless its tip was forgotten, a recipient gets at most one tip a day more than the limit (of two, here), none comes before the warm-up |
| `MCToolCalls` | the logs stay within their limits however calls interleave, and a transaction that landed is kept out of its log only because of another session's |
| `MCSources` | the catalogue can be read at every moment unless two processes had the temporary file at once; runs that do not overlap move it from one test of its sources to the next, along the automaton |

Deadlock is checked in the runs of `Pay`, `WriteRate`, `EventLoop`, `SessionRun` and `ColonySync`: a caller can always
start a call, a source poll again, a writer begin. The other runs bound what may be started, so that they end.

Every property of a passing run is shown to be sensitive by a mutant, listed in `PROJECT.json`: a back-fill that
advances by its page size even at the end of the chain (`PassedByPageSize`), a window of the feed that inserts without
looking (`LookUpNothing`), a warm-up that counts a session twice (`WarmedAlways`), a record of a tip without a second
check (`RecordUnchecked`), a catalogue written in place (`OpenInPlace`), and so on.

### Fairness

`MCPay`: every step of a running call (`Step(c)`) and the expiry of stale locks are weakly fair: Node runs every settled
promise, network calls end in an answer or an error, `proper-lockfile` takes over locks of dead holders after their
time-out. Crashes and new calls are never forced. `MCEventLoop`: per source, its next step is weakly fair (timers fire,
requests end or run into their time limit), so are the ageing of the cache, the exit of a stopping process and its
restart by systemd. Publication of posts, faults and crashes are not forced. `MCSession` and `MCColony`: the steps of a
running session are weakly fair (`Step(p)`, `SessionStep`: no system call blocks, requests have time limits). Nobody has
to start a session: the one schedule in the repository, `scripts/scheduled-run.sh`, starts sessions that the runner
refuses. `SessionsGoOn` and `NewestArrive` therefore assume that sessions are started again and again, as part of the
property, and `SessionsGoOn` that nobody resumes any more: a resume that read a session just before it ended can write
its file again and leave it for the next. The back-fill, a command that somebody may type, is not fair, and neither are
faults.

### Other places where comments and code differ

These are visible in the models but have no run of their own.

Pay: `pay-spend-cap.ts:49` says the lock is held during the settlement (it is released before, `pay-spend-cap.ts:95`; the
reservation makes that safe, as `CapRespected` shows); `pay-receipt-log.ts:2` speaks of duplicates after a crash (a crash
between settlement and receipt does lead to a second payment, which is why `NoRepayAfterReceipt` asks for a receipt), and
`pay.ts:208` leaves out the receipt so that the next call "can retry the HTTP request with the same proof", for which
there is no way in: the next call pays again. `pay-spend-cap.ts:4` says the cap "does NOT reset" on a restart; a death
inside `writeFile` (`state-store.ts:42`) leaves an empty file, which reads as no spend at all. `tools/publish.ts:22` says
4 an hour (the limit is 5). `publish-executor.ts:79` checks votes and bets against the write rate and never counts them.

Events: an opinion that the stream has shown and the search finds gets two replies, as each source has its own snapshot
and looks at the thread once (`opinion-requests.ts:7`: "skip opinion threads we've already replied to"); the watermark
passes an event whose handler failed (`types.ts:124`: "Save watermark after successful processing").

Sessions: `state.ts:13` and `state.ts:178` speak of locks older than two hours as stale; `STALE_LOCK_MS` is never used,
the age of a lock is not looked at. `session-runner.ts:1234` says the lock is always released in the `finally` block;
after an error `process.exit(1)` comes first (`session-runner.ts:1232`), so the lock stays, and only the pid check of
the next start removes it, as `SessionsGoOn` shows. An `improvements.json` that does not parse is left as it is by
`incrementSessionNumber`, so every later session has number 1. `scripts/scheduled-run.sh` passes `--loop-version 2`,
which is retired (`session-runner.ts:895`): such a session takes its lock, writes its state and ends in an error. The
model's starts are those of V3 sessions, the default of the command.

Colony: an empty database does not get "everything" (`api-backfill.ts:6`) when a reply comes before its parent, as in a
feed that shows the newest first it does: the insertion throws and the walk ends there. A walk that was interrupted
leaves a hole for good, as the next one ends at the first page of known posts (`api-backfill.ts:98`). A back-fill with
`limit` stops within a page and its offset passes the rest of it (`backfill.ts:344`): `cut`. The reaction cache is
recomputed at the end of a run, not "after each batch" (`backfill.ts:213`), and not after a failed request: `abandoned`.
Rows from the feed's window never learn what they reply to unless another writer meets the post later.

Spending: the light strategy's TIP (`cli/action-executor.ts:292`) transfers without a look at the ledger; the cap of a
session is counted once for its bets and once for its tips; a hook whose third tip throws has recorded none of the first
two; two candidates of one author pass the filter together, so the limit per recipient can be passed
(`tips-plugin.ts:5`), as can the cool-down between them.

Tools: a call touches the session before anybody asks for its age (`tool-wrapper.ts:26`), so the session of 30 idle
minutes (`session.ts:8`) is as good as new, unless something has asked for its bridge in between; `sdk-bridge.ts:491`
reports a transaction as broadcast without a hash which `executeChainTx` has refused before the broadcast.

Sources: all shipped sources have an overall rating of 50 and nothing computes another, so a degraded source, which
needs 60, never recovers: it passes its tests and goes stale after the 14 days "failing" (`lifecycle.ts:8`).
`Transition` leaves out the `lastFailedAt` that stands in for a missing `statusChangedAt` (`lifecycle.ts:314`, `:332`):
every degraded or stale source of the catalogue has one, and a change of status sets it. Runs that overlap lose each
other's tests. The "atomic write" (`cli/source-lifecycle.ts:182`) is one for a single process: two of them share the
temporary file, and may leave a catalogue that cannot be read, after which every hook skips. Ten quarantined sources
whose tests have no verdict keep all others out of the hook's sample.

## 4. Proofs

All theorems hold for every value of the constants that satisfies the assumption named in the module, with no bound on
callers, writers, sources, amounts or windows (`MaxTime` and the like stay in the model as arbitrary numbers).

**Pay** (`PayProofs`). `TypeOK` alone is inductive with two more facts (`TInv`): a caller is inside a critical section
exactly when it holds that file's lock (`Exclusion`), and a running call knows its request. `PaymentsCovered` and
`CapRespected` need more (`SInv`): ids are fresh, so that a roll-back removes its own entry only (`FreshIds`); an open
reservation is in the ledger as long as the window sees it (`OpenCovered`), so that a settlement adds only what the ledger
has; and the live ledger fits the cap (`LedgerFits`). The cap on payments then follows because live payments are a subset
of the live ledger. Sums are cardinalities of sets of units, handled by `SpentMonotone` and its companions.
`NoRepayAfterReceipt` needs that a receipt the window still sees is in the file, or in the buffer of the process that is
rewriting it (`ReceiptsKept`), so that the look at the log, which nobody writes meanwhile, cannot miss one: a call that
gets past it had none (`NeverKnown`). These three theorems assume `WholeWrites` (no crash inside a file write); without
it they are false: a torn ledger, or a torn receipt log, reads as an empty one.

`HeldMoneyAccounted` needs no such assumption: a torn write can only lose entries. Its invariant (`HeldInv`) follows an
entry through the file, the buffer of a write under way and the file that is empty while it is rewritten.

`PayImplementsBudget` is the refinement, step by step, under `WholeWrites`. The steps of `Pay` are first sorted by what
they do to the ledger as the abstract budget sees it, the file or the buffer of whoever is writing it (`StepKinds`): a
write of a reservation that begins is a `Reserve`, one of a roll-back a `Cancel`, an answer of the network a `Settle`,
the end of a call that nobody decides an `Abandon`, the clock a `Tick`, and everything else, all the lock handling among
it, a stutter. What the abstract guards ask comes from the invariants: the id is new to ledger, open calls and payments
(`FreshIds`) and within the bound on reservations (`BoundInv`), the amount was admitted by the same sum over the same
window, and what a roll-back removes by its id is the reservation of the call and nothing else (`IdsUnique`).

**WriteRate** (`WriteRateProofs`). The invariant is an exact account: for each timestamp of the day,
entries = posts owed + open reservations + leaked reservations (`Accounted`). The inequality either way is not
inductive, as a roll-back would be able to take another writer's entry; with equality, a roll-back finds its own
reservation counted. Limits follow from `LedgerWithinLimits` by counting.
`WriteRateSequential` is about posts, not entries, and about histories in which writers did not overlap and no post went
unrecorded (`~disturbed`). While the history is such, whoever is not idle is alone (`AtWork`), and in every window of at
most a day three counts bound each other: posts by entries, entries of the reactive ledger by those of the shared one,
reactive posts by reactive entries, each up to the one record or roll-back the writer has still to do (`CoveredBy`). What
the writer found when it checked is still so when it records (`RoomFor`), hence the record is not refused. The middle
inequality is what the property does not show: without it a reactor's own record could be refused by a reactive ledger
fuller than the shared one.

**EventLoop** (`EventLoopProofs`). The theorem `EventLoopRepeatsExplained` is about a step, so the invariant has to say
what a source knows: answers under way, cache and snapshots are what the server returned at a certain time (`Answers`);
what a source has seen is not newer than its snapshot, and its snapshot lacks nothing of that time but posts already
replied to (`Memory`). An answer at least as recent as the snapshot can then bring back nothing: what it shows of the
older posts is in the snapshot's window, hence in the snapshot. `excused` collects the reasons for which this may fail.

**SessionRun** (`SessionRunProofs`). `LockInv` says who owns which lock file at each point of `acquireLock`, in particular
that what a thief has inspected is still dead when it unlinks it, and that a released name is still free when it creates
the file again; `SessionExclusive` follows. `StateInv` says what states look like wherever they are (`Sound`: phases are
completed in order, the posts of a confirmed session were checked) and that the phase a process is in is the next one of
its state. With `SessionExclusive` each step concerns the file of one session only (`RunByParts`), and `CrashSafe` and
`PostsAccounted` are inductive together; `PhasesKept` follows by step. All but the types assume `~Overlap`; without it
`SessionExclusive` is false, as `MCSessionRace` shows.

**ColonySync** (`ColonySyncProofs`). The invariant says that a walk has its newest post above where it is and has stored
every post of the feed between (`WalkStands`, `WalkLeavesNoGap`), that the running back-fill's start and the saved
offset have left only what is stored, a dead letter or cut (`PassedIsKept` itself, and the same for the process), that
the cache lacks no more than what the running back-fill has inserted and what `abandoned` has (`CacheKept`), and that a
row a session is about to insert is absent unless it was overtaken (`RowFree`). `FullPostsStay` follows from the last:
the look-up found the row absent, and whoever stores it before the insert overtakes it. That others store posts
meanwhile helps the walk and never harms it, as no row is deleted; what would harm it is its own end at a page of known
posts, which is why the invariant speaks of the range it has walked and not of what lies below.

**Spending** (`SpendingProofs`). `DayWithinCap` is about transactions, the policy about ledgers. The invariant ties
them: what landed today is covered by the ledger that counts at that point - the file's when no hook runs, the hook's
memory plus nothing when one does (`due` is what only the memory has) - but for the lost part, and a spend under way
still fits. A ledger dated another day counts as empty on both sides, so that midnight keeps it. `NoDoubleTip` needs
that the tip state at hand knows every tipped post that is not forgotten, and that the queue has no such post.
`RecipientBound` counts, for each recipient, the tips that landed today, those still in the queue, and what the tip
state knows: a filtered batch holds a recipient only below the limit and at most `MaxTips` posts, which is where the
bound `MaxPerRecipient + MaxTips - 1` comes from. It uses that the candidates are finitely many and that `maxTips` is at
least 1, as the validation of the configuration has it (`agent-config.ts:317`).

**ToolCalls** (`ToolCallsProofs`). Entries are numbered by transaction, so that a call's entry is its own; the log it has
seen is part of the present one, as nothing but age removes an entry. A refusal then means that something came in between,
and the clock does not help it: what the log forbids at the record it would have forbidden, being older, at the check.
That no entry keeps out two transactions of one session follows as the second call has seen what kept out the first.

**SourceLifecycle** (`SourceLifecycleProofs`). While no two processes share it, the temporary file belongs to the process
between `Open` and `Rename`, and its content is that process's text; the catalogue is then only ever replaced by a whole
text. A run that is alone has loaded what the catalogue still holds, so that its rename is one round of tests.

Every invariant and every action property a passing run checks is also a theorem, and so is the refinement of
`SpendBudget`. What stays with TLC is liveness (`LocksComeFree`, `NothingMissed`, `KeepsPolling`, `SessionsGoOn`,
`NewestArrive`), which this prover does not reach, and the violations: what the code does where a document says otherwise.

## 5. Plan

Done: the components whose failure costs money, floods the network or loses a session, and those that keep what the
agent knows. What could follow, in this order:

1. Proof ingestion (`colony/proof-ingestion.ts`) and the retries of dead letters, on top of `ColonySync`: two passes that
   overlap read and write the same rows.
2. Token buckets (`sources/rate-limit.ts`) and the retries of `attestDahr`, with the fee of each attempt.
3. The agent loop (`agent-loop.ts`) with its abort signal, and the auth token cache.
4. Abstract specifications for the other components, as `SpendBudget` is one for `Pay`: the session as a sequence of
   phases performed by one process at a time, the walk down the feed as a growing range of stored posts.

### Not modelled

By number of lines most of the repository has no state that a model could tell apart. Strategy scoring, quality and
faithfulness gates, claim extraction, research evidence and the source matcher are arithmetic and regular expressions
over prose; the declarative provider engine, the intent compiler and the LLM providers build and parse requests, one at
a time; the starters under `packages/omniweb-toolkit` are generated copies of one another, and the scripts beside them
check texts. The consumer package is a facade over the toolkit's tools, which are modelled where they keep state. The
TLSN browser bridge and the reporting commands are input and output. The own-hash filter of the event sources is data of
a source: with every post by somebody else, as `EventLoop` has it, it never matters. `run-loop.ts` and V2 state belong
to sessions that the runner refuses. None of this is planned.
