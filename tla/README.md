# GrokPi-Lite: TLA+ models, checks and proofs

GrokPi-Lite is a Go service that answers OpenAI- and Anthropic-style requests by
calling an upstream service with one of many stored account tokens. Most of what
can go wrong in it is about sharing: many request goroutines, a ticker, a
scheduler, a prober, a persister and the admin handlers read and write the same
tokens, in memory and in the database, with short critical sections and long gaps
between them; the same holds of its counters, its configuration, its buffers and
the streams it takes from upstream. These modules model those parts, TLC checks
them on small instances and TLAPS proves their main invariants for every value of
the constants.

All paths below are relative to the repository (`internal/...`); the map from each
definition to its lines is in `PROJECT.json`, and so is the list of hazards at their
lines, each with the properties that cover it or the reason why none does.

## 1. The system

| Component | State | Operations | Talks to |
|---|---|---|---|
| token manager (`token/manager.go`, `quota.go`, `state.go`, `category.go`) | `tokens`, `pools`, `dirty`, one mutex | pick, Mark\*, Consume, SyncQuota, RestoreToken, AddToken, RemoveToken, GetDirtyTokens, ClearDirty | everything below |
| pools, selection (`token/pool.go`, `picker.go`) | the tokens of a pool, a round-robin counter | Select, SelectExcluding | called by pick under the manager's lock |
| circuit breakers (`token/circuit.go`) | per token: state, failures, half-open time; a lock each | AllowRequest, RecordFailure, RecordSuccess | pick asks all of them; the chat flow reports to one |
| cooldown ticker (`token/ticker.go`) | none | CheckNow | the manager's tokens, in one critical section |
| recovery scheduler (`token/refresh.go`) | a snapshot of ids per round | scan, auto restore, upstream refresh | manager, upstream |
| health prober (`token/probe.go`) | none | probe cycle | SyncQuota |
| persister (`token/persist.go`) | none between two flushes | FlushDirty | the manager's snapshot and marks, a database transaction |
| token service (`token/service.go`) | none | LoadTokens, SyncToken, reports | manager, table |
| token table (`store/token_store.go`) | rows | Create, Update, Delete, batch update | persister, admin handlers |
| admin token handlers (`httpapi/admin_token*.go`) | none | update, replace, batch, delete, import | table, then `SyncToken` / `AddToken` / `RemoveToken` |
| chat flow (`flow/chat*.go`, `retry.go`) | per request: token, attempt, exclusions, a channel of 64 | retry loop, stream forwarding | manager, breakers, xai client, HTTP handler |
| stream filters, tool calls (`flow/tag_filter.go`, `tool_usage_card.go`, `toolcall*.go`) | text kept from one chunk to the next | consume, flush | chat flow, HTTP adapters |
| HTTP adapters (`httpapi/openai`, `httpapi/anthropic`) | per request | read the channel, write the answer | chat flow, client |
| image flow (`flow/image*.go`) | per request: token, images, workers, a channel of results | attempt, parallel recovery of a blocked image, edit | token service, xai client |
| video flow (`flow/video*.go`), file cache (`cache/local.go`) | per request: url, polls, a pipe; the cached files | post, stream, upscale polls, download and save | token service, xai client, admin |
| xai client (`xai/`) | per call: a connection, a channel of 16 or 32, a timer | Chat with retries, StreamImages, polls, uploads | upstream |
| usage buffer (`flow/usage_buffer.go`) | records not yet inserted | record, flush, re-queue, stop | database |
| API keys and limits (`httpapi/middleware.go`) | counters per key and window | admit, count | key table |
| admin login limits (`httpapi/rate_limit.go`) | counters per address and window | admit, count, cleanup | - |
| configuration (`config/`, `store/config_store.go`, `httpapi/admin_config*.go`) | file, rows, a live snapshot | load, PUT, Store, Update | everything that reads it |
| Cloudflare refresh (`cfrefresh/`) | last attempt, failures, a trigger slot | trigger, loop, solve, save | configuration, solver |
| start and shutdown (`cmd/grokpi/main.go`) | the order | load, start, drain, stop one after the other | all of the above |
| logging, database set-up, console, statistics | - | output and queries | - |

What makes it hard, and what "correct" means for each part:

* **Manager.** A goroutine holds a token for seconds, and everything may happen to
  that token meanwhile: others exhaust it, an admin replaces its object, upstream
  answers for the replaced one. Correct: no quota is above its baseline, no cost
  overdraws one, a cooling token has a deadline and comes back, every change is marked
  for the persister.
* **Selection.** One counter serves tiers of different sizes and all categories.
  Correct: no token of a tier is taken twice before the others were taken once.
* **Persistence.** Memory and rows are copied both ways by parties without a common
  lock, each in several steps, each of which may fail. Correct: when nobody is
  half-way, memory and rows agree on whatever is not marked and a flush saves (pool and
  priority it does not); a failed flush loses nothing and is repeated.
* **Configuration.** A PUT copies the live configuration, stores rows and replaces
  the live one later; the refresh changes it in between. Correct: what is live is what
  a restart would load, and browser and user agent are always a pair.
* **Chat flow.** Two nested kinds of retry, a pick that may find nothing, errors
  before and inside the stream, a budget, a client that leaves, a bounded channel.
  Correct: every request ends, after exactly one terminal event, or in a panic for the two
  reasons the code leaves it.
* **Breakers.** Answers of overlapping requests arrive in any order. Correct: a
  breaker is closed exactly below the threshold, and upstream errors do open it.
* **Streams from upstream.** A timer races a websocket, retries follow a body that broke
  half-way, a reader leaves a full channel. Correct: a final image is never lost, a reader
  sees one answer with one end, and the goroutines end.
* **Images and videos.** Parallel attempts charge and fail while the first to succeed
  wins; download and save meet in a pipe. Correct: everything made is paid once, nobody
  is blamed for another's error, and a cached name is a whole video.
* **Text.** Upstream cuts the text anywhere, also in a tag. Its image links are rewritten
  event by event or at the end. Correct: what comes out does not depend on the cuts, nor, but
  for links that were cut, on whether the answer is streamed.
* **Usage buffer.** A full buffer drops records, a failed insert puts a batch back in
  front of newer records, a stop waits for a last flush. Correct: nothing is inserted
  twice or out of order, only old records are dropped, every record leaves, a stop ends.
* **Limits.** A window is moved and its count reset in two atomic steps, a daily limit is
  read long before it is counted, failures are counted after the answer. Correct: a bound
  on what gets through while all race, and no request refused on the count of an old window.
* **Refresh loop.** Many goroutines see a 403 at once, each triggers. Correct: few attempts
  in a cooldown as long as there is one, no accepted trigger forgotten.
* **Shutdown.** Everything is stopped in an order while it still works. Correct: what was
  changed and recorded is saved, and the process ends.

## 2. The modules

| Module | What it is |
|---|---|
| `DirtyTokens` | The abstract promise of the manager to its persister: a token in memory changes only together with its mark. |
| `TokenManager` | The detailed manager with its requests, ticker, scheduler, syncs and admin calls. It implements `DirtyTokens` (property `DirtySpec`). |
| `TokenSelection` | A pool: tiers, the algorithms, the shared counter. |
| `TokenPersistence` | Extends `DirtyTokens` with the table, the flush, the admin handlers, import and restart. |
| `Config`, `ConfigRefresh` | The configuration as operators on the file, the rows and a PUT; the live configuration with its two writers and restarts. |
| `CircuitBreaker`, `ChatFlow`, `ChatBreaker` | The breakers; requests with their channels, handlers and clients on top of them; a history of upstream errors for one question. |
| `UpstreamAnswer`, `UpstreamChat` | What a reader of a chat may rely on; client.Chat with its retries and its stream, which implements it (property `AnswerSpec`). |
| `ImagineStream` | The websocket of an image: the streamer, the grace timer of a blocked image, the reader. |
| `ImageFlow`, `VideoFlow` | A request for images, with the recovery of a blocked one or as an edit; a request for a video, with its copy into the cache. |
| `TextStream` | The parsers that keep text between chunks, and the two adapters behind them. |
| `UsageBuffer`, `Shutdown` | The buffer of usage records; the process around it with all that main stops, which implements it (theorem `ShutdownKeepsUsage`). |
| `CFRefresh` | When the refresh loop attempts a refresh. |
| `KeyLimits`, `AdminLimit` | The limits of an API key and of failed admin logins. |
| `MC...` | Values for the constants, and compositions; the symbols, tags and texts of the runs are in `MCTextStream`. |
| `...Proofs` | The theorems. |

Four MC modules (`MCStoredState`, `MCRequests`, `MCBackground`, `MCMedia`) put modules of one theme into one run. Where two of them share no variable,
every property is about one of them, and interleaving them would only multiply states: a
variable `focus` chooses, once, which of them a behaviour is about, and the others rest.
Nothing that could interact is kept apart that way: modules that share state are composed
by EXTENDS (`Shutdown` with `UsageBuffer`, `ChatFlow` with `CircuitBreaker`,
`TokenPersistence` with `DirtyTokens`) and step together.

**TokenManager.** Every action is one critical section of `TokenManager.mu`; whatever
the code does between two of them is open to all other goroutines. A request is a
record of what it holds: `ReportFailure` is a report of `handleError`, `ChatSuccess`
then `ChatConsume` is the end of a chat request (success reported before the cost is
charged), `MediaConsume` and `MediaSuccess` that of image and video (charged per image,
success reported at the end). `CheckNow` is the ticker, `SchedScan` / `SchedRestore` /
`SchedRefresh` the scheduler with its snapshot, `Probe` / `SyncQuota` / `SyncFails` a
call of `SyncQuota`, whose upstream answer is written to the object the call started
with (`live` says whether memory still holds that object). `AddToken` / `RemoveToken`
are the manager calls of the admin handlers, `ClearDirty` the end of a flush. `obj` is
history: it flips when an overlapping reload puts an object over another one, so that
`DirtyTokens` can tell a token that was replaced from one that changed. A deadline is only
"none", "running" or "elapsed"; the failure count saturates at the threshold, the only value
it is compared with; `pick` may return any token one of the selection algorithms may return.
Quotas are integers of any sign: nobody checks what an admin writes or upstream answers.

**TokenSelection.** `Select` is one selection with an exclusion set: the tier of the
highest priority that is eligible, then one of the algorithms; `TokenChanges` is everything
that happens to quotas. The selection holds the manager's lock shared, so that two of them
meet only in the atomic counter.

**TokenPersistence.** Each action is one critical section of the manager or one
statement or transaction of the database. A value has two parts: `saved`, the columns of
`TokenSnapshot`, and `place`, the others (pool, priority, secret, remark). A flush takes and
writes `saved` only, while a quota sync may fill in a place that is `Open`, that is without
pool or priority; `Lifted` is what `normalizeTokenQuotaBaselines` does to the columns of a row
that is loaded.
Update and replace are `UpdateGet`, `UpdateSave`, then `SyncToken` in three steps
(`SyncRead`, `SyncRemove`, `SyncAdd`); batch update, delete and import likewise. Errors
are actions of their own (`FlushFails`, `UpdateFails`, `SyncReadFails`). `torn` and
`strayed` are history variables that never guard a step: they record on which tokens somebody
wrote while somebody else stood between a read and a write. The next undisturbed flush or
reload mends a torn token; only a reload mends a strayed one, for a flush leaves the place.

**Config, ConfigRefresh.** `Config` has one field for each kind of key the code treats
alike, and the code's steps as operators: unmasking and pairing a PUT, the rows it upserts,
`Load` and `ApplyDBOverrides`. `PutRead`, `PutSave` and `PutStore` are the three steps of the
handler; `RefreshStarts`, `SolveReads`, `SolveStores` and `RefreshSaves` those of the refresh,
where the middle two are the clone and the store of `Runtime.Update`: its mutex does not keep
out the `Runtime.Store` of a PUT in between, which is then undone in memory in every field.
`ConfigRestart` loads, also when the rows cannot be read (which a start only logs).
`crossed` and `mixed` are history: fields changed by one writer while another held an older
copy of the whole and stored it after, and whether somebody named one of browser and user
agent without the other.

**ChatFlow.** `pc` of a request names the place of `executeWithRetry` it is at. The
head of the loop (`GoOn`, `GiveUp`), the pick with fallback pool and exclusions
(`PickFrom`, `PrimaryEmpty`, `NoTokenLeft`), the call (`ChatStarts`, `ChatFails`,
`BuildFails`), the backoff and the stream (`Receive`, `Emit`, `StreamFails`,
`StreamCloses`) are actions; so are the handler (`Read`) and the client (`Leave`).
`usable` stands for the token manager: which tokens a pick may return, changed at any
time by others (`ManagerChanges`, `Reload`). The client factory may fail for any token it is
called with: it then returns nil (`main.go:155`), which nobody checks (`PickFrom`), and the
call on it panics (`ClientMissing`), as does the token that is missing when no pool has one
(`NoTokenLeft`). SafeGo recovers both, and the channel closes as it is: "panicked".

**UpstreamChat, UpstreamAnswer.** `asker` is the goroutine of `Chat`: it asks, forwards
lines into a channel that it fills without looking at the context, pauses and asks again.
`UpstreamAnswer` is its contract: events, at most one error as the last one. `ChatFlow`,
`VideoFlow` and `ImageFlow` start from that contract.

**ImagineStream.** The streamer (`StreamerStep`), the `AfterFunc` callback with its mutex and
its check of a closed channel (`TimerStep`), and the reader `generateSingleImage`
(`ReaderStep`). `Alive` is the process: a send on a closed channel panics and ends it.

**ImageFlow.** `stage` is where the request stands; `worker` and `resultCh` are the parallel
attempts of `generateBlockedRecovery`, of which each charges its token before it offers its
image and may drop it when the round is over. `Call` and `Fetch` are those of an edit. Quota
and usability stand for the token service, which other requests use too (`OthersConsume`).
`charges`, `faults`, `blames` and `lost` are history.

**VideoFlow.** The request, the goroutine of the download and the save are three processes
around an unbuffered pipe; a file is a number of blocks. An administrator deletes files at
any time.

**TextStream.** A text is a sequence of symbols; the tags, the symbols and the blocks that are
a call are constants, so that a symbol may be a byte and a tag the one of the code. A text
arrives in pieces of any length. `Drop`, `Card` and `Tool` are one turn each of the loop
`for data != ""` of a parser: they return the parser and the data that is left. `Loop` is the
sequence of these turns and `Feed` its end, after as many turns as there are symbols
(theorem `ParsersEnd`: the code's loop is over by then). `Event`, `Reasoning`, `FinishChunks`
and `Build` are the two adapters. `Rewrite` is `rewriteContent`: `Emitted` applies it to the
content of each event before the streaming adapter, `Thought` (reasoning) does not, and
`Blocking` applies it to the finished text, think block included. A link to an image is two
symbols, its head and its target, so that it can be cut once; `broken` is history: a link was
cut over two events, was reasoning, or was part of a call that became text. The downloads of
one answer succeed or fail alike; what rewriting a call's block does to its validity is left
out; the links `parseEvent` adds to an event are content that is not cut.

**UsageBuffer, Shutdown.** Records are numbered in the order of their requests. `Record`
drops the oldest of a full buffer; `TickerFires` and `LastFlush` take the buffer, `Insert` and
`InsertFails` end the transaction, `Requeue` is what the code does with a failed batch.
`Shutdown` adds the HTTP server, flows, the scheduler with its workers, the ticker, the
persister and main's stages. The state of each token is the number of its changes; a flush
takes the tokens that are marked, writes their rows and takes their marks away, so that it
saves nothing of a token whose mark another flush took.

**CFRefresh.** Time is counted in ticks of one cooldown. `TriggerPasses` and `TriggerSends`
are the two halves of `TriggerRefresh`, between which others pass too; `LoopStarts`,
`LoopTakesTrigger`, `LoopTimerFires` and `LoopStops` the cases of the loop, `SolveEnds` and
`SolvesNothing` the ends of an attempt. `Backoff` is computed as the code does, in a `Duration`
of `Bits` bits with its sign (64 in the code), and the failures are counted until the shift
leaves zero, beyond which every count is alike. Where it is not positive there is `NoGap`: every
trigger passes. `gapless` is history: since the last tick that was so at times.

**KeyLimits, AdminLimit.** `pc` of a request names the place in the middleware it is at, one
action per access to the row, the map or an atomic. Entries are objects: a request may count
in one that is no longer in the map. The cleanup looks and deletes in two steps. `let`,
`raised` and `failures` are history. The counts saturate above the limit.

## 3. The runs

Each run is one configuration; "violation" runs show that the code does not do what a
comment or a test of it says (section 6).

| Run | Instance | Checks |
|---|---|---|
| `token_manager` | one token, two categories, two requests, one sync, both recovery modes | `BaselineCoversQuota`, `CoolingHasDeadline`, `ZombiesComeFromSuccessReports`, `DirtySpec` (refinement), `ElapsedCoolingEnds`, `TickerRestores` |
| `token_manager_zombie` | one token, one request | violates `NoZombie` |
| `stored_state` | one token, three kinds of columns, two places, two admin handlers; two PUTs of five kinds, two files, two answers of the solver | `Agreement`, `FlushIsCurrent`, `MarksAreFlushed`; `ConfigAgreement`, `AlwaysPaired` |
| `token_persistence_lost` | one token, no admin | violates `CleanIsPersisted` |
| `token_persistence_orphan` | one token, one admin | violates `NoOrphans` |
| `token_persistence_placement` | one token, no admin | violates `PlaceIsPersisted` |
| `requests` | a streaming request, two tokens in two pools, two attempts, a channel of 1; a pool of three tokens in two tiers, four picks; two requests, three entries, limits of 1, two windows; two logins, limit 2 | `OneOutcome`, `EveryRequestEnds`, `ClosedBelowThreshold`; `Rotation`; `DailyBounded`, `WindowBounded`, `RefusedWhenFull`, `ChecksEnd`; `FailuresBounded` |
| `chat_flow_silent` | one token, one pool, 2 x 2 attempts | violates `AlwaysAnswered` |
| `chat_breaker` | one token, upstream errors in the stream | violates `OpensAfterFailures` |
| `background` | a buffer of 2 and four records; the refresh with two callers and a `Duration` of 6 bits; the process with one request, one worker, two tokens | `InOrder`, `RecentKept`, `StopDrains`, `RecordsLeave`; `BurstBounded`, `TriggerTaken`; `TokensSaved`, `UsageSaved`, `Exits` |
| `media` | a websocket of five messages; a chat with two retries; three tokens, two images; a video of up to three blocks; texts of up to four parts | `FinalWins`, `StreamerEnds`; `AnswerSpec` (refinement), `AskerEnds`; `Paid`, `InnocentSpared`, `ImageRequestEnds`; `CachedWhole`, `VideoEnds`; `SplitIndependent`, `StreamMatchesBlocking` |
| `text_cards` | texts of up to four parts, cut anywhere | violates `CardsSurviveCuts` |

Every property of a passing run has a mutant in `PROJECT.json`: a plausible bug in the
mapped code that makes TLC find the property violated in that same run.

**Bounds, and why they are enough.**

* *Tokens.* `MaxReports` bounds the failures one request reports; with two requests the
  threshold is reached and passed. Costs of 2 against quotas of 1 overdraw and exhaust; an
  answer of 2 is above every baseline, one of -1 and a row with -1 below zero. `Rows` are the
  kinds of rows an import or edit leaves behind: fresh, without baseline, emptied below zero
  while cooling. One token is enough for persistence, because tokens interact only through the
  set a flush covers; the flush of several at once is covered by the proofs. Three kinds of
  columns are one whose baselines a load lifts, what it is lifted to, and another.
* *Configuration.* Two PUTs overlap each other and the refresh in every order; the kinds of
  PUT name a browser alone, a pair of their own with a masked secret, a refused algorithm, a
  user agent alone, an empty browser. The first two are those of the second request and the
  others those of the first, which may end in any order.
* *Chat.* A channel of one is full after one event, as one of 64 is after 64.
  `BreakerThreshold` 2 separates "counted" from "open". One token and two retries of it are two
  attempts, the second on the same token or, after a swap, on the other; that the retries of a
  token run out before the attempts do is in `chat_flow_silent` and in the theorems, which hold
  for all limits. Four picks from tiers of up
  to three tokens go once round and start again, with quotas of 0 or 1.
* *Background.* With `MaxSize` 2 a failed batch of two meets none, one or two newer records.
  A `Duration` of 6 bits with a cooldown of 5 and a cap of 15 has every kind of backoff within
  seven counts: 5, 10 and 15, then an overflow to a negative number, to a positive one, to a
  negative one again, and to zero from `MaxFails` 6 on, where the count may stop; `MaxAge` 3 is
  the cap in ticks, `Interval` 2 lies below it. The two callers both pass the debounce before
  either sends. Two tokens with two changes and one suffice for a mark lost to an overlapped
  flush with a later flush of another token, and for a change before, during and after each
  flush.
* *Limits.* The clock counts in windows: two are enough for a request to open one, sleep, and
  forget the count of the next, and `WindowBounded` is tight there (one less is violated);
  three entries are one more than the requests can hold. Of the admin limit three windows
  are needed for a late reset to meet the window after next.
* *Media.* Channels of 2 are full after two events; five messages are a preview, a medium
  image, the final and two more. Two images and two attempts make a round within a request
  whose other image was already charged. A limit of 2 blocks against sizes of 1 to 3 gives a
  video below, at and above it. `MaxParts` 4 is a start tag, text, an end tag and text behind,
  cut at every symbol; a tag of the runs has two symbols, the least that can be cut.

No run uses symmetry, since liveness is checked in most of them.

**Fairness.** The ticker, the scheduler and the persister are loops that run as long as
the process (`WF` on `CheckNow`, `SchedScan`, the handling of each scanned id, and
`GetDirtyTokens`); the clock passes deadlines (`WF` on `CoolElapses`); an upstream call
ends because the HTTP client has a timeout (`WF` on a sync's end, `SF` on `AnswerEnds`:
a stream may deliver events for a while, not for ever); the database does not fail for
ever (`SF` on `FlushCommit` and `Insert`); goroutines of a request and its handler run (`WF`
on `Loop`, `Read`, `Check`, `RequestStep`, `VideoStep`, `DownloadStep`, `SaverStep`, the
streamer, timer and reader of a websocket, the asker and the taker of a chat, each stage of
main). A select of Go chooses at random among what is ready, so a ticker cannot keep a loop
from its stop or its trigger for ever (`SF` on `LastFlush`, `LoopTakesTrigger`, `LoopStops`,
`SchedGivesUp`). Contexts have a timeout (`WF` on `ContextEnds`; in `UpstreamChat` only an
expired context makes upstream end, for it may be silent until then). Attempts of a worker
end by the deadline of their connection (`WF` on `WorkerStep`). Nothing is assumed of
requests that start, of flows during the shutdown, of signals, admins or clients.

Deadlock is checked everywhere but in `background`, `media` and `text_cards`, where the
modelled part really stops: a loop that was stopped, a request that was answered, a text that
has arrived.

## 4. What is proved

TLAPS checks these for all constants that satisfy the modules' named assumptions, which TLC
evaluates on the runs (each is as weak as "this number is positive", "this set is finite" or
"the absent value is not a value"). The theorems listed in `PROJECT.json`, and the argument of each:

* `TypeCorrect`, `BaselineCovers` (`TokenManager`). `TypeOK` is inductive as it stands; its
  quotas are integers of any sign. The baseline needs the types to compare; lemmas state for
  each operator on a token that it keeps the order.
* `NegativeQuotasAreGiven`: a quota below zero in memory is a number some row or some answer of
  upstream has, so that no sequence of charges makes one (`Consume`'s clamp). That rows and
  answers hold no such number the code does not check, and nothing here assumes it.
* `ZombiesOnlyFromReports`: `ZombiesComeFromSuccessReports`, an action property, from the
  types alone: it has one case for each step that can leave a token active.
* `CoolingEnds`: every cooling token has a deadline, assuming `TimedRows`: the rows that
  cool have one. The code does not enforce that assumption when an admin sets the
  status by hand (section 6), so it is a hypothesis of the theorem and not of the module.
* `ManagerImplementsDirtyTokens`: initial states map to initial states and each step
  to a step of `DirtyTokens` or a stutter, under `mem` as the persisted view.
* `CopiesAreAccounted`, `PersistenceTypes`, `FlushesAreCurrent`, `MemoryAgreesWithTable`
  (`TokenPersistence`). `Agreement` speaks of quiet moments only and is far from inductive.
  `PInv` says for every token and every step of a party what is known there: the snapshot
  columns a flush holds are those of memory, with the mark still there, or the flush is torn on
  the token; what a handler holds between its statements is the row it read, or somebody wrote
  meanwhile and the handler is torn; a token no one works on, that is unmarked and not torn, has
  the snapshot columns of its row; and its place is that of the row, or the row left it open, or
  the token is strayed.
* `BrowserAndAgentPaired` (`ConfigRefresh`): `AlwaysPaired` and `ConfigTypeOK`. `PairInv`
  adds what is on its way: a snapshot of a PUT holds a pair, what a PUT or a refresh is about
  to store names both or neither, and a stored browser has the user agent it came with.
  Lemmas on the operators of `Config` say that overwriting by such an update keeps a pair.
* `ConfigsAgree`: `ConfigAgreement`, which speaks of quiet moments only. `AgreeInv`, on top of
  `PairInv`, says what a writer between its two stores may rely on: outside the fields it was
  told to be late for, the snapshot of a PUT is what is live, the rows it stored are still
  there, and the answer of a solver is live; and every field that is live otherwise than
  stored is lossy, crossed or pending. Of the clone `Runtime.Update` holds nothing is known:
  storing it crosses every field that was changed since. Proving it showed a kind of PUT the property had
  forgotten (an empty browser with a user agent, whose row a start skips); it is now among
  the lossy fields and among the PUTs of the run.
* `BreakersCount`: `ClosedBelowThreshold`. Not inductive alone; the invariant adds that a
  closed breaker's counter equals the history and that the others have reached the
  threshold (`Counts`).
* `OneOutcomePerRequest`: `OneOutcome`, for models with and without a fallback pool and with
  clients that may be missing. It excepts exactly the panics, and says what they come from; that
  they leave the reader without an answer is the run `chat_flow_silent`. The invariant `FlowInv`
  says what each place of the loop relies on: an attempt is left while it tries, a retry while
  it calls, a token while it holds one. `ChatFlowTyped` follows from it.
* `RetriesRunOut`: the action property `RequestsAdvance`, for every number of attempts, tokens
  and requests. `Remaining` is a variant of the retry loop: the attempts left, then the place
  within the attempt, where a pick from both pools without exclusions is still to come as long
  as something is excluded. That a step to the next attempt leaves less needs `FlowInv` (an
  attempt is left while a request tries). It is the safety half of `EveryRequestEnds`, which a
  run checks; that the steps are taken, and that a stream ends, needs the fairness and stays
  with TLC.
* `RoundRobinIsFair`: `Rotation`. `RotationInv` says that the ids selected since the tier last
  changed are the turns of as many last values of the counter. Turns less than a round apart
  are of different tokens: the values have different remainders, and every rank below the size
  of a tier is that of one token, since taking the rank is an injection between finite sets of
  one size.
* `LimitsTyped`, `DailyLimitHolds`, `RefusedOnlyWhenFull` (`KeyLimits`). That a new window
  finds an entry is a pigeonhole argument. What is used and what is in flight are bounded
  together (`DailyInv`). `CountInv` says that an entry counts, up to the limit, no more than
  it let through, unless a request stands between its CompareAndSwap and its Store.
* `WindowsAreBounded`: `WindowBounded`. A potential: what was let through, what the count
  still leaves, `RateLimit + 1` for each request about to reset it and one for each request
  not yet checked stay below `(RateLimit + 1) * N`; a reset pays for what it gives back.
* `FailuresAreBounded`: `FailuresBounded`. Of an admin's window a single bound is not
  inductive, since a late reset gives back a whole count: `FailuresInv` bounds, for the number
  `k` of requests still on their way to close the window, what has failed, what the count and
  the requests let in may still fail, and one `Round(k)` for each request about to reset the
  count, by `(k + 1) * Round(k)`. When the window is over by the clock only requests that read
  it before may fail in it, one each. The bound `MostFailures(k)` came out of the proof; a
  first one, one failure lower, was refuted by TLC on three logins.
* `UsageIsSafe` with `UsageKeepsOrder`, `UsageKeepsRecent` and `UsageStopFlushes`. `UsageInv`:
  batch and buffer are contiguous and follow the table; a gap between them arises only when
  the buffer is full, and records are dropped at its old end only.
* `ShutdownKeepsUsage`: each step of the process is one of the buffer or leaves it alone.
  `ShutdownSavesTokens`, `ShutdownSavesUsage`: `ShutdownInv` relates main's stage to who can
  still change what, and says of each token that its row has its last change, or it is marked,
  or that change came under a flush that had taken the token and took the mark along (`overlap`),
  or after main's last snapshot.
* `RefreshBurst`: `BurstBounded`. Attempts of this tick, callers that passed, the pending
  trigger and the timer that may still fire are bounded together (`BurstInv`): an attempt
  closes the debounce, after which nobody passes in that tick as long as the backoff is a gap.
  The width of a `Duration`, the cooldown and the cap are any numbers, and the failures are
  counted past the overflow; while that leaves no gap the property says nothing, and rightly.
* `FinalIsReturned` (`ImagineStream`): `FinalWins`. The final is the last event of the stream,
  and a callback that sees the flag set under the mutex sends nothing.
* `UpstreamTyped`, `OneAnswer`: `client.Chat` implements `UpstreamAnswer` (refinement).
* `CachedIsWhole` (`VideoFlow`). `CopyInv`: a good result of the download means that all blocks
  went through the pipe, and a save that goes on or is done has its file.
* `OnlyOwnErrors` (`ImageFlow`): `InnocentSpared` and the types. `BlameInv` follows an error
  from the worker into the channel (one result per token, from a worker that is over) to the
  report; outside a round nothing is on its way.
* `ImagesArePaid` (`ImageFlow`): `Paid`. `PaidInv` says where a charged image is: with a worker
  that has not sent it, in the channel, with the winner, delivered or lost; every step moves it
  from one of these places to the next. Of an edit it adds that each charge is that of a call.
* `ParsersEnd` (`TextStream`): with whatever a parser of any kind begins, its loop has no data
  left after a turn for each symbol, because every turn takes at least one (`TurnProgress`).
* `TextSplitIndependent`: `SplitIndependent`, for every text, tag and set of valid calls. The
  invariant is `Uncuts`: up to what it has counted so far, a parser that was given the text in
  pieces is the one that was given all of it at once. It rests on `FeedCut`: feeding `a` and
  then `b` is feeding `a \o b`. That in turn is one fact about a turn (`DropCut`, `ToolCut`): on
  `a` alone a turn either does what it does on the whole, leaving the rest of `a` where the
  whole leaves that rest and `b`, or it keeps something back, and then what it kept together
  with `b` takes the turn the whole takes. It needs what `strings.Index` and
  `SuffixPrefixLength` find in a text cut anywhere (`TagBeforeCut`, `TagBehindCut`): a tag found
  in `a` is found at the same place of `a \o b`, and one that crosses the cut lies in what is
  carried over and `b`. The induction over the turns is over natural numbers.
* `TextStreamSameWords`: `SameWords`, the first half of `StreamMatchesBlocking`. Until the end
  the two adapters are in one state once links and images are taken for one another
  (`SameAdapter`; `RewritePlain`: rewriting changes nothing else), and what they do then differs
  by what the parser still holds. That a link is an image in both, unless it was cut or was
  reasoning or part of a call, is the second half and model-checked only.

The prover cannot use the library's induction theorems, which have an operator as parameter.
`TextProofs` states induction as facts about sets instead (`SmallestOf`, `NatInductionOf`: a set
of naturals with 0 and with each successor has all of them), and proves them from the
well-foundedness of the naturals, which is a fact about sets in the library.
That turns of a loop exist at all (`LoopExists`) is proved the same way.

Only model-checked: liveness, which is outside the prover's reach, the second half of
`StreamMatchesBlocking`, and of course the violations.

## 5. Not modelled

* Health prober: a probe is a `SyncQuota` on any token; which tokens a cycle visits, its
  timer and its limit of parallel probes are left out, a superset of the code's calls.
* Requests on their way in: validation, prompts, attachments, model routing. Data conversion
  without state.
* The Anthropic adapter: it reads the same channel as the OpenAI one; what it drops is listed
  in section 6. Formatting beyond that.
* Of the API keys, what decides who may ask and not how often: creation, deletion, new key
  values, status, expiry, whitelist, and changes of the limits themselves. The same of the
  admin console's passwords and cookies.
* Of the xai client, headers, transport, uploads and the set-up of connections; of the file
  cache, listing, serving and sizes. `xai/stream.go` has no caller.
* Logging, statistics, console, migrations: output and queries.
* The line breaks around a tool usage card, and what a card or a call says.

## 6. Findings

1. **Zombies** (`token_manager_zombie`). A success is reported after the last quota was
   consumed and makes the token active; an active token with no quota is never picked
   and neither ticker nor scheduler looks at it. `quota.go:150` says this must be
   prevented.
2. **Lost marks** (`token_persistence_lost`). A flush clears the marks of tokens that
   changed after its snapshot (`persist.go:106`).
3. **Orphans** (`token_persistence_orphan`). Importing a secret in use deletes the live
   token's row and leaves its object in memory (`token_store.go:148`).
4. **Unsaved placement** (`token_persistence_placement`). A quota sync assigns pool and
   priority and marks the token (`quota.go:116`); the flush writes neither column
   (`persist.go:117`) and takes the mark away.
5. **Silent end** (`chat_flow_silent`). With one pool and no token left the goroutine
   reads a nil token, and with a client that could not be built it calls a nil one
   (`main.go:155`, `chat.go:161`), also with two pools; the client of the service gets no
   terminal event (`chat.go:262`).
6. **Breakers that never open** (`chat_breaker`). Upstream errors arrive as events of
   the stream, where no failure is recorded (`manager.go:143`).
7. **Swallowed text** (`text_cards`). A tool usage card whose end tag is cut by a chunk
   border: the first part of the tag is put into the card's buffer without a carry
   (`tool_usage_card.go:156`), the end is missed and the text behind the card is lost;
   `tool_usage_card_test.go:37` expects it to remain.

Divergences and traps met while modelling, kept in the models as the code has them:

*Tokens and chat*
* an error 401 or 400 inside a stream is retried, though `IsNonRecoverable` says no;
* a Cloudflare challenge inside a stream does not reset the session;
* half-open breakers admit every pick until the first outcome, not one probe;
* `per_token_retries` may pick the same token again once its retries are used up;
* `MarkFailed` disables, where `config.defaults.toml:126` says "marks expired";
* a late success or the scheduler's snapshot un-disables a token disabled meanwhile;
* an admin may set "cooling" on a row without a deadline: it never comes back;
* neither the quotas an admin writes (`admin_token.go:290`) nor those upstream answers
  (`quota.go:111`) are checked: they may be negative, and such a token is not picked;
* a pool that a quota sync assigns is written on the object, which stays where it was in the
  pools in memory;
* the manager works with the configuration of the start: a PUT of the selection algorithm,
  the fail threshold or a cool duration reaches it only after a restart;
* the `break` in `HealthProber.runCycle`'s select does not leave its loop, the prober is not
  stopped by the shutdown, and a probe never expires a token, because the error it would need
  is never returned to it;
* `PickForModel` and `MarkDisabled` have no caller.

*Configuration and refresh*
* overlapping PUTs, or a PUT and a refresh, undo each other in memory, not in the table,
  until the next start (`ConfigAgreement` allows it only there); `Runtime.Update` serialises
  with itself only, so that a refresh undoes a PUT in fields it does not touch;
* a user agent stored without a browser sleeps in its row until a browser is stored; an
  answer of the solver without a user agent stores a fallback browser alone;
* a PUT of `flaresolverr_url` never reaches the running refresh and is ignored at a start
  when the file has a list; rows that cannot be read at a start are only logged;
* `1 << fails` overflows from 28 failures on: the backoff is then negative, at some counts
  positive again, and zero from 53 on; without it every trigger passes, where `scheduler.go:21`
  speaks of a minimum gap (`BurstBounded` excepts exactly these times);
* a list of empty URLs kills the loop.

*Limits*
* a PATCH of an API key, "partial update via PATCH" in `admin_apikey.go:202`, saves every
  column: increments, the daily reset, a new key value or a delete in between are undone;
* a request that comes between the CompareAndSwap and the Store of a new window is counted
  on the old window's count and may be refused, although `middleware.go:114` says the
  order "avoids stale old-window count race" (`RefusedWhenFull` allows it only there);
* only chat successes count against the daily limit, and the increment is made with the
  request's context and its error ignored (`main.go:211`): a client that left is not counted;
* the count and the start of an admin's failure window are reset in two stores, so that a
  late one reopens a running window; the cleanup deletes a fresh entry whose window has not
  begun, and a failure in flight with it.

*Media and text*
* an `AfterFunc` callback that outlives its streamer may send on the closed channel and
  end the process (never after a final image); a streamer whose reader left it with a full
  channel waits for ever;
* the stream of a chat sends without looking at the context: a reader that leaves a full
  channel leaks the goroutine and its connection; a retry after a broken body repeats lines
  that were forwarded; a body that ends cleanly in the middle counts as a success;
* an image request that fails at a later image loses earlier ones it has paid; its own token
  is blamed for the first error of another one; losers of a round are charged; the winner
  waits for all of them; in an edit an exhausted quota is reported as an error of the token;
* a video request hangs when the file cannot be written while the download waits in the pipe
  (`video.go:194`; `VideoEnds` excepts exactly that), and partial files stay; a poll interval
  of zero would panic;
* a streamed answer rewrites the image links of each event alone and never those of reasoning
  (`stream.go:51`), a blocking one those of the finished text with its reasoning
  (`stream.go:90`): a link that is cut, in reasoning or in a call shown as text is an image only
  in the latter. So is one cut by a tag that only the adapter's own parser takes out, which the
  texts of the run do not have;
* the streaming adapter never flushes its tool-call parser, content and reasoning share their
  filters, text and calls of one chunk change their order, and the Anthropic adapter drops
  tool calls and reasoning.

## 7. What is left

In this order:

1. The health prober's cycle with its concurrency limit; the Anthropic adapter in
   `TextStream` beside the OpenAI one.
2. Runs for the lost increments of a PATCH and for a non-recoverable error that is retried;
   the listing of the file cache against a save that is under way.
