# Verification of proxytrap

proxytrap (`src/src/honeypot`) is a low-interaction proxy honeypot: it listens
on ports, speaks just enough SOCKS5 and HTTP proxy to be offered credentials,
records them, and never proxies anything. This directory holds TLA+ models of
the parts that decide what is recorded and when, TLC configurations that check
them on small instances, and TLAPS proofs of the main safety properties for all
values of the constants. Every definition is taken from the code. The
documentation is only used for the sentences that the violation runs refute.

Paths of the source are relative to `src/src/honeypot/`.

## 1. Inventory

| Component | State | Operations | What is hard | What makes it correct |
|---|---|---|---|---|
| Event pipeline, `sink/pipeline.py` | bounded queue, worker task, `_closed`, counters | `emit`, `_worker`, `_persist`, `stop`, `stats` | emit races the worker and stop; full queue; stores raise; death between two writes | every event counted once; drained on stop; order kept; rows never ahead of lines; stop returns |
| JSONL sink, `sink/jsonl.py` | day file handle, its buffer | `write`, rotation, `close` | a failed flush leaves lines that come out late | append-only, in order |
| SQLite store, `sink/sqlite_store.py` | events, aggregates, sources, ports | `write_event`, `upsert_port`, `set_port_enabled`, purge, clear, queries | no rollback: a later commit publishes an abandoned half; another process commits in between | rows agree with lines; counters follow rows |
| Ports, `port_manager.py`, `server.py` | ports table, `_servers`, an `asyncio.Lock` | seed, add, enable, disable, `start_all`, `stop_all` | the table changes before the lock is awaited; bind fails; close waits; restart re-seeds | a settled listener agrees with its row; operators' rows survive |
| Connection limiter, `limits.py` | a global and a per-address count | `acquire`, `release` | exactly one release per acquire on every path | no leak of slots or dict entries; both budgets hold |
| Connection handling, `server.py`, `detect.py` | one task per connection | `_on_connection`, detection, dispatch | timeouts, resets and errors at every await | each connection ends; each session is told as one story |
| Protocol handlers, `proto/*.py` | buffer and stage | SOCKS5 greeting, auth, request; HTTP header and answer | bytes arrive in any pieces | credentials recorded exactly and before the verdict; never an open proxy |
| Login guard, `web/auth.py` | failures and bans per address | `is_banned`, `register_failure`, `register_success` | bans expire lazily | bounded guessing rate; bans are earned |
| AI settings, `ai_settings.py`, `web/app.py` | one JSON file | save form, list models, chat, analyse | load, await minutes, save | a late list undoes no choice (an answer to a chat does, section 4); the stored URL is usable |
| AI client, `ai_client.py`, `ai_compat.py` | none | protocol detection and fallback, URL normalisation | a URL is normalised again and again, for changing protocols | normalisation is stable; a question reaches the API that the operator meant |
| Maintenance, `ops.py`; reindex, `reindex.py` | the same files and tables | purge; clear and replay | run beside a live writer and each other; two clocks; torn lines; crash half-way | a rebuild is exact; nothing young is purged, all that is old is |
| Service, `cli.py` | process | `run_service`, shutdown, maintenance loop | order of shutdown, with clients that still connect | nothing emitted is lost on a clean stop; the stop ends |
| Pages, export, AI context, configuration, deployment | none of their own | rendering, queries, parsing | — | out of scope, see section 7 |

How they interact. `HoneypotServer._on_connection` asks the limiter for a slot,
reads a first chunk, detects the protocol and calls a handler; server and
handlers call `EventPipeline.emit`. The pipeline's worker writes each event in a
thread to the JSONL file and then to SQLite. The web app and the service share
the event loop: port requests go through `PortManager` to the ports table and
then, under the server's lock, to the listeners. The AI handlers share one
settings file. The service stops the web server first, then the listeners, the
pipeline and the store. All of Python's state changes are on one thread except
`_persist` (the worker awaits it), so steps are cut at `await`s.

The hazards, each at its line and with the properties that cover it, are listed
in `PROJECT.json`.

## 2. Modules

| Module | Models | Uses |
|---|---|---|
| `EventLedger` | abstract: a log, in order of arrival, that may lose any run of what waits, and a view of it | |
| `EventPipeline` | pipeline, JSONL handle, event transactions, crash and restart | refines `EventLedger` |
| `Ports` | PortManager, ports table, listeners, the lock, restarts | |
| `SlotPool` | abstract: slots within two budgets, refusal only when full | |
| `Connections` | `_on_connection` around `ConnectionLimiter` | refines `SlotPool` |
| `ProxySession` | one session: detection and both handlers, byte by byte | |
| `LoginGuard` | `login_submit` and the guard | |
| `Endpoint` | `ai_compat.py` as operators on URLs, and where `ai_client.py` sends a question | |
| `AiSettings` | the settings file under its four handlers | `Endpoint` |
| `Analytics` | the tables as a value, the statements of `write_event` as functions on it | |
| `Storage` | torn lines, half transactions, `reindex` beside the service, crashes | `Analytics` |
| `Retention` | the maintenance loop beside the writer and a rebuild, the clock | |
| `Service` | `run_service`: boot, handlers, shutdown, death | `EventPipeline`, whole |
| `MC...` | instances for TLC | the module of the name |
| `...Proofs` | theorems, checked by TLAPS | the module of the name |
| `ConsoleProofs` | theorems about the two parts of the web console | `LoginGuard`, `AiSettings` |

**EventPipeline.** `queue`, `task` and `hand` are `self.queue`, where the
coroutine `_worker` stands and its local `item`; `stopper` is the process's
life and the place of `stop()`; `written` and `dropped` are the counters;
`offered` and `failed` are history. `unflushed` is what the JSONL handle still
buffers after a flush raised: up to some 8 KiB, after which CPython keeps the
older lines and refuses the new one (`LineLost`; which of the two happens is left
open, since it depends on the lengths of the lines). `txn` are the rows of a transaction that was neither
committed nor rolled back. `Emit` is one step, since `emit` has no await.
`WorkerGet`, `WriteLine`/`FlushFails`/`LineLost`/`OpenFails` and `CommitRow`/`CommitFails`
are the three places where the worker can be while others run or the process
dies; `OtherCommit` is any commit of another caller of the shared connection,
which publishes `txn`. An event is its number of emission.

**Ports.** A web request is one step up to its wait for the lock: the table
write and the place in the lock's queue, with no await between. The holder of
the lock then binds or closes, which are awaited. `Boot` seeds the table from
the YAML file and opens what is enabled; `SeedingCut` dies in the middle of it.
`listener[p].cfg` is the configuration that the listener's callback captured.

**Connections.** `pc` says which await the task of a connection is at. The
limiter's two methods have no await and are parts of the steps `Acquire`,
`Deny` and `Finally`; the dict `_per_ip` is a function whose domain is its keys.

**ProxySession.** `rest` and `buf` are what the client has not sent and what the
handler has not consumed; each read takes any number of bytes, times out, finds
the end or raises. `log` is the sequence of emitted events and replies.
`SocksLog` and `HttpLog` define what a whole stream means, without reference to
chunks, and are the reference that the chunked handler is compared with. HTTP
is abstracted to tokens; the halves of a method and of a credential are tokens
of their own, so that a cut can fall inside them. A credential's halves come
together in a stream (`CredentialsAreWhole`): they stand for one line.

**LoginGuard.** An attempt is one step, from `is_banned` to the bookkeeping.
Time is a natural number that grows.

**Endpoint.** A URL is a host and the segments of its path; `Blank` is a segment, so
that a trailing slash is one. `Prefix` is the path below which a host has its
API; the code does not know it, the properties do. `Normalize` is
`smart_normalize_base`, `ChatUrl` where the three `_chat_...` methods send a
question. A name contains the words that `Words` gives it (the code looks for
substrings).

**AiSettings.** `disk` is the file; `waiting` maps a request to what it asks
and to the settings it had loaded before it began to wait. A body may set the
detected protocol too; it is one of the three, or none (the code stores any
string). What operators type is
an assumption, `BasesNameApis`: nothing, or a host's prefix with its `/v1` or
not, one API path or none, and any slashes. A prefix itself is not taken for a
version or an API path (`PrefixesArePlain`).

**Analytics.** An event is its number, which is also its time; its fields are
constant functions. `AfterStatements(k, db, e)` are the tables after k of the
four statements of `write_event`, `Projection` what the tables should be given
the lines, where a line that holds no event is skipped. The counters per protocol have the shape of those per port.

**Storage.** `lines` and `cut` are the file as a reader sees it, whole lines and
perhaps the beginning of one; `buffer` is what the handle still has to write
and `own` says that its first line continues `cut`. Where nothing completes a
fragment, because its process died or its line was too large for the handle's
buffer (`LineLost`), the next line is appended to it: that line is then `Garbled` (skipped by reindex) or
`Broken` (it cannot be decoded, which ends a reindex). `db` is what is
committed and `view` what the service's connection sees; `conn` is its implicit
transaction: a failed write leaves it begun or writing, a query pins its
snapshot, a commit of the other process makes that stale. `reindex` and `pos`
are the other process: `reindex` is `"done"` after a rebuild that ended and
`"dead"` after one that was killed, in the lines or by a signal, until the
service starts. `EventPipeline` has the queue in front of it; the worker
here only takes the next event.

**Retention.** Time is a number of ticks, several to a second and a day. The
loop is cut where it reads the clock again: rows (`PurgeRows`), the list of
files (`ListFiles`), each `Unlink`. The steps of `reindex` and the worker's
come in between, since both are other threads or processes.

**Service.** The variables of `EventPipeline` and five more: the phase of
`run_service`, the listeners that are open, the one that `stop_port` waits for,
the connections with a running handler, and how many events handlers emitted.
Handlers and listeners are reduced to what matters for the shutdown; `Ports`
and `Connections` have them in detail.

## 3. Runs

A run is exhaustive over its bounds. Deadlock is checked except where the
service may be stopped for good or a session ends.

| Run | Bounds | Shows |
|---|---|---|
| `pipeline` | queue of 2, 5 events, 2 boots | `Accounting`, `LedgerInOrder`, `RowsInLedger`, `DrainOnStop`; refinement of `EventLedger`; `QueueMoves` |
| `ports` | 2 ports, 2 configurations, 5 requests, 3 boots, 1 connection a port | `QuiescentAgreement`, `LastRequestWins`, `RuntimeRowsKept`, `ShutdownKeepsRows`, `LockIsFreed` |
| `connections` | 5 connections, 2 addresses, budgets 3 and 2 | `SlotsBalance`, refinement of `SlotPool`, `EveryConnectionEnds` |
| `session` | 15 streams, every configuration, header limit 8 | `SegmentationIrrelevant`, `RecordedBeforeVerdict`, `NeverOpen`, `OneEnding`, `EverySessionEnds` |
| `login` | 2 addresses, 2 failures, bans of 2 ticks, 6 ticks, 7 guesses | `RateLimit`, `BanIsEarned` |
| `ai` | 49 ways of typing a URL, 5 requests, 2 of them waiting, 2 keys, 2 models | `StoredBaseIsNormal`, `ApiIsReached`, `LateListKeepsChoices` |
| `storage` | 4 events, 2 addresses, 2 days, 2 failures, 2 boots, 2 rebuilds | `RebuildIsExact`, `CountersFollowRows`, `DamageIsBounded` |
| `retention` | days of 2 seconds of 2 ticks, 10 ticks, 2 events, 1 rebuild, 1 failing pass | `YoungDataKept`, `OldDataGoes` |
| `service` | 2 listeners with a connection each, queue of 1, 3 events, 2 boots | `EverythingAnswered`, `ShutdownCompletes` |

Why these bounds are enough for the cases that matter:

- `pipeline`: a queue of two fills while a third event is in the worker's hand
  and a fourth is dropped; stop waits for room behind a full queue; one event
  remains for the second process, whose lines follow those of the first.
- `ports`: five requests put three operations of one port and two of another in
  the lock's queue while a bind is awaited; three boots allow a change, a
  restart in which seeding is cut, and another one. `WaitsForConnections` is
  TRUE, the behaviour of `wait_closed` from Python 3.12: earlier versions only
  drop a guard of the step `Drained`.
- `connections`: with three connections of one address and two of the other,
  each budget is in turn the one that refuses.
- `session`: the streams contain every stage of SOCKS5, its three address types
  and an unknown one, empty names and passwords, a wrong version, truncated
  ones, and for HTTP every kind of authorization line, several of them, one
  after the header and an endless header.
- `login`: time for three bans in a row, with failures left over from each.
- `ai`: three hosts, each with a prefix of its own, with `/v1` or without, with
  each API path or none, with a slash or none; one host is normalised in two
  ways, depending on the protocol. Two waiting requests overlap a form.
- `storage`: two failures let a torn line meet a half transaction, or a fragment
  follow a fragment; two boots let a new process append to it, and a rebuild run
  beside the one or the other, die, and be repeated. Two of four events carry
  the same credential, from the same address on the same day.
- `retention`: the horizons of both purges are one day, where they are closest;
  midnight can fall between any two steps of a pass, twice.
- `service`: while one listener waits for its connection, the other one accepts
  another, whose handler emits into a full queue; `WaitsForConnections` as above.

Fairness. `pipeline`: the worker's next step is taken if it can be (the loop
runs ready tasks, and a persist thread returns or raises), and so are the two
steps of `stop()`; nothing is assumed of emits, of stores succeeding, or of a
restart. `ports`: the holder of the lock goes on and a connection being drained
ends, because each handler read has a timeout and a handler reads a bounded
number of bytes. `connections`: a task goes on; `session` shows why this is
justified for the handlers. `session`: the handler runs and a read that brings
nothing times out; the client owes nothing. `retention`: the loop makes its next
step (it sleeps for a bounded time; an error only ends a pass, and errors are
bounded); the writer, the clock and the rebuild owe nothing. `service`: handlers
end, for the reason given for `ports`; the shutdown's next step is taken if it
can be; clients may go on connecting and emitting as long as a listener is open.

Each property of these runs has a mutant, an operator named `Bug...` beside the
definition it stands in for: a plausible slip in that code under which the same
run violates the property.

## 4. Where code and documentation differ

Three runs expect a violation. Each checks one sentence of the repository.

| Run | The sentence | What the code does |
|---|---|---|
| `ports_add_disabled` | `docs/phases/phase2-web.md:46`: in step with the ports table | adding a listening port with `enabled=false` leaves it listening |
| `ai_saved_is_kept` | `README.md:97`: the page's settings are saved | an answer to a chat writes back the settings loaded before it |
| `storage_live_reindex` | `README.md:90`, `deploy/README.md:82`: rebuild SQLite from JSONL, with the service left running | a line that is written and counted during the rebuild is counted again |

The following was met while modelling and has no run of its own:

- A full queue drops the event that does not fit, whatever it is;
  `docs/architecture.md:122` keeps auth events first (`EmitDropped`).
- Adding a listening port with other protocols changes its row only
  (`AlreadyListening`); the old ones are served until it is closed.
- Disabling a *configured* port lasts until the next start: the row does not
  become `runtime`, and seeding enables it again (`DisablePort`, `Seeded`).
  `RuntimeRowsKept` is stated of runtime rows for this reason.
- A key or a base URL typed for one listing of models is stored, the key if there
  was none (`ModelsListed`; the comment at `web/app.py:370` says otherwise). The
  base URL is stored even without an override: the one loaded before the provider
  was asked replaces one that was saved while its answer was awaited
  (`web/app.py:381`). `LateListKeepsChoices` is therefore stated of the switch,
  the model, the protocol and a stored key only.
- After a Responses endpoint was detected, a Claude endpoint is not asked in
  its own protocol (`Chain`; `README.md:31` promises auto-detection).
- An OpenAI protocol at a base stored Anthropic's way lacks its `/v1`;
  `ApiIsReached` makes this exception. Of two API paths at the end of a URL only
  the last in the code's list is removed, so such a URL has no stable form;
  `BasesNameApis` leaves these out.
- After a failed write, a query and a commit of another process, every write of
  the service fails until another restart (`SnapshotFails`).
- A line that is not UTF-8 ends a reindex after the tables were cleared
  (`RebuildDies`), which leaves what the lines before it give (`RebuildIsExact`).
  Rebuilding after `ops.py` has removed day files forgets the
  older counts, which no purge would have removed.
- Before Python 3.12 `Server.wait_closed` does not wait for handlers, and what
  late ones emit is refused uncounted (`WaitsForConnections = FALSE`).
  `pyproject.toml:10` accepts 3.10 and 3.11, so `EverythingAnswered` and
  `EverythingIsAnswered` say nothing of these versions: the property is stated
  under `WaitsForConnections`.

## 5. Proofs

All assumptions are the named `ASSUME`s of the modules. Each proof has the
shape Init => I, I /\ [Next]_vars => I', I => property.

**EventPipelineProofs** — for every queue size, 0 (no limit) included, and all
bounds.
- `TypeCorrect`: `[]TypeOK`.
- `RowsFollowLines`: `[]RowsInLedger`. The invariant is `LinesFirst`: besides
  the rows, the abandoned transaction and the event about to be committed have
  their lines; without this a later commit could publish a row with none.
- `NothingUncounted` (`[]Accounting`) and `StopDrains` (`[]DrainOnStop`). The
  property counts the events of the queue that are not the sentinel; `Balance`
  states it with `Len(queue)`, and `QueueShape` says when exactly a sentinel is
  in the queue, that it is last, and that a returned worker left it empty.
  `CountsAreExact` connects the two countings.
- `NothingAfterStop` (`QuietAfterStop`): by the same shape, a stopped pipeline
  has no worker left that could write.
- `ImplementsLedger`: `Spec => LedgerSpec`, with the mapping of `EventPipeline`
  (the lines are the log, the buffered line, the event in hand and the queue are
  what waits). The work is in three lemmas on what waits: `SettledIsStep`, for the
  steps that settle its oldest events (a flush, a failed write, a crash),
  `LossIsStep`, for a full buffer, which loses an event behind others that stay
  (the ledger's `Settle` logs the oldest k and loses a run that begins anywhere
  after them), and `MovesKeepUnlogged`, for the steps that only pass an event on. `LinesInOrder`
  (`[]LedgerInOrder`) then uses the abstract steps alone: `Order` says that lines
  followed by what waits increase and do not pass the last event emitted.

**PortsProofs** — for every finite set of ports, every YAML file and all bounds.
- `TypeCorrect`, `OperatorWins` (`RuntimeRowsKept`) and `ShutdownIsNotDisable`
  (`ShutdownKeepsRows`). For the last, `Closing` says that a shutdown has queued
  a stop for every open listener and nothing else; the snapshot that `stop_all`
  takes is complete because the set of ports is finite (`Snapshot`).
- `ListenersFollowTable` (`[]QuiescentAgreement`) and `LastRequestDecides`
  (`[]LastRequestWins`) assume `AddEnable \subseteq {TRUE}`: no caller adds a
  disabled port. Without it they are false (run `ports_add_disabled`). Neither
  property is inductive alone: a port becomes settled when its last operation
  completes, and that operation agrees with the row because the lock is first-in
  first-out and rows change only together with the queue. `HolderShape` (who
  awaits has left its port closed) and `NoListenerRefused` complete `Agreement`.

**ConnectionsProofs** — for every finite set of connections, every address map
and all budgets. The invariant is `TypeOK /\ SlotsBalance`; it gives
`TypeCorrect` and `SlotsAreBalanced`, and with it `BudgetsHold` and
`ImplementsPool`: every step of the limiter is a step of `SlotPool` or leaves
its variables alone. Refusing is exact only because the counts are.

**ProxySessionProofs** — for every set of streams, whatever their length, and
every header limit. The invariant has three parts besides the types.
- `Told` says what the log is at each stage; since the stages of a login are
  passed in one order, there are few logs, and `RecordPrecedesVerdict`
  (`[]RecordedBeforeVerdict`; a 407 without an auth event is only said where no
  credentials were sent), `NeverAnOpenProxy` (`[]NeverOpen`) and `EndsOnce`
  (`[]OneEnding`) are read off the list of them. `Unnamed` adds that nothing is
  held of a client before its name.
- `Understood` is why cuts do not matter. It says at which token of the whole
  stream each stage reads, that the handler's buffer followed by what is still to
  come is the stream from there on (`Placed`), and that what has been understood
  so far is what the reference reads at those places (`NameAt`, `PassAt`,
  `TypeAt`). A read moves tokens from `rest` to `buf` and keeps this; an ending
  compares the log with `SocksLog` or `HttpLog` of the stream: `CutsDoNotMatter`
  (`[]SegmentationIrrelevant`). A timeout or a reset may end a session at any
  token, so each ending has its lemma, and the header needs an induction on where
  its blank line is (by the least such place).

**StorageProofs** — for all numbers of events, addresses, ports, credentials,
starts, rebuilds and failed writes. `InvariantHolds` is the inductive invariant,
which TLC had found true on the bounds of the run `storage`.
- What carries all of it is order: the worker numbers the events as it takes
  them, so the file, its cut line and the handle's buffer hold them in increasing
  order (`FileIsInOrder`), whatever is torn, glued or written late. No step lets
  an event come twice or out of turn (`WriteKeepsFile`, once for all writes).
- Hence the event in hand is above every row (`RowsAreEarlier`), and the next
  line of a rebuild above every row it has made (`Rebuilt`): INSERT OR IGNORE is
  never needed unless a rebuild runs beside the service, and the row and the
  counters agree that the event is new. So the tables of a rebuild are at each
  moment those of the lines it has read, whether it ends or is killed. `CountersFollowTheRows`
  (`[]CountersFollowRows`) and `RebuildsAreExact` (`[]RebuildIsExact`) follow.
- `DamageAccounted` bounds the events that have a row and no line: a write takes
  events out of the text only by gluing to a fragment nothing completes, which costs
  the event of the fragment and the one glued to it; every fragment has been
  counted in `tears`, and one not yet glued has its two events reserved
  (`AtRisk`). It gives `DamageStaysBounded` (`[]DamageIsBounded`).
- `Projection` is a recursive function over the lines. That it exists, is unique
  and grows line by line (`ReplayExists`, `ReplaysAgree`, `ProjectionGrows`) is
  proved with `LeastNumber`, induction as a fact about sets of numbers: the
  library's rule takes an operator, which the provers cannot instantiate.

**ConsoleProofs** — first the settings, for every set of hosts, prefixes, forms
and overrides that satisfies `PrefixesArePlain` and `BasesNameApis`:
`TypeCorrect`, `ListsKeepChoices`, `BaseStaysNormal` (`[]StoredBaseIsNormal`)
and `EveryQuestionArrives` (`[]ApiIsReached`). The invariant says of the stored
base and of each loaded one that it is `Settled`: the host's prefix, with `/v1`
unless the host's style for that protocol leaves it out. `ApiPathGoes` shows
that the loop over the API paths takes the one that was typed and nothing of the
prefix, and `StyleIsOfHost` that what happens to the version depends on host and
protocol, not on the path. So normalising again, for another protocol too, only
adds or removes that version (`NormalIsSettled`), and the three ways to send a
question come out at the same place (`SettledReaches`). Then the guard, for every limit and ban time.
`RateLimit` is not inductive: `Streaks` says that each address has served some
number q of whole bans, bounds its guesses by q limits and its current count,
and the time since the first of them by q ban times. From it follow
`RateIsLimited`, `BansAreEarned` and `GuardTypeCorrect`.

**RetentionProofs** — for all horizons with rows kept no longer than lines
(`LinesOutliveRows`, true of the defaults), all lengths of seconds and days, and
all bounds. `TypeCorrect`, and `YoungStays` (`[]YoungDataKept`). Its invariant
`Kept` adds to the types: a line is in the file of its event's day or a later
one (`LinesFollowEvents`), the cutoff of a pass is no later than one taken now
(`CutoffIsPast`), and a rebuild in progress has each young row in the table or
its file still to read (`RowsKept`). The last holds when the files are listed
because every young line has one, which is where the two horizons meet. The
arithmetic of days and whole seconds is in `QuotientsShift`, `YoungDay` and
`YoungSecond`.

**ServiceProofs** — for all listeners, connections and bounds. By
`ContainsPipeline` (`Spec => Pipeline!Spec`) what is proved of the pipeline
alone holds of the one in the service. `Shape` ties the phases of `run_service`
to those of `stop()`; `Attended` says that a running handler has a listener that
is open or waited for where `wait_closed` waits for handlers. From them and from `StopDrains` follow `TypeCorrect`,
`NoHandlerIsLate` (no handler runs once the pipeline refuses events) and
`EverythingIsAnswered` (`[]EverythingAnswered`).

`NothingAfterStop`, `BudgetsHold`, `NoHandlerIsLate` and `InvariantHolds` are
proved and not among the runs' properties; the others are both.

Only model-checked: what is temporal under fairness (`QueueMoves`,
`LockIsFreed`, `EveryConnectionEnds`, `EverySessionEnds`, `OldDataGoes`,
`ShutdownCompletes`), which is beyond the prover. Every other property of a passing run is a theorem.

## 6. Plan

Done, in this order: `EventPipeline`, `Ports`, `Connections`, `ProxySession`,
`LoginGuard`, `AiSettings`, `Endpoint`, `Analytics` and `Storage`, `Retention`,
`Service`, and the proofs of section 5. What would be next:

1. `Ports` inside `Service` in place of its reduced listeners, with the web
   requests that are still running when the shutdown begins.
2. A torn line in `EventPipeline`, so that `EventLedger` promises what `Storage`
   keeps of it.

## 7. Not modelled, and why

- Pages, templates, JSON of read-only queries, export, AI prompts: rendering of
  queries, without state of their own.
- Message formats of the AI providers, HTTP client errors: external; only which
  protocols are tried, and that a call fails, is modelled.
- YAML and environment parsing: pydantic's; the result is a constant.
- Session cookies: Starlette's.
- `get_runtime_status` and `_port_cfgs`: nothing calls or reads them.
- Branches no caller reaches: `emit` without an event loop, `start_port` with a
  disabled configuration, the SOCKS5 version check after detection by the same
  byte.
- A budget of 0 per address (the dict of the limiter then grows by an entry for
  each address that tries): excluded by `BudgetsArePositive`.
- The warning about stale logins, the daily export, disk statistics: they only
  read. What an export shows is a query's result.
- Counters per protocol, and the order of equal timestamps: as those per port.
- A power failure that undoes what was flushed: only the process dies.
- Of URLs, the scheme, port, user and query; of model names, the guess of a
  protocol, which only orders the protocols to try; `probe_and_annotate`, which
  nothing calls.
- A clock that goes back (`LoginGuard`, `Retention`), cancellation of tasks other
  than at the end of the loop.
