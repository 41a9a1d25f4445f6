# whatsapp-mcp: verification project

TLA+ models of the parts of this repository that are hard to test, checked
with TLC on small instances and, where the project says so, proved with TLAPS
for every value of the constants. `PROJECT.json` holds the machine-readable
side: the runs, which lines of the source each definition stands for, the
mutants that show each property can fail, the hazards and the findings.

## The system

whatsapp-mcp bridges one WhatsApp account (through the whatsmeow library) to
MCP tools. One process, one data directory.

| Component (source under `src/internal`) | State | Operations | What is hard | Covered by |
|---|---|---|---|---|
| Pair session (`wa/admin_ops.go`, `wa/pair_observe.go`, `tools/pairing.go`) | newest event, sequence number, done flag; channel `out` | flow goroutine, `PairWaitNext`, `PairLatest`, drainer, cancel by `Unpair` | condition variable with a context, lost wake-ups, full channel, cancel racing the outcome | `PairSession`, `PairCell`, `PairSessionProofs` |
| Media store (`media/media.go`, `media/sweep.go`) | a directory of blobs, sidecars, temp files | `Put`, `PutReader`, `Lookup`, `Open`, `Sweep`, `RunSweeper` | no lock at all between writers, readers and sweeper; half objects after crashes; two clocks (TTL, last use); times fixed before they are written | `MediaStore`, `MediaStoreProofs` |
| Cache writes (`cache/handler.go`, `upsert.go`, `polls.go`) | SQLite tables | one handler per WhatsApp event, tool mirrors, sync upserts | replays, reordering, history batches, failing statements, crash between statements | `Ingest`, `IngestProofs`; contacts, names and aliases in `Reads` |
| Client lifecycle and dispatcher (`wa/client.go`, `admin_ops.go`, `dispatcher.go`, `flock.go`) | connection state, whatsmeow client, current pair session, subscribers, `rawCh` | `Open`, `Connect`, `Disconnect`, `Close`, `StartPairing`, `PairPhone`, `Unpair`, `dispatch`, `Subscribe` | two mutexes, a client replaced under running callers, queued events of the old client, auto-reconnect | `WaClient`, `WaClientProofs` |
| Cache sync (`cache/sync.go`, `tools/cache_sync*.go`) | the current report, the running flag | `Start`, `Snapshot`, `run` and its three stages | one run at a time, stages that fail, listings that are old when written, counts taken while the dispatcher lags | `CacheSync`, `CacheSyncProofs` |
| Tools that act on WhatsApp (`tools/*`, `wa/account_ops.go`, `wa/lookups.go`) | none of their own: cache, media store, whatsmeow's store | about twenty: send text, files, audio and reactions, receipts, downloads, presence, contacts, groups, timers | effect and mirror are separate steps; link and pairing change under the call | `Tools` |
| Poll tools (`tools/polls.go`, `wa/polls.go`, `cache/polls.go`) | poll tables, message secrets | `send_poll`, `vote_poll`, `get_poll_results` | votes before the secret, a ballot written between two reads | `Tools`; the tables' order rules in `Ingest` |
| MCP server and gate (`mcp/*`) | registry, sessions | the pairing gate, healthz | two predicates read one after the other while the link changes | `Tools`; transports not modelled |
| Read side (`cache/reader.go`, `mcptools/*`) | none | listings with OFFSET, conversations, threads, contexts | several SELECTs per answer and per client, merging phone and LID, ties in a second | `Reads`, `ReadsProofs` |
| Migrations (`cache/migrations.go`) | schema version | `Migrate`, rollback | one transaction each, at start-up | not modelled |
| HTTP media routes, audio, config, log, main | none worth modelling | I/O and parsing | - | calls in `MediaStore` and `Tools`; rest not modelled |

How they interact: whatsmeow calls an event handler that puts every event on
`rawCh`; the dispatcher goroutine takes them off one at a time, updates the
lifecycle state and calls the ingestor, which writes SQLite. Tools run on their
own goroutines: they call whatsmeow, mirror the effect into the same tables and
read them; pairing tools start a flow and poll its session; media tools and the
HTTP routes share the media directory with the sweeper.

What makes each component correct, in one line: a pair flow's observers miss
nothing and always get an answer; the store serves whole payloads only and
retention deletes what it should and nothing else; the tables never go
backwards by a second whatever the order of delivery; the client's state says what its
socket is, and there is one flow at most; the cache shows no message or
reaction of this account that WhatsApp did not accept, and what a tool reports done is done; a query loses
nothing that stood still while it was answered; one sync runs at a time, ends,
and an undisturbed one leaves the table as WhatsApp has it.

## Modules

| Module | Models |
|---|---|
| `PairCell` | abstract specification: a cell with the newest event and pollers |
| `PairSession` | one pairing flow, step by step, refines `PairCell` |
| `PairSessionProofs` | its inductive invariant and the refinement, proved |
| `MediaStore` | the directory under concurrent Puts, Gets, sweeps, crashes |
| `MediaStoreProofs` | what is stored and served, and what a sweep leaves, proved |
| `Ingest` | the tables of one chat under events, tools, failures, crashes |
| `IngestProofs` | its inductive invariant and all its safety properties, proved |
| `WaClient` | the client: main, pairing and unpairing calls, dispatcher, whatsmeow clients |
| `WaClientProofs` | its inductive invariant, proved |
| `Reads` | the queries and the clients that page, beside the writers |
| `ReadsProofs` | its inductive invariant and all its safety properties, proved |
| `Tools` | the tools and the gate, concurrent, with outages, unpairing, crashes |
| `ToolsProofs` | the programs' shape and the six properties of `Tools`, proved |
| `CacheSync` | the orchestrator, WhatsApp's side, the dispatcher, polling clients |
| `CacheSyncProofs` | its inductive invariants, the report's order and what a finished run is worth, proved |
| `DataLemmas` | facts about numbers, finite sets, sums and maxima that several proofs need |
| `MC*` | the constants TLC needs that a `.cfg` cannot write |

A definition marked *Mutant of X* is a plausible bug in X's code; no model uses
it. The check puts it in place of X and requires the property to fail.

### PairSession

`fpc` is the flow goroutine's position, `out` the number of events buffered in
the channel, `obsMu` the holder of the mutex (only visible where a goroutine
can be preempted while holding it: between the loop check of `PairWaitNext`
and `Cond.Wait`), `obsLatest/obsSeq/obsDone` the session's fields; `wpc`,
`startSeq`, `expired` and `dog` are each `PairWaitNext` call, its local, its
context and its watchdog. Critical sections that contain no preemption point
of interest are one action each (`FlowPublish`, `FlowMarkDone`, `WaitBegin`,
`WaitAnswer`). The notify list of the condition variable is the set of calls
with `wpc = "asleep"`, joined atomically with the unlock as `sync.Cond`
guarantees. WhatsApp offers up to `MaxCodes` codes and any terminal item at any
time. `PairLatest` reads `obsLatest` under the lock and changes nothing, so it
has no action.

### MediaStore

`disk` maps names `<<digest, extension>>` to files; payloads are identified
with their digest. Each file system call whose outcome another goroutine can
influence is an action: list, stat, open, rename, remove. `put[w].tmp` says
whether the call's temp file still exists (a sweep may take it), `litter` holds
the temp files of calls that died. The two times that are fixed before they
are written have a step each: a sidecar gets its mtime when its temp file is
written (`PutSidecar`) and its name at the rename (`PutMeta`); a touch reads the
clock (`PutNow`, `GetNow`) before it sets the time (`PutTouch`, `GetTouch`).
`Stamps(d)` are the times so pending for an object, `get[r].since` (history) the
earliest of them when `r` was served: what `UseCounts` says a use can be set
back to, and no further. `sweep.clean` is a history variable: no Put
overlapped this pass and none of its removals failed. Abstractions: the
`Info` calls of one pass happen in one step (`SweepDecide`) after the listing;
the order of removals across digests is left free, while evict's blob before
sidecar is kept; a temp file carries the mtime of its creation or last write;
a listing that shows two blobs of one digest keeps either, as the map does.

### Ingest

A handler is a script of statements per message, computed by `Script` from the
event as the handler does (a history batch has one script per message and one
for its chat); `job[a]` are the scripts goroutine `a` has left. Each statement is
one transaction and the unit of interleaving. `StatementFails` and `Crash` may
fall anywhere. `applied` (history) collects the events of which every statement
took, for the properties that promise something after success; `called` keeps
tool calls from being repeated. One chat is modelled: no handler writes two.
Contacts, aliases, names, nicknames and presence are left out.
The guards on reactions and votes compare whole seconds with `>=`, so the
properties order by seconds: of two of one second the one delivered last
stands, also when it was sent first. A legacy edit never touches the chat; a
wrapped one does when it misses its target, and counts as an activity.

### WaClient

`up`, `loggedIn`, `linked`, `retrying`, `asking` and `wired` are the sets of
whatsmeow clients (numbered; `Unpair` installs the next one) that have a socket,
are authenticated, have a device ID, have an auto-reconnect loop that is going
to dial, have one that failed to and will ask the hook, and report to `rawCh`; `cur` is `c.wm` with its device and container. `pc[c]` is a tool call
inside `StartPairing` or `Unpair`, `mpc` is main, `dpc` the dispatcher between
the three effects of a logout or replacement. A step is one section of `c.mu`,
one atomic store, or one call to whatsmeow. A call that is refused changes
nothing and has no step. The dispatcher's call of the ingestor follows each
event and may take long: events simply wait in `rawCh`.

The flow is what `PairCell` promises of it: `live`, `cancelled`, `done`. An
`Unpair` whose two seconds are over abandons it, one whose context ends leaves
it installed.

whatsmeow is not in the repository. The model takes from it only what the code
relies on and is weak elsewhere: any connection of a linked client that ends,
for whatever reason, may be retried (the hook's own log line names logouts and
replacements as what it stops); a logout deletes the device at once.
`AutoReconnectHook` is given the error of an attempt that failed, so a loop's
first dial (`AutoReconnect`) asks nobody, and after an answer of yes the next
dial is a step of its own. Between the answer and the dial the flag may be
raised; so it may between `StartPairing`'s clearing of it and its dial, and in
`Connect`. `quiet` is a history variable: the dispatcher has met a logout or
replacement and nobody has asked for a connection since. `late` says that at
that moment somebody was already going to dial (`Dialling`), or that another
connection was lost before the socket was closed. `StaysDown` is what the flag
does keep: everything but those dials. That they happen is `NeverRecovers`
under Findings. Outside the model: subscribers (only tests subscribe), the
lock file, `Disconnect` (which nothing calls), `PairPhone` (no effect on the client).
`Unpair` has no caller in the program since the admin routes were removed; it
is modelled because it is the client's interface and the pairing code is
written against it.

### Reads

`messages`, `chats`, `contacts`, `aliases` are the tables; `matching` says which
bodies the one search query finds. A SELECT is one step and sees one state; a
tool that makes several, and a client that turns pages, is `call`, with the
local variables of the handler as its fields. Reads change nothing, so one
call at a time loses nothing. Beside it the writers run: `StoreChat` and
`StoreRow` (a live message is two statements), `HistoryRow` and `HistoryChat`
(rows first, the chat last), `Reword` (edit, revoke), `Title`, `Flag`,
`Contact`, `Learn` (an alias). `writer` is the statement the ingestor still
owes; a crash there is a behaviour in which it is never paid.

A listing is a set of rows with sort keys, `Slice` is LIMIT and OFFSET over it.
The keys are the columns of each ORDER BY, ids compared as SQLite does; where
the ORDER BY leaves a tie (two previews of one chat, or, in `list_messages`, two
messages of different chats with one id and second) the model takes one order,
and assumes that SQLite keeps it from page to page. `call.moved` and
`call.disturbed` are history: which rows went ahead while the client paged, and
whether any left or went back. Left out: `attachReactions` (one more SELECT
over the page's ids, after it), the filters of `list_conversations`, which work
on the answer in memory, and the shape of the answers.

### Tools

A tool is a sequence of steps, `Program`: the gate's checks, its reads, round
trips and mirrors in the order of its handler. `call[c]` has the step, what the
handler holds in locals, and its answer. `accepted` is what WhatsApp took;
`rows`, `polls`, `ballots`, `votes`, `reaction`, `unread` are the cache,
`secrets` is whatsmeow's message-secret table, `blobs` the media store's
contents, `inbox` the votes the ingestor has not handled. Every step can fail
as its code can, and answers as its code answers (`Reply`); a send may have
been accepted although the round trip reports an error. A mirrored message is two statements, `MirrorChat`
and `MirrorRow`; the first writes every column of the chat, `unread_count` among
them, so a send clears the read flag without a receipt, and no property claims
otherwise. Between any two steps: polls are delivered, also again, votes are
cast and handled, or fail to be written, the phone removes a reaction or marks
the chat, the link drops or returns, the device is unpaired and paired again,
the sweeper evicts, the process dies. `cache_sync` has its own look at the link
after the gate's (`CheckLoggedIn`) and answers `not_paired` whenever the socket
is down; what it starts is `CacheSync`'s. The other `not_paired` answers
behind the gate are for a client without a whatsmeow client, which no code path
leaves, and have no step.

A ballot is a set of numbers, the hash of an option is the option, a message is
its kind and what it refers to. All tools with the same steps are one program
(`AccountOp`, `SearchContacts`). A voter has two addresses, `as`: its phone JID
and its LID. A vote event is keyed by the sender it names, which may be either,
a vote cast by tool by the phone JID (`MirrorOwnVote`); the table has one row
per address (`SameVoter`), so the properties count addresses, not people. A chat
goes over to LIDs and not back. `call[c].seen` (history) are the states of the link
during the call, `readable` the polls reported sent to this pairing, `voted`
the votes reported cast. Calls refer only to what others sent or to what a tool
on the menu may send (`Referable`), and the environment's steps are taken where
some tool on the menu can see them.

### CacheSync

`current` is `o.current` with `o.running`, `run[s]` the goroutine of run `s`
with its locals (what it listed, the patch it is at, its counts), `raw` and
`counted` the dispatcher's queue and the counters the app-state stage reads.
`BeginStage` and `EndStage` are the two halves of `runStage` under the mutex,
`Start` answers `not_paired` to any client that is not connected, linked or not,
`List` is the round trip, `UpsertListed` one statement, which may fail and is then
skipped; `FetchPatch` fetches and `HandOver` puts what came on `rawCh`, one
event at a time, blocking when it is full. WhatsApp holds titles, marks and the
unfetched part of each patch. A client starts a sync, polls and finishes;
`call[c].quiet` (history) says that WhatsApp changed nothing since its call and
no event was waiting at it.

## Runs

| Run | Bounds | Shows |
|---|---|---|
| `PairSession` | 2 calls, 2 codes, 1 terminal type, buffer of 1 | `TypeOK`, `NoSleepThroughEvent`, `OutcomeVisible`; under fairness `WaitReturns`, `FlowEnds`; refinement `ImplementsCell` |
| `Media` | 2 payloads (at the limit, one over), 2 writers, 1 reader, 2 Puts, 2 ticks, 1 fault | what is served and stored is whole, a use is lost only to calls it overlaps, undisturbed passes enforce cap and TTL; eventually only complete objects |
| `MediaJson` | extension `json` | finding: the sidecar replaces the bytes |
| `MediaRace` | 1 payload, 2 writers, no fault | finding: the sweeper removes a Put in progress |
| `Ingest` | 9 kinds of events, dispatcher and one tool, 2 message ids, 2 ticks per second | replay, reordering, failure and crash never make the tables regress by a second |
| `WaClient` | 2 calls (symmetric), 2 flows, 2 whatsmeow clients, `rawCh` of 1, 2 ended connections | one live flow; a logout stays final but for dials already on their way; never paired over a linked device |
| `WaStaleLogout` | same, `rawCh` of 2, 3 ended connections | finding: a late logout hangs up on a new flow |
| `Reads` | a contact (phone and LID), a group, 4 possible messages of which 3 rows, pages and windows of 1, 2 writes during a call | paging misses only what moved, conversations partition the chats, contexts have no gap, threads are merged |
| `ReadsUnread` | same, unread counts 0 and 1 | finding: an unread count is added twice |
| `Tools` | 2 agents (symmetric), 2 calls of tools that share state (3 of those that only check the gate), 1 option, 1 voter, 2 seconds, 1 change of the link, crash or vote not written | mirrors, refusals, reports of success, tallies and votes are right |
| `CacheSync` | 1 group, 1 newsletter, 1 client, 2 syncs, 2 patches, `rawCh` of 1, 2 changes, 1 fault | one run at a time, reports only move forward and end, a quiet run is fresh |
| `SyncFresh` | same, no fault | finding: a mark is lost by a sync |

Why the bounds are enough. Two waiters are the least for which a Broadcast
differs from a Signal; two codes let a call begin between events; a buffer of
one fills as soon as a buffer of eight would, later. Two writers of one digest
are every pair of concurrent Puts (three calls race no more than pairwise on one
name); sizes at and just over both limits are the boundary; the clock outlives
TTL and temp age by one tick, which the crash's guard keeps true of litter. In
`Ingest` every pair of conflicting writers of each row occurs, events repeat
without bound, and one second holds two ticks so that equal seconds with
different times happen. In `WaClient` two calls are all that can matter beside
the one that holds `adminMu`; two flows and two clients give an abandoned flow
and a successor, an old client and its replacement; an event that waits in a
queue of one while the dispatcher has another in hand is as late as one behind
63 others, and it fills; two ended connections put an old event behind a new
connection, and a failed dial, its question and the next dial each have the
other caller and the dispatcher between them. In `Reads` pages of one row make every row a page boundary, two
messages of one second and of one id in two chats make every tie, one contact
with both identities is what can be merged, and two writes between pages give a
move and a second one that could undo it. In `Tools` the menus put together the
tools that read or write the same thing, two calls that overlap in any way or
follow one another, beside the environment's steps; tools without common state
cannot disturb one another. One phone vote on another member's poll, repeated without
end, meets the tool's vote in every order; votes cast again are in the menus with
`send_poll`. In `CacheSync`
two runs are one and the next, one chat of each kind passes each stage, two
patches are one before the interesting one and it, and two changes of WhatsApp
fall on both sides of a listing; four patches and 64 places only repeat steps.

`CHECK_DEADLOCK FALSE`: the pair session ends, the client shuts down, and in
`Reads`, `Tools` and `CacheSync` the calls, writes and changes that the bounds
allow can be used up.

Fairness. `PairSession`: Go's scheduler runs every runnable goroutine and
`sync.Mutex` hands over after a millisecond, hence strong fairness of the steps
that take `obsMu`; deadlines pass; whatsmeow's QR channel always ends up with a
next item. No fairness for `Cancel` or for new calls. `MediaStore`: the ticker
fires, file system calls return, time passes; a request body may stall forever,
so `PutSpool` is not fair. `CacheSync`: the dispatcher takes the next event and
the run's goroutine goes on, weak fairness of `Ingest` and of each `RunStep`;
its round trips return, with an answer or an error. The run uses
`context.Background()`, so this is an assumption about whatsmeow, whose requests
time out on their own and fail when the socket drops. Nothing is assumed of
WhatsApp, the link or the clients. The
other modules have safety properties only.

## Proofs

`PairSessionProofs`: the inductive invariant adds to `TypeOK` what the
properties alone do not keep: a call with the lock or asleep is what `obsMu`
says, `startSeq` never passes `obsSeq`, and the flow's position determines what
it published last (it is over only after a terminal event or a cancel). Sleeping
through an event is excluded because each publication empties the notify list in
the step that bumps `obsSeq`, and the loop check and the unlock hold the mutex
between them. From it `SpecTypeOK`, `SpecNoSleepThroughEvent`,
`SpecOutcomeVisible`, and `SpecImplementsCell`: each step of the session is a
step of the cell or a stutter. Assumption: `SessionAssumption`.

`MediaStoreProofs`: the invariant says that every blob file and every spooled
payload has its full length, every sidecar name holds a sidecar, every served
handle reads a blob, and the sidecar of a served object, as every time still
pending for it, is no older than `since`: what is read of the clock later is
later, and what is written was pending. Assumptions: `StoreAssumption` (finitely many digests and extensions, as
a directory has) and, for all theorems of the module, `JsonFree`: no mime type
maps to the extension `json`. `MediaJson` shows that without it they are false,
which is a finding about the code. For `SweepExpires` and `SweepCaps` a second
invariant (`SweepInv`) says of a pass that nothing disturbs: from its decision on,
what is still to be removed covers the expired blobs, and the bytes of what is
not (`Kept`) fit the store; each removal moves a name from one side to the
other, which the sum lemmas of `DataLemmas` account for. Two Puts may store the
same bytes under two extensions, of which a listing keeps one: the two theorems
are about passes whose listing names one blob per digest (`SeenOnce`), and
without it the cap is not kept (last row of the table under Findings).

`IngestProofs`: all seven properties of `Ingest`. `Statements` is the set of what
any script can hold, and the lemmas on `Script` say which statement of which
event it is. The invariant: the tables keep their keys, a marked row shows a
correction, a voter's row was cast, the chat's second is one of an activity
(`TablesInv`); what was handled has left its trace (`LandedInv`); and an event in
progress that nothing has failed for has its whole script ahead of it, or its
chat row up to date, or the statement that matters last in its job
(`PendingInv`). One lemma says that a statement that takes keeps all this
(`DoneKeepsInv`), one that a failing one does (`FailureKeepsInv`), one that an edit
that finds no row does; each action then only shows that it never moves a
table's seconds back (`Keeps`) and does what its statement is there for
(`Effect`). Assumption: `IngestAssumption`.

`ReadsProofs`: all six properties of `Reads`, for any rows, page size and window.
The invariant has a part per kind of call. `PagesInv`: of what was there when
the client began and did not move ahead, each object has been given or has a row
at the client's offset or after it. The argument is about ranks: a write changes
rows of one object (`OneChange`) and what is listed before a row can only grow,
unless a row left or moved back, which `disturbed` records (`RanksKept`); so a
row the client has not reached is never pushed behind its offset, and a short
page is the last. `ContextInv` holds for each side from the query that read it,
because messages only arrive; `ThreadInv`: a seed that was taken has its linked
identities among the JIDs, and the page is the newest of what concerns them;
`ConversationInv`: the groups of one canonical identity partition the chats. The
row of a chat covers its messages or a history batch still owes it
(`WriterInv`). Assumption: `ReadsAssumption`, where `Phones \cap Lids = {}` says
that the two kinds of JID have different servers.

`WaClientProofs`: to the properties the invariant adds that a call under way
holds `adminMu` and main has started (`LockInv`), that clients not yet built
have no socket (`GenInv`), that StartPairing runs beside a finished flow and
Unpair waits for a cancelled one (`FlowInv`), that the client Unpair installed
is untouched when it clears the flag (`ResetInv`), and, for `StaysDown`, that
unless the flag came too late nobody is between a look at it and a dial, and the
flag is up or there is nothing to reconnect (`QuietInv`): a caller may clear the
flag only at a moment when the installed client is unlinked. A loop that asks
the hook then is refused, or its client has been replaced or has no device.
Assumption: `ClientAssumption`.

`CacheSyncProofs`: `TypeOK` already says that at most one run has not ended. What
is inductive is that a run's goroutine and the report agree step by step
(`Tells`): entries before its stage are final, its own entry is running exactly
while it works on it, the entries after it are untouched. Since a run only
begins when no report is running, a report that is not running has no goroutine
that could still write it. Each step of a run then changes its own entry and no
other, which gives `ReportOnlyMovesForward`. For `QuietSyncIsFresh` the invariant
`QuietInv` follows a client whose call started a run and has been quiet since:
WhatsApp's lists are those it asked about, the dispatcher's queue holds marks
only, and every run under way began after the call. Of each such run (`OnCourse`)
it says that in the loop no more items are counted than chats handled, and that
if the numbers agree all of those are in the table; a statement that fails makes
them differ for good. Since upserts of quiet runs only write the titles that are
already right, what is in the table stays in it, so that reports keep their worth
after later runs, lost links and crashes. Assumption: `CacheSyncAssumption`; the
groups and newsletters are finite sets, or a count would say nothing.

`ToolsProofs`: all six properties of `Tools`. First lemmas about the programs
(`Well`): the gate comes first, whatever follows the send only mirrors, a mirror
has a send before it, each kind of message has its mirrors. The invariant says
of a call in progress that every step it has taken has left its `Fact`: after
the send WhatsApp has the message, after the ballot the poll is there, after the
options the ballot read is whole, and so on, and that before its send there is
no message with its id. The lemmas show that facts survive what others do
(`Grows`: what was accepted, the rows, the polls and the newest votes are never
lost to an earlier second; a removal of a reaction is remembered), that each
step establishes its own, and that a call which has taken all
its steps has what it reports. A secret is the one fact that can be lost, by an
unpairing, which a call in progress sees. Assumptions: `ToolsAssumption`,
`MenusAssumption`.

`DataLemmas`: the library's induction theorems take a predicate as parameter,
which these provers cannot instantiate. The two inductions needed are made
from the least number of a set (`LeastNumber`): `SetInduction` takes the set of
numbers a claim holds of, and the lemmas on maxima and sums of finite sets
follow from it by the cardinality of the set.

Only model-checked: liveness (`WaitReturns`, `FlowEnds`, `EventuallyTidy`,
`EverySyncFinishes`), which rests on fairness and on actions being enabled.
Every safety property that a passing run checks is also a theorem, the ones of
`MediaStore` under `JsonFree` and, for the sweep, about passes with `SeenOnce`.
Each inductive invariant was checked by TLC on the constants of the module's
run before it was proved.

## Findings

Each has a run that shows it.

1. `media/media.go:237` - JSON payloads are replaced by their sidecar (`MediaJson`).
2. `media/sweep.go:124` - the sweeper removes a blob whose Put is in progress (`MediaRace`).
3. `wa/dispatcher.go:90` - a late logout hangs up on a new pairing flow (`WaStaleLogout`).
4. `mcptools/list_conversations.go:185` - the unread count of a chat whose last
   second holds two messages is added twice (`ReadsUnread`).
5. `cache/sync.go:249` - a sync clears unread counts and flags, and nothing
   brings them back (`SyncFresh`).

Further disagreements the models show, each with a property that is violated
but no run listed for it. All but the last are reproduced by
`tlc -config <cfg> <module>`.

| Where | What | Reproduce |
|---|---|---|
| `wa/pair_observe.go:61` | the deadline's broadcast, made without `obsMu`, can come just before the call sleeps; it then sleeps until the next event | `PairDeadline.cfg`, `MCPairSession`: `AwakeAfterDeadline` |
| `cache/upsert.go:332` | a late removal deletes a newer reaction | `IngestReaction.cfg`, `MCIngest`: `NewestReactionStands` |
| `cache/upsert.go:235` | a late edit gives a deleted message a body | `IngestRevoke.cfg`, `MCIngest`: `DeletedHasNoBody` |
| `cache/upsert.go:39` | messages and syncs unpin and unarchive chats | `IngestFlag.cfg`, `MCIngest`: `FlagsOnlyByTheirEvents` |
| `tools/polls.go:228` | a vote that arrives between the send of a poll and its secret is not decrypted, though the secret is there a moment later | `ToolsSecret.cfg`, `MCTools`: `SecretNowOrNever` |
| `media/media.go:336`, `345` | a use can be overwritten: a Put of the same bytes stamps its temp sidecar and renames it over a touched one, a slow touch sets the time back; `media/sweep.go:33` says every Lookup and Open bumps it | `MediaUse.cfg`, `MCMediaStore`: `UseSticks` |
| `cache/upsert.go:299`, `cache/polls.go:179` | seconds and `>=`: an older reaction or vote of the same second, replayed, replaces the newer; `upsert.go:275` and `polls.go:157` say it leaves it alone | `IngestSecond.cfg`, `MCIngest`: `NewerRowLeftAlone` |
| `wa/client.go:195` | the hook is asked after failed dials only, and the flag may be raised between any look at it and the dial, so a logout or replacement can be followed by a dial nobody asked for; `REQUIREMENTS.md:182` forbids silent recovery | `WaRecovers.cfg`, `MCWaClient`: `NeverRecovers` |
| `tools/cache_sync.go:34` | a linked device whose socket dropped after the gate is answered `not_paired`, which `mcp/mcp.go:32` keeps for no credentials on disk | `ToolsNotPaired.cfg`, `MCTools`: `NotPairedMeansUnlinked` |
| `cache/handler.go:715` | a vote event is keyed by the sender's address, possibly a LID, a vote by tool by the phone JID (`tools/polls.go:552`): one person can be two voters; `cache/polls.go:188` says one row per voter | `ToolsVoters.cfg`, `MCTools`: `NobodyTwice` |
| `media/sweep.go:99` | with the same bytes under two extensions the sweep sees one blob per digest, so the cap does not hold | `SweepCaps` with two elements in `Exts` |

Other behaviour the models contain and nothing in the repository promises
otherwise: a failing sidecar write removes the blob of a concurrent Put of the
same bytes (`PutMetaFails`); of two edits the one delivered last stands; a crash
inside a history batch leaves messages without a chat row; a queued `Connected`
handled after a logout sets the state to connected; `Close` drops queued events;
the app-state count of a sync is taken before the dispatcher has ingested what
was fetched, which the code's comment calls approximate.

## Not modelled

- Schema migrations: one transaction per version at start-up, in one process.
- HTTP and stdio transports, bearer auth, sessions: the SDK's.
- The audio transcoder: a pure pipeline around an external process, each call
  with its own temp files. Its outcomes are in `Tools`.
- Configuration, logging, the order in which main shuts parts down.
- Subscribers of the client, `fanout`, `closeAllSubs`: only tests subscribe.
  The data-dir lock; `Disconnect`, which nothing calls.
- Nicknames and presence: single statements nothing else reads in steps.
- `attachReactions` and the shape of answers.

## Plan

1. The refinement of what a component promises, for the client as for the pair
   session: `WaClient`'s flows as cells of `PairCell`.
2. Action properties of `Ingest` and `MediaStore` that their invariants already
   imply: no table's second moves back, no complete object shrinks.
3. `WaClient`: subscribers with `fanout` and `closeAllSubs`.
4. `Reads`: `attachReactions` and the filters of `list_conversations`.
