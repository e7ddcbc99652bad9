# A verification development for godo

godo is a Go library (HTTP server, plugins, ORM, lifecycle, a Discord channel)
and a command-line tool that builds and supervises small services. This
directory holds TLA+ models of the parts of it that are concurrent or have to
survive failures, the TLC runs that check them and the TLAPS proofs about them.
Paths below are relative to the repository's root.

## 1. Inventory

| part | code | state it keeps | operations | what is hard |
|---|---|---|---|---|
| idempotency plugin | `core/http/plugins/idempotency` | entries by storage key, their waiters, bytes used, the next cleanup | acquire, wait, complete, replay, cleanup | requests race for one key, clock readings older than the lock, a woken waiter goes round again, limits, panics |
| Discord Gateway | `channels/discord/gateway.go`, `client.go`, `events.go` | session id and sequence, resume flag, start limit, dispatch queue, claimed interactions, heartbeat | Run, one session, heartbeat, dispatch | reader, heartbeat and worker run concurrently; reconnect, resume, full queue, cancellation |
| Discord REST | `channels/discord/limits.go`, `rest.go` | buckets with permit and reset, routes, ids, the global deadline | lock, observe, limited, retry | routes change their bucket while requests wait for it; 429s; contexts that end |
| Discord interactions | `channels/discord/commands.go` | per interaction: initial, deferred, replied; command slots | Reply, Followup, deferResponse, finish, dispatch | the automatic deferral races the handler and the fallback |
| API key file | `core/http/plugins/apikey/file.go`, `cli/godo/auth.go` | `auth.json`: next id and keys; `auth.json.lock` | init, create, revoke, list, authenticate | several processes, failing system calls, kills, power loss |
| rate limit plugin | `core/http/plugins/ratelimit` | buckets, expiration heap; or one table | Take, cleanup, middleware | clock readings older than the lock, window edges, several processes on one table |
| service registry | `cli/godo/service.go`, `registry.go`, `supervisor.go`, `agent.go` | `services.json`, binaries, systemd units, the agents file | add, update, edit, restart, remove | every command is a chain of file system and systemctl steps that may stop anywhere |
| migrations | `core/orm/dbtool/migrations.go`, `cli/godo/database.go` | migration files, the schema lock, the applied table | generate, migrate, rollback, status | files and database change independently, by several processes |
| WebSocket | `core/http/websocket.go` | fragment being read, close state, writer lock | upgrade, dial, read, write, close, abort | control frames inside a fragmented message, close handshake with concurrent writers, a dial context that ends late |
| lifecycle | `core/lifecycle/lifecycle.go` | running services, their errors | Run, shutdown | services that fail, hang or end during the shutdown |
| schema | `core/orm/schema.go`, `model.go`, `dialect.go` | none | Describe, GenerateMigration | the diff has to refuse what it cannot do, and its reverse has to be one |
| ORM | rest of `core/orm` | none (transactions in the database) | queries | text |
| router, API helpers | `core/http/router.go`, `api.go` | the chain, built once | ServeHTTP, Decode, Write | little |
| other plugins and helpers | `requestid`, `agentapi`, `apikey.go`, `password`, `validate`, `id` | none | pure or per request | little |
| project commands | rest of `cli/godo`, `docs/main.go` | files written from templates | new, issue, help, ... | little |

How they interact. The plugins are middleware of one router and know each other
only through the request. The Gateway hands dispatched interactions to
commands.go, whose replies go through the REST client and its limiter; the
limiter is shared by all requests of a client. `godo auth` writes the file the
API key middleware reads on every request, in another process. `godo db
generate` writes the files that the migration program of the application reads.
The Gateway reads and writes through one WebSocket connection, whose `Abort` is
how its heartbeat goroutine and its context end a read. A service's `main` runs
its HTTP server and its Discord client under `lifecycle.Run`, and systemd stops
it through the context that `Run` watches.

## 2. Plan

The modules were written in order of what can go wrong: `Idempotency`,
`DiscordGateway`, `DiscordLimits`, `ApiKeyFile`, `RateLimit`, then `Schema` and
`Migrations`, `ServiceRegistry`, `DiscordCommands` and `DiscordInteractions`,
`WebSocket`, `Lifecycle`. `Migrations` extends `Schema` and
`DiscordInteractions` extends `DiscordCommands`: the pure part is a module of
its own, and the state machine uses its operators in its guards and effects.
`Idempotency` and `RateLimit` implement the abstract specifications
`IdempotencyContract` and `FixedWindow`.

What is worth doing next: the composition of the Gateway with its WebSocket
connection; a `db init` that meets a running `generate`.

## 3. Modules and runs

### Idempotency (`Idempotency.tla`, `IdempotencyContract.tla`)

A request is a goroutine that passes once through `Plugin.middleware`; `pc` says
where. A critical section of `memoryStore.mu` is one action (`Acquire` with its
outcomes, `Wake`, `CancelWait`, `Complete`), the cleanup at its head included.
`plugin.now()` is read outside the lock, so `Arrive` and `HandlerEnds` take a
reading that may be old when it is used. An entry object is named by the request
that created it. `IdempotencyContract` is what the plugin promises, without lock,
waiters or budget; `ImplementsContract` says that the store implements it.

* `idempotency`: 3 requests, 3 keys, 2 fingerprints, capacity for 2 entries, 2
  bytes and one waiter, a lifetime of 1 and a clock to 2. Enough for an entry to
  expire while a waiter is on its way back, for each limit to be hit (a third
  key, a response that only fits as a terminal one, one that does not fit at
  all), and for a cleanup to be due with something to keep. Requests, keys and
  fingerprints are interchangeable, so `MCSpec` starts from one assignment of
  keys and payloads of each kind (8 instead of 216) in place of TLC's symmetry
  reduction, which liveness does not allow. Fairness: every step of a goroutine
  that can run, the end of the handler included; a handler that never returns
  keeps its waiters waiting until their contexts end, and the code promises no
  more. Arrival, cancellation and time are not fair.

A response may have a status that `net/http` cannot write (`"invalid"`): writing
it panics, for the owner (`WriteOwnPanics`, after which the deferred function
completes the entry a second time) and for every replay. What such an owner has
recorded before the write stays; `OwnerLeavesRecord` says what a retry can get
from each owner, with that as its own case. `MaxTime` only stops the clock; the
lifetimes are relative.

### Discord Gateway (`DiscordGateway.tla`)

`phase` is the place of Run's goroutine in the reconnect loop and in
`runGatewaySession`. Discord is an environment that sends anything that fits
the connection: READY to a connection that identified, events behind the number
a Resume carried, old events again, reconnects, invalid sessions, closes. An
event is `<<session, n>>`. The queue of `dispatchQueueSize` events is between the
reader and the one worker, `Dispatch`. The heartbeat goroutine is `HeartbeatDue`
and `HeartbeatReports`: it breaks the connection first and reports later, so the
reader may see the two in either order. All durations are left out: a wait may
end at any time.

Discord may also skip events or go back to old ones of its own accord
(`docs/discord.md:68-69`), and the reader compares no sequence numbers: `Jump` is
such a step and `jumps` remembers it. `AcceptedInOrder` is therefore about what the
client adds: every accepted event is the successor of the one before it, or what
Discord jumped to, or the first of a later session. `InteractionStartedOnce`
holds as it stands while Discord does not jump; where it does, the same
interaction is started again only when as many others were claimed in between as
the ring remembers.

* `gateway`: a session of 3 events and one of 2, or one of 3 with one jump, forwards
  or backwards, at any place and before or after a resume (`MCNext`); a queue of 2,
  one remembered interaction, a quota of 2. With a ring of
  one interaction a single jump back already repeats one that the ring has
  forgotten. A queue overflows with an ordinary event and with an interaction,
  before and after a resume; a session ends in each of its ways and a second one
  begins. A dead peer is given up and a cancelled Run returns: fairness is that
  of runnable goroutines, of timers, and of calls whose context is done; reads
  of a broken connection fail at last because its buffer is finite (strong
  fairness of `ReadAborted`). Nothing is asked of Discord. The Hello phase is
  outside of `DeadPeerNoticed`: the code sets no deadline there, and a peer that
  stays silent holds Run until its context ends.

Not claimed, although the model shows it: a resume URL that no longer answers is
dialled for ever, because a failed dial keeps the resume flag, and an Identify
whose write fails after Discord received it is not counted (Discord's own count
is not visible to the client).

### Discord limits (`DiscordLimits.tla`)

A bucket is named by the route that created it; `routes` maps a route to its
bucket and `ids` a Discord bucket id to one. `Lookup`, `TakePermit`, `Recheck`,
`Send` and the answers are the steps between which the limiter's mutex or the
bucket's permit is not held. Deadlines count down (`Tick`), so no clock is
needed.

* `limits`: 3 requests on 2 routes that turn out to share a bucket, one retry
  each: one may be at Discord and move the route while another holds the old
  bucket's permit and a third takes the new one's. Every request ends
  (`RequestEnds` follows one of the interchangeable requests). Fairness: time
  passes, requests that can run do run, and Discord answers or the send fails.
  `PermitsBalanced` and `SharedBucketsConverge` hold in the same instance.
* `limits_429` (expected violation): the deadline of a 429 can be noted on the
  bucket the route has just left, section 5.

### API key file (`ApiKeyFile.tla`)

A process is one `godo auth` command. `file` is what a reader finds; `disk` is the
set of contents a power loss may leave: everything the path has named since its
directory was last synced. Each system call that can fail or be the last one of a
killed process is an action. Locks are dropped by the kernel when a process dies.
The ids a command can issue end at `MaxInt`, as in the code.

* `api_key_file`: 4 interchangeable processes, ids 1 and 2, one power loss. One
  init and three other commands are the fewest in which a key is created and
  revoked while another command works on an older copy.

The file a killed `InitFile` leaves behind (empty, under its final name) makes
every later command fail; nothing promises otherwise. A failing `InitFile`
removes its path although another command may have put a full registry there;
the properties name the ids of such a file (`dropped`) as their one exception.

### Rate limit (`RateLimit.tla`, `FixedWindow.tla`)

`store` is what `Config.Store` was given: the memory store, or the ORM store on
SQLite or PostgreSQL. A request reads the clock in the middleware (`Arrive`) and
uses the reading when it gets the store's mutex (`Take`, `TakeFull`), so a reading
may be a whole window old. An ORM request first cleans up under `cleanupMu`, then
sends one upsert; PostgreSQL evaluates it at the time the statement started,
SQLite when it has the database. SQLite's `unixepoch()` truncates to whole seconds
and PostgreSQL's `EXTRACT(EPOCH ...)::BIGINT` rounds to the nearest (`orm.go:86`,
`105-108`): its clock is `ahead` by up to half a second. A statement that fails may
have been executed.
`FixedWindow` is what both promise: a window lets at most `Limit` requests
through and is replaced only when its reset has passed on the store's clock,
which may be `early` by the constant amount the refinement gives it: nothing in
memory and on SQLite, half a second on PostgreSQL.

* `rate_limit`: 4 requests, 2 keys, a limit of 2, room for one key in memory, two
  ticks a second and a window of one tick, which the database rounds up to a
  second. Three ticks let readings outlive a window; four requests are two more
  than the limit, so that the count has to saturate. One process: another one
  shows in the database only through its cleanups, which look like the cleanup
  that was executed although it failed. The one tick in a second that is not whole is
  the one PostgreSQL rounds up: with `early` at 0 TLC refutes the refinement.

`FixedWindow` does not say that a window lasts as long as configured, nor that
two windows of one key have different resets: a request that reads the clock and
then waits for the mutex longer than a window opens one that is already over. Nor would it be
true of the ORM store, which counts from its database's whole seconds
(`orm.go:64-67`, `99`).

### Schema and migrations (`Schema.tla`, `Migrations.tla`)

`Schema` is the code's pure part: what models describe, which schemas
`validateSchema` accepts, which differences `GenerateMigration` can express, and
its statements in both directions. Names are numbers in sort order, and a
statement is a record; `After` says what it does to a set of tables, and `Possible`
which statements a database accepts.

In `Migrations` a process is a terminal that runs commands one after another.
`generate` holds the flock on `db/.godo.lock` and writes the up file, the down
file and the schema lock as three steps; any may fail, with the clean-up the code
does, and the process may be killed after any. `migrate` and `rollback` read the
files first (`Load`) and take the database's lock later (`lockedMigrationTx`), so
what they work on may be old. Their transaction is one action: `Run` executes a
content statement by statement, `Ups` a set of migrations version by version, and
a statement that is refused rolls everything back. The developer changes models,
fills in empty migrations and edits files. The code drops the errors of
`os.Remove` when it withdraws a pair, so some of its files may stay
(`RemoveFails`). `Load` reads the directory in one step, where the code lists it and
then reads file by file (`migrations.go:38-57`): a list that mixes two moments of a
running `generate` or edit is not covered.

* `migrations`: two processes, two versions, two sets of models (a table; a
  column and a table more), one kill or failing removal, one edit. Two processes are enough for a
  list of files to be overtaken by a generate or a migrate, two versions for an
  order to be wrong. Deadlock is checked: a terminal can always run something.
* `migrations_empty_down` (expected violation): section 5.

`FilesMakeSchemaLock` leaves out what a killed generate, or one that failed to
clean up, left behind (half a pair or a pair without its schema lock): nothing
promises a repair.

### Service registry (`ServiceRegistry.tla`)

Each command (`add`, `update`, `restart`, `edit`, `remove`) is a chain of
actions, one for each step another process, a failing call or a kill can come
after: builds, renames, unit files, `daemon-reload`, `enable --now`, `restart`,
the registry, AGENTS.md. Its undo paths are chains of their own (`Undo...`,
`EditRestore...`, `UpdateRestore`), and their steps may fail as well. systemd is
external: it runs what it loaded at the last `daemon-reload`, leaves an active
unit alone on `enable --now`, and restarts a program that ended (`Respawn`). An
`edit` given a runtime flag configures the unit even when the value is the old
one (`service.go:234`). The unit's `Description`, a text with the service's name
that nothing reads, is left out; an edit of the name alone leaves the old one.
Every command holds the registry's flock from its first read to its end.

* `services`: two terminals, two names, two ports, two configurations, two ids,
  two versions of the program, and two faults (a failing step or a kill) at any
  place. Two faults let an undo fail, or the next command meet what a kill left.

`ReportsAreTrue` speaks of services all of whose commands have reported. A kill
between the start of the unit and the registry (`service.go:74`) leaves a running
unit that nobody knows; the next `add` takes its id, `enable --now` changes nothing, and
the old program runs under the new name: `AddedServiceRuns` says that this does
not happen and is false for that reason, so it is in no run.

### Discord interactions (`DiscordCommands.tla`, `DiscordInteractions.tla`)

`DiscordCommands` is validation and normalization of slash commands: it decides
which commands a client has, hence which interactions it handles or refuses.
`DiscordInteractions` follows each interaction's goroutine through its refusals,
the handler, the deferral timer and `finish`. `e.mu` is held across an HTTP
request, so a request in flight (`request`) is what the others wait for. Discord
is external: one initial response, while its window is open; edits do not change
who sees a response. A request may fail before or after Discord carried it out.

A program begins one command synchronization, before it runs; it may still be
going on afterwards.

* `interactions`: two interactions for one slot, one request that goes wrong, a
  private command or a public one, so that a reply meets a deferral of the other
  kind both ways, one that is not acceptable, and an older definition left with
  Discord. The interactions are interchangeable and come in one order (`MCNext`);
  the second one, which competes for the slot, comes only where the command is
  private and the synchronization is over, as slots know nothing of either. Fairness: goroutines and timers run and
  requests come back; handlers return (strongly fair, because a handler may be
  between two replies).
  `EndedIsAnswered` makes a lost response and a missed window its exceptions: a
  deferral whose response is lost leaves the user with "thinking".

### WebSocket (`WebSocket.tla`)

A frame goes out in two writes under `writeMu`, to a network that holds
`Capacity` of them and a peer that may never read. A frame that comes in is a
record of what `readFrame` tells apart. `job` is what a goroutine is writing and
what it does next (return, close, or read on, which is how the reader answers pings
and closes). `DialWebSocket` runs against its context: `Cancel` and the
`context.AfterFunc` that closes the connection, `stopCancel` and the last look
at the context (`Check`).

* `websocket`: a reader and a writer, one write on the network, three frames of
  the peer out of seven kinds (both halves of a text whose first frame ends inside a
  character, that frame marked as the last, a fragment that makes a message too
  long, one that is too long alone, ping, close), one call of the writer, one
  failing read or write. Three frames are the fewest for a control frame inside a
  message; where the dial context ends, the peer sends one at most (`MCNext`).
  Fairness: a goroutine that can write does, and a read of a closed connection
  fails; the peer need not read or send anything.

`ReadMessage` may be called again after an error. Between two frames that changes
nothing. An error inside a frame (a header that is refused, a frame over the
limit, a deadline) leaves the rest of it unread, and the next call takes those
bytes for frames: from `desync` on, `peerSent` is what the code takes the bytes
for, which can be anything, and `MessagesAreThePeers` claims nothing of what is
returned. A text is checked as UTF-8 over all its frames (`Utf8`), as in the code.

What follows on a connection after a failed write is left out of `FramesAreWhole`:
the code leaves it open and out of step, and its caller has to close it. A frame
without payload goes out in two writes like the others.

### Lifecycle (`Lifecycle.tla`)

Per service the `Run` and the `Shutdown` goroutine and their two result
channels; an error is what `errors.Is` can tell of it. Go's `select` takes any
ready case, also the deadline when a result is ready with it. `busy` are the
servers with a request in progress. `server.Shutdown` waits for requests until
its deadline; `server.Close` then cuts their connections without waiting for the
handlers, so `busy` stays as it is. Hijacked connections are not waited for at
all (`docs/lifecycle.md:43-44`) and are not in `busy`.

* `lifecycle`: an HTTP server with requests, a service with a
  `Shutdown`, and one without. A return that reports the server's deadline may leave
  a request behind, and `ReturnTellsAll` says that no other return does. Fairness: `Run`'s own goroutine and the timer of
  the shutdown context; services may hang.

## 4. What is proved

`IdempotencyProofs.tla` proves, for any number of requests, keys, sizes and
limits, from `ConstantsAssumption` alone:

* `TypeCorrect`, `MutualExclusion` (one execution per key and record),
  `ReplaysAreFaithful`, `NoEarlyReexecution`, `CompletedIsFinal`,
  `WaitersAreCounted`, `EntriesAreBounded`, `OwnersLeaveRecords`, `LimitsHold`,
  and the refinement of the contract, `Implements`.

The inductive invariant joins the type invariant with `History` (readings never
ahead of the clock), `Roles` (what each location of a request implies about the
entry it holds), `Stored` (an entry in the map is owned by a request between
acquire and complete, or is completed), `Kept` (what an owner keeps until it is
done) and `Scheduled` (the next cleanup is no later than the earliest expiry); the
waiter counters are a cardinality. `Delivered` relates what an owner's client was
told to what is recorded. The invariants the runs check are not
inductive without these: a completion by a request whose entry is no longer in
the map has to be excluded.

The byte budget is a sum over the map, a fold, whose value is awkward to reason
about. `Budget` says the same without one: the counter is the cardinality of the set of pairs of a key and a byte of its
response. A step adds the bytes of one key or takes them away, and the sets of
different keys are disjoint. The refinement needs `Arrivals`, what the contract
knows of a request that has not looked at the store yet.

`DiscordGatewayProofs.tla` proves, for any queue, ring of claims, quota and number
of sessions and events, from `GatewayAssumption` alone:

* `TypeCorrect`, `OrderedDelivery`, `SequenceFollows`, `InteractionsStartOnce`,
  `EndedSessionsStayEnded`, `IdentifiesBounded`.

Its invariant adds four conjuncts. `Limits`: identifies written and starts left
make up the limit, with the one of the running session counted apart until it
ends. `Resumption`: the sequence is known exactly when the session is, Discord's
position is the successor of the stored sequence, and a session Run may resume
was not refused. `Order`: what was accepted exists at Discord, in order, and ends
in the stored sequence. `Claims`: of the current session, only the one event
behind the stored sequence can already have been started, and its claim is still
in the ring. The last one is why a ring of one entry would be enough:
redelivery starts at that event, and nothing is claimed in between. With jumps the
ring itself has to be followed: it is always the last claims in order, so two
claims of one event are further apart than it is long.

`RateLimitProofs.tla` proves, for any limit, window, keys, requests and processes,
from `RateLimitAssumption` alone:

* `TypeCorrect`, `HeapFollowsMap`, `FullMeansFull` and the refinement
  `StoresImplementFixedWindow`.

Its invariant adds `Standing` (readings behind the clock, places that go with the
store, no answer before the end), `Started` (what is there has counted a request)
and the finiteness of the map. The refinement needs that a reading is behind the
clock, and that what a database shows is behind the clock by its rounding: then
what is popped, deleted or replaced is over.

`ApiKeyFileProofs.tla` proves, for any number of commands, ids and power losses,
from `ApiKeyAssumption`:

* `TypeCorrect`, `OneWriter`, `ShownSurvive`, `RevocationIsFinal`,
  `IdsNameOneKey`.

The argument is about `Sources`, everything from which tomorrow's file can come:
the contents a power loss may leave, and what a command holds between its read
and its rename. `Known` says that each of them is past every id that was shown,
revoked or is about to be shown, and names no other key with it; `Gone` that no
revoked key is in one; `AddedOnce` that a key in one was added by a command that
cannot add another. `Renamed` is the step in the middle: at the directory sync
the file is the one the command renamed, or a failing `InitFile` has removed it
and its ids are in `dropped`.

`DiscordRestProofs.tla` proves of the limiter, for any requests, routes, bucket
ids, deadlines and retries, from `LimitsAssumption`:

* `TypeCorrect`, `PermitsAreBalanced`, `OneAtATime`, `BucketsConverge`,
  `ExhaustedRoutesWait`.

Its invariant: `Permits` (a permit has one holder, who knows its bucket), `Routed`
(from the second look at the map to the answer, the route keeps the bucket whose
permit the request holds), `Learned` (a route goes where its last id goes),
`Waited` (an announced deadline stands on the route's bucket, and the copy a
request waits for is no earlier) and `Retriable`. `Routed` is why the second look
is needed: without it two requests of a route hold two permits.

And of the responses to interactions, which go through the limiter, for any
interactions, commands, slots and faults, from `DiscordInteractionsAssumption`:

* `RepliesStay`, `SlotsAreCounted`, `VisibilityHolds`, `EndedAreAnswered`.

The invariant is stated per interaction: `Requesting` (a request is where its
holder has to be, and edits exactly what is deferred), `Quiet` (nothing is under
way before the handler is called), `Told` and `Visible` (what is deferred is as
visible as its command says). `EndedAreAnswered` adds `Agreed`: unless the window
was missed or a response lost, what the code believes of the response is what
the user sees (`Believed`), and an interaction ends only when it believes that
there was a reply.

`WebSocketProofs.tla` proves, for any goroutines, frames and faults, from
`WebSocketAssumption` and `FramesAssumption`, `WholeFrames`, `DialedIsOpen` and
`ReadsMessages`. The invariant adds to `FramesAreWhole` whose header is the last
unit (`Holder`, `Framed`) and that `closeSent` is ahead of the close frame on
the network and excludes a data frame in progress (`Goodbye`); `Opening` says
that the context watches only during the handshake. `ReadsMessages` has an
invariant of its own: `Received` (what was returned are whole messages in the
peer's order, and what is gathered is the beginning of one behind them), `Turns`
(only the reader reads, and it keeps a fragment only while it goes on reading)
and `Told` (until `ReadMessage` fails, only control frames are left out). It
holds whatever a message's size is, so the fold that adds up fragments stays
unopened.

`MigrationsProofs.tla` proves, for any processes, versions, dialect, sets of models,
kills and edits, from `MigrationsAssumption`:

* `TypeCorrect`, `AppliedStaysPrefix`, `StatusIsTrue`, `EffectsStayHistory`,
  `FilesStaySchemaLock`; and of `Schema`'s generator, for any schema and any
  models, `GeneratedRoundTrip`.

`AppliedIsPrefix` alone is not inductive: a `migrate` works on a list of files
that was read before it had the lock. The invariant says that versions have no
gap, on disk (`Directory`), in every list that was read (`ReadList`) and in the
database (`Recorded`), so that the first are a matter of a number; that rows and
lists still are what is on disk, unless the version has `strayed`; that one
`Generator` works at the next version, whose files are just those it has
written; and that who is in a transaction sees the rows as they are (`ReadRows`).
A step that touches a file of a version the database or a list knows makes it
stray (`Honest`), and the others keep the invariant. `StatusIsTrue` is a fact
about any list and rows that name a version once (`StatusIsValidity`), which a
directory that can be loaded does.

The other three are about what statements compute, which is an induction. The
library's induction theorems take an operator, so `Induction` is stated with a
set instead: it follows from `LeastNatural`, that a nonempty set of numbers has a
least element. `Run` and `Ups` are recursive functions; `Trace` and `Replay` are
the databases between their statements and between their versions, and the lemmas
about them (`RunIs`, and for contents put together or cut) are proved by that
induction.

`GeneratedRoundTrip` needs that what `Describe` returns lists each name once
(`Ordered`), that each addition is possible where it is made and changes just its
table (`TableAdded`, `ColumnAdded`), and that up and down are `Mirrored`: each
statement of the down takes back the one it stands against (`RunBack`).

`EffectsAreHistory` is not inductive, because a rollback runs the down that was
read from a file: the invariant `Effects` adds that the two contents of a version
are a `Pair` in the files, in what is about to be written, in every list that was
read and in every row. A pair mirrors, or belongs to an empty migration whose two
directions the developer has or has not written; `rollback` refuses the down that
is still empty, and any whose checksum is not the recorded one.
`FilesMakeSchemaLock` rests on `SchemaKept`: what a generator is about to write
is the migration from the schema lock as it still is (`Planned`), the files of all versions but the one being
written (`Settled`) have both directions (`Whole`), and they make the tables of
the schema lock (`Makes`).

`ServiceProofs.tla` proves, for any terminals, services, ports, ids, versions and
faults, from `ServiceRegistryAssumption`:

* `TypeCorrect`, `IdentitiesHold`, `ReportsHold`, `BlockListsServices`,
  `ProgramsStay`.

A command has the registry to itself from its first read to its end (`Holder`),
so the invariant says what this one command knows at each of its places, undo
paths included (`Adding`, `Updating`, `Restarting`, `Editing`, `Removing`):
which files of its service are there, what systemd has loaded, which binary is
the former one. `Names` has the identities and the ids below `nextID`, `Resting`
the services no command works on, `Block` the agents file. Every step is shown
to leave all other services alone, but for a `daemon-reload` and systemd's
restart of a program that ended, which change nothing at a service that runs as
it is registered. `ReportsAreTrue` alone is not inductive: that an undo ends
with the former state needs what every step before it has left.

The same module proves for `lifecycle.Run`, for any finite set of services, from
`LifecycleAssumption`, `CountersInRange` and `TellsAll`. Each result is on its way,
in its channel, or told (`Accounts`, `Told`); the counters are the cardinality of
the first two, so at zero nothing is left. A server with a request in progress
has a `Shutdown` that has not returned, or whose deadline was or will be told
(`Unanswered`).

Two of these modules are about two components each, whose models they extend
together; `Lifecycle` and `DiscordLimits` therefore name their initial states,
next-state relations and specifications after themselves (`RunSpec`,
`LimiterSpec`).

Of the properties the runs check, `OneExecution`, `ReplayFaithful`,
`OwnerLeavesRecord`, `NoReexecutionWithinTTL`, `RecordImmutable`,
`AcceptedInOrder`, `InteractionStartedOnce`, `EndedSessionNotResumed`,
`IdentifiesWithinLimit`, `OneInFlightPerRoute`, `ExhaustedRouteWaits`,
`ShownKeysSurvive`, `RevokedStaysRevoked`, `IdsAreUnique`, `ExpirationsMatch`,
`ImplementsFixedWindow`, `ReportedReplyStays`, `VisibilityKept`,
`FramesAreWhole`, `DialedStaysOpen`, `ReturnTellsAll`, `LimitsKept`,
`ImplementsContract`, `EndedIsAnswered`, `MessagesAreThePeers`,
`IdentitiesAreUnique`, `ReportsAreTrue`, `AgentsListServices`, `ProgramKept`,
`AppliedIsPrefix`, `StatusTells`, `EffectsAreHistory` and `FilesMakeSchemaLock`
are theorems: every invariant a passing run checks, and every property that is
not about liveness. `SequenceIsAccepted`,
`FullOnlyWhenFull`, `PermitsBalanced` and `SharedBucketsConverge` are proved and
need no run.

Only model-checked: every liveness property, because liveness under fairness and
ENABLED are beyond the prover: `RequestAnswered`, `DeadPeerNoticed`,
`CancelStopsRun`, `RequestEnds`, `EveryInteractionEnds`, `AbortInterrupts` and
`RunEnds`.

## 5. Findings

`limits_429`: `requestWithAuth` hands `limited` the bucket the request went
through (`channels/discord/rest.go:83`), but `observe`, one call earlier, may have
moved the route to the bucket of another route with the same Discord id. The
deadline of a 429 without an exhausted count is then noted where no request of
the route will look, and the next one is sent at once, against
`docs/discord.md:214-215`.

`migrations_empty_down`: `migrate` refuses a migration whose up file is empty
(`core/orm/dbtool/migrations.go:162-164`) and does not look at its down file, against
`docs/orm.md:222` ("Empty files cannot be applied until SQL is written into both
directions"). Filling in the down file afterwards changes the checksum, and
every later migrate and rollback refuses the history.

## 6. Not modelled

* `godo db init`: runs once, before there is anything to share, and takes no lock.
* ORM queries, router, API helpers, the stateless plugins, password, validation,
  ids: pure text or encoding, or one step per request without state. The API key
  middleware reads the key file once per request and then tests scopes.
* Discord resources: wrappers of the REST client.
* The project, issue, help and documentation commands: argument parsing,
  templates and calls of external programs, without state that two of them share.
* Durations, except where an order of deadlines matters; the Gateway's outbound
  write window (`gateway.go:86`), which is a count per duration; the growth of
  `limiter.routes`, which is memory.

## 7. Running

The sizes below are those of TLC with two workers.

| run | distinct states | time |
|---|---|---|
| `idempotency` | 411,701 | 1:00 |
| `gateway` | 438,824 | 2:04 |
| `limits` | 536,470 | 1:20 |
| `api_key_file` | 55,267 | 0:08 |
| `rate_limit` | 362,150 | 0:33 |
| `migrations` | 759,224 | 1:58 |
| `services` | 1,091,694 | 1:50 |
| `interactions` | 139,302 | 1:21 |
| `websocket` | 1,053,764 | 2:28 |
| `lifecycle` | 475,204 | 0:49 |

    tlc -config MCIdempotency.cfg MCIdempotency
    tlapm IdempotencyProofs.tla
    tlapm DiscordGatewayProofs.tla
    tlapm RateLimitProofs.tla
    tlapm DiscordRestProofs.tla
    tlapm ApiKeyFileProofs.tla
    tlapm MigrationsProofs.tla
    tlapm WebSocketProofs.tla
    tlapm ServiceProofs.tla

Each `MC*.tla` extends a model for TLC; the `.cfg` beside it gives the constants
their values. Definitions marked `FAULT` are the plausible bugs with which each
property was shown to be able to fail; nothing uses them.
