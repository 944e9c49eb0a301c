# Specifications of voidmcp

TLA+ specifications of voidmcp, the MCP proxy that keeps a registry of MCP
servers, offers their tools to a language model through one `execute_code`
tool, and runs the model's scripts in a pool of JavaScript runtimes. The
modules are translated from the Go source; TLC checks them on small instances,
and the TLA+ proof system proves the most important properties for every
instance.

Paths below are relative to the repository (`internal/...` is
`src/internal/...` in PROJECT.json).

Run from this directory:

    tlasany Registry.tla                                  # parse
    tlc -workers 2 -config RegistryWatch.cfg MCRegistry   # check one run
    tlapm RegistryProofs.tla                              # check the proofs

PROJECT.json lists the runs, the definition-to-source map, the hazards each
property is for, one mutant per checked property, the findings and the theorems.
An operator commented `Mutant:` is a deliberately wrong version of the
definition after it. It is used by no specification; put in the place of that
definition, it makes a property of the run fail, which shows that the property
can fail.

## 1. The system

| component | source | state | operations | talks to |
|---|---|---|---|---|
| store | `internal/store/store.go` | SQLite tables mcp_servers, tool_cache, output_schemas, settings; foreign keys with cascade; shared by processes | AddServer, RemoveServer, ListServers, CacheTools, GetCachedTools, SaveOutputSchema, IsOutputSchemaStale, settings | registry, server, command line |
| key file, encryption | `internal/store/store.go` | the file `key` beside the database, 32 bytes | loadOrCreateKey, encrypt, decrypt | store |
| registry | `internal/registry/registry.go` | maps servers, tools, statuses under `r.mu`; the transports | Load, Add, Remove, List, Search, CallTool, Watch/tickOnce, Close | store, transports, server |
| stdio transport | `internal/transport/stdio.go` | id counter, map pending, one channel per request, mutex of stdin, channel done, a child process | NewStdio, readLoop, send, ListTools, CallTool, Ping, Close | the child |
| HTTP transport | `internal/transport/http.go` | session id under `t.mu` | ListTools, CallTool, reinitialize, Ping, Close | a remote server |
| runtime pool | `internal/executor/pool.go` | a buffered channel of runtimes and nils | NewPool, Acquire, Release, Close | executor, the JavaScript runtime |
| executor | `internal/executor/executor.go` | per execution: dispatch map, call count, logs | Execute, the bridge, the start of captures | pool, registry, server's hook |
| schema inference | `internal/executor/schema.go` | none | InferSchema, unwrapToolResult | executor, server's hook |
| type definitions | `internal/executor/types.go` | none | GenerateTypeDefs | server |
| MCP server | `internal/server/server.go` | stdioWriter and notifyMu | ServeStdio, ServeHTTP, Handle, sendNotification, the five tools, the capture hook | everything above |
| protocol | `internal/protocol/protocol.go` | none | IsNotification, constructors | server, transports |
| command line | `cmd/voidmcp/main.go` | none | serve, add, remove, list; signal handling and shutdown order | everything above |

How they interact:

* A request arrives on stdin (one at a time) or over HTTP (a goroutine each).
  `execute_code` acquires a runtime, runs the script, and the script calls tools
  through registry and transport. Every result starts a goroutine that may infer
  and save a schema and notify the client.
* `Registry.Add` inserts the row, connects, caches the tools and only then writes
  the maps; between those steps it holds no lock. `Remove` empties the maps,
  closes the transport, then deletes the row. The watcher polls the store and
  installs and drops entries. Another process may change the store at any time.
* Notifications come from the watcher and the captures and share standard output
  with the answers.
* The commands are processes on one data directory: whichever comes first writes
  the key file, `serve` loads the rows and finds or makes the bearer token, `add`
  writes a row, and the watcher of a running `serve` picks it up.
* SIGINT or SIGTERM cancels one context; then `runServe` closes registry, pool
  and store, in this order.

What is hard here, and what makes each part correct:

* *registry*: three kinds of threads interleave between store, network and maps.
  Each open transport has one owner who finds it open; none is lost; memory and
  store agree; a restart or a failing call in the middle leaves nothing that
  cannot be repaired; the watcher converges.
* *stdio transport*: late, repeated or missing answers, lines nobody asked for,
  timeouts, a child that dies or does not read, Close in the middle. Answers reach
  their request and no other; pending leaks nothing; the reader never sticks;
  Close gets everybody out and reaps the child; nothing panics.
* *HTTP transport*: an expired session met by several calls at once, and a retry.
  A tool runs at most once per call; a call recovers; every call returns.
* *pool*: every error path must give its slot back. Slots are conserved, a
  runtime is closed exactly once and never reused, waiters are served.
* *server loop*: whole messages and answers in order on a shared stream; the
  loop ends when it should.
* *captures*: run after the script, and perhaps after the server, has gone. No
  schema without its server, none that a stdio client is not told of, none that
  describes another server.
* *start-up*: several processes find no key file, or no token; one is killed
  between two writes; one row cannot be decrypted. What is stored stays readable,
  a serving process has the stored token, one bad row or one server that is down
  does not hide the others.
* *what a script sees*: names meet in one string, results come wrapped in several
  ways, types are guessed from an example. A call runs what it names, the script
  gets what the tool said, the type is one the result has.
* *search*: sorted by hand after an iteration in no order, and cut off. The answer
  is the best of what matches, always the same.

## 2. Modules

| module | models | instance |
|---|---|---|
| `Store` | mcp_servers and tool_cache, one step per statement | through `Registry` |
| `Registry` (extends Store) | Load, Add, Remove, CallTool, Watch/tickOnce, other processes, restart | `MCRegistry` |
| `Semaphore` | abstract: at most Size executions at a time | |
| `Pool` | pool.go and Execute's use of it; refines `Semaphore` | `MCPool` |
| `StdioTransport` | stdio.go with a child process | `MCStdio` |
| `HTTPSession` | the session id in http.go with a remote server | `MCHTTP` |
| `Dialogue` | abstract: what the stdio client may rely on | |
| `StdioServer` | ServeStdio and sendNotification; refines `Dialogue` | `MCStdioServer` |
| `SchemaCapture` | the bridge of Execute, the capture hook, output_schemas | `MCSchema` |
| `StartUp` | serve up to its token, add, remove: processes on one key file, one table of rows, one setting | `MCStartUp` |
| `Search` | Registry.Search and sortSearchResults | `MCRequests` |
| `Results` | JSON values and unwrapToolResult | through `Bridge` |
| `Bridge` (extends Results) | Execute's dispatch map, proxies, bridge and results | `MCRequests` |
| `Shapes` (extends Bridge) | InferSchema and schemaTypeToTS, on what Bridge hands out | `MCRequests` |
| `RegistryProofs`, `ExecutorProofs` (Pool and Bridge), `StdioTransportProofs`, `HTTPSessionProofs`, `StdioServerProofs`, `SchemaCaptureProofs`, `StartUpProofs`, `SearchProofs` | theorems | |

### Store and Registry

A thread's local variables that live across steps are fields of `local[p]`:
`pc`, the name, the configuration of the row it works on, and the transport it
holds. `transport`, `endpoint`, `tools`, `statuses` are the maps. A region under
`r.mu`, a store call and a remote call are one step each, and every store or
remote call may fail, which is the early return of the code.

| code | actions |
|---|---|
| Load | `LoadList`, `LoadStub`, `LoadConnect` (`LoadStep`) |
| Add | `AddStart` to `AddInstall`, failures close the transport (`Abandon`) or carry on without the cache |
| Remove | `RemoveEntry`, `RemoveClose`, `RemoveRow`, `RemoveRowFails` |
| CallTool | look-up under the lock, then the call with the copied reference |
| tickOnce | list, diff, then per name connect, install or back off, drop |
| runAdd, another serve process | `PeerStep` |
| end of process and start | `Restart`: memory and transports are gone, the store stays |

A configuration stands for URL, command and credentials; a tool list is named by
the configuration it was fetched from, which is all the properties ask about.
Whether a transport is HTTP or stdio and the text of tools are left out.

### Pool

Which slot a receive yields matters to nothing, so the channel is the set of
runtimes in it and the number of nils. Close may come at any time: in
stdio mode a request is finished before the loop returns, but `ListenAndServe`
returns as soon as `Shutdown` is called. A send on the closed channel panics.
The JavaScript runtime is external: creating one may fail at any time.

### StdioTransport

A call is one ListTools (initialize, a notification, tools/list), CallTool or
Ping. Lock, write, wait and clean-up are separate steps, so is each select in the
reader and in Close. The child is external: it reads when it likes, answers
what it has read in any order, repeatedly or never, writes lines of its own,
closes its output, or exits, at any time. `OwnIds` are the ids it gives to lines
of its own, such as a ping or roots/list; 0 stands for a line that is passed over
for having no id that is an integer: text, a notification. Nothing keeps those
ids apart from the client's, and `readLoop` looks at the id of a line only, not
at whether it is a response. So `OwnAnswer` allows two things in place of an
answer, and no third: the answer to this very request, or a line of the child's
own that happens to have its id. StdioOwnLine shows that the second occurs.

The reader closes `done` when the output ends. A Close that comes later returns
at once and leaves the child and the pipe to it as they are: `CloseReaps` and
`CloseReleases` say that nothing but this, and the race of the two, keeps Close
from its promises, and StdioUnreaped and StdioPanic show the two.

### HTTPSession

A request is: read the session id under the lock; the server acts; store the
header's session id under the lock and go on. The server is external and may drop
any session at any time. `Cold` is a transport that `Load` made with a fresh tool
cache, which nobody has initialized. `Lossy` lets requests fail, before or after
the server has run the tool. `excused` records that the network failed a call, or
that the server dropped a session while it was recovering; `disturbed`, that
another call changed the session id during a call, or that there was none when it
began. `RecoversUndisturbed` is what is left of the promise to recover once both
are set aside: a call may inherit any state earlier calls and late answers have
left the transport in.

### StdioServer

The client writes lines of four kinds (request, notification, malformed, longer
than the buffer), the loop scans, looks at the context, handles and writes the
answer and its newline as two writes under notifyMu; notifiers do the same.
`frames` is the output cut at newlines: a frame of one number is one whole
message. `Dialogue` is the abstract view: every frame is a notification or
the answer to the oldest unanswered line.

### SchemaCapture

One server that is added and removed with changing configurations, scripts that
call its tools through the bridge with its limit of calls, a goroutine per
result, and the table with staleness. Schemas are named by the configuration
whose result they were inferred from. `Stdio` is the mode: only ServeStdio sets
stdioWriter, so over HTTP, the default, `sendNotification` returns at once and no
client is told of anything. `Announced` is about stdio and says so.

### StartUp

| code | actions |
|---|---|
| loadOrCreateKey | `FindKey`; or `FindNoKey`, `CreateKey` (os.WriteFile has created or truncated the file), `WriteKey` |
| runServe | `Load`, `GetToken`, or `MintToken` and `SetToken`; with `--token` it goes from `Load` to serving |
| tickOnce, reduced to names | `Tick` |
| a server that goes away or comes back | `Turns` |
| add_mcp, remove_mcp | `ServeAdd`, `ServeRemove` |
| runAdd, runRemove | `AddServer`, `RemoveServer` |
| any failure, any end, any kill | `Stop`, between any two steps |

`down` are the servers whose transport cannot be made or that do not list their
tools; a server in `Fragile` may turn at any time, any number of times. `Tick`
passes over them, and over rows it cannot read, as the `continue`s of tickOnce do,
and Add refuses them. An entry of the index is not a transport that works: a
server that goes away keeps its entry, since only a removed row takes it out.
`New` picks one unused value where the code draws random bytes: the values differ
in nothing but not being the same, and which of them comes first matters to no
action and no property.

A ciphertext is the key it was made with. `Torn` is the key file between creation
and write; a process that finds it ends. Three excuses are recorded as they
happen: two processes that both found no key file, two that both found no token,
and a read of an existing token that failed. Each makes the promise false in the
code (StartUpMints shows the last), and the properties say that nothing else does.

### Search

The two loops, the sort and the cut are steps; the order in which the map of
servers is iterated is the choice of `NextServer`. Strings are numbers in their
order, and the query is what comparing it with names and descriptions yields, so
every query is covered. A server may list a name twice; the sort is stable, and
`Before` therefore ends with the place in the server's list.

### Results, Bridge and Shapes

JSON values are records with a kind; a string carries the value it would parse to
if it is JSON text. `Replies` is what a server may make of a payload: the bare
payload, or content blocks, with or without `isError`. The blocks carry one of its
`Wordings`: the JSON of the value; for a string also the string itself, which may
be JSON text; for a list of strings also each in a block. A block that is no text
may be before, between or after them.

These forms are ambiguous, and the code has to choose: the block `123` is the
number and the string "123"; one text with an image is the text and a list of it;
a bare value that has the fields of a result is taken for one. PayloadKept does
not pretend otherwise. It says that a script gets what the tool said, or else
something the tool would have said in the very same reply (`reply \in
Wrapped(value)`), and names the two other cases: a result without any block, which is
handed on as it is, and a bare payload that is a result (`IsResult`).
`DispatchMaps` are the maps the loop over two maps can leave behind.
`Regular` says which values TypeFits is about: no null, arrays of one kind, no
scalars below the depth at which inference ends. The code stops at a fixed depth,
so `Shapes` needs no recursion: each level is a definition that takes the level
below as an operator (`inferValue(Deeper(_), v)`, `Infer4` down to `Infer1`, and
likewise for types and for what has a type). `Results` and `Bridge` use none
either, `Texts` being given by counting, so that what they promise can be proved.

## 3. Runs

Bounds: where the code has a number or a set, the instance has the smallest one
at which the behaviour in question occurs.

| run | shows | bounds |
|---|---|---|
| RegistryWatch | ownership of transports, only the end of Add can lose a transport; after any disturbance ticks bring the index to the names in the store | 1 name, 2 handlers, watcher, 1 other process, 4 transports |
| RegistrySolo | no watcher, no other process: no leak, memory in store, tools current, stranding only by a failing DELETE | 2 names, 2 configurations, 2 handlers, 4 transports |
| PoolSlots | slots conserved, runtimes accounted for and never reused; refines `Semaphore`; every waiter is served or gives up | 4 executions, 2 slots, 3 identities of runtimes |
| StdioCalls | answers reach their request, whatever else the child writes | a ListTools, a call, a Close, any child, lines of its own with ids 1 and 2 or none |
| StdioClose | child reaped, reader goes on, Close releases everybody and returns, but for a Close that finds done closed by the reader | 2 calls, a Close, any child, lines of its own with id 1 |
| StdioPanic | (violated, section 4) | 1 call, a Close |
| HTTPCalls | a tool runs at most once per call; a call nobody disturbs recovers; calls return | 2 calls, 3 sessions, lossy |
| ServeLoop | whole messages, answers in order (refines `Dialogue`); requests are answered; end of input ends the loop | 3 lines of any kind, 2 notifiers, 2 notifications |
| SchemaCaptures | schemas have their server, are announced over stdio, are foreign only by a late capture; a captured result becomes a schema | 2 tools, 2 configurations, a script at a time with 1 call, 2 captures |
| StartUp | what is stored can be read; one bearer token; a readable row of a server within reach is served | 2 processes of any command, 2 names, one of a server that comes and goes, 2 keys, 2 tokens |
| Requests | search: the answer is the best of what matches, in one order; execute_code: calls are routed, payloads kept, types fit | search: 2 servers, 2 names, 4 lists of up to 3 tools, any query, limit 2; execute_code: 3 listings, 4 aliases, 3 members, payloads to depth 5, texts that are JSON and lists of them, 7 lookalikes, 1 call and one too many, depth 3 as in the code, 2 properties for 64 |
| RemoveCommand | (violated, section 4) | 2 processes, 1 name |

Why these are enough to be interesting: two handlers, the watcher and another
process on *one* name is the case in which all of them meet; a second name adds
only the relation between entries (RegistryWatch, RegistrySolo). Four transports
are more than index and threads hold at a time in these instances but for
leaked ones, whose identity may be reused since nothing refers to them. More
executions than slots make callers wait. One request in the pipe is enough for a
write to block, with a second call behind it; one line in the answer pipe is
enough for the reader to be late. Its own lines have two of the
three ids that StdioCalls uses, so one comes for a request not yet made, under way,
and gone. Three session ids are an
old one and a new one for each of two calls; ids nobody holds any more are reused. Three lines cover an answer, a line without answer and an
answer again. Two captures meet each other and a re-registration. Two processes
and two keys are enough for one to overwrite the other's key file; keys and
tokens are never generated twice, so a behaviour makes at most two of each. One server that comes and goes and one that is always there tell a
tick that passes over a row from one that ends at it. Lists of three tools with a limit of two
make the sort move a tool twice and the cut drop one. Payloads reach two levels
below the depth at which inference ends. Search and Bridge share no variable: each
behaviour of Requests is one of the one or of the other.

`CHECK_DEADLOCK FALSE` is where the system really stops: the process has panicked
or the pool is closed (Pool), calls are over and the child is gone
(StdioTransport), the loop has returned (StdioServer), the search has answered
(Search), the script has made its last call (Bridge).

Symmetry is used in runs without liveness only.

### Fairness

* Registry `FairSpec`: Load returns and the ticker keeps firing; every call in a
  tick returns, since transports time out. Handlers and other processes are not
  assumed to do anything. `NamesConverge` is conditional on their coming to rest
  (`Undisturbed`).
* Pool `FairSpec`: a script ends, at the latest at its timeout; runtime library
  calls return. Go serves blocked receivers in order of arrival, so a caller
  that waits while slots come free again and again is reached: strong fairness
  of `Receive`.
* StdioTransport `RunSpec`: goroutines run and the mutex starves nobody (strong
  fairness of `Lock`: sync.Mutex hands over to a waiter of more than 1 ms).
  Nothing of the child, and no timer. `TimedSpec` adds the 30 s timer.
* HTTPSession `FairSpec`: goroutines run; a request is answered or fails, because
  `http.Client` has a timeout of 30 s.
* StdioServer `FairSpec`: goroutines run, requests are handled in bounded time,
  the client reads; strong fairness for the three steps that take notifyMu.
* StartUp `FairSpec`: the watcher of a serving process polls on, and not all of its
  ticks end in a query that fails. No command is assumed to start, to go on or to
  end, and no server to come back: ReadableIsServed is about one that is within
  reach from some point on.
* SchemaCapture `FairSpec`: a goroutine that was started runs. Scripts are not
  assumed to end.

## 4. Where the code does not do what it says

The runs RemoveCommand and StdioPanic end in a counterexample; PROJECT.json quotes
the lines they contradict.

* `runRemove` (cmd/voidmcp/main.go:263) makes a registry and does not Load it, so
  `Remove` finds no entry and the row stays, where README.md:104 has it as the way
  to unregister a server.
* Close and the deferred function of `readLoop` (stdio.go:99) each look whether
  `done` is closed and then close it. If the output ends while Close is between
  the two, both find it open, and the second to close it panics, where stdio.go:24
  says that the transport is safe for concurrent use.

The following configurations are kept for the reader and are not listed as runs.
Each but the last ends in a counterexample as well.

| configuration | property | what happens | the line |
|---|---|---|---|
| RegistryLeak | NoLeak | a tick installs a server between Add's INSERT and Add's write of the maps; Add overwrites the entry and its transport stays open | registry.go:436 "avoid leaking the transport" |
| StdioOwnLine | OnlyResponses | a request of the child's own has the id of a pending call, and readLoop hands it to that call | stdio.go:89 "dispatches each response to the waiting caller" |
| HTTPRace | Recovers | two calls with an expired session: the second clears the session the first has just opened | http.go:220 "re-initializes and retries once" |
| ServeCancel | ReturnsOnCancel | the loop waits in Scan and does not see the cancelled context | server.go:177 "blocks until ctx is cancelled" |
| StartUpMints | MintsOnce | any error of GetSetting, a failed read or a lost key as well, replaces the stored token | main.go:115 "if none exists yet" |
| RegistryDrop | DropsOnlyDropped | a tick lists the rows, Add inserts and installs, the tick reads the index and drops the new server; the next tick connects it again | registry.go:361 "removes dropped ones" |
| RegistryStaleEndpoint | EndpointsConverge | removed and added elsewhere with another URL between two ticks: only names are compared, the old endpoint stays | main.go:66 "pick up CLI changes" |
| PoolClose | CloseIsAlone | HTTP mode closes the pool while handlers run; their Release sends on a closed channel | pool.go:133 "must not be called concurrently" |
| StdioBlocked | CallsEnd | a child that does not read blocks the write under the mutex before the timer exists | stdio.go:20 "maximum time to wait" |
| StdioUnreaped | Reaped | readLoop has closed done, so Close returns at once: stdin open, no cmd.Wait | transport.go:27 "releases any resources held" |
| HTTPCold | Recovers | a server loaded with a fresh tool cache is never initialized; its first call is answered 400 | registry.go:77 "reconnects their transports" |
| SchemaNoTTL | InferredOnce | `--schema-ttl 0` never infers, instead of once | server.go:47 "inferred once and kept forever" |
| SchemaNextSearch | NextSearchShows | the capture is not ordered before the answer, so the next search may not show it | server.go:291 "on the next search()" |
| HTTPAlone | Recovers | holds: one call at a time recovers from an expired session | http.go:220 |

StdioClose is the counterpart of StdioPanic and StdioUnreaped: whatever the child
does, Close keeps its promises but in the cases those two show. OwnAnswer in
StdioCalls is the counterpart of StdioOwnLine.
RecoversUndisturbed in HTTPCalls is the counterpart of HTTPRace and HTTPCold.

## 5. Proofs

All theorems hold for every value of the constants that meets the named
assumptions of the modules (None differs from everything else, threads of
different kinds are disjoint, one watcher at most, Size is a natural number,
finitely many executions, lists of natural numbers in Search, two special values
that are no keys in StartUp; in Bridge names are sequences of characters, and in a
payload arrays are sequences and strings are words or JSON texts; None is no pipe
and no call in StdioTransport). A theorem that needs more says so in its
ASSUME: `Solo`, `OneCloser`, `Ages`.

**Registry** (`RegistryProofs`). `TypeCorrect` is inductive with no help.
`Base` adds that threads of each kind are at labels of their kind (`Labelled`),
that only names in `endpoint` have anything else (`Indexed`), and that before
`serving` handlers and watcher are idle (`Starting`). `Transfer` says what any
step does to references to transports: one is created, closed, installed by its
holder, or taken out of the index; `TransferStep` proves it once, action by
action, and `OwnershipHolds` and `LostOnlyByAddHolds` follow from it without
looking at actions again. `MapsAgreeHolds`, which no run
states, because whatever installs an entry installs it `Whole`. Ownership is proved with watcher and other
processes. Under `Solo` (neither) three more are proved:
`MemoryInStoreHolds`, `ToolsAreCurrentHolds` and `NoLeakHolds`. They need
`SoloInv`: a handler that is settling a name (has inserted the row, or taken the
entry out) owns the name alone, its configuration is the row's, and the cache is
the row's as well - the last is what the cascade is for. RegistryLeak
and RegistryStaleEndpoint show that `Solo` cannot be dropped.
`StrandedOnlyByFailureHolds` is about steps and needs `Base` only: a name is
stranded when its row has no entry and no handler is settling it, so a step
strands it by letting go of it. `StrandedAdd` and `StrandedRemove` go through the
steps of a handler and show that it lets go when row and entry are both there or
both gone, but for the failing DELETE.
`ClosedOnceHolds`, which no run states, comes from `Transfer` as well: of the
transfers only `Closed` takes a transport out of `open`, its holder is the only
owner there is (`SingleOwner`), and so none is left.
`TickSettles` is the safety half of NamesConverge, under the same hypothesis on
the steps: `Halfway` says at each place of a tick that what is left of it is
exactly what the index lacks or has too much, so nothing is left over at the end.
That the tick does come to its end is what TLC checks.

**Pool** (`ExecutorProofs`). `RuntimeInv` says where runtimes are and which
executions have one; `RuntimesAccountedHolds` and `NeverReusedHolds` follow.
`SlotInv` is the balance of slots during warm-up, use and after Close, from which
`SlotsConservedHolds` and `NeverFullHolds` follow; the lemmas `HoldersGain`,
`HoldersLose`, `HoldersKeep` reduce a step to a change of one cardinality.
`ParallelLimitHolds` is the refinement of `Semaphore`, which promises nothing
once it is closed: a closed channel yields slots to everybody.
Two more follow from the balance. `LiveBoundedHolds`: at most Size runtimes are
alive until Close, since every one outside the channel belongs to an execution
that holds a slot (`FS_Surjection`; only after Close does an execution end in a
panic and keep one, `PanicsAfterClose`). `NobodyStuckHolds`: a slot is free, or
one of its holders can go on, which is what `Served` needs besides fairness.

**HTTPSession** (`HTTPSessionProofs`). `ExecutedOnceHolds` by `ExecutedInv`: in a
call, the tool has been run exactly once if it is in the reply of a try or retry
that was accepted, and not at all otherwise. A 404 means that the server did not
run it. `RecoversUndisturbedHolds` (`RecoveryInv`) follows a call while it is
`Calm`: the session it was sent with, the one in the transport and those the
server knows are related at each stage (`CalmTry`, `CalmInitialize`,
`CalmAfter`), and `RecoveryOthers` shows that a step of another call either
keeps the relation or is one of the disturbances the property excepts.
`CallsAdvanceHolds` numbers the places of a call (`Progress`) and shows that every
step moves it up, so that CallReturns needs fairness and nothing else: no order of
404s, handshakes and retries sends a call round in a circle.

**StdioTransport** (`StdioTransportProofs`). The invariant has four parts besides
the properties. `Shape` is where a call can be, and that two calls never have one
id. `Budget` counts the requests the calls have still before them, from which
`RoomForId` follows: ids do not run out, which is what TypeOK says of idSeq.
`Issue` says of every line in a pipe, in the reader or in a channel whose it is:
the child's own, or a request's, and then the call that has its id, if one has it
still, sent it. OwnAnswer is then one look into a channel. `OwnIds` is any set of
numbers there, so it may hold every id the client draws. `CallMoves` sums up what any step of a call does to its
place, so that `Shape` and `Budget` are proved once; the reader, Close and the
child move no call (`CallsRest`). `PendingIsActiveHolds` is about a property no
run states: no error path leaks an entry of the map.
`CloseReapsHolds` is about any child and one caller of Close, which is what the
registry does (`ClosedOnceHolds`: a transport is closed once, by its one owner).
`CloseInv` ties the place Close has reached to what is closed: a Close past its
first step is the one that has closed done, unless the reader was first. NoPanic
has no theorem, for it does not hold.
For any child and any number of closers, `WriterHasMutexHolds` says that a call
that waits for the mutex waits for a write, and `CallsAdvanceHolds` that a call
only goes forward; CloseReleases rests on the two.

**StdioServer** (`StdioServerProofs`). `HoldsDialogueHolds` is the refinement of
`Dialogue`. `Held` says who has notifyMu at which label, `OwnMessage` that what
stands in the unfinished frame is the message of the one who has it, `AnswerInv`
that the frames so far are the answers to the lines so far.
`HeldHolds` states the first for itself: nobody holds notifyMu and waits.
`NothingDroppedHolds` says what a loop that has returned owes the client; `Reason`
adds to `AnswerInv` why it has returned.

**SchemaCapture** (`SchemaCaptureProofs`). Type correctness needs that a script
calls tools it was offered. `SchemasHaveServerHolds` is the foreign key with its
cascade, `AnnouncedHolds` the order of save and notification where there are
notifications, over stdio,
`ForeignOnlyWhenLateHolds` needs `Latecomers`: what calls and captures under way
carry is the present configuration's unless one of them is late.
`CapturesSettleHolds` is the safety half of Captured: a capture has at most three
steps, and if it ends with a notification its schema is there or its loss was
recorded (`Saved`), whatever ran between saving and notifying. It assumes
`Ages`; SchemaNoTTL shows why.

**StartUp** (`StartUpProofs`). For `TokensReadableHolds` (`KeyInv`) the key of every
process that has opened the store is the one in the file; that holds because a
process that creates the file is alone with it unless KeyRace was recorded.
`OneBearerHolds` (`BearerInv`) adds the same argument for the token in the table.

**Search** (`SearchProofs`). While gathering (`GatherInv`), the results are exactly what
matches in the servers and places passed, without repetition, each server's in its order;
while sorting (`SortInv`), the prefix before i is in order but for the element under way, and
swapping keeps the set; the cut keeps a prefix.

**Bridge** (`ExecutorProofs`). For `RoutedHolds`, `KeyInjective`:
two keys whose servers have no "/" are equal only if both halves are, since the
first "/" of both is where the server ends (`Joined`). `RouteInv` then says that
every call that reached a tool has the key it used in common with the name it
was called by. For `PayloadKeptHolds`, `UnwrapWrapped`: what a script gets of blocks is a value
the same blocks are a wording of. `WordingsAreTexts` says that the blocks hold
strings, and `MeantFor` that a string is a wording of what it parses to and a list
of strings one of that list. One block says what it is (`UnwrapOne`), and of
several the texts come out in order, also around a block that is none
(`UnwrapBlocks`, `UnwrapWithImage`). The last two need to know what `Texts`
computes, which is `TextsAre`: when `g` counts the places of the texts from below,
the n-th text is the one at `g[n]` (`CountedUpTo`, by the cardinality of an
initial part). A bare payload is kept unless it is a result (`UnwrapBare`). The
payloads are any there, of unbounded depth, texts that are JSON and lookalikes of
results included.

**Shapes** (`ExecutorProofs`). `TypeFitsHolds`: what the definitions of one level
need from the level below is stated once (`Follows`), and `FitsAtDepth0` to
`FitsAtDepth3` pass from each depth of the code to the next; below the last the
inferred schema says nothing, and nothing contradicts it (`NoSchemaSaysNothing`).
The step goes from one value to another that is alike (`AlikeFits`), because an
array is typed by its first element, and a regular value is alike itself
(`RegularFits`). No induction is needed because the code counts its depth with a
literal, and the values themselves may be of any depth and width.

Model-checked only: liveness under fairness (NamesConverge, Served, ReaderGoesOn,
CloseReleases, CallReturns, RequestsAreAnswered, ReturnsOnClose, Captured,
ReadableIsServed), since the prover has no rule for ENABLED and fairness. For six
of them the safety half is proved: no step leads away from what is promised
(TickSettles, CallsAdvance of HTTPSession and of StdioTransport, NobodyStuck,
NothingDropped, CapturesSettle); that the steps are taken is the part left to TLC.
Every property of a passing run that is not liveness is proved.

## 6. Not modelled

* Connections of database/sql and the PRAGMA that is set on one of them; ClearCache,
  which nothing calls.
* The permission check of the key file; AES-GCM beyond what it promises.
* GenerateTypeDefs and GenerateServerSummaries but for the type of a result, and
  the texts of tool lists and results: layout. The generated JavaScript but for
  the proxies; its evaluation is an external runtime's.
* HTTP bodies, SSE decoding, authorization headers, ServeHTTP (which keeps no
  state).
* `voidmcp list`, List, AllTools, TotalToolCount, Available, Ping over HTTP: they
  change nothing.
* The whole shutdown order (only the parts that concern the pool and the stdio
  transport).
* Signals to the child: a comment in stdio.go promises SIGTERM where the code
  kills; the model has the kill.

## 7. Plan

1. (done) Store and Registry; Pool with Semaphore; StdioTransport; HTTPSession;
   StdioServer with Dialogue; SchemaCapture.
2. (done) StartUp, Search, Results, Bridge and Shapes.
3. (done) Proofs of every property of a passing run that is not liveness, and of
   the safety half of the liveness ones where there is one to state.
4. `Shutdown`: registry, pool and store closed under requests, watcher and
   captures that still run, in both modes.
5. Store with connections: foreign keys off on a second connection.
6. Bodies of HTTP answers: which event of a stream an answer is taken from.
