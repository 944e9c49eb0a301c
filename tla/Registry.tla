------------------------------ MODULE Registry ------------------------------
(***************************************************************************)
(* The server registry of internal/registry/registry.go inside one running *)
(* "voidmcp serve" process, over the store it shares with other processes. *)
(*                                                                         *)
(* Three kinds of threads act: request handlers (Add, Remove, CallTool),   *)
(* the watcher goroutine (Watch and tickOnce), and other processes on the  *)
(* same database.  Every region under r.mu, every store call and every     *)
(* call to a remote server is a step of its own, because other threads run *)
(* between them.  A local variable that the code carries across steps is a *)
(* field of local.                                                         *)
(*                                                                         *)
(* The three Go maps servers, tools and statuses, and the transport and    *)
(* the endpoint of a serverMeta, are functions from names; None is "not in *)
(* the map", or the nil transport.                                         *)
(***************************************************************************)
EXTENDS Store

CONSTANTS
    Transports, \* transport objects: HTTP clients and child processes
    Handlers,   \* goroutines that serve requests
    Watchers,   \* the watcher goroutine; empty when --watch-interval is 0
    Peers       \* other voidmcp processes that have the database open

Procs == Handlers \cup Watchers
Threads == Procs \cup Peers

ASSUME NoneIsNoTransport == None \notin Transports
ASSUME ThreadsAreDisjoint ==
    /\ Handlers \cap Watchers = {}
    /\ Procs \cap Peers = {}
ASSUME OneWatcher == \A v, w \in Watchers : v = w
ASSUME NoneIsNoStatus == None \notin {"connected", "error"}

VARIABLES
    transport,  \* servers[n].transport
    endpoint,   \* servers[n].url and .command; None when n is not in servers
    tools,      \* tools[n], named by the configuration they came from
    statuses,   \* statuses[n]
    open,       \* transports created and not closed
    local,      \* per thread: where it is, and what it carries
    seen,       \* tickOnce: dbSet
    added,      \* tickOnce: added, what is left of it
    removed,    \* tickOnce: removed, what is left of it
    phase,      \* start-up of the process: boot, loading, serving
    todo        \* Load: the rows ListServers returned, less those done

indexVars == <<transport, endpoint, tools, statuses>>
tickVars  == <<seen, added, removed>>
loadVars  == <<phase, todo>>
vars == <<db, cache, transport, endpoint, tools, statuses, open, local,
          seen, added, removed, phase, todo>>

AddLabels    == {"add_list", "add_row", "add_cache", "add_install"}
RemoveLabels == {"rm_close", "rm_row"}
TickLabels   == {"diff", "work", "w_list", "w_cache", "w_install", "w_close"}
Labels == {"idle", "call", "peer_cache"} \cup AddLabels \cup RemoveLabels
            \cup TickLabels

\* Where a thread holds the only reference to a transport.  A thread at
\* "call" has a copy of the index's reference, and owns nothing.
OwningLabels == AddLabels \cup {"rm_close", "w_list", "w_cache", "w_install", "w_close"}

At(l, n, c, t) == [pc |-> l, name |-> n, cfg |-> c, conn |-> t]
Idle == At("idle", None, None, None)

NoEntries == [n \in Names |-> None]

\* The labels a thread of each kind can be at; and at all but three of
\* them it works on a server.
Labelled ==
    /\ \A h \in Handlers : local[h].pc \in {"idle", "call"} \cup AddLabels \cup RemoveLabels
    /\ \A w \in Watchers : local[w].pc \in {"idle"} \cup TickLabels
    /\ \A p \in Peers : local[p].pc \in {"idle", "peer_cache"}
    /\ \A p \in Threads :
          \/ local[p].pc \in {"idle", "diff", "work"}
          \/ local[p].name \in Names /\ local[p].cfg \in Configs

TypeOK ==
    /\ db \in [Names -> MaybeConfig]
    /\ cache \in [Names -> MaybeConfig]
    /\ transport \in [Names -> Transports \cup {None}]
    /\ endpoint \in [Names -> MaybeConfig]
    /\ tools \in [Names -> MaybeConfig]
    /\ statuses \in [Names -> {"connected", "error", None}]
    /\ open \subseteq Transports
    /\ local \in [Threads -> [pc : Labels, name : Names \cup {None},
                              cfg : MaybeConfig, conn : Transports \cup {None}]]
    /\ seen \subseteq Names /\ added \subseteq Names /\ removed \subseteq Names
    /\ phase \in {"boot", "loading", "serving"}
    /\ todo \in [Names -> MaybeConfig]

Init ==
    /\ StoreInit
    /\ transport = NoEntries /\ endpoint = NoEntries
    /\ tools = NoEntries /\ statuses = NoEntries
    /\ open = {}
    /\ local = [p \in Threads |-> Idle]
    /\ seen = {} /\ added = {} /\ removed = {}
    /\ phase = "boot"
    /\ todo = NoEntries

-----------------------------------------------------------------------------
Registered == {n \in Names : endpoint[n] # None}

Goto(p, l)  == local' = [local EXCEPT ![p].pc = l]
Become(p, r) == local' = [local EXCEPT ![p] = r]

\* A new transport is one no index entry and no thread refers to.  The
\* identity of a transport that leaked may be taken again: nothing can tell
\* the two apart.
FreshTransport(t) ==
    /\ t \in Transports
    /\ \A n \in Names : transport[n] # t
    /\ \A p \in Threads : local[p].conn # t

\* The writes under r.mu that put an entry in, whatever was there before,
\* and that take one out.
Install(n, t, c, ts, s) ==
    /\ transport' = [transport EXCEPT ![n] = t]
    /\ endpoint' = [endpoint EXCEPT ![n] = c]
    /\ tools' = [tools EXCEPT ![n] = ts]
    /\ statuses' = [statuses EXCEPT ![n] = s]

Uninstall(n) == Install(n, None, None, None, None)

-----------------------------------------------------------------------------
(* Load, run by runServe before anything else starts.                      *)

\* ListServers; when it fails, runServe logs it and serves an empty index.
LoadList ==
    /\ phase = "boot"
    /\ phase' = "loading"
    /\ todo' \in {db, NoEntries}
    /\ UNCHANGED <<db, cache, indexVars, open, local, tickVars>>

\* Mutant: the stub gets a status of its own.
LoadStubUnknown(n) ==
    /\ phase = "loading" /\ todo[n] # None
    /\ Install(n, None, todo[n], None, "unknown")
    /\ todo' = [todo EXCEPT ![n] = None]
    /\ UNCHANGED <<db, cache, open, local, tickVars, phase>>

\* newTransport fails: the entry is a stub without a transport.
LoadStub(n) ==
    /\ phase = "loading" /\ todo[n] # None
    /\ Install(n, None, todo[n], None, "error")
    /\ todo' = [todo EXCEPT ![n] = None]
    /\ UNCHANGED <<db, cache, open, local, tickVars, phase>>

LoadConnect(n, t) ==
    /\ phase = "loading" /\ todo[n] # None
    /\ FreshTransport(t)
    /\ open' = open \cup {t}
    /\ todo' = [todo EXCEPT ![n] = None]
    /\ \/ \* a cache younger than cacheMaxAge is used as it is
          /\ cache[n] # None
          /\ Install(n, t, todo[n], cache[n], "connected")
          /\ StoreError
       \/ \* ListTools fails: an old cache, if one could be read
          /\ \E ts \in {cache[n], None} : Install(n, t, todo[n], ts, "error")
          /\ StoreError
       \/ \* ListTools answers, and the answer is cached if it can be
          /\ Install(n, t, todo[n], todo[n], "connected")
          /\ UpsertTools(n, todo[n]) \/ StoreError
    /\ UNCHANGED <<local, tickVars, phase>>

LoadDone ==
    /\ phase = "loading" /\ todo = NoEntries
    /\ phase' = "serving"
    /\ UNCHANGED <<db, cache, indexVars, open, local, tickVars, todo>>

LoadStep ==
    \/ LoadList
    \/ \E n \in Names : LoadStub(n) \/ \E t \in Transports : LoadConnect(n, t)
    \/ LoadDone

-----------------------------------------------------------------------------
(* Add.  ListTools may fail, and so may each write to the store.           *)

AddStart(h, n, c) ==
    /\ phase = "serving" /\ local[h] = Idle
    /\ \E t \in Transports :
          /\ FreshTransport(t)
          /\ open' = open \cup {t}
          /\ Become(h, At("add_list", n, c, t))
    /\ UNCHANGED <<db, cache, indexVars, tickVars, loadVars>>

\* The error returns of Add close the transport it made.
Abandon(p, r) ==
    /\ open' = open \ {local[p].conn}
    /\ Become(p, r)

AddListed(h) ==
    /\ local[h].pc = "add_list"
    /\ \/ Goto(h, "add_row") /\ UNCHANGED open
       \/ Abandon(h, Idle)
    /\ UNCHANGED <<db, cache, indexVars, tickVars, loadVars>>

\* Mutants: the error return forgets to close; the error is ignored like the
\* one of the cache write.
AddRowNoClose(h) ==
    /\ local[h].pc = "add_row"
    /\ \/ InsertServer(local[h].name, local[h].cfg) /\ Goto(h, "add_cache")
       \/ StoreError /\ Become(h, Idle)
    /\ UNCHANGED <<indexVars, open, tickVars, loadVars>>

AddRowIgnored(h) ==
    /\ local[h].pc = "add_row"
    /\ InsertServer(local[h].name, local[h].cfg) \/ StoreError
    /\ Goto(h, "add_cache")
    /\ UNCHANGED <<indexVars, open, tickVars, loadVars>>

AddRow(h) ==
    /\ local[h].pc = "add_row"
    /\ \/ InsertServer(local[h].name, local[h].cfg)
          /\ Goto(h, "add_cache") /\ UNCHANGED open
       \/ StoreError /\ Abandon(h, Idle)
    /\ UNCHANGED <<indexVars, tickVars, loadVars>>

\* Mutant: a cache write that fails ends Add.
AddCacheFatal(h) ==
    /\ local[h].pc = "add_cache"
    /\ \/ UpsertTools(local[h].name, local[h].cfg)
          /\ Goto(h, "add_install") /\ UNCHANGED open
       \/ StoreError /\ Abandon(h, Idle)
    /\ UNCHANGED <<indexVars, tickVars, loadVars>>

\* A cache write that fails is ignored.
AddCache(h) ==
    /\ local[h].pc = "add_cache"
    /\ UpsertTools(local[h].name, local[h].cfg) \/ StoreError
    /\ Goto(h, "add_install")
    /\ UNCHANGED <<indexVars, open, tickVars, loadVars>>

\* The entry is written whether or not the name has one.
AddInstall(h) ==
    /\ local[h].pc = "add_install"
    /\ Install(local[h].name, local[h].conn, local[h].cfg, local[h].cfg, "connected")
    /\ Become(h, Idle)
    /\ UNCHANGED <<db, cache, open, tickVars, loadVars>>

Add(h) ==
    \/ \E n \in Names, c \in Configs : AddStart(h, n, c)
    \/ AddListed(h) \/ AddRow(h) \/ AddCache(h) \/ AddInstall(h)

-----------------------------------------------------------------------------
(* Remove: out of the index, then close, then delete the row.              *)

\* Mutant: the transport is looked up under the lock, the entry deleted later.
RemoveLookup(h, n) ==
    /\ phase = "serving" /\ local[h] = Idle
    /\ n \in Registered /\ transport[n] # None
    /\ Become(h, At("rm_close", n, endpoint[n], transport[n]))
    /\ UNCHANGED <<db, cache, indexVars, open, tickVars, loadVars>>

RemoveEntry(h, n) ==
    /\ phase = "serving" /\ local[h] = Idle
    /\ n \in Registered
    /\ Uninstall(n)
    /\ \/ transport[n] # None
          /\ Become(h, At("rm_close", n, endpoint[n], transport[n]))
       \/ transport[n] = None
          /\ Become(h, At("rm_row", n, endpoint[n], None))
    /\ UNCHANGED <<db, cache, open, tickVars, loadVars>>

RemoveClose(h) ==
    /\ local[h].pc = "rm_close"
    /\ open' = open \ {local[h].conn}
    /\ Become(h, At("rm_row", local[h].name, local[h].cfg, None))
    /\ UNCHANGED <<db, cache, indexVars, tickVars, loadVars>>

\* A row that is gone already counts as removed.
RemoveRow(h) ==
    /\ local[h].pc = "rm_row"
    /\ DeleteServer(local[h].name)
    /\ Become(h, Idle)
    /\ UNCHANGED <<indexVars, open, tickVars, loadVars>>

RemoveRowFails(h) ==
    /\ local[h].pc = "rm_row"
    /\ StoreError
    /\ Become(h, Idle)
    /\ UNCHANGED <<indexVars, open, tickVars, loadVars>>

Remove(h) ==
    \/ \E n \in Names : RemoveEntry(h, n)
    \/ RemoveClose(h) \/ RemoveRow(h) \/ RemoveRowFails(h)

-----------------------------------------------------------------------------
(* CallTool copies the transport under the read lock and uses it after.    *)

CallStart(h, n) ==
    /\ phase = "serving" /\ local[h] = Idle
    /\ transport[n] # None /\ tools[n] # None
    /\ Become(h, At("call", n, endpoint[n], transport[n]))
    /\ UNCHANGED <<db, cache, indexVars, open, tickVars, loadVars>>

CallEnd(h) ==
    /\ local[h].pc = "call"
    /\ Become(h, Idle)
    /\ UNCHANGED <<db, cache, indexVars, open, tickVars, loadVars>>

CallTool(h) == (\E n \in Names : CallStart(h, n)) \/ CallEnd(h)

-----------------------------------------------------------------------------
(* tickOnce.                                                               *)

\* ListServerNames.  When it fails the tick ends where it began.
TickList(w) ==
    /\ phase = "serving" /\ local[w] = Idle
    /\ seen' = Rows
    /\ Become(w, At("diff", None, None, None))
    /\ UNCHANGED <<db, cache, indexVars, open, added, removed, loadVars>>

\* Mutant: names that left the store are not looked for.
TickDiffAddedOnly(w) ==
    /\ local[w].pc = "diff"
    /\ added' = seen \ Registered
    /\ seen' = {}
    /\ Goto(w, "work")
    /\ UNCHANGED <<db, cache, indexVars, open, removed, loadVars>>

\* memNames, read later than the rows, and the difference of the two.
TickDiff(w) ==
    /\ local[w].pc = "diff"
    /\ added' = seen \ Registered
    /\ removed' = Registered \ seen
    /\ seen' = {}
    /\ Goto(w, "work")
    /\ UNCHANGED <<db, cache, indexVars, open, loadVars>>

\* GetServer and newTransport.
TickConnect(w, n) ==
    /\ local[w].pc = "work" /\ n \in added
    /\ db[n] # None
    /\ \E t \in Transports :
          /\ FreshTransport(t)
          /\ open' = open \cup {t}
          /\ Become(w, At("w_list", n, db[n], t))
    /\ added' = added \ {n}
    /\ UNCHANGED <<db, cache, indexVars, seen, removed, loadVars>>

\* The row is gone, the store fails, or newTransport does.
TickSkip(w, n) ==
    /\ local[w].pc = "work" /\ n \in added
    /\ added' = added \ {n}
    /\ UNCHANGED <<db, cache, indexVars, open, local, seen, removed, loadVars>>

TickWork == At("work", None, None, None)

TickListed(w) ==
    /\ local[w].pc = "w_list"
    /\ Goto(w, "w_cache")
    /\ UNCHANGED <<db, cache, indexVars, open, tickVars, loadVars>>

TickListFails(w) ==
    /\ local[w].pc = "w_list"
    /\ Abandon(w, TickWork)
    /\ UNCHANGED <<db, cache, indexVars, tickVars, loadVars>>

TickCache(w) ==
    /\ local[w].pc = "w_cache"
    /\ UpsertTools(local[w].name, local[w].cfg) \/ StoreError
    /\ Goto(w, "w_install")
    /\ UNCHANGED <<indexVars, open, tickVars, loadVars>>

\* Mutant: no guard before the write.
TickInstallAnyway(w) ==
    /\ local[w].pc = "w_install"
    /\ Install(local[w].name, local[w].conn, local[w].cfg, local[w].cfg, "connected")
    /\ Become(w, TickWork)
    /\ UNCHANGED <<db, cache, open, tickVars, loadVars>>

TickInstall(w) ==
    /\ local[w].pc = "w_install"
    /\ local[w].name \notin Registered
    /\ Install(local[w].name, local[w].conn, local[w].cfg, local[w].cfg, "connected")
    /\ Become(w, TickWork)
    /\ UNCHANGED <<db, cache, open, tickVars, loadVars>>

\* The TOCTOU guard: somebody installed the name first.
TickBackOff(w) ==
    /\ local[w].pc = "w_install"
    /\ local[w].name \in Registered
    /\ Abandon(w, TickWork)
    /\ UNCHANGED <<db, cache, indexVars, tickVars, loadVars>>

\* The loop over removed starts when the loop over added is done.
TickDrop(w, n) ==
    /\ local[w].pc = "work" /\ added = {} /\ n \in removed
    /\ removed' = removed \ {n}
    /\ \/ n \in Registered /\ transport[n] # None
          /\ Uninstall(n)
          /\ Become(w, At("w_close", n, endpoint[n], transport[n]))
       \/ n \in Registered /\ transport[n] = None
          /\ Uninstall(n) /\ UNCHANGED local
       \/ n \notin Registered
          /\ UNCHANGED <<indexVars, local>>
    /\ UNCHANGED <<db, cache, open, seen, added, loadVars>>

TickClose(w) ==
    /\ local[w].pc = "w_close"
    /\ Abandon(w, TickWork)
    /\ UNCHANGED <<db, cache, indexVars, tickVars, loadVars>>

TickEnd(w) ==
    /\ local[w].pc = "work" /\ added = {} /\ removed = {}
    /\ Become(w, Idle)
    /\ UNCHANGED <<db, cache, indexVars, open, tickVars, loadVars>>

\* A tick in which the database, the child processes and the remote servers
\* answer, and the steps in which they do not.
TickOk(w) ==
    \/ TickList(w) \/ TickDiff(w)
    \/ \E n \in Names : TickConnect(w, n) \/ TickDrop(w, n)
    \/ TickListed(w) \/ TickCache(w) \/ TickInstall(w) \/ TickBackOff(w)
    \/ TickClose(w) \/ TickEnd(w)

TickFails(w) ==
    \/ \E n \in Names : TickSkip(w, n)
    \/ TickListFails(w)

tickOnce(w) == TickOk(w) \/ TickFails(w)

-----------------------------------------------------------------------------
(* Other processes see and change the store only: "voidmcp add" inserts a  *)
(* row and then caches its tools; a server that handles remove_mcp deletes *)
(* a row.                                                                  *)

PeerAdd(p, n, c) ==
    /\ local[p] = Idle
    /\ InsertServer(n, c)
    /\ Become(p, At("peer_cache", n, c, None))
    /\ UNCHANGED <<indexVars, open, tickVars, loadVars>>

PeerCache(p) ==
    /\ local[p].pc = "peer_cache"
    /\ UpsertTools(local[p].name, local[p].cfg) \/ StoreError
    /\ Become(p, Idle)
    /\ UNCHANGED <<indexVars, open, tickVars, loadVars>>

PeerRemove(p, n) ==
    /\ local[p] = Idle /\ n \in Rows
    /\ DeleteServer(n)
    /\ UNCHANGED <<indexVars, open, local, tickVars, loadVars>>

PeerStep(p) ==
    \/ \E n \in Names : PeerRemove(p, n) \/ \E c \in Configs : PeerAdd(p, n, c)
    \/ PeerCache(p)

\* The process ends, in order or not, and is started again.  Its child
\* processes and connections end with it; only the store survives.
Restart ==
    /\ phase' = "boot" /\ todo' = NoEntries
    /\ transport' = NoEntries /\ endpoint' = NoEntries
    /\ tools' = NoEntries /\ statuses' = NoEntries
    /\ open' = {}
    /\ local' = [p \in Threads |-> IF p \in Procs THEN Idle ELSE local[p]]
    /\ seen' = {} /\ added' = {} /\ removed' = {}
    /\ UNCHANGED <<db, cache>>

Next ==
    \/ LoadStep
    \/ \E h \in Handlers : Add(h) \/ Remove(h) \/ CallTool(h)
    \/ \E w \in Watchers : tickOnce(w)
    \/ \E p \in Peers : PeerStep(p)
    \/ Restart

Spec == Init /\ [][Next]_vars

\* Load returns and the ticker keeps firing; every call in a tick returns,
\* with an answer or with an error, because the transports time out.  No
\* handler and no other process is assumed to do anything.
FairSpec ==
    /\ Spec
    /\ WF_vars(LoadStep)
    /\ WF_vars(\E w \in Watchers : tickOnce(w))

-----------------------------------------------------------------------------
(* Transports have owners.                                                 *)

HeldByThreads == {local[p].conn : p \in {q \in Threads : local[q].pc \in OwningLabels}}
HeldByIndex   == {transport[n] : n \in Names} \ {None}
Owned         == HeldByThreads \cup HeldByIndex

\* A transport in the index is open: whoever closes one has taken it out of
\* the index first, so List never shows, and CallTool never picks, a
\* transport that Remove or the watcher has closed.
EntriesOpen == \A n \in Names : transport[n] # None => transport[n] \in open

\* What a handler or the watcher is still setting up, or is about to close,
\* nobody has closed under it.
HeldOpen == \A p \in Threads : local[p].pc \in OwningLabels => local[p].conn \in open

\* No two owners: not two entries, not an entry and a thread, not two
\* threads.  So no transport is closed twice by the registry, and none is
\* closed by one request while another one is installing it.
SingleOwner ==
    /\ \A m, n \in Names : transport[m] = transport[n] /\ m # n => transport[m] = None
    /\ \A p \in Threads, n \in Names :
          local[p].pc \in OwningLabels => transport[n] # local[p].conn
    /\ \A p, q \in Threads :
          /\ p # q
          /\ local[p].pc \in OwningLabels
          /\ local[q].pc \in OwningLabels
          => local[p].conn # local[q].conn

\* Transport ownership in Registry, whatever the watcher and the other
\* processes do.
Ownership == EntriesOpen /\ HeldOpen /\ SingleOwner

\* No transport is open with nobody left to close it: no child process and
\* no session is lost by Add, Remove, Load and tickOnce.
NoLeak == open \subseteq Owned

\* The only step that loses an open transport is the unconditional write at
\* the end of Add.  In particular tickOnce never does, although it installs
\* and removes entries between the steps of the handlers.
LostOnlyByAdd ==
    [][\A t \in open \cap Owned :
         t \in open' => t \in Owned' \/ \E h \in Handlers : AddInstall(h)]_vars

-----------------------------------------------------------------------------
(* The maps, the store, and each other.                                    *)

\* The three maps are written together: a name with tools, a status or a
\* transport is in servers; one in servers without a transport is an error
\* stub; and a server shown as connected can be called.
MapsAgree ==
    \A n \in Names :
       /\ n \notin Registered => transport[n] = None /\ tools[n] = None /\ statuses[n] = None
       /\ n \in Registered => statuses[n] # None
       /\ statuses[n] = "connected" => transport[n] # None /\ tools[n] # None

\* With one process and no watcher: whatever the index serves has a row
\* that says the same.  A restart loses no registered server, and an entry
\* never outlives its row.
MemoryInStore == \A n \in Registered : db[n] = endpoint[n]

\* With one process and no watcher: the tools shown for a server came from
\* that server, also when they are read from the cache after a restart and
\* the name was removed and added again with another endpoint.
ToolsAreCurrent == \A n \in Names : tools[n] # None => tools[n] = endpoint[n]

\* A row without an entry and without a request that is about to settle it:
\* Remove answers "not found", Add answers "already exists".
Stranded(n) ==
    /\ phase = "serving"
    /\ db[n] # None /\ n \notin Registered
    /\ \A h \in Handlers :
          local[h].pc \in {"add_cache", "add_install"} \cup RemoveLabels => local[h].name # n

\* With one process and no watcher: while the process serves, a name is
\* stranded only by a Remove whose DELETE failed, never by two requests
\* that meet.
StrandedOnlyByFailure ==
    [][\A n \in Names :
         phase = "serving" /\ ~Stranded(n) /\ Stranded(n)'
            => \E h \in Handlers : RemoveRowFails(h)]_vars

-----------------------------------------------------------------------------
(* What the watcher is for.                                                *)

\* From some point on only Load and the watcher act, and nothing they call
\* fails.
Undisturbed == <>[][LoadStep \/ \E w \in Watchers : TickOk(w)]_vars

\* "applies the diff to the in-memory registry": when the requests, the
\* other processes and the failures stop, the index ends up with exactly the
\* names in the store, whatever state they left behind.
NamesConverge == Undisturbed => <>[](Registered = Rows)

\* The same of the endpoints ("pick up CLI changes"): a server removed and
\* added again elsewhere under another URL is picked up.
EndpointsConverge == Undisturbed => <>[](endpoint = db)

\* tickOnce "removes dropped ones": an entry the watcher takes out is one
\* whose row is gone.
DropsOnlyDropped ==
    [][\A n \in Registered :
         (\E w \in Watchers : TickDrop(w, n)) => db[n] # endpoint[n]]_vars

=============================================================================
