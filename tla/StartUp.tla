------------------------------ MODULE StartUp ------------------------------
(***************************************************************************)
(* The commands of cmd/voidmcp/main.go as processes that share a data      *)
(* directory: the key file, which the first of them creates                *)
(* (loadOrCreateKey in internal/store/store.go); the rows of mcp_servers   *)
(* with their tokens encrypted under the key; the bearer token that serve  *)
(* generates once and keeps in the table settings.                         *)
(*                                                                         *)
(* A ciphertext is the key it was made with: decrypt succeeds with that    *)
(* key and no other.  The registry of a process is here the set of the     *)
(* names it has an entry for; Registry has their transports, tools and     *)
(* interleavings, and a statement of SQLite is one step, as it is there.   *)
(***************************************************************************)
CONSTANTS
    Procs,      \* processes, under way at the same time
    Names,      \* server names
    Fragile,    \* servers that may be out of reach
    Keys,       \* keys: 32 random bytes each
    Tokens,     \* bearer tokens
    Plain,      \* the token column of a row without a token
    Torn,       \* a key file that is created and not written
    None

ASSUME SpecialValues == /\ Plain \notin Keys /\ Torn \notin Keys /\ None \notin Keys
                        /\ None \notin Tokens /\ None # Plain /\ None # Torn
                        /\ Fragile \subseteq Names

VARIABLES
    keyFile,    \* the file "key", None when there is none
    rows,       \* mcp_servers: name -> what its token was encrypted with, or None
    bearer,     \* settings, "bearer_token": the token and the key it is under
    proc,       \* where each process is
    minted,     \* keys and tokens that were generated: none comes twice
    excuse,     \* what has gone wrong: see KeyRace, TokenRace and ReadError
    down        \* servers that do not answer, or whose command does not run

vars == <<keyFile, rows, bearer, proc, minted, excuse, down>>

Commands == {"serve", "serve --token", "add", "remove"}
Labels == {"idle", "opening", "creating", "writing", "opened", "resolving", "minting", "serving",
           "ended"}

NoBearer == [key |-> None, token |-> None]
NoProc == [pc |-> "idle", cmd |-> "add", key |-> None, token |-> None, servers |-> {}]

TypeOK ==
    /\ keyFile \in Keys \cup {None, Torn}
    /\ rows \in [Names -> Keys \cup {None, Plain}]
    /\ bearer \in [key : Keys \cup {None}, token : Tokens \cup {None}]
    /\ proc \in [Procs -> [pc : Labels, cmd : Commands, key : Keys \cup {None},
                           token : Tokens \cup {None}, servers : SUBSET Names]]
    /\ minted \subseteq Keys \cup Tokens
    /\ excuse \subseteq {"KeyRace", "TokenRace", "ReadError"}
    /\ down \subseteq Fragile

Init ==
    /\ keyFile = None
    /\ rows = [n \in Names |-> None]
    /\ bearer = NoBearer
    /\ proc = [p \in Procs |-> NoProc]
    /\ minted = {}
    /\ excuse = {}
    /\ down = {}

At(p, l) == proc[p].pc = l
Becomes(p, r) == proc' = [proc EXCEPT ![p] = r]
Moves(p, l) == Becomes(p, [proc[p] EXCEPT !.pc = l])

Registered == {n \in Names : rows[n] # None}

\* Random bytes, never the same twice.  Which of the unused values they are
\* makes no difference to anything.
New(values) == CHOOSE v \in values : v \notin minted

\* What scanServer can decrypt with a key.
Readable(n, k) == rows[n] \in {Plain, k}

-----------------------------------------------------------------------------
(* store.Open                                                              *)

Start(p, c) ==
    /\ At(p, "idle")
    /\ Becomes(p, [NoProc EXCEPT !.pc = "opening", !.cmd = c])
    /\ UNCHANGED <<keyFile, rows, bearer, minted, excuse, down>>

FindKey(p) ==
    /\ At(p, "opening") /\ keyFile \in Keys
    /\ Becomes(p, [proc[p] EXCEPT !.pc = "opened", !.key = keyFile])
    /\ UNCHANGED <<keyFile, rows, bearer, minted, excuse, down>>

\* Two processes find no key file, and both will write one.
KeyRace(p) == \E q \in Procs \ {p} : At(q, "creating") \/ At(q, "writing")

\* os.ErrNotExist: generate a key.
FindNoKey(p) ==
    /\ At(p, "opening") /\ keyFile = None
    /\ ~(Keys \subseteq minted)
    /\ Becomes(p, [proc[p] EXCEPT !.pc = "creating", !.key = New(Keys)])
    /\ minted' = minted \cup {New(Keys)}
    /\ excuse' = IF KeyRace(p) THEN excuse \cup {"KeyRace"} ELSE excuse
    /\ UNCHANGED <<keyFile, rows, bearer, down>>

\* os.WriteFile truncates or creates the file, and then writes it.
CreateKey(p) ==
    /\ At(p, "creating")
    /\ keyFile' = Torn
    /\ Moves(p, "writing")
    /\ UNCHANGED <<rows, bearer, minted, excuse, down>>

WriteKey(p) ==
    /\ At(p, "writing")
    /\ keyFile' = proc[p].key
    /\ Moves(p, "opened")
    /\ UNCHANGED <<rows, bearer, minted, excuse, down>>

\* A step fails and the command ends, it has done its work, or it is killed.
\* A key file of an unexpected length lets nobody further than "opening".
Stop(p) ==
    /\ ~At(p, "idle")
    /\ Becomes(p, NoProc)
    /\ UNCHANGED <<keyFile, rows, bearer, minted, excuse, down>>

-----------------------------------------------------------------------------
(* serve                                                                   *)

\* GetServer, row by row.
ReadableBy(p) == {n \in Registered : Readable(n, proc[p].key)}

\* Load: one row that cannot be decrypted, and ListServers returns none.  A
\* failing query does the same.
Loaded(p) == IF \A n \in Registered : Readable(n, proc[p].key) THEN Registered ELSE {}

Load(p) ==
    /\ At(p, "opened") /\ proc[p].cmd \in {"serve", "serve --token"}
    /\ \E S \in {Loaded(p), {}} :
          Becomes(p, [proc[p] EXCEPT !.servers = S,
                         !.pc = IF proc[p].cmd = "serve" THEN "resolving" ELSE "serving"])
    /\ UNCHANGED <<keyFile, rows, bearer, minted, excuse, down>>

\* GetSetting finds the token and can decrypt it.
GetToken(p) ==
    /\ At(p, "resolving") /\ bearer.key = proc[p].key
    /\ Becomes(p, [proc[p] EXCEPT !.pc = "serving", !.token = bearer.token])
    /\ UNCHANGED <<keyFile, rows, bearer, minted, excuse, down>>

\* Two processes find no token, and both will store one.
TokenRace(p) == \E q \in Procs \ {p} : At(q, "minting")

\* There is a token, and the query for it failed.
ReadError(p) == bearer.key = proc[p].key

\* Any error of GetSetting: generate a token.
MintToken(p) ==
    /\ At(p, "resolving")
    /\ ~(Tokens \subseteq minted)
    /\ Becomes(p, [proc[p] EXCEPT !.pc = "minting", !.token = New(Tokens)])
    /\ minted' = minted \cup {New(Tokens)}
    /\ excuse' = excuse \cup (IF TokenRace(p) THEN {"TokenRace"} ELSE {})
                        \cup (IF ReadError(p) THEN {"ReadError"} ELSE {})
    /\ UNCHANGED <<keyFile, rows, bearer, down>>

\* Mutant: the new token is used and not stored.
SetTokenNowhere(p) ==
    /\ At(p, "minting")
    /\ Moves(p, "serving")
    /\ UNCHANGED <<keyFile, rows, bearer, minted, excuse, down>>

\* SetSetting, which replaces any token there is.
SetToken(p) ==
    /\ At(p, "minting")
    /\ bearer' = [key |-> proc[p].key, token |-> proc[p].token]
    /\ Moves(p, "serving")
    /\ UNCHANGED <<keyFile, rows, minted, excuse, down>>

\* What is left of the entries, and the new ones: rows that can be read, of
\* servers that can be reached.
Dropped(p) == proc[p].servers \ Registered
Added(p) == ReadableBy(p) \ (proc[p].servers \cup down)

\* Mutant: the tick ends at the first row it cannot read.
TickReturning(p) ==
    /\ At(p, "serving")
    /\ \A n \in Registered \ proc[p].servers : Readable(n, proc[p].key)
    /\ Dropped(p) \cup Added(p) # {}
    /\ Becomes(p, [proc[p] EXCEPT !.servers = (@ \ Dropped(p)) \cup Added(p)])
    /\ UNCHANGED <<keyFile, rows, bearer, minted, excuse, down>>

\* tickOnce goes through the names without an entry, passes over a row it
\* cannot read, a transport it cannot make and a server that does not list
\* its tools, and leaves them to the next tick.
Tick(p) ==
    /\ At(p, "serving")
    /\ Dropped(p) \cup Added(p) # {}
    /\ Becomes(p, [proc[p] EXCEPT !.servers = (@ \ Dropped(p)) \cup Added(p)])
    /\ UNCHANGED <<keyFile, rows, bearer, minted, excuse, down>>

\* The tool add_mcp, which takes no token, and the tool remove_mcp.  Add lists
\* the tools of a server before it stores the row.
ServeAdd(p, n) ==
    /\ At(p, "serving") /\ n \notin down /\ rows[n] = None
    /\ rows' = [rows EXCEPT ![n] = Plain]
    /\ Becomes(p, [proc[p] EXCEPT !.servers = @ \cup {n}])
    /\ UNCHANGED <<keyFile, bearer, minted, excuse, down>>

ServeRemove(p, n) ==
    /\ At(p, "serving") /\ n \in proc[p].servers
    /\ rows' = [rows EXCEPT ![n] = None]
    /\ Becomes(p, [proc[p] EXCEPT !.servers = @ \ {n}])
    /\ UNCHANGED <<keyFile, bearer, minted, excuse, down>>

-----------------------------------------------------------------------------
(* add and remove                                                          *)

\* Mutant: a new key for every process.
AddUnderOwnKey(p, n) ==
    /\ At(p, "opened") /\ proc[p].cmd = "add" /\ n \notin down /\ rows[n] = None
    /\ \E k \in Keys \cup {Plain} : rows' = [rows EXCEPT ![n] = k]
    /\ Moves(p, "ended")
    /\ UNCHANGED <<keyFile, bearer, minted, excuse, down>>

\* The token is encrypted with the key in memory, if there is one.
AddServer(p, n) ==
    /\ At(p, "opened") /\ proc[p].cmd = "add" /\ n \notin down /\ rows[n] = None
    /\ \E k \in {proc[p].key, Plain} : rows' = [rows EXCEPT ![n] = k]
    /\ Moves(p, "ended")
    /\ UNCHANGED <<keyFile, bearer, minted, excuse, down>>

\* Remove, on a registry that knows what Load has told it.
RemoveServer(p, n) ==
    /\ At(p, "opened") /\ proc[p].cmd = "remove"
    /\ rows' = IF n \in proc[p].servers THEN [rows EXCEPT ![n] = None] ELSE rows
    /\ Moves(p, "ended")
    /\ UNCHANGED <<keyFile, bearer, minted, excuse, down>>

\* A server goes away, or comes back.
Turns(n) ==
    /\ down' = IF n \in down THEN down \ {n} ELSE down \cup {n}
    /\ UNCHANGED <<keyFile, rows, bearer, proc, minted, excuse>>

-----------------------------------------------------------------------------
Open(p) == FindKey(p) \/ FindNoKey(p) \/ CreateKey(p) \/ WriteKey(p)

Serve(p) ==
    \/ Load(p) \/ GetToken(p) \/ MintToken(p) \/ SetToken(p) \/ Tick(p)
    \/ \E n \in Names : ServeAdd(p, n) \/ ServeRemove(p, n)

Next ==
    \/ \E p \in Procs :
          \/ \E c \in Commands : Start(p, c)
          \/ Open(p) \/ Stop(p) \/ Serve(p)
          \/ \E n \in Names : AddServer(p, n) \/ RemoveServer(p, n)
    \/ \E n \in Fragile : Turns(n)

Spec == Init /\ [][Next]_vars

\* The watcher polls as long as its process runs (--watch-interval is not 0),
\* and not every query of its ticks fails.
FairSpec == Spec /\ \A p \in Procs : WF_vars(Tick(p))

-----------------------------------------------------------------------------
\* "Registered servers ... persist in SQLite across restarts": what is stored
\* under a key can be read by whoever opens the store later, because the key
\* is in the file - unless two processes found no file.
TokensReadable ==
    "KeyRace" \notin excuse =>
       /\ \A n \in Names : rows[n] \in Keys => rows[n] = keyFile
       /\ bearer.key # None => bearer.key = keyFile

\* "Try to load a previously persisted token; generate and persist one if
\* none exists yet": every process that serves with the stored token, from
\* its start to its end, has the one that is stored, unless two of them found
\* none or the store failed.
OneBearer ==
    excuse = {} =>
       \A p \in Procs : At(p, "serving") /\ proc[p].cmd = "serve" =>
                           bearer = [key |-> keyFile, token |-> proc[p].token]

\* "leaving the name absent lets the next tick retry automatically
\* (self-healing after transient network/process errors)": a process gets an
\* entry for every row that it can read, from some point on, and whose server
\* can be reached from then on - although Load returns nothing when there is
\* one row it cannot read, and however often the server was gone before.
ReadableIsServed ==
    \A p \in Procs, n \in Names :
       <>[](At(p, "serving") /\ Readable(n, proc[p].key) /\ n \notin down) =>
          []<>(n \in proc[p].servers)

\* README: "voidmcp remove filesystem # unregister a server".
RemoveUnregisters == [][\A p \in Procs, n \in Names : RemoveServer(p, n) => rows'[n] = None]_vars

\* "... if none exists yet."
MintsOnce == [][bearer # NoBearer => UNCHANGED bearer]_bearer

=============================================================================
