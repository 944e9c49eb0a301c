------------------------------- MODULE Store -------------------------------
(***************************************************************************)
(* The SQLite store of internal/store/store.go, as far as the registry     *)
(* reads and writes it: the table mcp_servers and the table tool_cache,    *)
(* whose rows hang off a server row by a foreign key with ON DELETE        *)
(* CASCADE.  SQLite runs one statement at a time, so every operation is    *)
(* one step.  The database file is shared: several voidmcp processes may   *)
(* have it open.                                                           *)
(*                                                                         *)
(* A row's URL, command and credentials are one value of Configs.  A tool  *)
(* list is named by the configuration of the server it was fetched from,   *)
(* which is all the properties ask of it: whose tools are these?  The      *)
(* tables output_schemas and settings are not here.                        *)
(***************************************************************************)
CONSTANTS
    Names,      \* server names
    Configs,    \* what a row says about how to reach the server
    None        \* "no row", "no transport", "no entry"

ASSUME NoneIsNoConfig == None \notin Configs

VARIABLES
    db,         \* mcp_servers: name -> configuration, or None
    cache       \* tool_cache: name -> the configuration the tools came from

storeVars == <<db, cache>>

MaybeConfig == Configs \cup {None}

StoreInit ==
    /\ db = [n \in Names |-> None]
    /\ cache = [n \in Names |-> None]

Rows == {n \in Names : db[n] # None}

-----------------------------------------------------------------------------
(* Each operation below is a call that succeeds.  A call that fails (the   *)
(* database is locked by another process, the context is cancelled, a key  *)
(* constraint refuses the row) changes nothing: StoreError.                *)

\* AddServer: INSERT under a primary key, refused when the name has a row.
InsertServer(n, c) ==
    /\ db[n] = None
    /\ db' = [db EXCEPT ![n] = c]
    /\ UNCHANGED cache

\* Mutant: no ON DELETE CASCADE.
DeleteWithoutCascade(n) ==
    /\ db' = [db EXCEPT ![n] = None]
    /\ UNCHANGED cache

\* RemoveServer: DELETE, which takes the cached tools with it.  ErrNotFound
\* when there is no row, which deletes nothing.
DeleteServer(n) ==
    /\ db' = [db EXCEPT ![n] = None]
    /\ cache' = [cache EXCEPT ![n] = None]

\* CacheTools: upsert, refused by the foreign key when the name has no row.
UpsertTools(n, c) ==
    /\ db[n] # None
    /\ cache' = [cache EXCEPT ![n] = c]
    /\ UNCHANGED db

StoreError == UNCHANGED storeVars

=============================================================================
