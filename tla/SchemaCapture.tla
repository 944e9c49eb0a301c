--------------------------- MODULE SchemaCapture ---------------------------
(***************************************************************************)
(* Output schemas, from the tool call to the table output_schemas: a       *)
(* script calls tools through the bridge of Execute                        *)
(* (internal/executor/executor.go); every result starts a goroutine, the   *)
(* OnToolResult hook of handleExecuteCode (internal/server/server.go),     *)
(* which asks the store whether the tool's schema is missing or old,       *)
(* infers one, saves it, and notifies the client.  Nobody waits for the    *)
(* hook: it may run when the script has ended and the server is gone, or   *)
(* has been added again.                                                   *)
(*                                                                         *)
(* There is one server.  Its configuration says whose results are whose;   *)
(* a schema is named by the configuration of the server it was inferred    *)
(* from.  Registration and row are one here; Registry tells them apart.    *)
(* A notification is one step; StdioServer has its parts.                  *)
(***************************************************************************)
EXTENDS Naturals

CONSTANTS
    Tools,          \* the tools the server offers
    Configs,        \* its configurations, one after the other
    Scripts,        \* executions
    Hooks,          \* bound: captures under way
    MaxToolCalls,   \* --max-tool-calls; 0 is no limit
    Ages,           \* is --schema-ttl more than zero, so that schemas age?
    Stdio,          \* is it served over stdio (--stdio), so that ServeStdio has
                    \* set stdioWriter?  HTTP is the default
    None

ASSUME NoneIsNothing == None \notin Configs \cup Tools
ASSUME MaxToolCallsIsNat == MaxToolCalls \in Nat
ASSUME AgesIsBoolean == Ages \in BOOLEAN
ASSUME StdioIsBoolean == Stdio \in BOOLEAN

VARIABLES
    row,        \* the server's configuration, None when it is not registered
    schemas,    \* output_schemas: per tool, whose schema there is, and is it old?
    script,     \* where each execution is
    hook,       \* where each capture is
    \* What the properties compare.
    unannounced,    \* tools whose schema changed after the last notification
    late,           \* was the server added while a result of another one was
                    \* under way?
    inferred,       \* tools a capture has ended for, with no error
    answered,       \* tools whose results the client has been given
    fault           \* tools that a capture failed for, or had nothing to infer

vars == <<row, schemas, script, hook, unannounced, late, inferred, answered, fault>>
storeVars == <<row, schemas>>
ghosts == <<unannounced, late, inferred, answered, fault>>

MaybeConfig == Configs \cup {None}
MaybeTool == Tools \cup {None}
NoSchema == [from |-> None, old |-> FALSE]
NoScript == [pc |-> "idle", offered |-> {}, calls |-> 0, tool |-> None, from |-> None,
             called |-> {}]
NoHook == [pc |-> "idle", tool |-> None, from |-> None]

TypeOK ==
    /\ row \in MaybeConfig
    /\ schemas \in [Tools -> [from : MaybeConfig, old : BOOLEAN]]
    /\ script \in [Scripts -> [pc : {"idle", "running", "calling"}, offered : SUBSET Tools,
                               calls : Nat, tool : MaybeTool, from : MaybeConfig,
                               called : SUBSET Tools]]
    /\ \A e \in Scripts :
          /\ script[e].pc = "calling" => script[e].tool \in script[e].offered /\ script[e].from # None
          /\ MaxToolCalls > 0 => script[e].calls <= MaxToolCalls
          /\ script[e].called \subseteq script[e].offered
    /\ hook \in [Hooks -> [pc : {"idle", "check", "save", "notify"},
                           tool : MaybeTool, from : MaybeConfig]]
    /\ \A h \in Hooks : hook[h].pc # "idle" => hook[h].tool # None /\ hook[h].from # None
    /\ unannounced \subseteq Tools /\ late \in BOOLEAN
    /\ inferred \subseteq Tools /\ answered \subseteq Tools /\ fault \subseteq Tools

Init ==
    /\ row = None
    /\ schemas = [t \in Tools |-> NoSchema]
    /\ script = [e \in Scripts |-> NoScript]
    /\ hook = [h \in Hooks |-> NoHook]
    /\ unannounced = {} /\ late = FALSE
    /\ inferred = {} /\ answered = {} /\ fault = {}

-----------------------------------------------------------------------------
(* The server comes and goes, and time passes.                             *)

UnderWay(c) ==
    \/ \E e \in Scripts : script[e].pc = "calling" /\ script[e].from = c
    \/ \E h \in Hooks : hook[h].pc # "idle" /\ hook[h].from = c

AddServer(c) ==
    /\ row = None
    /\ row' = c
    /\ late' = \E d \in Configs \ {c} : UnderWay(d)
    /\ UNCHANGED <<schemas, script, hook, unannounced, inferred, answered, fault>>

Gone ==
    /\ late' = FALSE /\ inferred' = {} /\ answered' = {}
    /\ fault' = {script[e].tool : e \in {x \in Scripts : script[x].pc = "calling"}}
                   \cup {hook[h].tool : h \in {x \in Hooks : hook[x].pc # "idle"}}
    /\ UNCHANGED <<script, hook, unannounced>>

\* Mutant: the table has no foreign key, so nothing cascades.
RemoveServerKeeping ==
    /\ row # None
    /\ row' = None
    /\ Gone
    /\ UNCHANGED schemas

\* "FOREIGN KEY (server_name) ... ON DELETE CASCADE".
RemoveServer ==
    /\ row # None
    /\ row' = None
    /\ schemas' = [t \in Tools |-> NoSchema]
    /\ Gone

Expire(t) ==
    /\ Ages
    /\ schemas[t].from # None
    /\ schemas' = [schemas EXCEPT ![t].old = TRUE]
    /\ UNCHANGED <<row, script, hook, ghosts>>

-----------------------------------------------------------------------------
(* The execution.                                                          *)

Step(e, r) == script' = [script EXCEPT ![e] = r]

\* The tools a script may name are listed when it starts.
ScriptStarts(e) ==
    /\ script[e].pc = "idle"
    /\ Step(e, [NoScript EXCEPT !.pc = "running",
                                !.offered = IF row = None THEN {} ELSE Tools])
    /\ UNCHANGED <<storeVars, hook, ghosts>>

\* params.MaxToolCalls > 0 && toolCallCount.Add(1) > ...: without a limit
\* nothing is counted.
Counted(n) == IF MaxToolCalls > 0 THEN n + 1 ELSE n

\* Mutant: the limit lets one call too many through.
CallStartsLate(e, t) ==
    /\ script[e].pc = "running"
    /\ MaxToolCalls > 0 => script[e].calls <= MaxToolCalls
    /\ t \in script[e].offered /\ row # None
    /\ Step(e, [script[e] EXCEPT !.pc = "calling", !.tool = t, !.from = row,
                                 !.calls = Counted(@)])
    /\ UNCHANGED <<storeVars, hook, ghosts>>

\* The bridge counts the call, finds the tool, and calls the server that is
\* registered by now.
CallStarts(e, t) ==
    /\ script[e].pc = "running"
    /\ MaxToolCalls > 0 => script[e].calls < MaxToolCalls
    /\ t \in script[e].offered /\ row # None
    /\ Step(e, [script[e] EXCEPT !.pc = "calling", !.tool = t, !.from = row,
                                 !.calls = Counted(@)])
    /\ UNCHANGED <<storeVars, hook, ghosts>>

\* Not one of the tools listed at the start, or its server is not registered
\* any more.  The call counts all the same.
CallRefused(e, t) ==
    /\ script[e].pc = "running"
    /\ MaxToolCalls > 0 /\ script[e].calls < MaxToolCalls
    /\ t \notin script[e].offered \/ row = None
    /\ Step(e, [script[e] EXCEPT !.calls = @ + 1])
    /\ UNCHANGED <<storeVars, hook, ghosts>>

\* The call fails, or returns more than 1 MB, which is not captured.
CallUncaptured(e) ==
    /\ script[e].pc = "calling"
    /\ Step(e, [script[e] EXCEPT !.pc = "running", !.tool = None, !.from = None])
    /\ UNCHANGED <<storeVars, hook, ghosts>>

\* go params.OnToolResult(...)
CallReturns(e) ==
    /\ script[e].pc = "calling"
    /\ \E h \in Hooks :
          /\ hook[h] = NoHook
          /\ hook' = [hook EXCEPT ![h] = [pc |-> "check", tool |-> script[e].tool,
                                          from |-> script[e].from]]
    /\ Step(e, [script[e] EXCEPT !.pc = "running", !.tool = None, !.from = None,
                                 !.called = @ \cup {script[e].tool}])
    /\ UNCHANGED <<storeVars, ghosts>>

\* The answer to execute_code.
ScriptEnds(e) ==
    /\ script[e].pc = "running"
    /\ answered' = IF row = None THEN {} ELSE answered \cup script[e].called
    /\ Step(e, NoScript)
    /\ UNCHANGED <<storeVars, hook, unannounced, late, inferred, fault>>

Execute(e) ==
    \/ ScriptStarts(e) \/ ScriptEnds(e)
    \/ CallUncaptured(e) \/ CallReturns(e)
    \/ \E t \in Tools : CallStarts(e, t) \/ CallRefused(e, t)

-----------------------------------------------------------------------------
(* The hook.                                                               *)

HookAt(h, l) == hook' = [hook EXCEPT ![h].pc = l]
HookEnds(h) == hook' = [hook EXCEPT ![h] = NoHook]

\* Mutant: no row, so no age.
StaleIfOld(t) == Ages /\ schemas[t].old

IsOutputSchemaStale(t) == Ages /\ (schemas[t].from = None \/ schemas[t].old)

\* Nothing to do: the capture has ended well.
Fresh(h) ==
    /\ hook[h].pc = "check" /\ ~IsOutputSchemaStale(hook[h].tool)
    /\ HookEnds(h)
    /\ inferred' = IF row = None THEN {} ELSE inferred \cup {hook[h].tool}
    /\ UNCHANGED <<storeVars, script, unannounced, late, answered, fault>>

\* The schema is missing or old, or the query fails, and one is inferred.
Stale(h) ==
    /\ hook[h].pc = "check"
    /\ Ages
    /\ HookAt(h, "save")
    /\ UNCHANGED <<storeVars, script, ghosts>>

\* InferSchema can make nothing of the result.
NothingToInfer(h) ==
    /\ hook[h].pc = "check" /\ Ages
    /\ HookEnds(h)
    /\ fault' = fault \cup {hook[h].tool}
    /\ UNCHANGED <<storeVars, script, unannounced, late, inferred, answered>>

Put(h) == schemas' = [schemas EXCEPT ![hook[h].tool] = [from |-> hook[h].from, old |-> FALSE]]

\* Mutants: the foreign keys are not enforced; only the first schema of a
\* tool is announced.
SaveUnchecked(h) ==
    /\ hook[h].pc = "save"
    /\ Put(h) /\ HookAt(h, "notify")
    /\ unannounced' = unannounced \cup {hook[h].tool}
    /\ inferred' = IF row = None THEN {} ELSE inferred \cup {hook[h].tool}
    /\ UNCHANGED <<row, script, late, answered, fault>>

SaveSilently(h) ==
    /\ hook[h].pc = "save" /\ row # None
    /\ Put(h)
    /\ IF schemas[hook[h].tool].from = None THEN HookAt(h, "notify") ELSE HookEnds(h)
    /\ unannounced' = unannounced \cup {hook[h].tool}
    /\ inferred' = inferred \cup {hook[h].tool}
    /\ UNCHANGED <<row, script, late, answered, fault>>

\* SaveOutputSchema, refused by the foreign key when the server has no row.
Save(h) ==
    /\ hook[h].pc = "save" /\ row # None
    /\ Put(h) /\ HookAt(h, "notify")
    /\ unannounced' = unannounced \cup {hook[h].tool}
    /\ inferred' = inferred \cup {hook[h].tool}
    /\ UNCHANGED <<row, script, late, answered, fault>>

SaveFails(h) ==
    /\ hook[h].pc = "save"
    /\ HookEnds(h)
    /\ fault' = fault \cup {hook[h].tool}
    /\ UNCHANGED <<storeVars, script, unannounced, late, inferred, answered>>

\* sendNotification: the client will ask again.  Without a stdioWriter it
\* returns at once.
Notify(h) ==
    /\ hook[h].pc = "notify"
    /\ HookEnds(h)
    /\ unannounced' = IF Stdio THEN {} ELSE unannounced
    /\ UNCHANGED <<storeVars, script, late, inferred, answered, fault>>

OnToolResult(h) ==
    Fresh(h) \/ Stale(h) \/ NothingToInfer(h) \/ Save(h) \/ SaveFails(h) \/ Notify(h)

Next ==
    \/ RemoveServer \/ \E c \in Configs : AddServer(c)
    \/ \E t \in Tools : Expire(t)
    \/ \E e \in Scripts : Execute(e)
    \/ \E h \in Hooks : OnToolResult(h)

Spec == Init /\ [][Next]_vars

\* A goroutine that was started runs.
FairSpec == Spec /\ \A h \in Hooks : WF_vars(OnToolResult(h))

-----------------------------------------------------------------------------
\* What handleSearch finds for a tool: GetAllOutputSchemas hides nothing.
Shown(t) == schemas[t].from # None

\* A capture that outlives its server leaves no schema behind.
SchemasHaveServer == \A t \in Tools : Shown(t) => row # None

\* "Tell the client that the tool list has changed": over stdio the client is
\* told of every schema; whatever it does not know of, a notification is under
\* way for.  Over HTTP it is told of none ("clients re-fetch tools/list on
\* their own schedule").
Announced == Stdio /\ unannounced # {} => \E h \in Hooks : hook[h].pc = "notify"

\* A schema describes what the server that is registered returns, unless it
\* was added while a call of an earlier one, or its capture, was under way.
ForeignOnlyWhenLate == \A t \in Tools : schemas[t].from \notin {None, row} => late

\* "Schemas are inferred once and kept": a capture that has ended with no
\* error has left a schema.
InferredOnce == \A t \in inferred : Shown(t)

\* "After the first call, the return type is inferred automatically": sooner
\* or later, unless the capture fails or the server is removed.
Captured ==
    \A t \in Tools :
       (\E h \in Hooks : hook[h].pc = "check" /\ hook[h].tool = t) ~>
          (Shown(t) \/ t \in fault \/ row = None)

\* "... and will show the actual structure on the next search()."
NextSearchShows == \A t \in answered : Shown(t) \/ t \in fault

=============================================================================
