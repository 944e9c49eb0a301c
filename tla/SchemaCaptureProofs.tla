------------------------ MODULE SchemaCaptureProofs ------------------------
(***************************************************************************)
(* What captures may leave in output_schemas, for any number of tools,     *)
(* configurations, scripts and captures, with and without a limit of calls *)
(* and a TTL.                                                              *)
(***************************************************************************)
EXTENDS SchemaCapture, TLAPS

ScriptType == [pc : {"idle", "running", "calling"}, offered : SUBSET Tools,
               calls : Nat, tool : MaybeTool, from : MaybeConfig, called : SUBSET Tools]

HookType == [pc : {"idle", "check", "save", "notify"}, tool : MaybeTool, from : MaybeConfig]

\* What TypeOK says of one script, and of one capture.
ScriptOK(s) ==
    /\ s \in ScriptType
    /\ s.pc = "calling" => s.tool \in s.offered /\ s.from # None
    /\ MaxToolCalls > 0 => s.calls <= MaxToolCalls
    /\ s.called \subseteq s.offered

HookOK(k) == k \in HookType /\ (k.pc # "idle" => k.tool # None /\ k.from # None)

LEMMA ScriptStep ==
    ASSUME TypeOK, NEW e \in Scripts, NEW r, ScriptOK(r), Step(e, r)
    PROVE  /\ script' \in [Scripts -> ScriptType]
           /\ \A x \in Scripts : ScriptOK(script'[x])
<1>1. \A x \in Scripts : script'[x] = IF x = e THEN r ELSE script[x]
    BY DEF TypeOK, Step
<1>2. \A x \in Scripts : ScriptOK(script[x])
    BY DEF TypeOK, ScriptOK, ScriptType
<1> QED
    BY <1>1, <1>2 DEF TypeOK, Step, ScriptOK, ScriptType

LEMMA HookStep ==
    ASSUME TypeOK, NEW h \in Hooks, NEW k, HookOK(k), hook' = [hook EXCEPT ![h] = k]
    PROVE  hook' \in [Hooks -> HookType] /\ \A x \in Hooks : HookOK(hook'[x])
<1>1. \A x \in Hooks : hook'[x] = IF x = h THEN k ELSE hook[x]
    BY DEF TypeOK
<1>2. \A x \in Hooks : HookOK(hook[x])
    BY DEF TypeOK, HookOK, HookType
<1> QED
    BY <1>1, <1>2 DEF TypeOK, HookOK, HookType

\* TypeOK in these terms.
LEMMA TypeSplit ==
    TypeOK <=> /\ row \in MaybeConfig
               /\ schemas \in [Tools -> [from : MaybeConfig, old : BOOLEAN]]
               /\ script \in [Scripts -> ScriptType] /\ \A e \in Scripts : ScriptOK(script[e])
               /\ hook \in [Hooks -> HookType] /\ \A h \in Hooks : HookOK(hook[h])
               /\ unannounced \subseteq Tools /\ late \in BOOLEAN
               /\ inferred \subseteq Tools /\ answered \subseteq Tools /\ fault \subseteq Tools
BY DEF TypeOK, ScriptType, ScriptOK, HookType, HookOK

LEMMA TypeSplitNext ==
    ASSUME row' \in MaybeConfig,
           schemas' \in [Tools -> [from : MaybeConfig, old : BOOLEAN]],
           script' \in [Scripts -> ScriptType], \A e \in Scripts : ScriptOK(script'[e]),
           hook' \in [Hooks -> HookType], \A h \in Hooks : HookOK(hook'[h]),
           unannounced' \subseteq Tools, late' \in BOOLEAN,
           inferred' \subseteq Tools, answered' \subseteq Tools, fault' \subseteq Tools
    PROVE  TypeOK'
BY DEF TypeOK, ScriptType, ScriptOK, HookType, HookOK

LEMMA Aged ==
    ASSUME NEW S, NEW B, NEW s \in [from : S, old : B], NEW b \in B
    PROVE  [s EXCEPT !.old = b] \in [from : S, old : B]
OBVIOUS

LEMMA TypeServer ==
    ASSUME TypeOK, RemoveServer \/ (\E c \in Configs : AddServer(c)) \/ (\E t \in Tools : Expire(t))
    PROVE  TypeOK'
<1>1. script' = script /\ hook' = hook
    BY DEF RemoveServer, Gone, AddServer, Expire, ghosts
<1>2. script' \in [Scripts -> ScriptType] /\ (\A e \in Scripts : ScriptOK(script'[e]))
      /\ hook' \in [Hooks -> HookType] /\ \A h \in Hooks : HookOK(hook'[h])
    BY <1>1, TypeSplit
<1>3. CASE RemoveServer
    <2>1. fault' \subseteq Tools
        BY <1>3 DEF RemoveServer, Gone, TypeOK, MaybeTool
    <2> QED
        BY <1>2, <1>3, <2>1, TypeSplitNext DEF RemoveServer, Gone, TypeOK, NoSchema, MaybeConfig
<1>4. ASSUME NEW c \in Configs, AddServer(c) PROVE TypeOK'
    <2>1. row' \in MaybeConfig /\ late' \in BOOLEAN
        BY <1>4 DEF AddServer, MaybeConfig
    <2> QED
        BY <1>2, <1>4, <2>1, TypeSplitNext DEF AddServer, TypeOK
<1>5. ASSUME NEW t \in Tools, Expire(t) PROVE TypeOK'
    <2> schemas[t] \in [from : MaybeConfig, old : BOOLEAN]
        BY DEF TypeOK
    <2>1. [schemas[t] EXCEPT !.old = TRUE] \in [from : MaybeConfig, old : BOOLEAN]
        BY Aged
    <2>2. schemas' = [schemas EXCEPT ![t] = [schemas[t] EXCEPT !.old = TRUE]]
        BY <1>5 DEF Expire
    <2>3. schemas' \in [Tools -> [from : MaybeConfig, old : BOOLEAN]]
        BY <2>1, <2>2 DEF TypeOK
    <2> QED
        BY <1>2, <1>5, <2>3, TypeSplitNext DEF Expire, TypeOK, ghosts
<1> QED
    BY <1>3, <1>4, <1>5

LEMMA TypeExecute ==
    ASSUME TypeOK, NEW e \in Scripts, Execute(e) PROVE TypeOK'
<1> USE MaxToolCallsIsNat, NoneIsNothing
<1>0. ScriptOK(script[e]) /\ row \in MaybeConfig
    BY TypeSplit
<1>1. ASSUME NEW r, ScriptOK(r), Step(e, r), UNCHANGED <<storeVars, hook, unannounced, late, inferred, fault>>,
             answered' \subseteq Tools
      PROVE  TypeOK'
    <2>1. script' \in [Scripts -> ScriptType] /\ \A x \in Scripts : ScriptOK(script'[x])
        BY <1>1, ScriptStep
    <2>2. hook' \in [Hooks -> HookType] /\ \A h \in Hooks : HookOK(hook'[h])
        BY <1>1, TypeSplit
    <2> QED
        BY <1>1, <2>1, <2>2, TypeSplitNext DEF TypeOK, storeVars
<1>2. CASE ScriptStarts(e)
    <2> DEFINE offer == IF row = None THEN {} ELSE Tools
    <2>0. offer \in SUBSET Tools
        OBVIOUS
    <2> HIDE DEF offer
    <2> DEFINE s == [NoScript EXCEPT !.pc = "running", !.offered = offer]
    <2>4. s \in ScriptType
        BY <2>0 DEF ScriptType, NoScript, MaybeTool, MaybeConfig
    <2>5. s.pc = "running" /\ s.calls = 0 /\ s.called = {}
        BY DEF NoScript
    <2>1. ScriptOK(s)
        BY <2>4, <2>5 DEF ScriptOK
    <2> QED
        BY <1>1, <1>2, <2>1 DEF ScriptStarts, ghosts, TypeOK, offer
<1>3. ASSUME NEW t \in Tools, CallStarts(e, t) PROVE TypeOK'
    <2> DEFINE count == Counted(script[e].calls)
    <2>0. count \in Nat /\ (MaxToolCalls > 0 => count <= MaxToolCalls)
        BY <1>0, <1>3 DEF CallStarts, ScriptOK, ScriptType, Counted
    <2> HIDE DEF count
    <2>1. ScriptOK([script[e] EXCEPT !.pc = "calling", !.tool = t, !.from = row, !.calls = count])
        BY <1>0, <1>3, <2>0 DEF CallStarts, ScriptOK, ScriptType, MaybeTool, MaybeConfig
    <2> QED
        BY <1>1, <1>3, <2>1 DEF CallStarts, ghosts, TypeOK, count
<1>4. ASSUME NEW t \in Tools, CallRefused(e, t) PROVE TypeOK'
    <2>1. ScriptOK([script[e] EXCEPT !.calls = @ + 1])
        BY <1>0, <1>4 DEF CallRefused, ScriptOK, ScriptType
    <2> QED
        BY <1>1, <1>4, <2>1 DEF CallRefused, ghosts, TypeOK
<1>5. CASE CallUncaptured(e)
    <2>1. ScriptOK([script[e] EXCEPT !.pc = "running", !.tool = None, !.from = None])
        BY <1>0 DEF ScriptOK, ScriptType, MaybeTool, MaybeConfig
    <2> QED
        BY <1>1, <1>5, <2>1 DEF CallUncaptured, ghosts, TypeOK
<1>6. CASE CallReturns(e)
    <2>1. PICK h \in Hooks :
             hook' = [hook EXCEPT ![h] = [pc |-> "check", tool |-> script[e].tool, from |-> script[e].from]]
        BY <1>6 DEF CallReturns
    <2>2. HookOK([pc |-> "check", tool |-> script[e].tool, from |-> script[e].from])
        BY <1>0, <1>6 DEF CallReturns, ScriptOK, ScriptType, HookOK, HookType
    <2>3. ScriptOK([script[e] EXCEPT !.pc = "running", !.tool = None, !.from = None,
                                     !.called = @ \cup {script[e].tool}])
        BY <1>0, <1>6 DEF CallReturns, ScriptOK, ScriptType, MaybeTool, MaybeConfig
    <2> QED
        BY <1>6, <2>1, <2>2, <2>3, ScriptStep, HookStep, TypeSplitNext
           DEF CallReturns, storeVars, ghosts, TypeOK
<1>7. CASE ScriptEnds(e)
    <2>1. ScriptOK(NoScript)
        BY DEF ScriptOK, ScriptType, NoScript, MaybeTool, MaybeConfig
    <2>2. answered' \subseteq Tools
        BY <1>0, <1>7 DEF ScriptEnds, ScriptOK, ScriptType, TypeOK
    <2> QED
        BY <1>1, <1>7, <2>1, <2>2 DEF ScriptEnds
<1> QED
    BY <1>2, <1>3, <1>4, <1>5, <1>6, <1>7 DEF Execute

LEMMA TypeHook ==
    ASSUME TypeOK, NEW h \in Hooks, OnToolResult(h) PROVE TypeOK'
<1>0. HookOK(hook[h]) /\ script' = script
    BY TypeSplit DEF OnToolResult, Fresh, Stale, NothingToInfer, Save, SaveFails, Notify
<1>1. script' \in [Scripts -> ScriptType] /\ \A x \in Scripts : ScriptOK(script'[x])
    BY <1>0, TypeSplit
<1>2. HookOK(NoHook) /\ \A l \in {"check", "save", "notify"} : hook[h].pc # "idle" => HookOK([hook[h] EXCEPT !.pc = l])
    BY <1>0 DEF HookOK, HookType, NoHook, MaybeTool, MaybeConfig
<1>3. hook[h].pc # "idle" => hook[h].tool \in Tools /\ hook[h].from \in Configs
    BY <1>0 DEF HookOK, HookType, MaybeTool, MaybeConfig
<1>4. \A l : HookAt(h, l) => hook' = [hook EXCEPT ![h] = [hook[h] EXCEPT !.pc = l]]
    BY DEF HookAt
<1>5. hook' \in [Hooks -> HookType] /\ \A x \in Hooks : HookOK(hook'[x])
    BY <1>2, <1>4, HookStep
       DEF OnToolResult, Fresh, Stale, NothingToInfer, Save, SaveFails, Notify, HookEnds
<1>6. schemas' \in [Tools -> [from : MaybeConfig, old : BOOLEAN]] /\ row' \in MaybeConfig
    <2>1. CASE Save(h)
        <3>1. [from |-> hook[h].from, old |-> FALSE] \in [from : MaybeConfig, old : BOOLEAN]
            BY <1>3, <2>1 DEF Save, MaybeConfig
        <3> QED
            BY <2>1, <3>1 DEF Save, Put, TypeOK
    <2> QED
        BY <2>1 DEF OnToolResult, Fresh, Stale, NothingToInfer, SaveFails, Notify, storeVars, TypeOK
<1>7. /\ unannounced' \subseteq Tools /\ inferred' \subseteq Tools
      /\ answered' \subseteq Tools /\ fault' \subseteq Tools
    BY <1>3 DEF OnToolResult, Fresh, Stale, NothingToInfer, Save, SaveFails, Notify, ghosts, TypeOK
<1>8. late' \in BOOLEAN
    BY DEF OnToolResult, Fresh, Stale, NothingToInfer, Save, SaveFails, Notify, ghosts, TypeOK
<1> QED
    BY <1>1, <1>5, <1>6, <1>7, <1>8, TypeSplitNext

LEMMA TypeStep == TypeOK /\ [Next]_vars => TypeOK'
<1> SUFFICES ASSUME TypeOK, [Next]_vars PROVE TypeOK'
    OBVIOUS
<1>1. CASE UNCHANGED vars
    BY <1>1 DEF TypeOK, vars
<1> QED
    BY <1>1, TypeServer, TypeExecute, TypeHook DEF Next

LEMMA TypeInit == Init => TypeOK
<1> SUFFICES ASSUME Init PROVE TypeOK
    OBVIOUS
<1>1. NoSchema \in [from : MaybeConfig, old : BOOLEAN]
    BY DEF NoSchema, MaybeConfig
<1>2. ScriptOK(NoScript) /\ HookOK(NoHook)
    BY MaxToolCallsIsNat DEF ScriptOK, ScriptType, NoScript, HookOK, HookType, NoHook, MaybeTool, MaybeConfig
<1> QED
    BY <1>1, <1>2, TypeSplit DEF Init, MaybeConfig, ScriptOK, HookOK

\* What the variables hold; in it, that the bridge lets exactly MaxToolCalls
\* calls through, and only to tools listed when the script started.
THEOREM SchemaTypeCorrect == Spec => []TypeOK
BY TypeInit, TypeStep, PTL DEF Spec

-----------------------------------------------------------------------------
(* The schemas.                                                            *)

\* A result that is under way and is not the present server's: the server was
\* added while it was.
Latecomers ==
    row # None =>
       /\ \A e \in Scripts : script[e].pc = "calling" /\ script[e].from # row => late
       /\ \A h \in Hooks : hook[h].pc # "idle" /\ hook[h].from # row => late

SchemaInv == TypeOK /\ SchemasHaveServer /\ Announced /\ ForeignOnlyWhenLate /\ Latecomers

LEMMA SchemaStep == SchemaInv /\ [Next]_vars => SchemaInv'
<1> SUFFICES ASSUME SchemaInv, [Next]_vars
             PROVE  SchemasHaveServer' /\ Announced' /\ ForeignOnlyWhenLate' /\ Latecomers'
    BY TypeStep DEF SchemaInv
<1> USE DEF SchemaInv
<1>1. CASE RemoveServer
    <2>1. row' = None /\ hook' = hook /\ unannounced' = unannounced /\ \A t \in Tools : schemas'[t].from = None
        BY <1>1 DEF RemoveServer, Gone, NoSchema
    <2> QED
        BY <2>1 DEF SchemasHaveServer, Shown, Announced, ForeignOnlyWhenLate, Latecomers
<1>2. ASSUME NEW c \in Configs, AddServer(c)
      PROVE  SchemasHaveServer' /\ Announced' /\ ForeignOnlyWhenLate' /\ Latecomers'
    <2>1. /\ row = None /\ row' = c /\ c # None
          /\ schemas' = schemas /\ script' = script /\ hook' = hook /\ unannounced' = unannounced
          /\ late' <=> \E d \in Configs \ {c} : UnderWay(d)
        BY <1>2, NoneIsNothing DEF AddServer
    <2>2. \A t \in Tools : schemas[t].from = None
        BY <2>1 DEF SchemasHaveServer, Shown
    <2>3. Latecomers'
        <3>1. ASSUME NEW e \in Scripts, script[e].pc = "calling", script[e].from # c PROVE late'
            BY <2>1, <3>1 DEF UnderWay, TypeOK, MaybeConfig
        <3>2. ASSUME NEW h \in Hooks, hook[h].pc # "idle", hook[h].from # c PROVE late'
            BY <2>1, <3>2 DEF UnderWay, TypeOK, MaybeConfig
        <3> QED
            BY <2>1, <3>1, <3>2 DEF Latecomers
    <2> QED
        BY <2>1, <2>2, <2>3 DEF SchemasHaveServer, Shown, Announced, ForeignOnlyWhenLate
<1>3. ASSUME NEW t \in Tools, Expire(t)
      PROVE  SchemasHaveServer' /\ Announced' /\ ForeignOnlyWhenLate' /\ Latecomers'
    <2>1. \A u \in Tools : schemas'[u].from = schemas[u].from
        BY <1>3 DEF Expire, TypeOK
    <2> QED
        BY <1>3, <2>1 DEF Expire, ghosts, SchemasHaveServer, Shown, Announced, ForeignOnlyWhenLate, Latecomers
<1>4. ASSUME NEW e \in Scripts, Execute(e)
      PROVE  SchemasHaveServer' /\ Announced' /\ ForeignOnlyWhenLate' /\ Latecomers'
    <2>1. UNCHANGED <<row, schemas, unannounced, late>>
        BY <1>4 DEF Execute, ScriptStarts, ScriptEnds, CallUncaptured, CallReturns, CallStarts,
                    CallRefused, storeVars, ghosts
    <2>2. SchemasHaveServer' /\ ForeignOnlyWhenLate'
        BY <2>1 DEF SchemasHaveServer, Shown, ForeignOnlyWhenLate
    <2>6. \A h \in Hooks :
             \/ hook'[h] = hook[h]
             \/ hook[h] = NoHook /\ script[e].pc = "calling" /\ hook'[h].from = script[e].from
        <3>1. CASE CallReturns(e)
            <4>1. PICK k \in Hooks :
                     /\ hook[k] = NoHook
                     /\ hook' = [hook EXCEPT ![k] = [pc |-> "check", tool |-> script[e].tool,
                                                    from |-> script[e].from]]
                BY <3>1 DEF CallReturns
            <4>2. \A h \in Hooks : h # k => hook'[h] = hook[h]
                BY <4>1 DEF TypeOK
            <4>3. hook'[k].from = script[e].from
                BY <4>1 DEF TypeOK
            <4> QED
                BY <3>1, <4>1, <4>2, <4>3 DEF CallReturns
        <3> QED
            BY <1>4, <3>1 DEF Execute, ScriptStarts, ScriptEnds, CallUncaptured, CallStarts, CallRefused
    <2>7. ASSUME NEW r, Step(e, r), r.pc = "calling" =>
                    \/ r.from = row
                    \/ script[e].pc = "calling" /\ r.from = script[e].from
          PROVE  \A x \in Scripts : script'[x].pc = "calling" =>
                    \/ script'[x].from = row
                    \/ script[x].pc = "calling" /\ script'[x].from = script[x].from
        BY <2>7 DEF Step, TypeOK
    <2>8. \A x \in Scripts : script'[x].pc = "calling" =>
             \/ script'[x].from = row
             \/ script[x].pc = "calling" /\ script'[x].from = script[x].from
        <3>1. CASE ScriptStarts(e) \/ ScriptEnds(e)
            BY <2>7, <3>1 DEF ScriptStarts, ScriptEnds, NoScript
        <3>2. CASE CallUncaptured(e) \/ CallReturns(e)
            <4>1. PICK s : Step(e, s) /\ s.pc = "running"
                <5>1. \A T : [script[e] EXCEPT !.pc = "running", !.tool = None, !.from = None].pc = "running"
                            /\ [script[e] EXCEPT !.pc = "running", !.tool = None, !.from = None,
                                                  !.called = T].pc = "running"
                    BY DEF TypeOK
                <5> QED
                    BY <3>2, <5>1 DEF CallUncaptured, CallReturns
            <4> QED
                BY <2>7, <4>1
        <3>3. ASSUME NEW t \in Tools, CallStarts(e, t) \/ CallRefused(e, t)
              PROVE  \A x \in Scripts : script'[x].pc = "calling" =>
                        \/ script'[x].from = row
                        \/ script[x].pc = "calling" /\ script'[x].from = script[x].from
            <4> DEFINE s == [script[e] EXCEPT !.pc = "calling", !.tool = t, !.from = row,
                                               !.calls = Counted(@)]
                       u == [script[e] EXCEPT !.calls = @ + 1]
            <4>1. Step(e, s) \/ Step(e, u)
                BY <3>3 DEF CallStarts, CallRefused
            <4>2. s.from = row /\ u.pc = script[e].pc /\ u.from = script[e].from
                BY DEF TypeOK
            <4> HIDE DEF s, u
            <4> QED
                BY <2>7, <4>1, <4>2
        <3> QED
            BY <1>4, <3>1, <3>2, <3>3 DEF Execute
    <2>4. Announced'
        BY <2>1, <2>6 DEF Announced, NoHook
    <2>5. Latecomers'
        BY <2>1, <2>6, <2>8 DEF Latecomers
    <2> QED
        BY <2>2, <2>4, <2>5
<1>5. ASSUME NEW h \in Hooks, OnToolResult(h)
      PROVE  SchemasHaveServer' /\ Announced' /\ ForeignOnlyWhenLate' /\ Latecomers'
    <2>1. UNCHANGED <<row, script, late>>
        BY <1>5 DEF OnToolResult, Fresh, Stale, NothingToInfer, Save, SaveFails, Notify, storeVars, ghosts
    <2>2. \A x \in Hooks : \/ x # h /\ hook'[x] = hook[x]
                           \/ x = h /\ hook'[x] = NoHook
                           \/ x = h /\ hook[x].pc # "idle" /\ hook'[x].from = hook[x].from
        BY <1>5 DEF OnToolResult, Fresh, Stale, NothingToInfer, Save, SaveFails, Notify,
                    HookAt, HookEnds, TypeOK
    <2>3. Latecomers'
        BY <2>1, <2>2 DEF Latecomers, NoHook
    <2>4. CASE Save(h)
        <3>1. /\ hook[h].pc = "save" /\ row # None /\ hook'[h].pc = "notify"
              /\ schemas'[hook[h].tool].from = hook[h].from
              /\ \A t \in Tools \ {hook[h].tool} : schemas'[t] = schemas[t]
            BY <2>4 DEF Save, Put, HookAt, TypeOK, MaybeTool
        <3> QED
            BY <2>1, <2>3, <3>1 DEF SchemasHaveServer, Shown, Announced, ForeignOnlyWhenLate, Latecomers
    <2>5. CASE Notify(h)
        BY <2>1, <2>3, <2>5 DEF Notify, storeVars, SchemasHaveServer, Shown, Announced, ForeignOnlyWhenLate
    <2>6. CASE Fresh(h) \/ Stale(h) \/ NothingToInfer(h) \/ SaveFails(h)
        <3>1. UNCHANGED <<schemas, unannounced>> /\ hook[h].pc # "notify"
            BY <2>6 DEF Fresh, Stale, NothingToInfer, SaveFails, storeVars, ghosts
        <3> QED
            BY <2>1, <2>2, <2>3, <3>1 DEF SchemasHaveServer, Shown, Announced, ForeignOnlyWhenLate
    <2> QED
        BY <1>5, <2>4, <2>5, <2>6 DEF OnToolResult
<1>6. CASE UNCHANGED vars
    BY <1>6 DEF vars, SchemasHaveServer, Shown, Announced, ForeignOnlyWhenLate, Latecomers
<1> QED
    BY <1>1, <1>2, <1>3, <1>4, <1>5, <1>6 DEF Next

LEMMA SchemaInvHolds == Spec => []SchemaInv
<1>1. Init => SchemaInv
    BY TypeInit DEF Init, SchemaInv, SchemasHaveServer, Shown, Announced, ForeignOnlyWhenLate,
                    Latecomers, NoSchema
<1> QED
    BY <1>1, SchemaStep, PTL DEF Spec

\* A capture that outlives its server leaves no schema behind.
THEOREM SchemasHaveServerHolds == Spec => []SchemasHaveServer
BY SchemaInvHolds, PTL DEF SchemaInv

\* Over stdio the client is told of every schema: one it has not been told of
\* has a capture on its way to tell it.
THEOREM AnnouncedHolds == Spec => []Announced
BY SchemaInvHolds, PTL DEF SchemaInv

\* A schema is another server's only if that one's result was under way when
\* the present server was added.
THEOREM ForeignOnlyWhenLateHolds == Spec => []ForeignOnlyWhenLate
BY SchemaInvHolds, PTL DEF SchemaInv

-----------------------------------------------------------------------------
(* A capture comes to an end, and a good one: the safety half of Captured. *)

HookNo == [check |-> 1, save |-> 2, notify |-> 3, idle |-> 4]

\* A capture only advances, so it takes at most three steps; and when it
\* ends its tool has a schema, or the capture failed, or the server has been
\* removed since: whichever other captures, executions and removals ran
\* between its steps.
CapturesSettle ==
    [][\A h \in Hooks, t \in Tools :
         hook[h].pc # "idle" /\ hook[h].tool = t /\ hook'[h] # hook[h]
            => /\ HookNo[hook'[h].pc] > HookNo[hook[h].pc]
               /\ hook'[h].pc = "idle" => Shown(t)' \/ t \in fault' \/ row' = None]_vars

\* Between saving a schema and announcing it a capture has left the schema
\* or, when the server was removed, the mark of that.
Saved ==
    \A h \in Hooks :
       hook[h].pc = "notify" => Shown(hook[h].tool) \/ hook[h].tool \in fault

\* A capture is moved by its own steps and by the call that starts it.
LEMMA HookMoves ==
    ASSUME TypeOK, Next, NEW h \in Hooks, hook'[h] # hook[h]
    PROVE  OnToolResult(h) \/ (hook[h] = NoHook /\ hook'[h].pc = "check")
<1>1. UNCHANGED hook => FALSE
    OBVIOUS
<1>2. ASSUME NEW e \in Scripts, CallReturns(e) PROVE hook[h] = NoHook /\ hook'[h].pc = "check"
    BY <1>2 DEF CallReturns, TypeOK
<1>3. ASSUME NEW e \in Scripts, Execute(e) PROVE CallReturns(e)
    BY <1>1, <1>3 DEF Execute, ScriptStarts, ScriptEnds, CallUncaptured, CallStarts, CallRefused
<1>4. ASSUME NEW k \in Hooks, OnToolResult(k) PROVE k = h
    <2>1. PICK v : hook' = [hook EXCEPT ![k] = v]
        BY <1>4 DEF OnToolResult, Fresh, Stale, NothingToInfer, Save, SaveFails, Notify, HookAt, HookEnds
    <2> QED
        BY <2>1 DEF TypeOK
<1> QED
    BY <1>1, <1>2, <1>3, <1>4 DEF Next, RemoveServer, Gone, AddServer, Expire

LEMMA HookPc ==
    ASSUME TypeOK, NEW h \in Hooks
    PROVE  /\ HookEnds(h) => hook'[h].pc = "idle"
           /\ \A l : HookAt(h, l) => hook'[h].pc = l /\ hook'[h].tool = hook[h].tool
           /\ hook[h].pc # "idle" => hook[h].tool \in Tools
BY DEF HookEnds, HookAt, NoHook, TypeOK, MaybeTool

LEMMA SavedStep == TypeOK /\ Saved /\ [Next]_vars => Saved'
<1> SUFFICES ASSUME TypeOK, Saved, [Next]_vars PROVE Saved'
    OBVIOUS
<1>1. CASE RemoveServer
    BY <1>1 DEF RemoveServer, Gone, Saved
<1>2. ASSUME NEW c \in Configs, AddServer(c) PROVE Saved'
    BY <1>2 DEF AddServer, Saved, Shown
<1>3. ASSUME NEW t \in Tools, Expire(t) PROVE Saved'
    BY <1>3, Aged DEF Expire, Saved, Shown, ghosts, TypeOK
<1>4. ASSUME NEW e \in Scripts, Execute(e) PROVE Saved'
    <2>1. UNCHANGED <<schemas, fault>>
        BY <1>4 DEF Execute, ScriptStarts, ScriptEnds, CallUncaptured, CallReturns, CallStarts,
                    CallRefused, storeVars, ghosts
    <2>2. ASSUME NEW h \in Hooks, hook'[h].pc = "notify" PROVE hook'[h] = hook[h]
        <3>1. CASE CallReturns(e)
            BY <2>2, <3>1 DEF CallReturns, TypeOK
        <3>2. CASE ~CallReturns(e)
            BY <1>4, <3>2 DEF Execute, ScriptStarts, ScriptEnds, CallUncaptured, CallStarts, CallRefused
        <3> QED
            BY <3>1, <3>2
    <2> QED
        BY <2>1, <2>2 DEF Saved, Shown
<1>5. ASSUME NEW h \in Hooks, OnToolResult(h) PROVE Saved'
    <2>1. \A k \in Hooks \ {h} : hook'[k] = hook[k]
        BY <1>5 DEF OnToolResult, Fresh, Stale, NothingToInfer, Save, SaveFails, Notify, HookAt,
                    HookEnds, TypeOK
    <2>2. \A t \in Tools : Shown(t) => Shown(t)'
        BY <1>5 DEF OnToolResult, Fresh, Stale, NothingToInfer, Save, SaveFails, Notify, Put, Shown,
                    storeVars, TypeOK
    <2>3. fault \subseteq fault'
        BY <1>5 DEF OnToolResult, Fresh, Stale, NothingToInfer, Save, SaveFails, Notify, ghosts
    <2>4. CASE Save(h)
        <3>1. hook[h].tool \in Tools /\ hook[h].from # None
            BY <2>4, HookPc DEF Save, TypeOK
        <3>2. hook'[h].tool = hook[h].tool
            BY <2>4, HookPc DEF Save
        <3>3. Shown(hook[h].tool)'
            BY <2>4, <3>1, <3>2 DEF Save, Put, Shown, TypeOK
        <3> QED
            BY <2>1, <2>2, <2>3, <3>2, <3>3, HookPc DEF Saved
    <2>5. CASE ~Save(h)
        <3>1. hook'[h].pc # "notify"
            BY <1>5, <2>5, HookPc DEF OnToolResult, Fresh, Stale, NothingToInfer, SaveFails, Notify
        <3> QED
            BY <2>1, <2>2, <2>3, <3>1, HookPc DEF Saved
    <2> QED
        BY <2>4, <2>5
<1>6. CASE UNCHANGED vars
    BY <1>6 DEF vars, Saved, Shown
<1> QED
    BY <1>1, <1>2, <1>3, <1>4, <1>5, <1>6 DEF Next

\* With --schema-ttl above zero; at zero nothing is stale and a capture ends
\* with nothing, which is what Ages rules out.
THEOREM CapturesSettleHolds ==
    ASSUME Ages PROVE Spec => CapturesSettle
<1> DEFINE Settle ==
    \A h \in Hooks, t \in Tools :
       hook[h].pc # "idle" /\ hook[h].tool = t /\ hook'[h] # hook[h]
          => /\ HookNo[hook'[h].pc] > HookNo[hook[h].pc]
             /\ hook'[h].pc = "idle" => Shown(t)' \/ t \in fault' \/ row' = None
<1>1. Init => Saved
    BY DEF Init, Saved, NoHook
<1>2. TypeOK /\ Saved /\ [Next]_vars => [Settle]_vars
    <2> SUFFICES ASSUME TypeOK, Saved, Next, NEW h \in Hooks, NEW t \in Tools,
                        hook[h].pc # "idle", hook[h].tool = t, hook'[h] # hook[h]
                 PROVE  /\ HookNo[hook'[h].pc] > HookNo[hook[h].pc]
                        /\ hook'[h].pc = "idle" => Shown(t)' \/ t \in fault' \/ row' = None
        OBVIOUS
    <2>1. OnToolResult(h)
        BY HookMoves DEF NoHook
    <2>2. CASE Fresh(h)
        <3>1. Shown(t)'
            BY <2>2 DEF Fresh, IsOutputSchemaStale, Shown, storeVars
        <3> QED
            BY <2>2, <3>1, HookPc DEF Fresh, HookNo
    <2>3. CASE Stale(h) \/ Save(h)
        BY <2>3, HookPc DEF Stale, Save, HookNo
    <2>4. CASE NothingToInfer(h) \/ SaveFails(h)
        BY <2>4, HookPc DEF NothingToInfer, SaveFails, HookNo
    <2>5. CASE Notify(h)
        <3>1. Shown(t)' \/ t \in fault'
            BY <2>5 DEF Notify, Saved, Shown, storeVars
        <3> QED
            BY <2>5, <3>1, HookPc DEF Notify, HookNo
    <2> QED
        BY <2>1, <2>2, <2>3, <2>4, <2>5 DEF OnToolResult
<1> QED
    BY <1>1, <1>2, SavedStep, SchemaTypeCorrect, PTL DEF Spec, CapturesSettle

=============================================================================
