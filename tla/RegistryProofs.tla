--------------------------- MODULE RegistryProofs ---------------------------
(***************************************************************************)
(* Theorems about Registry, for any set of names, configurations,          *)
(* transports, handlers and other processes.                               *)
(***************************************************************************)
EXTENDS Registry, TLAPS

Locals == [pc : Labels, name : Names \cup {None},
           cfg : MaybeConfig, conn : Transports \cup {None}]

LEMMA AtType ==
    ASSUME NEW l \in Labels, NEW n \in Names \cup {None}, NEW c \in MaybeConfig,
           NEW t \in Transports \cup {None}
    PROVE  At(l, n, c, t) \in Locals
BY DEF At, Locals

LEMMA IdleType == Idle \in Locals
BY DEF Idle, At, Locals, Labels, MaybeConfig

LEMMA GotoType ==
    ASSUME TypeOK, NEW p \in Threads, NEW l \in Labels, Goto(p, l)
    PROVE  local' \in [Threads -> Locals]
BY DEF Goto, TypeOK, Locals

LEMMA BecomeType ==
    ASSUME TypeOK, NEW p \in Threads, NEW r \in Locals, Become(p, r)
    PROVE  local' \in [Threads -> Locals]
BY DEF Become, TypeOK, Locals

LEMMA LocalType ==
    ASSUME TypeOK, NEW p \in Threads
    PROVE  /\ local[p].name \in Names \cup {None} /\ local[p].cfg \in MaybeConfig
           /\ local[p].conn \in Transports \cup {None} /\ local[p].pc \in Labels
BY DEF TypeOK

LEMMA LabelsType == AddLabels \cup RemoveLabels \cup TickLabels \cup {"idle", "call", "peer_cache"} = Labels
BY DEF Labels

LEMMA ThreadsType == Handlers \cup Watchers \cup Peers = Threads
BY DEF Threads, Procs

\* The shape of the state is kept by Init and by every step.
LEMMA TypeInit == Init => TypeOK
<1> SUFFICES ASSUME Init PROVE TypeOK
    OBVIOUS
<1> QED
    BY IdleType DEF Init, TypeOK, StoreInit, NoEntries, MaybeConfig, Locals

LEMMA TypeLoad ==
    ASSUME TypeOK, LoadStep PROVE TypeOK'
<1>1. CASE LoadList
    BY <1>1 DEF LoadList, TypeOK, NoEntries, MaybeConfig, indexVars, tickVars
<1>2. ASSUME NEW n \in Names, LoadStub(n) PROVE TypeOK'
    BY <1>2 DEF LoadStub, Install, TypeOK, MaybeConfig, tickVars
<1>3. ASSUME NEW n \in Names, NEW t \in Transports, LoadConnect(n, t) PROVE TypeOK'
    BY <1>3 DEF LoadConnect, Install, UpsertTools, StoreError, storeVars, TypeOK, MaybeConfig, tickVars
<1>4. CASE LoadDone
    BY <1>4 DEF LoadDone, TypeOK, indexVars, tickVars
<1> QED
    BY <1>1, <1>2, <1>3, <1>4 DEF LoadStep

LEMMA TypeAdd ==
    ASSUME TypeOK, NEW h \in Handlers, Add(h) PROVE TypeOK'
<1> h \in Threads
    BY ThreadsType
<1>1. ASSUME NEW n \in Names, NEW c \in Configs, AddStart(h, n, c) PROVE TypeOK'
    <2>1. PICK t \in Transports : open' = open \cup {t} /\ Become(h, At("add_list", n, c, t))
        BY <1>1 DEF AddStart
    <2>2. At("add_list", n, c, t) \in Locals
        BY AtType DEF Labels, AddLabels, MaybeConfig
    <2>3. local' \in [Threads -> Locals]
        BY <2>1, <2>2, BecomeType
    <2> QED
        BY <1>1, <2>1, <2>3 DEF AddStart, TypeOK, Locals, indexVars, tickVars, loadVars
<1>2. CASE AddListed(h)
    <2>1. local' \in [Threads -> Locals]
        BY <1>2, IdleType, GotoType, BecomeType DEF AddListed, Abandon, Labels, AddLabels
    <2> QED
        BY <1>2, <2>1 DEF AddListed, Abandon, TypeOK, Locals, indexVars, tickVars, loadVars
<1>3. CASE AddRow(h)
    <2>1. local' \in [Threads -> Locals]
        BY <1>3, IdleType, GotoType, BecomeType DEF AddRow, Abandon, Labels, AddLabels
    <2> QED
        BY <1>3, <2>1 DEF AddRow, Abandon, InsertServer, StoreError, storeVars, TypeOK, Locals,
                          indexVars, tickVars, loadVars
<1>4. CASE AddCache(h)
    <2>1. local' \in [Threads -> Locals]
        BY <1>4, GotoType DEF AddCache, Labels, AddLabels
    <2> QED
        BY <1>4, <2>1 DEF AddCache, UpsertTools, StoreError, storeVars, TypeOK, Locals,
                          indexVars, tickVars, loadVars
<1>5. CASE AddInstall(h)
    <2>1. local' \in [Threads -> Locals]
        BY <1>5, IdleType, BecomeType DEF AddInstall
    <2> QED
        BY <1>5, <2>1, LocalType DEF AddInstall, Install, TypeOK, Locals, tickVars, loadVars
<1> QED
    BY <1>1, <1>2, <1>3, <1>4, <1>5 DEF Add

LEMMA TypeRemove ==
    ASSUME TypeOK, NEW h \in Handlers, Remove(h) PROVE TypeOK'
<1> h \in Threads
    BY ThreadsType
<1>1. ASSUME NEW n \in Names, RemoveEntry(h, n) PROVE TypeOK'
    <2>1. /\ At("rm_close", n, endpoint[n], transport[n]) \in Locals
          /\ At("rm_row", n, endpoint[n], None) \in Locals
        BY AtType DEF TypeOK, Labels, RemoveLabels
    <2>2. local' \in [Threads -> Locals]
        BY <1>1, <2>1, BecomeType DEF RemoveEntry
    <2> QED
        BY <1>1, <2>2 DEF RemoveEntry, Uninstall, Install, TypeOK, Locals, MaybeConfig, tickVars, loadVars
<1>2. CASE RemoveClose(h)
    <2>1. At("rm_row", local[h].name, local[h].cfg, None) \in Locals
        BY AtType, LocalType DEF Labels, RemoveLabels
    <2>2. local' \in [Threads -> Locals]
        BY <1>2, <2>1, BecomeType DEF RemoveClose
    <2> QED
        BY <1>2, <2>2 DEF RemoveClose, TypeOK, Locals, indexVars, tickVars, loadVars
<1>3. CASE RemoveRow(h) \/ RemoveRowFails(h)
    <2>1. local' \in [Threads -> Locals]
        BY <1>3, IdleType, BecomeType DEF RemoveRow, RemoveRowFails
    <2> QED
        BY <1>3, <2>1 DEF RemoveRow, RemoveRowFails, DeleteServer, StoreError, storeVars, MaybeConfig,
                          TypeOK, Locals, indexVars, tickVars, loadVars
<1> QED
    BY <1>1, <1>2, <1>3 DEF Remove

LEMMA TypeCallTool ==
    ASSUME TypeOK, NEW h \in Handlers, CallTool(h) PROVE TypeOK'
<1> h \in Threads
    BY ThreadsType
<1>1. \A n \in Names : At("call", n, endpoint[n], transport[n]) \in Locals
    BY AtType DEF TypeOK, Labels
<1>2. local' \in [Threads -> Locals]
    BY <1>1, IdleType, BecomeType DEF CallTool, CallStart, CallEnd
<1> QED
    BY <1>2 DEF CallTool, CallStart, CallEnd, TypeOK, Locals, indexVars, tickVars, loadVars

LEMMA TypeTick ==
    ASSUME TypeOK, NEW w \in Watchers, tickOnce(w) PROVE TypeOK'
<1> w \in Threads
    BY ThreadsType
<1>0. /\ At("diff", None, None, None) \in Locals
      /\ TickWork \in Locals
      /\ {"diff", "work", "w_list", "w_cache", "w_install", "w_close"} \subseteq Labels
    BY AtType DEF TickWork, Labels, TickLabels, MaybeConfig
<1>1. CASE TickList(w) \/ TickDiff(w) \/ TickEnd(w)
    <2>1. local' \in [Threads -> Locals]
        BY <1>0, <1>1, IdleType, GotoType, BecomeType DEF TickList, TickDiff, TickEnd
    <2> QED
        BY <1>1, <2>1 DEF TickList, TickDiff, TickEnd, Rows, Registered, TypeOK, Locals,
                          indexVars, tickVars, loadVars
<1>2. ASSUME NEW n \in Names, TickConnect(w, n) PROVE TypeOK'
    <2>1. PICK t \in Transports : open' = open \cup {t} /\ Become(w, At("w_list", n, db[n], t))
        BY <1>2 DEF TickConnect
    <2>2. At("w_list", n, db[n], t) \in Locals
        BY <1>0, AtType DEF TypeOK
    <2>3. local' \in [Threads -> Locals]
        BY <2>1, <2>2, BecomeType
    <2> QED
        BY <1>2, <2>1, <2>3 DEF TickConnect, TypeOK, Locals, indexVars, loadVars
<1>3. ASSUME NEW n \in Names, TickSkip(w, n) PROVE TypeOK'
    BY <1>3 DEF TickSkip, TypeOK, indexVars, loadVars
<1>4. CASE TickListed(w) \/ TickListFails(w)
    <2>1. local' \in [Threads -> Locals]
        BY <1>0, <1>4, GotoType, BecomeType DEF TickListed, TickListFails, Abandon
    <2> QED
        BY <1>4, <2>1 DEF TickListed, TickListFails, Abandon, TypeOK, Locals, indexVars, tickVars, loadVars
<1>5. CASE TickCache(w)
    <2>1. local' \in [Threads -> Locals]
        BY <1>0, <1>5, GotoType DEF TickCache
    <2> QED
        BY <1>5, <2>1 DEF TickCache, UpsertTools, StoreError, storeVars, TypeOK, Locals,
                          indexVars, tickVars, loadVars
<1>6. CASE TickInstall(w)
    <2>1. local' \in [Threads -> Locals]
        BY <1>0, <1>6, BecomeType DEF TickInstall
    <2> QED
        BY <1>6, <2>1, LocalType DEF TickInstall, Install, TypeOK, Locals, tickVars, loadVars
<1>7. CASE TickBackOff(w) \/ TickClose(w)
    <2>1. local' \in [Threads -> Locals]
        BY <1>0, <1>7, BecomeType DEF TickBackOff, TickClose, Abandon
    <2> QED
        BY <1>7, <2>1 DEF TickBackOff, TickClose, Abandon, TypeOK, Locals, indexVars, tickVars, loadVars
<1>8. ASSUME NEW n \in Names, TickDrop(w, n) PROVE TypeOK'
    <2>1. At("w_close", n, endpoint[n], transport[n]) \in Locals
        BY <1>0, AtType DEF TypeOK
    <2>2. local' \in [Threads -> Locals]
        BY <1>8, <2>1, BecomeType DEF TickDrop, TypeOK, Locals
    <2> QED
        BY <1>8, <2>2 DEF TickDrop, Uninstall, Install, TypeOK, Locals, MaybeConfig, indexVars, loadVars
<1> QED
    BY <1>1, <1>2, <1>3, <1>4, <1>5, <1>6, <1>7, <1>8 DEF tickOnce, TickOk, TickFails

LEMMA TypePeer ==
    ASSUME TypeOK, NEW p \in Peers, PeerStep(p) PROVE TypeOK'
<1> p \in Threads
    BY ThreadsType
<1>1. ASSUME NEW n \in Names, NEW c \in Configs, PeerAdd(p, n, c) PROVE TypeOK'
    <2>1. At("peer_cache", n, c, None) \in Locals
        BY AtType DEF Labels, MaybeConfig
    <2>2. local' \in [Threads -> Locals]
        BY <1>1, <2>1, BecomeType DEF PeerAdd
    <2> QED
        BY <1>1, <2>2 DEF PeerAdd, InsertServer, TypeOK, Locals, MaybeConfig, indexVars, tickVars, loadVars
<1>2. CASE PeerCache(p)
    <2>1. local' \in [Threads -> Locals]
        BY <1>2, IdleType, BecomeType DEF PeerCache
    <2> QED
        BY <1>2, <2>1 DEF PeerCache, UpsertTools, StoreError, storeVars, TypeOK, Locals,
                          indexVars, tickVars, loadVars
<1>3. ASSUME NEW n \in Names, PeerRemove(p, n) PROVE TypeOK'
    BY <1>3 DEF PeerRemove, DeleteServer, TypeOK, MaybeConfig, indexVars, tickVars, loadVars
<1> QED
    BY <1>1, <1>2, <1>3 DEF PeerStep

LEMMA TypeRestart ==
    ASSUME TypeOK, Restart PROVE TypeOK'
BY IdleType DEF Restart, TypeOK, NoEntries, MaybeConfig, Locals

LEMMA TypeStep ==
    ASSUME TypeOK, [Next]_vars PROVE TypeOK'
<1>1. CASE UNCHANGED vars
    BY <1>1 DEF TypeOK, vars
<1> QED
    BY <1>1, TypeLoad, TypeAdd, TypeRemove, TypeCallTool, TypeTick, TypePeer, TypeRestart DEF Next

\* Every reachable state has the shape TypeOK gives it.
THEOREM TypeCorrect == Spec => []TypeOK
BY TypeInit, TypeStep, PTL DEF Spec

-----------------------------------------------------------------------------
(* Where the threads are.  A restart ends the threads of the process and   *)
(* leaves the other processes where they are.                              *)

Others(p) == \A q \in Threads : q # p => local'[q] = local[q]

LEMMA GotoOthers ==
    ASSUME TypeOK, NEW p \in Threads, NEW l, Goto(p, l)
    PROVE  /\ Others(p) /\ local'[p].pc = l
           /\ local'[p].name = local[p].name /\ local'[p].cfg = local[p].cfg
           /\ local'[p].conn = local[p].conn
BY DEF Goto, Others, TypeOK

LEMMA BecomeOthers ==
    ASSUME TypeOK, NEW p \in Threads, NEW r, Become(p, r)
    PROVE  Others(p) /\ local'[p] = r
BY DEF Become, Others, TypeOK

LEMMA IdlePc == Idle.pc = "idle" /\ TickWork.pc = "work"
BY DEF Idle, TickWork, At

LEMMA AtFields ==
    ASSUME NEW l, NEW n, NEW c, NEW t
    PROVE  /\ At(l, n, c, t).pc = l /\ At(l, n, c, t).name = n
           /\ At(l, n, c, t).cfg = c /\ At(l, n, c, t).conn = t
BY DEF At

\* The entries and the transports agree: what has no entry has no transport.
Indexed == \A n \in Names : transport[n] # None => n \in Registered

LEMMA LabelledStep ==
    ASSUME TypeOK, Labelled, Indexed, [Next]_vars PROVE Labelled'
<1> DEFINE Named(p) == \/ local'[p].pc \in {"idle", "diff", "work"}
                       \/ local'[p].name \in Names /\ local'[p].cfg \in Configs
<1>1. CASE LoadStep \/ UNCHANGED vars
    <2>1. local' = local
        BY <1>1 DEF LoadStep, LoadList, LoadStub, LoadConnect, LoadDone, vars
    <2> QED
        BY <2>1 DEF Labelled
<1>2. ASSUME NEW h \in Handlers, Add(h) \/ Remove(h) \/ CallTool(h) PROVE Labelled'
    <2>1. h \in Threads /\ h \notin Watchers /\ h \notin Peers
        BY ThreadsAreDisjoint DEF Threads, Procs
    <2>2. CASE Add(h)
        <3>1. Others(h) /\ local'[h].pc \in {"idle"} \cup AddLabels /\ Named(h)
            BY <2>1, <2>2, GotoOthers, BecomeOthers, IdlePc, AtFields
               DEF Add, AddStart, AddListed, AddRow, AddCache, AddInstall, Abandon, AddLabels, Labelled
        <3> QED
            BY <2>1, <3>1, ThreadsType DEF Labelled, Others
    <2>3. CASE Remove(h)
        <3>1. Others(h) /\ local'[h].pc \in {"idle"} \cup RemoveLabels /\ Named(h)
            BY <2>1, <2>3, BecomeOthers, IdlePc, AtFields
               DEF Remove, RemoveEntry, RemoveClose, RemoveRow, RemoveRowFails, RemoveLabels,
                   Labelled, Registered, TypeOK, MaybeConfig
        <3> QED
            BY <2>1, <3>1, ThreadsType DEF Labelled, Others
    <2>4. CASE CallTool(h)
        <3>1. Others(h) /\ local'[h].pc \in {"idle", "call"} /\ Named(h)
            BY <2>1, <2>4, BecomeOthers, IdlePc, AtFields
               DEF CallTool, CallStart, CallEnd, Indexed, Registered, TypeOK, MaybeConfig
        <3> QED
            BY <2>1, <3>1, ThreadsType DEF Labelled, Others
    <2> QED
        BY <1>2, <2>2, <2>3, <2>4
<1>3. ASSUME NEW w \in Watchers, tickOnce(w) PROVE Labelled'
    <2>1. w \in Threads /\ w \notin Handlers /\ w \notin Peers
        BY ThreadsAreDisjoint DEF Threads, Procs
    <2>2. Others(w) /\ local'[w].pc \in {"idle"} \cup TickLabels /\ Named(w)
        <3>1. CASE TickOk(w)
            BY <2>1, <3>1, GotoOthers, BecomeOthers, IdlePc, AtFields
               DEF TickOk, TickList, TickDiff, TickConnect, TickListed, TickCache, TickInstall,
                   TickBackOff, TickDrop, TickClose, TickEnd, Abandon, TickLabels, Labelled, Others,
                   Registered, TypeOK, MaybeConfig
        <3>2. CASE TickFails(w)
            BY <2>1, <3>2, BecomeOthers, IdlePc
               DEF TickFails, TickSkip, TickListFails, Abandon, TickLabels, Labelled, Others
        <3> QED
            BY <1>3, <3>1, <3>2 DEF tickOnce
    <2> QED
        BY <2>1, <2>2, ThreadsType DEF Labelled, Others
<1>4. ASSUME NEW p \in Peers, PeerStep(p) PROVE Labelled'
    <2>1. p \in Threads /\ p \notin Handlers /\ p \notin Watchers
        BY ThreadsAreDisjoint DEF Threads, Procs
    <2>2. Others(p) /\ local'[p].pc \in {"idle", "peer_cache"} /\ Named(p)
        BY <1>4, <2>1, BecomeOthers, IdlePc, AtFields
           DEF PeerStep, PeerAdd, PeerCache, PeerRemove, Labelled, Others
    <2> QED
        BY <2>1, <2>2, ThreadsType DEF Labelled, Others
<1>5. CASE Restart
    <2>1. \A p \in Threads : local'[p] = IF p \in Procs THEN Idle ELSE local[p]
        BY <1>5 DEF Restart
    <2> QED
        BY <2>1, ThreadsType, ThreadsAreDisjoint, IdlePc DEF Labelled, Procs
<1> QED
    BY <1>1, <1>2, <1>3, <1>4, <1>5 DEF Next

-----------------------------------------------------------------------------
(* What a step can do to the ownership of transports: nothing, or one of   *)
(* seven transfers.                                                        *)

Owns(p) == local[p].pc \in OwningLabels

Kept ==
    /\ UNCHANGED <<transport, open>>
    /\ \A p \in Threads :
          /\ Owns(p)' <=> Owns(p)
          /\ Owns(p) => local'[p].conn = local[p].conn

Created(p, t) ==
    /\ FreshTransport(t) /\ ~Owns(p)
    /\ Owns(p)' /\ local'[p].conn = t /\ Others(p)
    /\ open' = open \cup {t} /\ UNCHANGED transport

Closed(p) ==
    /\ Owns(p)
    /\ ~Owns(p)' /\ Others(p)
    /\ open' = open \ {local[p].conn} /\ UNCHANGED transport

Installed(p, n) ==
    /\ Owns(p)
    /\ ~Owns(p)' /\ Others(p)
    /\ transport' = [transport EXCEPT ![n] = local[p].conn] /\ UNCHANGED open

Taken(p, n) ==
    /\ ~Owns(p) /\ transport[n] # None
    /\ Owns(p)' /\ local'[p].conn = transport[n] /\ Others(p)
    /\ transport' = [transport EXCEPT ![n] = None] /\ UNCHANGED open

Stubbed(n) ==
    /\ todo[n] # None
    /\ transport' = [transport EXCEPT ![n] = None] /\ UNCHANGED <<open, local>>

Loaded(n, t) ==
    /\ todo[n] # None /\ FreshTransport(t)
    /\ transport' = [transport EXCEPT ![n] = t]
    /\ open' = open \cup {t} /\ UNCHANGED local

Transfer ==
    \/ Kept
    \/ \E p \in Threads : Closed(p) \/ \E t \in Transports : Created(p, t)
    \/ \E p \in Threads, n \in Names : Taken(p, n)
    \/ \E p \in Threads, n \in Names :
          /\ Installed(p, n)
          /\ transport[n] = None \/ \E h \in Handlers : AddInstall(h)
    \/ \E n \in Names : Stubbed(n) \/ \E t \in Transports : Loaded(n, t)

LEMMA Disown ==
    {"idle", "call", "rm_row", "diff", "work", "peer_cache"} \cap OwningLabels = {}
BY DEF OwningLabels, AddLabels

LEMMA Own ==
    {"add_list", "add_row", "add_cache", "add_install", "rm_close",
     "w_list", "w_cache", "w_install", "w_close"} = OwningLabels
BY DEF OwningLabels, AddLabels

LEMMA TransferLoad ==
    ASSUME TypeOK, LoadStep PROVE Transfer
<1>1. CASE LoadList \/ LoadDone
    BY <1>1 DEF LoadList, LoadDone, indexVars, Transfer, Kept, Owns
<1>2. ASSUME NEW n \in Names, LoadStub(n) PROVE Stubbed(n)
    BY <1>2 DEF LoadStub, Install, Stubbed
<1>3. ASSUME NEW n \in Names, NEW t \in Transports, LoadConnect(n, t) PROVE Loaded(n, t)
    BY <1>3 DEF LoadConnect, Install, Loaded
<1> QED
    BY <1>1, <1>2, <1>3 DEF LoadStep, Transfer

LEMMA TransferAdd ==
    ASSUME TypeOK, Labelled, NEW h \in Handlers, Add(h) PROVE Transfer
<1> h \in Threads
    BY ThreadsType
<1>1. ASSUME NEW n \in Names, NEW c \in Configs, AddStart(h, n, c)
      PROVE  \E t \in Transports : Created(h, t)
    BY <1>1, BecomeOthers, AtFields, IdlePc, Own, Disown DEF AddStart, Created, Owns, indexVars
<1>2. ASSUME local[h].pc \in AddLabels, NEW l \in AddLabels, Goto(h, l), UNCHANGED <<transport, open>>
      PROVE  Kept
    BY <1>2, GotoOthers DEF Kept, Owns, Others, OwningLabels
<1>3. ASSUME local[h].pc \in AddLabels, Abandon(h, Idle), UNCHANGED transport PROVE Closed(h)
    BY <1>3, BecomeOthers, IdlePc, Disown DEF Abandon, Closed, Owns, OwningLabels
<1>4. CASE AddListed(h) \/ AddRow(h) \/ AddCache(h)
    BY <1>2, <1>3, <1>4 DEF AddListed, AddRow, AddCache, AddLabels, indexVars, Transfer
<1>5. CASE AddInstall(h)
    <2>1. local[h].name \in Names
        BY <1>5 DEF AddInstall, Labelled
    <2>2. Installed(h, local[h].name)
        BY <1>5, BecomeOthers, IdlePc, Own, Disown DEF AddInstall, Install, Installed, Owns
    <2> QED
        BY <1>5, <2>1, <2>2 DEF Transfer
<1> QED
    BY <1>1, <1>4, <1>5 DEF Add, Transfer

LEMMA TransferRemove ==
    ASSUME TypeOK, NEW h \in Handlers, Remove(h) PROVE Transfer
<1> h \in Threads
    BY ThreadsType
<1>1. ASSUME NEW n \in Names, RemoveEntry(h, n) PROVE Taken(h, n) \/ Kept
    <2>1. CASE transport[n] # None
        BY <1>1, <2>1, BecomeOthers, AtFields, IdlePc, Own, Disown
           DEF RemoveEntry, Uninstall, Install, Taken, Owns
    <2>2. CASE transport[n] = None
        <3>1. transport' = transport
            BY <1>1, <2>2 DEF RemoveEntry, Uninstall, Install, TypeOK
        <3> QED
            BY <1>1, <2>2, <3>1, BecomeOthers, AtFields, IdlePc, Disown
               DEF RemoveEntry, Kept, Owns, Others
    <2> QED
        BY <2>1, <2>2
<1>2. CASE RemoveClose(h)
    BY <1>2, BecomeOthers, AtFields, Own, Disown DEF RemoveClose, Closed, Owns, indexVars, Transfer
<1>3. CASE RemoveRow(h) \/ RemoveRowFails(h)
    BY <1>3, BecomeOthers, IdlePc, Disown
       DEF RemoveRow, RemoveRowFails, Kept, Owns, Others, indexVars, Transfer
<1> QED
    BY <1>1, <1>2, <1>3 DEF Remove, Transfer

LEMMA TransferCallTool ==
    ASSUME TypeOK, NEW h \in Handlers, CallTool(h) PROVE Kept
BY ThreadsType, BecomeOthers, AtFields, IdlePc, Disown
   DEF CallTool, CallStart, CallEnd, Kept, Owns, Others, indexVars

LEMMA TransferTick ==
    ASSUME TypeOK, Labelled, Indexed, NEW w \in Watchers, tickOnce(w) PROVE Transfer
<1> w \in Threads
    BY ThreadsType
<1>1. CASE TickList(w) \/ TickDiff(w) \/ TickEnd(w)
    BY <1>1, GotoOthers, BecomeOthers, AtFields, IdlePc, Disown
       DEF TickList, TickDiff, TickEnd, Kept, Owns, Others, indexVars, Transfer
<1>2. ASSUME NEW n \in Names, TickConnect(w, n) PROVE \E t \in Transports : Created(w, t)
    BY <1>2, BecomeOthers, AtFields, Own, Disown DEF TickConnect, Created, Owns, indexVars
<1>3. ASSUME NEW n \in Names, TickSkip(w, n) PROVE Kept
    BY <1>3 DEF TickSkip, Kept, Owns, indexVars
<1>4. CASE TickListed(w) \/ TickCache(w)
    BY <1>4, GotoOthers, Own DEF TickListed, TickCache, Kept, Owns, Others, indexVars, Transfer
<1>5. CASE TickListFails(w) \/ TickBackOff(w) \/ TickClose(w)
    BY <1>5, BecomeOthers, IdlePc, Own, Disown
       DEF TickListFails, TickBackOff, TickClose, Abandon, Closed, Owns, indexVars, Transfer
<1>6. CASE TickInstall(w)
    <2>1. local[w].name \in Names /\ transport[local[w].name] = None
        BY <1>6 DEF TickInstall, Labelled, Indexed
    <2>2. Installed(w, local[w].name)
        BY <1>6, BecomeOthers, IdlePc, Own, Disown DEF TickInstall, Install, Installed, Owns
    <2> QED
        BY <2>1, <2>2 DEF Transfer
<1>7. ASSUME NEW n \in Names, TickDrop(w, n) PROVE Taken(w, n) \/ Kept
    <2>1. CASE n \in Registered /\ transport[n] # None
        BY <1>7, <2>1, BecomeOthers, AtFields, Own, Disown
           DEF TickDrop, Uninstall, Install, Taken, Owns
    <2>2. CASE ~(n \in Registered /\ transport[n] # None)
        <3>1. transport' = transport
            BY <1>7, <2>2 DEF TickDrop, Uninstall, Install, TypeOK, indexVars
        <3> QED
            BY <1>7, <2>2, <3>1 DEF TickDrop, Kept, Owns
    <2> QED
        BY <2>1, <2>2
<1> QED
    BY <1>1, <1>2, <1>3, <1>4, <1>5, <1>6, <1>7 DEF tickOnce, TickOk, TickFails, Transfer

LEMMA TransferPeer ==
    ASSUME TypeOK, NEW p \in Peers, PeerStep(p) PROVE Kept
BY ThreadsType, BecomeOthers, AtFields, IdlePc, Disown
   DEF PeerStep, PeerAdd, PeerCache, PeerRemove, Kept, Owns, Others, indexVars

LEMMA TransferStep ==
    ASSUME TypeOK, Labelled, Indexed, [Next]_vars PROVE Transfer \/ Restart
<1>1. CASE UNCHANGED vars
    BY <1>1 DEF vars, Kept, Owns, Transfer
<1> QED
    BY <1>1, TransferLoad, TransferAdd, TransferRemove, TransferCallTool, TransferTick,
       TransferPeer DEF Next, Transfer

-----------------------------------------------------------------------------
(* Load works on an empty index and with nobody else in the process.       *)

Starting ==
    /\ phase # "serving" => \A p \in Procs : local[p] = Idle
    /\ phase = "boot" => endpoint = NoEntries /\ transport = NoEntries
    /\ phase # "loading" => todo = NoEntries
    /\ \A n \in Names : todo[n] # None => transport[n] = None /\ n \notin Registered

\* The invariant every other one rests on.
Base == TypeOK /\ Labelled /\ Indexed /\ Starting

LEMMA IndexedStep ==
    ASSUME TypeOK, Labelled, Indexed, [Next]_vars PROVE Indexed'
<1>1. ASSUME NEW n \in Names, NEW t, NEW c, NEW ts, NEW st, Install(n, t, c, ts, st),
             t # None => c # None
      PROVE  Indexed'
    BY <1>1 DEF Install, Indexed, Registered, TypeOK
<1>2. ASSUME UNCHANGED indexVars PROVE Indexed'
    BY <1>2 DEF indexVars, Indexed, Registered
<1>3. CASE LoadStep
    BY <1>1, <1>2, <1>3 DEF LoadStep, LoadList, LoadStub, LoadConnect, LoadDone
<1>4. ASSUME NEW h \in Handlers, Add(h) PROVE Indexed'
    <2>1. CASE AddInstall(h)
        <3>1. local[h].name \in Names /\ local[h].cfg # None
            BY <2>1, ThreadsType, NoneIsNoConfig DEF AddInstall, Labelled
        <3> QED
            BY <1>1, <2>1, <3>1 DEF AddInstall
    <2> QED
        BY <1>2, <1>4, <2>1 DEF Add, AddStart, AddListed, AddRow, AddCache
<1>5. ASSUME NEW h \in Handlers, Remove(h) \/ CallTool(h) PROVE Indexed'
    BY <1>1, <1>2, <1>5 DEF Remove, RemoveEntry, RemoveClose, RemoveRow, RemoveRowFails, Uninstall,
                            CallTool, CallStart, CallEnd
<1>6. ASSUME NEW w \in Watchers, tickOnce(w) PROVE Indexed'
    <2>1. CASE TickInstall(w)
        <3>1. local[w].name \in Names /\ local[w].cfg # None
            BY <2>1, ThreadsType, NoneIsNoConfig DEF TickInstall, Labelled
        <3> QED
            BY <1>1, <2>1, <3>1 DEF TickInstall
    <2>2. ASSUME NEW n \in Names, TickDrop(w, n) PROVE Indexed'
        BY <1>1, <1>2, <2>2 DEF TickDrop, Uninstall
    <2> QED
        BY <1>2, <1>6, <2>1, <2>2
           DEF tickOnce, TickOk, TickFails, TickList, TickDiff, TickConnect, TickSkip, TickListed,
               TickListFails, TickCache, TickBackOff, TickClose, TickEnd
<1>7. ASSUME NEW p \in Peers, PeerStep(p) PROVE Indexed'
    BY <1>2, <1>7 DEF PeerStep, PeerAdd, PeerCache, PeerRemove
<1>8. CASE Restart
    BY <1>8 DEF Restart, NoEntries, Indexed
<1> QED
    BY <1>2, <1>3, <1>4, <1>5, <1>6, <1>7, <1>8 DEF Next, vars, indexVars

LEMMA StartingStep ==
    ASSUME TypeOK, Starting, [Next]_vars PROVE Starting'
<1>1. CASE LoadStep
    <2>1. phase # "serving" /\ local' = local
        BY <1>1 DEF LoadStep, LoadList, LoadStub, LoadConnect, LoadDone
    <2>2. CASE LoadList
        BY <2>1, <2>2 DEF LoadList, Starting, NoEntries, Registered, indexVars
    <2>3. ASSUME NEW n \in Names, LoadStub(n) \/ \E t \in Transports : LoadConnect(n, t)
          PROVE  Starting'
        BY <2>1, <2>3 DEF LoadStub, LoadConnect, Install, Starting, Registered, TypeOK
    <2>4. CASE LoadDone
        BY <2>1, <2>4 DEF LoadDone, Starting, NoEntries
    <2> QED
        BY <1>1, <2>2, <2>3, <2>4 DEF LoadStep
<1>2. ASSUME phase = "serving", UNCHANGED loadVars PROVE Starting'
    BY <1>2 DEF loadVars, Starting, NoEntries
<1>3. ASSUME NEW p \in Procs, phase # "serving"
      PROVE  local[p].pc = "idle"
    BY <1>3, IdlePc DEF Starting
<1>4. ASSUME NEW h \in Handlers, Add(h) \/ Remove(h) \/ CallTool(h) PROVE Starting'
    <2>1. phase = "serving"
        BY <1>3, <1>4 DEF Procs, Add, AddStart, AddListed, AddRow, AddCache, AddInstall, Remove,
                          RemoveEntry, RemoveClose, RemoveRow, RemoveRowFails, CallTool, CallStart, CallEnd
    <2> QED
        BY <1>2, <1>4, <2>1
           DEF Add, AddStart, AddListed, AddRow, AddCache, AddInstall, Remove,
               RemoveEntry, RemoveClose, RemoveRow, RemoveRowFails, CallTool, CallStart, CallEnd
<1>5. ASSUME NEW w \in Watchers, tickOnce(w) PROVE Starting'
    <2>1. phase = "serving" /\ UNCHANGED loadVars
        BY <1>3, <1>5
           DEF Procs, tickOnce, TickOk, TickFails, TickList, TickDiff, TickConnect, TickSkip, TickListed,
               TickListFails, TickCache, TickInstall, TickBackOff, TickDrop, TickClose, TickEnd
    <2> QED
        BY <1>2, <2>1
<1>6. ASSUME NEW p \in Peers, PeerStep(p) PROVE Starting'
    <2>1. Others(p)
        BY <1>6, ThreadsType, BecomeOthers DEF PeerStep, PeerAdd, PeerCache, PeerRemove, Others
    <2>2. \A q \in Procs : local'[q] = local[q]
        BY <2>1, ThreadsAreDisjoint DEF Others, Threads
    <2> QED
        BY <1>6, <2>2 DEF PeerStep, PeerAdd, PeerCache, PeerRemove, Starting, NoEntries, Registered,
                          loadVars, indexVars
<1>7. CASE Restart
    BY <1>7 DEF Restart, Starting, NoEntries, Threads
<1>8. CASE UNCHANGED vars
    BY <1>8 DEF vars, Starting, NoEntries, Registered
<1> QED
    BY <1>1, <1>4, <1>5, <1>6, <1>7, <1>8 DEF Next

LEMMA BaseHolds == Spec => []Base
<1>1. Init => Base
    BY TypeInit, IdlePc, ThreadsType
       DEF Init, Base, NoEntries, Labelled, Indexed, Starting, Procs
<1>2. Base /\ [Next]_vars => Base'
    BY TypeStep, LabelledStep, IndexedStep, StartingStep DEF Base
<1> QED
    BY <1>1, <1>2, PTL DEF Spec

-----------------------------------------------------------------------------
(* Ownership.                                                              *)

LEMMA OwnershipTransfer ==
    ASSUME TypeOK, Ownership, Transfer PROVE Ownership'
<1>0. \A p \in Threads : Owns(p) => local[p].conn \in open /\ local[p].conn # None
    BY NoneIsNoTransport DEF Ownership, HeldOpen, Owns, TypeOK
<1>1. CASE Kept
    BY <1>1 DEF Kept, Owns, Ownership, EntriesOpen, HeldOpen, SingleOwner
<1>2. ASSUME NEW p \in Threads, NEW t \in Transports, Created(p, t) PROVE Ownership'
    BY <1>2 DEF Created, Others, FreshTransport, Owns, Ownership, EntriesOpen, HeldOpen, SingleOwner
<1>3. ASSUME NEW p \in Threads, Closed(p) PROVE Ownership'
    BY <1>3 DEF Closed, Others, Owns, Ownership, EntriesOpen, HeldOpen, SingleOwner
<1>4. ASSUME NEW p \in Threads, NEW n \in Names, Installed(p, n) PROVE Ownership'
    <2>1. \A m \in Names : transport'[m] = IF m = n THEN local[p].conn ELSE transport[m]
        BY <1>4 DEF Installed, TypeOK
    <2> QED
        BY <1>0, <1>4, <2>1 DEF Installed, Others, Owns, Ownership, EntriesOpen, HeldOpen, SingleOwner
<1>5. ASSUME NEW p \in Threads, NEW n \in Names, Taken(p, n) PROVE Ownership'
    <2>1. \A m \in Names : transport'[m] = IF m = n THEN None ELSE transport[m]
        BY <1>5 DEF Taken, TypeOK
    <2> QED
        BY <1>0, <1>5, <2>1 DEF Taken, Others, Owns, Ownership, EntriesOpen, HeldOpen, SingleOwner
<1>6. ASSUME NEW n \in Names, Stubbed(n) PROVE Ownership'
    <2>1. \A m \in Names : transport'[m] = IF m = n THEN None ELSE transport[m]
        BY <1>6 DEF Stubbed, TypeOK
    <2> QED
        BY <1>0, <1>6, <2>1 DEF Stubbed, Owns, Ownership, EntriesOpen, HeldOpen, SingleOwner
<1>7. ASSUME NEW n \in Names, NEW t \in Transports, Loaded(n, t) PROVE Ownership'
    <2>1. \A m \in Names : transport'[m] = IF m = n THEN t ELSE transport[m]
        BY <1>7 DEF Loaded, TypeOK
    <2> QED
        BY <1>0, <1>7, <2>1 DEF Loaded, FreshTransport, Owns, Ownership, EntriesOpen, HeldOpen, SingleOwner
<1> QED
    BY <1>1, <1>2, <1>3, <1>4, <1>5, <1>6, <1>7 DEF Transfer

LEMMA OwnershipRestart ==
    ASSUME Labelled, Restart PROVE Ownership'
<1>1. \A p \in Threads : local'[p] = IF p \in Procs THEN Idle ELSE local[p]
    BY DEF Restart
<1>2. \A p \in Threads : local'[p].pc \notin OwningLabels
    BY <1>1, ThreadsType, IdlePc, Disown DEF Labelled, Procs
<1> QED
    BY <1>2 DEF Restart, NoEntries, Ownership, EntriesOpen, HeldOpen, SingleOwner

\* Every open transport in use has one owner, who finds it open: for any
\* number of handlers, other processes and transports, with or without the
\* watcher.
THEOREM OwnershipHolds == Spec => []Ownership
<1>1. Init => Ownership
    BY IdlePc, Disown DEF Init, NoEntries, Ownership, EntriesOpen, HeldOpen, SingleOwner
<1>2. Base /\ Ownership /\ [Next]_vars => Ownership'
    BY TransferStep, OwnershipTransfer, OwnershipRestart DEF Base
<1> QED
    BY <1>1, <1>2, BaseHolds, PTL DEF Spec

-----------------------------------------------------------------------------
(* The maps.                                                               *)

\* An entry that is written has a configuration and a status, and has its
\* transport and tools if that is "connected".
Whole(t, c, ts, st) ==
    \/ t = None /\ c = None /\ ts = None /\ st = None
    \/ c # None /\ st # None /\ (st = "connected" => t # None /\ ts # None)

LEMMA MapsStep ==
    ASSUME TypeOK, Labelled, Ownership, MapsAgree, [Next]_vars PROVE MapsAgree'
<1>1. ASSUME NEW n \in Names, NEW t, NEW c, NEW ts, NEW st, Install(n, t, c, ts, st),
             Whole(t, c, ts, st)
      PROVE  MapsAgree'
    BY <1>1, NoneIsNoStatus DEF Install, MapsAgree, Whole, Registered, TypeOK
<1>2. ASSUME UNCHANGED indexVars PROVE MapsAgree'
    BY <1>2 DEF indexVars, MapsAgree, Registered
<1>3. \A p \in Threads : Owns(p) => local[p].conn # None
    BY NoneIsNoTransport DEF Ownership, HeldOpen, HeldByThreads, Owns, TypeOK
<1>4. CASE LoadStep
    <2>1. ASSUME NEW n \in Names, LoadStub(n) PROVE MapsAgree'
        BY <1>1, <2>1, NoneIsNoStatus DEF LoadStub, Whole
    <2>2. ASSUME NEW n \in Names, NEW t \in Transports, LoadConnect(n, t) PROVE MapsAgree'
        BY <1>1, <2>2, NoneIsNoStatus, NoneIsNoTransport DEF LoadConnect, Whole
    <2> QED
        BY <1>2, <1>4, <2>1, <2>2 DEF LoadStep, LoadList, LoadDone
<1>5. ASSUME NEW h \in Handlers, Add(h) PROVE MapsAgree'
    <2>1. CASE AddInstall(h)
        <3>1. local[h].name \in Names /\ local[h].cfg # None /\ local[h].conn # None
            BY <1>3, <2>1, ThreadsType, NoneIsNoConfig
               DEF AddInstall, Labelled, Owns, OwningLabels, AddLabels
        <3> QED
            BY <1>1, <2>1, <3>1, NoneIsNoStatus DEF AddInstall, Whole
    <2> QED
        BY <1>2, <1>5, <2>1 DEF Add, AddStart, AddListed, AddRow, AddCache
<1>6. ASSUME NEW h \in Handlers, Remove(h) \/ CallTool(h) PROVE MapsAgree'
    BY <1>1, <1>2, <1>6 DEF Remove, RemoveEntry, RemoveClose, RemoveRow, RemoveRowFails, Uninstall,
                            CallTool, CallStart, CallEnd, Whole
<1>7. ASSUME NEW w \in Watchers, tickOnce(w) PROVE MapsAgree'
    <2>1. CASE TickInstall(w)
        <3>1. local[w].name \in Names /\ local[w].cfg # None /\ local[w].conn # None
            BY <1>3, <2>1, ThreadsType, NoneIsNoConfig
               DEF TickInstall, Labelled, Owns, OwningLabels
        <3> QED
            BY <1>1, <2>1, <3>1, NoneIsNoStatus DEF TickInstall, Whole
    <2>2. ASSUME NEW n \in Names, TickDrop(w, n) PROVE MapsAgree'
        BY <1>1, <1>2, <2>2 DEF TickDrop, Uninstall, Whole
    <2> QED
        BY <1>2, <1>7, <2>1, <2>2
           DEF tickOnce, TickOk, TickFails, TickList, TickDiff, TickConnect, TickSkip, TickListed,
               TickListFails, TickCache, TickBackOff, TickClose, TickEnd
<1>8. ASSUME NEW p \in Peers, PeerStep(p) PROVE MapsAgree'
    BY <1>2, <1>8 DEF PeerStep, PeerAdd, PeerCache, PeerRemove
<1>9. CASE Restart
    BY <1>9, NoneIsNoStatus DEF Restart, NoEntries, MapsAgree, Registered
<1> QED
    BY <1>2, <1>4, <1>5, <1>6, <1>7, <1>8, <1>9 DEF Next, vars, indexVars

\* The maps agree: a server shown as connected has a transport and tools, and
\* nothing is left of a server that is not registered.
THEOREM MapsAgreeHolds == Spec => []MapsAgree
<1>1. Init => MapsAgree
    BY NoneIsNoStatus DEF Init, NoEntries, MapsAgree, Registered
<1> QED
    BY <1>1, MapsStep, BaseHolds, OwnershipHolds, PTL DEF Spec, Base

-----------------------------------------------------------------------------
(* Leaks.                                                                  *)

LEMMA OwnedDef ==
    ASSUME NEW t \in Transports
    PROVE  t \in Owned <=> \/ \E p \in Threads : Owns(p) /\ local[p].conn = t
                          \/ \E n \in Names : transport[n] = t
BY NoneIsNoTransport DEF Owned, HeldByThreads, HeldByIndex, Owns

LEMMA OwnedDefNext ==
    ASSUME NEW t \in Transports
    PROVE  t \in Owned' <=> \/ \E p \in Threads : Owns(p)' /\ local'[p].conn = t
                           \/ \E n \in Names : transport'[n] = t
BY NoneIsNoTransport DEF Owned, HeldByThreads, HeldByIndex, Owns

\* A transfer loses nothing but the entry that Add overwrites, and what it
\* opens has an owner.
LEMMA TransferLoss ==
    ASSUME Base, Ownership, Transfer, NEW t \in open', t \in Owned \/ t \notin open
    PROVE  \/ t \in Owned'
           \/ \E p \in Threads, n \in Names :
                 Installed(p, n) /\ transport[n] = t /\ \E h \in Handlers : AddInstall(h)
<1> USE DEF Base
<1>1. open \subseteq Transports
    BY DEF TypeOK
<1>2. CASE Kept
    BY <1>1, <1>2, OwnedDef, OwnedDefNext DEF Kept
<1>3. ASSUME NEW p \in Threads, Closed(p) PROVE t \in Owned'
    BY <1>1, <1>3, OwnedDef, OwnedDefNext DEF Closed, Others, Owns
<1>4. ASSUME NEW p \in Threads, NEW u \in Transports, Created(p, u) PROVE t \in Owned'
    BY <1>1, <1>4, OwnedDef, OwnedDefNext DEF Created, Others, Owns
<1>5. ASSUME NEW p \in Threads, NEW n \in Names, Taken(p, n) PROVE t \in Owned'
    <2>1. \A m \in Names : transport'[m] = IF m = n THEN None ELSE transport[m]
        BY <1>5 DEF Taken, TypeOK
    <2> QED
        BY <1>1, <1>5, <2>1, OwnedDef, OwnedDefNext DEF Taken, Others, Owns
<1>6. ASSUME NEW p \in Threads, NEW n \in Names, Installed(p, n), transport[n] # t
      PROVE  t \in Owned'
    <2>1. \A m \in Names : transport'[m] = IF m = n THEN local[p].conn ELSE transport[m]
        BY <1>6 DEF Installed, TypeOK
    <2>2. t \in open /\ t \in Transports
        BY <1>1, <1>6 DEF Installed
    <2> QED
        BY <1>6, <2>1, <2>2, OwnedDef, OwnedDefNext DEF Installed, Others, Owns
<1>7. ASSUME NEW n \in Names, Stubbed(n) PROVE t \in Owned'
    <2>1. transport' = transport
        BY <1>7 DEF Stubbed, Starting, TypeOK
    <2> QED
        BY <1>1, <1>7, <2>1, OwnedDef, OwnedDefNext DEF Stubbed, Owns
<1>8. ASSUME NEW n \in Names, NEW u \in Transports, Loaded(n, u) PROVE t \in Owned'
    <2>1. \A m \in Names : transport'[m] = IF m = n THEN u ELSE transport[m]
        BY <1>8 DEF Loaded, TypeOK
    <2>2. transport[n] = None
        BY <1>8 DEF Loaded, Starting
    <2> QED
        BY <1>1, <1>8, <2>1, <2>2, NoneIsNoTransport, OwnedDef, OwnedDefNext DEF Loaded, Owns
<1>9. CASE \E p \in Threads, n \in Names : Installed(p, n) /\ transport[n] = None
    BY <1>1, <1>6, <1>9, NoneIsNoTransport DEF Installed
<1> QED
    BY <1>2, <1>3, <1>4, <1>5, <1>6, <1>7, <1>8, <1>9 DEF Transfer

\* Whatever the watcher, the other processes and the handlers do, the only
\* step that loses an open transport is the unconditional write of Add.
THEOREM LostOnlyByAddHolds == Spec => LostOnlyByAdd
<1> DEFINE Lost == \A t \in open \cap Owned :
                     t \in open' => t \in Owned' \/ \E h \in Handlers : AddInstall(h)
<1>1. Base /\ Ownership /\ [Next]_vars => [Lost]_vars
    <2> SUFFICES ASSUME Base, Ownership, [Next]_vars PROVE Lost
        OBVIOUS
    <2>1. CASE Restart
        BY <2>1 DEF Restart
    <2>2. CASE Transfer
        BY <2>2, TransferLoss
    <2> QED
        BY <2>1, <2>2, TransferStep DEF Base
<1> QED
    BY <1>1, BaseHolds, OwnershipHolds, PTL DEF Spec, LostOnlyByAdd

-----------------------------------------------------------------------------
(* Closing.                                                                *)

\* A transport is closed by its one owner, who finds it open and leaves it
\* without one: none is closed twice, and none is closed that is in the
\* index, or that another request or the watcher is setting up.  Nothing
\* else closes one, but for the end of the process.
ClosedOnce ==
    [][\/ Restart
       \/ /\ \A t \in open \ open' : \E p \in Threads : Closed(p) /\ local[p].conn = t
          /\ \A p \in Threads :
                Closed(p) => local[p].conn \in open /\ local[p].conn \notin Owned']_vars

LEMMA ClosedLeavesNone ==
    ASSUME TypeOK, Ownership, NEW p \in Threads, Closed(p)
    PROVE  local[p].conn \in open /\ local[p].conn \notin Owned'
<1>1. local[p].conn \in open /\ local[p].conn \in Transports
    BY DEF Closed, Owns, Ownership, HeldOpen, TypeOK
<1>2. \A n \in Names : transport'[n] # local[p].conn
    BY DEF Closed, Owns, Ownership, SingleOwner
<1>3. \A q \in Threads : Owns(q)' => local'[q].conn # local[p].conn
    BY DEF Closed, Others, Owns, Ownership, SingleOwner
<1> QED
    BY <1>1, <1>2, <1>3, OwnedDefNext

\* For any number of requests, transports and other processes, with or
\* without the watcher.  So one Close per transport, which the theorems
\* about StdioTransport assume, is what the registry gives it.
THEOREM ClosedOnceHolds == Spec => ClosedOnce
<1> DEFINE Once ==
    \/ Restart
    \/ /\ \A t \in open \ open' : \E p \in Threads : Closed(p) /\ local[p].conn = t
       /\ \A p \in Threads :
             Closed(p) => local[p].conn \in open /\ local[p].conn \notin Owned'
<1>1. Base /\ Ownership /\ [Next]_vars => [Once]_vars
    <2> SUFFICES ASSUME Base, Ownership, Transfer PROVE Once
        BY TransferStep DEF Base
    <2>1. ASSUME NEW t \in open \ open' PROVE \E p \in Threads : Closed(p) /\ local[p].conn = t
        BY <2>1 DEF Transfer, Kept, Created, Installed, Taken, Stubbed, Loaded, Closed
    <2> QED
        BY <2>1, ClosedLeavesNone DEF Base
<1> QED
    BY <1>1, BaseHolds, OwnershipHolds, PTL DEF Spec, ClosedOnce

-----------------------------------------------------------------------------
(* One process and no watcher: the index and the store agree.              *)

Solo == Watchers = {} /\ Peers = {}

Settling(h) == local[h].pc \in {"add_cache", "add_install"} \cup RemoveLabels

SoloData ==
    /\ \A h \in Handlers : Settling(h) =>
          /\ db[local[h].name] = local[h].cfg
          /\ local[h].name \notin Registered
    /\ \A g, h \in Handlers :
          g # h /\ Settling(g) /\ Settling(h) => local[g].name # local[h].name
    /\ \A n \in Names : cache[n] # None => cache[n] = db[n]
    /\ \A n \in Names : todo[n] # None => todo[n] = db[n]
    /\ MemoryInStore
    /\ ToolsAreCurrent

SoloInv == SoloData /\ NoLeak

LEMMA SoloFields ==
    ASSUME Base, NEW h \in Handlers, Settling(h) \/ local[h].pc \in AddLabels
    PROVE  /\ local[h].name \in Names /\ local[h].cfg \in Configs /\ local[h].cfg # None
           /\ phase = "serving" /\ todo = NoEntries
BY NoneIsNoConfig, IdlePc, ThreadsType
   DEF Base, Labelled, Starting, Settling, AddLabels, RemoveLabels, Procs

LEMMA SoloNoLeak ==
    ASSUME Solo, Base, Ownership, SoloInv, [Next]_vars PROVE NoLeak'
<1>1. CASE Restart
    BY <1>1 DEF Restart, NoLeak
<1>2. CASE Transfer
    <2> SUFFICES ASSUME NEW t \in open', t \notin Owned' PROVE FALSE
        BY DEF NoLeak
    <2>1. PICK p \in Threads, n \in Names :
              Installed(p, n) /\ transport[n] = t /\ \E h \in Handlers : AddInstall(h)
        BY <1>2, TransferLoss DEF SoloInv, NoLeak
    <2>2. PICK h \in Handlers : AddInstall(h)
        BY <2>1
    <2>3. Settling(h) /\ local[h].name \notin Registered
        BY <2>2 DEF AddInstall, Settling, SoloInv, SoloData
    <2>4. n = local[h].name
        <3>1. transport' = [transport EXCEPT ![local[h].name] = local[h].conn]
            BY <2>2 DEF AddInstall, Install
        <3>2. t # None /\ local[p].conn # t
            BY <2>1, NoneIsNoTransport
               DEF Base, TypeOK, Ownership, SingleOwner, HeldOpen, Installed, Owns
        <3> QED
            BY <2>1, <3>1, <3>2 DEF Installed, Base, TypeOK
    <2> QED
        BY <2>1, <2>3, <2>4, NoneIsNoTransport DEF Base, Indexed, TypeOK, Installed
<1> QED
    BY <1>1, <1>2, TransferStep DEF Base

LEMMA SoloLoad ==
    ASSUME Solo, Base, SoloData, LoadStep PROVE SoloData'
<1>1. \A h \in Handlers : ~Settling(h) /\ local'[h] = local[h]
    BY IdlePc DEF LoadStep, LoadList, LoadStub, LoadConnect, LoadDone, Base, Starting, Procs,
                  Settling, RemoveLabels
<1>2. CASE LoadList \/ LoadDone
    BY <1>1, <1>2 DEF LoadList, LoadDone, SoloData, Settling, MemoryInStore, ToolsAreCurrent,
                      Registered, NoEntries, indexVars
<1>3. ASSUME NEW n \in Names, LoadStub(n) PROVE SoloData'
    BY <1>1, <1>3 DEF LoadStub, Install, SoloData, Settling, MemoryInStore, ToolsAreCurrent,
                      Registered, Base, TypeOK
<1>4. ASSUME NEW n \in Names, NEW t \in Transports, LoadConnect(n, t) PROVE SoloData'
    <2>1. /\ db' = db /\ todo[n] # None /\ todo[n] = db[n]
          /\ endpoint' = [endpoint EXCEPT ![n] = db[n]]
          /\ todo' = [todo EXCEPT ![n] = None]
          /\ cache' = cache \/ cache' = [cache EXCEPT ![n] = db[n]]
        BY <1>4 DEF LoadConnect, Install, UpsertTools, StoreError, storeVars, SoloData
    <2>2. \E ts \in {db[n], None} : tools' = [tools EXCEPT ![n] = ts]
        BY <1>4, <2>1 DEF LoadConnect, Install, SoloData
    <2> QED
        BY <1>1, <2>1, <2>2 DEF SoloData, Settling, MemoryInStore, ToolsAreCurrent, Registered, Base, TypeOK
<1> QED
    BY <1>2, <1>3, <1>4 DEF LoadStep

LEMMA SoloAdd ==
    ASSUME Solo, Base, SoloData, NEW h \in Handlers, Add(h) PROVE SoloData'
<1> USE DEF Base
<1> h \in Threads
    BY ThreadsType
<1>1. ASSUME Others(h), ~Settling(h)', UNCHANGED <<db, cache, indexVars, todo>> PROVE SoloData'
    BY <1>1, ThreadsType DEF Others, Settling, SoloData, MemoryInStore, ToolsAreCurrent, Registered, indexVars
<1>2. ASSUME NEW n \in Names, NEW c \in Configs, AddStart(h, n, c) PROVE SoloData'
    <2>1. Others(h) /\ ~Settling(h)'
        BY <1>2, BecomeOthers, AtFields DEF AddStart, Settling, RemoveLabels
    <2> QED
        BY <1>1, <1>2, <2>1 DEF AddStart, loadVars
<1>3. CASE AddListed(h)
    <2>1. Others(h) /\ ~Settling(h)'
        BY <1>3, BecomeOthers, GotoOthers, IdlePc DEF AddListed, Abandon, Settling, RemoveLabels
    <2> QED
        BY <1>1, <1>3, <2>1 DEF AddListed, loadVars
<1>4. CASE AddRow(h)
    <2>1. CASE StoreError /\ Abandon(h, Idle)
        <3>1. Others(h) /\ ~Settling(h)'
            BY <2>1, BecomeOthers, IdlePc DEF Abandon, Settling, RemoveLabels
        <3> QED
            BY <1>1, <1>4, <2>1, <3>1 DEF AddRow, StoreError, storeVars, loadVars
    <2>2. CASE InsertServer(local[h].name, local[h].cfg) /\ Goto(h, "add_cache")
        <3> DEFINE n == local[h].name
                   c == local[h].cfg
        <3>1. n \in Names /\ c # None /\ todo = NoEntries
            BY <1>4, SoloFields DEF AddRow, AddLabels
        <3>2. db[n] = None /\ \A m \in Names : db'[m] = IF m = n THEN c ELSE db[m]
            BY <2>2, <3>1 DEF InsertServer, TypeOK
        <3>3. Others(h) /\ local'[h].name = n /\ local'[h].cfg = c
            BY <2>2, GotoOthers
        <3>4. n \notin Registered
            BY <3>1, <3>2 DEF SoloData, MemoryInStore, Registered
        <3>5. \A g \in Handlers : Settling(g) => local[g].name \in Names /\ local[g].name # n
            BY <3>2, SoloFields DEF SoloData
        <3>6. UNCHANGED <<cache, todo, indexVars>>
            BY <1>4, <2>2 DEF AddRow, InsertServer, loadVars
        <3> HIDE DEF n, c
        <3>7. \A g \in Handlers : g # h => local'[g] = local[g]
            BY <3>3, ThreadsType DEF Others
        <3>8. \A g \in Handlers : Settling(g)' =>
                  db'[local'[g].name] = local'[g].cfg /\ local'[g].name \notin Registered
            BY <3>1, <3>2, <3>3, <3>4, <3>5, <3>7 DEF Settling, SoloData
        <3>9. \A f, g \in Handlers :
                  f # g /\ Settling(f)' /\ Settling(g)' => local'[f].name # local'[g].name
            BY <3>3, <3>5, <3>7 DEF Settling, SoloData
        <3>10. cache[n] = None
            BY <3>1, <3>2 DEF SoloData
        <3> QED
            BY <3>1, <3>2, <3>4, <3>6, <3>8, <3>9, <3>10
               DEF SoloData, MemoryInStore, ToolsAreCurrent, Registered, NoEntries, indexVars
    <2> QED
        BY <1>4, <2>1, <2>2 DEF AddRow
<1>5. CASE AddCache(h)
    <2> DEFINE n == local[h].name
    <2>1. n \in Names /\ Settling(h) /\ db[n] = local[h].cfg
        BY <1>5, SoloFields DEF AddCache, Settling, SoloData
    <2>2. Others(h) /\ local'[h].name = n /\ local'[h].cfg = local[h].cfg
        BY <1>5, GotoOthers DEF AddCache
    <2>3. cache' = cache \/ cache' = [cache EXCEPT ![n] = db[n]]
        BY <1>5, <2>1 DEF AddCache, UpsertTools, StoreError, storeVars
    <2>4. UNCHANGED <<db, todo, indexVars>>
        BY <1>5 DEF AddCache, UpsertTools, StoreError, storeVars, loadVars
    <2> HIDE DEF n
    <2>5. \A m \in Names : cache'[m] # None => cache'[m] = db[m]
        BY <2>1, <2>3 DEF SoloData, TypeOK
    <2>6. \A g \in Handlers : /\ Settling(g)' => Settling(g)
                            /\ local'[g].name = local[g].name /\ local'[g].cfg = local[g].cfg
        BY <2>1, <2>2, ThreadsType DEF Others, Settling, n
    <2> QED
        BY <2>4, <2>5, <2>6 DEF SoloData, MemoryInStore, ToolsAreCurrent, Registered, indexVars
<1>6. CASE AddInstall(h)
    <2> DEFINE n == local[h].name
    <2>1. n \in Names /\ Settling(h) /\ db[n] = local[h].cfg
        BY <1>6, SoloFields DEF AddInstall, Settling, SoloData
    <2>2. Others(h) /\ ~Settling(h)'
        BY <1>6, BecomeOthers, IdlePc DEF AddInstall, Settling, RemoveLabels
    <2>3. \A g \in Handlers : g # h /\ Settling(g) => local[g].name # n
        BY <2>1 DEF SoloData
    <2>4. /\ \A m \in Names : endpoint'[m] = IF m = n THEN db[n] ELSE endpoint[m]
          /\ \A m \in Names : tools'[m] = IF m = n THEN db[n] ELSE tools[m]
        BY <1>6, <2>1 DEF AddInstall, Install, TypeOK
    <2>5. UNCHANGED <<db, cache, todo>>
        BY <1>6 DEF AddInstall, loadVars
    <2> HIDE DEF n
    <2> QED
        BY <2>2, <2>3, <2>4, <2>5, ThreadsType
           DEF Others, Settling, SoloData, MemoryInStore, ToolsAreCurrent, Registered
<1> QED
    BY <1>2, <1>3, <1>4, <1>5, <1>6 DEF Add

LEMMA SoloRemove ==
    ASSUME Solo, Base, SoloData, NEW h \in Handlers, Remove(h) PROVE SoloData'
<1> USE DEF Base
<1> h \in Threads
    BY ThreadsType
<1>1. ASSUME NEW n \in Names, RemoveEntry(h, n) PROVE SoloData'
    <2>1. n \in Registered /\ endpoint[n] = db[n]
        BY <1>1 DEF RemoveEntry, SoloData, MemoryInStore
    <2>2. Others(h) /\ local'[h].name = n /\ local'[h].cfg = db[n]
        BY <1>1, <2>1, BecomeOthers, AtFields DEF RemoveEntry
    <2>3. \A g \in Handlers : Settling(g) => local[g].name \in Names /\ local[g].name # n
        BY <2>1, SoloFields DEF SoloData
    <2>4. /\ \A m \in Names : endpoint'[m] = IF m = n THEN None ELSE endpoint[m]
          /\ \A m \in Names : tools'[m] = IF m = n THEN None ELSE tools[m]
        BY <1>1 DEF RemoveEntry, Uninstall, Install, TypeOK
    <2>5. UNCHANGED <<db, cache, todo>>
        BY <1>1 DEF RemoveEntry, loadVars
    <2>6. \A g \in Handlers : g # h => local'[g] = local[g]
        BY <2>2, ThreadsType DEF Others
    <2>7. \A g \in Handlers : Settling(g)' =>
              db'[local'[g].name] = local'[g].cfg /\ local'[g].name \notin Registered'
        BY <2>2, <2>3, <2>4, <2>5, <2>6 DEF Settling, SoloData, Registered
    <2>8. \A f, g \in Handlers :
              f # g /\ Settling(f)' /\ Settling(g)' => local'[f].name # local'[g].name
        BY <2>2, <2>3, <2>6 DEF Settling, SoloData
    <2> QED
        BY <2>4, <2>5, <2>7, <2>8 DEF SoloData, MemoryInStore, ToolsAreCurrent, Registered
<1>2. CASE RemoveClose(h)
    <2>1. Others(h) /\ local'[h].name = local[h].name /\ local'[h].cfg = local[h].cfg /\ Settling(h)
        BY <1>2, BecomeOthers, AtFields DEF RemoveClose, Settling, RemoveLabels
    <2>2. \A g \in Handlers : /\ Settling(g)' => Settling(g)
                            /\ local'[g].name = local[g].name /\ local'[g].cfg = local[g].cfg
        BY <2>1, ThreadsType DEF Others, Settling
    <2>3. UNCHANGED <<db, cache, todo, indexVars>>
        BY <1>2 DEF RemoveClose, loadVars
    <2> QED
        BY <2>2, <2>3 DEF SoloData, MemoryInStore, ToolsAreCurrent, Registered, indexVars
<1>3. CASE RemoveRow(h)
    <2> DEFINE n == local[h].name
    <2>1. n \in Names /\ Settling(h) /\ todo = NoEntries /\ n \notin Registered
        BY <1>3, SoloFields DEF RemoveRow, Settling, RemoveLabels, SoloData
    <2>2. Others(h) /\ ~Settling(h)'
        BY <1>3, BecomeOthers, IdlePc DEF RemoveRow, Settling, RemoveLabels
    <2>3. \A g \in Handlers : g # h /\ Settling(g) => local[g].name # n /\ local[g].name \in Names
        BY <2>1, SoloFields DEF SoloData
    <2>4. /\ \A m \in Names : db'[m] = IF m = n THEN None ELSE db[m]
          /\ \A m \in Names : cache'[m] = IF m = n THEN None ELSE cache[m]
        BY <1>3, <2>1 DEF RemoveRow, DeleteServer, TypeOK
    <2>5. UNCHANGED <<todo, indexVars>>
        BY <1>3 DEF RemoveRow, loadVars
    <2> HIDE DEF n
    <2> QED
        BY <2>1, <2>2, <2>3, <2>4, <2>5, ThreadsType
           DEF Others, Settling, SoloData, MemoryInStore, ToolsAreCurrent, Registered, NoEntries, indexVars
<1>4. CASE RemoveRowFails(h)
    <2>1. Others(h) /\ ~Settling(h)'
        BY <1>4, BecomeOthers, IdlePc DEF RemoveRowFails, Settling, RemoveLabels
    <2>2. UNCHANGED <<db, cache, todo, indexVars>>
        BY <1>4 DEF RemoveRowFails, StoreError, storeVars, loadVars
    <2> QED
        BY <2>1, <2>2, ThreadsType
           DEF Others, Settling, SoloData, MemoryInStore, ToolsAreCurrent, Registered, indexVars
<1> QED
    BY <1>1, <1>2, <1>3, <1>4 DEF Remove

LEMMA SoloCallTool ==
    ASSUME Solo, Base, SoloData, NEW h \in Handlers, CallTool(h) PROVE SoloData'
<1>1. Others(h) /\ ~Settling(h)'
    BY ThreadsType, BecomeOthers, AtFields, IdlePc
       DEF Base, CallTool, CallStart, CallEnd, Settling, RemoveLabels
<1>2. UNCHANGED <<db, cache, todo, indexVars>>
    BY DEF CallTool, CallStart, CallEnd, loadVars
<1> QED
    BY <1>1, <1>2, ThreadsType
       DEF Others, Settling, SoloData, MemoryInStore, ToolsAreCurrent, Registered, indexVars

LEMMA SoloStep ==
    ASSUME Solo, Base, Ownership, SoloInv, [Next]_vars PROVE SoloInv'
<1>1. CASE Restart
    <2>1. \A h \in Handlers : ~Settling(h)'
        BY <1>1, IdlePc DEF Restart, Threads, Procs, Settling, RemoveLabels
    <2> QED
        BY <1>1, <2>1 DEF Restart, SoloInv, SoloData, MemoryInStore, ToolsAreCurrent, Registered,
                          NoEntries, NoLeak
<1>2. CASE UNCHANGED vars
    BY <1>2 DEF vars, SoloInv, SoloData, Settling, MemoryInStore, ToolsAreCurrent, Registered,
                NoLeak, Owned, HeldByThreads, HeldByIndex
<1>3. CASE Next /\ ~Restart
    BY <1>3, SoloNoLeak, SoloLoad, SoloAdd, SoloRemove, SoloCallTool DEF Next, Solo, SoloInv
<1> QED
    BY <1>1, <1>2, <1>3

LEMMA SoloHolds ==
    ASSUME Solo PROVE Spec => []SoloInv
<1>1. Init => SoloInv
    BY IdlePc DEF Init, StoreInit, NoEntries, SoloInv, SoloData, Settling, RemoveLabels,
                  MemoryInStore, ToolsAreCurrent, Registered, NoLeak, Threads, Procs
<1>2. Base /\ Ownership /\ SoloInv /\ [Next]_vars => SoloInv'
    BY SoloStep
<1> QED
    BY <1>1, <1>2, BaseHolds, OwnershipHolds, PTL DEF Spec

\* With one process and no watcher the index never shows a server the store
\* does not have, or has otherwise, whatever requests meet, fail, or are cut
\* off by a restart.
THEOREM MemoryInStoreHolds ==
    ASSUME Solo PROVE Spec => []MemoryInStore
<1>1. SoloInv => MemoryInStore
    BY DEF SoloInv, SoloData
<1> QED
    BY <1>1, SoloHolds, PTL

\* The same of the tools it shows: they are the ones of that endpoint.
THEOREM ToolsAreCurrentHolds ==
    ASSUME Solo PROVE Spec => []ToolsAreCurrent
<1>1. SoloInv => ToolsAreCurrent
    BY DEF SoloInv, SoloData
<1> QED
    BY <1>1, SoloHolds, PTL

\* The same of transports: none is left open without an owner.
THEOREM NoLeakHolds ==
    ASSUME Solo PROVE Spec => []NoLeak
<1>1. SoloInv => NoLeak
    BY DEF SoloInv
<1> QED
    BY <1>1, SoloHolds, PTL

-----------------------------------------------------------------------------
(* Rows that nobody serves and nobody is about to.                         *)

\* A handler that leaves the name's row and entry alone, and does not let go
\* of the name, strands nothing.
LEMMA StrandedKept ==
    ASSUME Solo, NEW h \in Handlers, NEW n \in Names, Others(h), phase = "serving",
           db'[n] = db[n], endpoint'[n] = endpoint[n],
           Settling(h) /\ local[h].name = n => Settling(h)' /\ local'[h].name = n,
           Stranded(n)'
    PROVE  Stranded(n)
<1>1. db[n] # None /\ n \notin Registered
    BY DEF Stranded, Registered
<1>2. ASSUME NEW g \in Handlers, Settling(g), local[g].name = n PROVE FALSE
    <2>1. Settling(g)' /\ local'[g].name = n
        BY <1>2, ThreadsType DEF Others, Settling
    <2> QED
        BY <2>1 DEF Stranded, Settling
<1> QED
    BY <1>1, <1>2 DEF Stranded, Settling

LEMMA StrandedAdd ==
    ASSUME Solo, Base, NEW n \in Names, phase = "serving", Stranded(n)',
           NEW h \in Handlers, Add(h)
    PROVE  Stranded(n)
<1> USE DEF Base
<1> h \in Threads
    BY ThreadsType
<1>1. ASSUME NEW m \in Names, NEW c \in Configs, AddStart(h, m, c) PROVE Stranded(n)
    <2>1. Others(h) /\ ~Settling(h)
        BY <1>1, BecomeOthers, IdlePc DEF AddStart, Settling, RemoveLabels
    <2> QED
        BY <1>1, <2>1, StrandedKept DEF AddStart, indexVars
<1>2. CASE AddListed(h)
    <2>1. Others(h) /\ ~Settling(h)
        BY <1>2, BecomeOthers, GotoOthers DEF AddListed, Abandon, Settling, RemoveLabels
    <2> QED
        BY <1>2, <2>1, StrandedKept DEF AddListed, indexVars
<1>3. CASE AddRow(h)
    <2>0. Others(h) /\ ~Settling(h)
        BY <1>3, BecomeOthers, GotoOthers DEF AddRow, Abandon, Settling, RemoveLabels
    <2>1. CASE StoreError
        BY <1>3, <2>0, <2>1, StrandedKept DEF AddRow, StoreError, storeVars, indexVars
    <2>2. CASE InsertServer(local[h].name, local[h].cfg) /\ Goto(h, "add_cache")
        <3>1. Settling(h)' /\ local'[h].name = local[h].name
            BY <2>2, GotoOthers DEF Settling
        <3>2. local[h].name # n
            BY <3>1 DEF Stranded, Settling
        <3>3. db'[n] = db[n]
            BY <2>2, <3>2 DEF InsertServer, TypeOK
        <3> QED
            BY <1>3, <2>0, <3>3, StrandedKept DEF AddRow, indexVars
    <2> QED
        BY <1>3, <2>1, <2>2 DEF AddRow
<1>4. CASE AddCache(h)
    <2>1. Others(h) /\ Settling(h)' /\ local'[h].name = local[h].name
        BY <1>4, GotoOthers DEF AddCache, Settling
    <2> QED
        BY <1>4, <2>1, StrandedKept DEF AddCache, UpsertTools, StoreError, storeVars, indexVars
\* The name the handler lets go of has its entry.
<1>5. CASE AddInstall(h)
    <2>1. Others(h) /\ local[h].name \in Names /\ local[h].cfg # None
        BY <1>5, BecomeOthers, SoloFields DEF AddInstall, Settling
    <2>2. endpoint' = [endpoint EXCEPT ![local[h].name] = local[h].cfg]
        BY <1>5 DEF AddInstall, Install
    <2>3. local[h].name # n
        BY <2>1, <2>2 DEF Stranded, Registered, TypeOK
    <2>4. endpoint'[n] = endpoint[n]
        BY <2>2, <2>3 DEF TypeOK
    <2> QED
        BY <1>5, <2>1, <2>3, <2>4, StrandedKept DEF AddInstall
<1> QED
    BY <1>1, <1>2, <1>3, <1>4, <1>5 DEF Add

LEMMA StrandedRemove ==
    ASSUME Solo, Base, NEW n \in Names, phase = "serving", Stranded(n)',
           NEW h \in Handlers, Remove(h), ~RemoveRowFails(h)
    PROVE  Stranded(n)
<1> USE DEF Base
<1> h \in Threads
    BY ThreadsType
<1>1. ASSUME NEW m \in Names, RemoveEntry(h, m) PROVE Stranded(n)
    <2>1. Others(h) /\ Settling(h)' /\ local'[h].name = m
        BY <1>1, BecomeOthers, AtFields DEF RemoveEntry, Settling, RemoveLabels
    <2>2. m # n
        BY <2>1 DEF Stranded, Settling
    <2>3. endpoint'[n] = endpoint[n]
        BY <1>1, <2>2 DEF RemoveEntry, Uninstall, Install, TypeOK
    <2>4. ~Settling(h)
        BY <1>1, IdlePc DEF RemoveEntry, Settling, RemoveLabels
    <2> QED
        BY <1>1, <2>1, <2>3, <2>4, StrandedKept DEF RemoveEntry
<1>2. CASE RemoveClose(h)
    <2>1. Others(h) /\ Settling(h)' /\ local'[h].name = local[h].name
        BY <1>2, BecomeOthers, AtFields DEF RemoveClose, Settling, RemoveLabels
    <2> QED
        BY <1>2, <2>1, StrandedKept DEF RemoveClose, indexVars
\* The row goes with the handler.
<1>3. CASE RemoveRow(h)
    <2>1. Others(h)
        BY <1>3, BecomeOthers DEF RemoveRow
    <2>2. local[h].name # n /\ db'[n] = db[n]
        BY <1>3 DEF RemoveRow, DeleteServer, Stranded, TypeOK
    <2> QED
        BY <1>3, <2>1, <2>2, StrandedKept DEF RemoveRow, indexVars
<1> QED
    BY <1>1, <1>2, <1>3 DEF Remove

\* With one process and no watcher the only step of a serving process after
\* which a row has neither an entry nor a request that is about to settle it
\* is a Remove whose DELETE fails: for any number of handlers and names, two
\* requests that meet never leave one behind.
THEOREM StrandedOnlyByFailureHolds ==
    ASSUME Solo PROVE Spec => StrandedOnlyByFailure
<1> DEFINE Only == \A n \in Names :
                     phase = "serving" /\ ~Stranded(n) /\ Stranded(n)'
                        => \E h \in Handlers : RemoveRowFails(h)
<1>1. Base /\ [Next]_vars => [Only]_vars
    <2> SUFFICES ASSUME Base, Next, NEW n \in Names,
                        phase = "serving", ~Stranded(n), Stranded(n)'
                 PROVE  \E h \in Handlers : RemoveRowFails(h)
        OBVIOUS
    <2>1. CASE LoadStep
        BY <2>1 DEF LoadStep, LoadList, LoadStub, LoadConnect, LoadDone
    <2>2. ASSUME NEW h \in Handlers, Add(h) PROVE FALSE
        BY <2>2, StrandedAdd
    <2>3. ASSUME NEW h \in Handlers, Remove(h) PROVE RemoveRowFails(h)
        BY <2>3, StrandedRemove
    <2>4. ASSUME NEW h \in Handlers, CallTool(h) PROVE FALSE
        <3>1. Others(h) /\ ~Settling(h)
            BY <2>4, ThreadsType, BecomeOthers, IdlePc
               DEF Base, CallTool, CallStart, CallEnd, Settling, RemoveLabels
        <3>2. UNCHANGED <<db, endpoint>>
            BY <2>4 DEF CallTool, CallStart, CallEnd, indexVars
        <3> QED
            BY <3>1, <3>2, StrandedKept
    <2>5. CASE Restart
        BY <2>5 DEF Restart, Stranded
    <2> QED
        BY <2>1, <2>2, <2>3, <2>4, <2>5 DEF Next, Solo
<1> QED
    BY <1>1, BaseHolds, PTL DEF Spec, StrandedOnlyByFailure

-----------------------------------------------------------------------------
(* What one tick does when nobody disturbs it: the safety half of          *)
(* NamesConverge.                                                          *)

\* What is left of the tick of w is what the index lacks, and what it has
\* too much.
Halfway(w) ==
    LET pc == local[w].pc
    IN  /\ pc = "diff" => seen = Rows
        /\ pc = "work" => added = Rows \ Registered
        /\ pc \in {"w_list", "w_cache", "w_install"} =>
              /\ added \cup {local[w].name} = Rows \ Registered
              /\ local[w].name \notin added
        /\ pc = "w_close" => added = {} /\ Rows \subseteq Registered
        /\ pc \in TickLabels \ {"diff"} => removed = Registered \ Rows

\* A server that is put in is one of those that were missing, and nobody
\* else can have put it in meanwhile.
LEMMA HalfwayStep ==
    ASSUME Base, NEW w \in Watchers, Halfway(w), [TickOk(w)]_vars
    PROVE  Halfway(w)'
<1> USE DEF Base
<1> w \in Threads
    BY ThreadsType
<1>0. UNCHANGED db
    BY DEF TickOk, TickList, TickDiff, TickConnect, TickListed, TickCache, TickInstall, TickBackOff,
           TickDrop, TickClose, TickEnd, UpsertTools, StoreError, storeVars, vars
<1>1. Rows' = Rows
    BY <1>0 DEF Rows
<1>2. ASSUME UNCHANGED endpoint PROVE Registered' = Registered
    BY <1>2 DEF Registered
<1>3. CASE TickList(w)
    BY <1>1, <1>3, BecomeOthers, AtFields DEF TickList, Halfway, TickLabels
<1>4. CASE TickDiff(w)
    BY <1>1, <1>2, <1>4, GotoOthers DEF TickDiff, Halfway, TickLabels, indexVars
<1>5. ASSUME NEW n \in Names, TickConnect(w, n) PROVE Halfway(w)'
    <2>1. local'[w].pc = "w_list" /\ local'[w].name = n
        BY <1>5, BecomeOthers, AtFields DEF TickConnect
    <2> QED
        BY <1>1, <1>2, <1>5, <2>1 DEF TickConnect, Halfway, TickLabels, indexVars
<1>6. CASE TickListed(w) \/ TickCache(w)
    BY <1>1, <1>2, <1>6, GotoOthers DEF TickListed, TickCache, Halfway, TickLabels, tickVars, indexVars
<1>7. CASE TickInstall(w)
    <2>1. local[w].name \in Names /\ local[w].cfg # None
        BY <1>7, NoneIsNoConfig DEF TickInstall, Labelled
    <2>2. Registered' = Registered \cup {local[w].name}
        BY <1>7, <2>1 DEF TickInstall, Install, Registered, TypeOK
    <2>3. local'[w].pc = "work"
        BY <1>7, BecomeOthers, IdlePc DEF TickInstall
    <2>4. added \cup {local[w].name} = Rows \ Registered /\ removed = Registered \ Rows
        BY <1>7 DEF TickInstall, Halfway, TickLabels
    <2>5. local[w].name \notin added
        BY <1>7 DEF TickInstall, Halfway
    <2> QED
        BY <1>1, <1>7, <2>2, <2>3, <2>4, <2>5 DEF TickInstall, Halfway, TickLabels, tickVars
<1>8. CASE TickBackOff(w)
    BY <1>8 DEF TickBackOff, Halfway
<1>9. ASSUME NEW n \in Names, TickDrop(w, n) PROVE Halfway(w)'
    <2>1. n \in Registered /\ n \notin Rows /\ Rows \subseteq Registered
        BY <1>9 DEF TickDrop, Halfway, TickLabels
    <2>2. Registered' = Registered \ {n}
        BY <1>9, <2>1 DEF TickDrop, Uninstall, Install, Registered, TypeOK
    <2>3. local'[w].pc \in {"work", "w_close"}
        BY <1>9, <2>1, BecomeOthers, AtFields DEF TickDrop
    <2> QED
        BY <1>1, <1>9, <2>1, <2>2, <2>3 DEF TickDrop, Halfway, TickLabels
<1>10. CASE TickClose(w)
    BY <1>1, <1>2, <1>10, BecomeOthers, IdlePc
       DEF TickClose, Abandon, Halfway, TickLabels, tickVars, indexVars
<1>11. CASE TickEnd(w)
    BY <1>11, BecomeOthers, IdlePc DEF TickEnd, Halfway, TickLabels
<1>12. CASE UNCHANGED vars
    BY <1>12 DEF vars, Halfway, Rows, Registered
<1> QED
    BY <1>3, <1>4, <1>5, <1>6, <1>7, <1>8, <1>9, <1>10, <1>11, <1>12 DEF TickOk

\* "applies the diff to the in-memory registry": from whatever state
\* requests, other processes and failures have left behind by the end of a
\* tick, if then Load and the watcher alone act and nothing they call fails,
\* which is what NamesConverge waits for, at the end of every tick the index
\* has the names in the store and no other.
THEOREM TickSettles ==
    ASSUME NEW w \in Watchers
    PROVE  Spec => [](local[w] = Idle /\ [][LoadStep \/ \E v \in Watchers : TickOk(v)]_vars
                        => [][TickEnd(w) => Registered = Rows]_vars)
<1> DEFINE Alone == LoadStep \/ \E v \in Watchers : TickOk(v)
<1>1. local[w] = Idle => Halfway(w)
    BY IdlePc DEF Halfway, TickLabels
<1>2. Base /\ [Alone]_vars => Base'
    <2>1. Alone => Next
        BY DEF Next, tickOnce
    <2> QED
        BY <2>1, TypeStep, LabelledStep, IndexedStep, StartingStep DEF Base
<1>3. Base /\ Halfway(w) /\ [Alone]_vars => Halfway(w)'
    <2> SUFFICES ASSUME Base, Halfway(w), [Alone]_vars PROVE Halfway(w)'
        OBVIOUS
    <2>1. CASE LoadStep
        <3>1. phase # "serving" /\ local' = local
            BY <2>1 DEF LoadStep, LoadList, LoadStub, LoadConnect, LoadDone
        <3>2. local'[w].pc = "idle"
            BY <3>1, IdlePc DEF Base, Starting, Procs
        <3> QED
            BY <3>2 DEF Halfway, TickLabels
    <2> QED
        BY <2>1, HalfwayStep, OneWatcher
<1>4. Halfway(w) => [TickEnd(w) => Registered = Rows]_vars
    BY DEF Halfway, TickEnd, TickLabels
<1>5. Base /\ local[w] = Idle /\ [][Alone]_vars => [][TickEnd(w) => Registered = Rows]_vars
    BY <1>1, <1>2, <1>3, <1>4, PTL
<1> QED
    BY <1>5, BaseHolds, PTL

=============================================================================
