-------------------------------- MODULE Pool --------------------------------
(***************************************************************************)
(* The pool of JavaScript runtimes of internal/executor/pool.go, and the   *)
(* executions that use it as Execute does: Acquire, run one script, and    *)
(* Release if and only if Acquire succeeded.                               *)
(*                                                                         *)
(* The pool is a buffered channel of Size slots.  A slot is a warm runtime *)
(* or nil, where a replacement could not be created.  Which of the slots a *)
(* receive yields matters to no property, so the channel is the set of the *)
(* runtimes in it and the number of the nils.                              *)
(***************************************************************************)
EXTENDS Naturals, FiniteSets

CONSTANTS
    Callers,    \* executions
    Runtimes,   \* runtime objects
    Size,       \* --pool-size
    None        \* no runtime

ASSUME SizeIsNat == Size \in Nat
ASSUME CallersAreFinite == IsFiniteSet(Callers)
ASSUME NoneIsNoRuntime == None \notin Runtimes

VARIABLES
    phase,  \* warming (NewPool), open, closed (Close), failed (NewPool)
    idle,   \* runtimes in the channel
    nils,   \* nil slots in the channel
    live,   \* runtimes created and not closed
    used,   \* live runtimes that a script has been handed
    pc,     \* where each execution is
    rt      \* the runtime it has

vars == <<phase, idle, nils, live, used, pc, rt>>

Slots == Cardinality(idle) + nils

\* From the receive in Acquire to the send that gives the slot back.
HoldLabels == {"making", "restoring", "running", "replacing", "putting"}
Labels == {"idle", "waiting", "panicked"} \cup HoldLabels

Holders == {c \in Callers : pc[c] \in HoldLabels}

TypeOK ==
    /\ phase \in {"warming", "open", "closed", "failed"}
    /\ idle \subseteq Runtimes
    /\ nils \in Nat
    /\ live \subseteq Runtimes
    /\ used \subseteq Runtimes
    /\ pc \in [Callers -> Labels]
    /\ rt \in [Callers -> Runtimes \cup {None}]

Init ==
    /\ phase = "warming"
    /\ idle = {} /\ nils = 0 /\ live = {} /\ used = {}
    /\ pc = [c \in Callers |-> "idle"]
    /\ rt = [c \in Callers |-> None]

At(c, l) == pc' = [pc EXCEPT ![c] = l]

\* A new object.  The identity of one that was closed may be taken again.
Fresh(r) == r \in Runtimes /\ r \notin live

-----------------------------------------------------------------------------
(* NewPool fills the channel before anybody can use the pool.              *)

Warm ==
    /\ phase = "warming" /\ Slots < Size
    /\ \E r \in Runtimes :
          /\ Fresh(r)
          /\ idle' = idle \cup {r}
          /\ live' = live \cup {r}
    /\ UNCHANGED <<phase, nils, used, pc, rt>>

\* A runtime cannot be created: close what there is, and the process ends.
WarmFails ==
    /\ phase = "warming" /\ Slots < Size
    /\ phase' = "failed"
    /\ live' = live \ idle
    /\ idle' = {}
    /\ UNCHANGED <<nils, used, pc, rt>>

WarmDone ==
    /\ phase = "warming" /\ Slots = Size
    /\ phase' = "open"
    /\ UNCHANGED <<idle, nils, live, used, pc, rt>>

-----------------------------------------------------------------------------
(* Acquire.                                                                *)

\* Also after Close, by a request that was on its way when the server
\* returned.
Request(c) ==
    /\ phase \in {"open", "closed"} /\ pc[c] = "idle"
    /\ At(c, "waiting")
    /\ UNCHANGED <<phase, idle, nils, live, used, rt>>

\* Mutants: nil is taken for an empty channel's zero value; the runtime
\* that warmed the slot is left open.
ReceiveAnyway(c) ==
    /\ pc[c] = "waiting" /\ phase = "open"
    /\ \/ \E r \in idle : idle' = idle \ {r} /\ live' = live \ {r} /\ UNCHANGED nils
       \/ idle = {} /\ nils' = nils - 1 /\ UNCHANGED <<idle, live>>
    /\ At(c, "making")
    /\ UNCHANGED <<phase, used, rt>>

ReceiveOpen(c) ==
    /\ pc[c] = "waiting" /\ phase = "open"
    /\ \/ \E r \in idle : idle' = idle \ {r} /\ UNCHANGED nils
       \/ nils > 0 /\ nils' = nils - 1 /\ UNCHANGED idle
    /\ At(c, "making")
    /\ UNCHANGED <<phase, live, used, rt>>

\* Take a slot, and close the runtime that warmed it.
Receive(c) ==
    /\ pc[c] = "waiting" /\ phase = "open"
    /\ \/ \E r \in idle : idle' = idle \ {r} /\ live' = live \ {r} /\ UNCHANGED nils
       \/ nils > 0 /\ nils' = nils - 1 /\ UNCHANGED <<idle, live>>
    /\ At(c, "making")
    /\ UNCHANGED <<phase, used, rt>>

\* A closed channel yields nil to everybody, at once.
ReceiveClosed(c) ==
    /\ pc[c] = "waiting" /\ phase = "closed"
    /\ At(c, "making")
    /\ UNCHANGED <<phase, idle, nils, live, used, rt>>

\* The context is done.
Cancel(c) ==
    /\ pc[c] = "waiting"
    /\ At(c, "idle")
    /\ UNCHANGED <<phase, idle, nils, live, used, rt>>

\* The runtime of this execution; the script gets it.
Make(c) ==
    /\ pc[c] = "making"
    /\ \E r \in Runtimes :
          /\ Fresh(r)
          /\ live' = live \cup {r}
          /\ used' = used \cup {r}
          /\ rt' = [rt EXCEPT ![c] = r]
    /\ At(c, "running")
    /\ UNCHANGED <<phase, idle, nils>>

\* Mutant: the error return forgets the slot.
MakeFailsLosing(c) ==
    /\ pc[c] = "making"
    /\ At(c, "idle")
    /\ UNCHANGED <<phase, idle, nils, live, used, rt>>

MakeFails(c) ==
    /\ pc[c] = "making"
    /\ At(c, "restoring")
    /\ UNCHANGED <<phase, idle, nils, live, used, rt>>

\* Mutant: Execute defers Release before it looks at the error of Acquire.
RestoreAndRelease(c) ==
    /\ pc[c] = "restoring" /\ phase = "open"
    /\ Slots < Size
    /\ nils' = nils + 1
    /\ At(c, "replacing")
    /\ UNCHANGED <<phase, idle, live, used, rt>>

\* p.pool <- nil.  This send has no default: it waits for room.
Restore(c) ==
    /\ pc[c] = "restoring" /\ phase = "open"
    /\ Slots < Size
    /\ nils' = nils + 1
    /\ At(c, "idle")
    /\ UNCHANGED <<phase, idle, live, used, rt>>

-----------------------------------------------------------------------------
(* Release, deferred by Execute.                                           *)

\* Mutant: the runtime goes back to the pool itself.
FinishReusing(c) ==
    /\ pc[c] = "running"
    /\ At(c, "putting")
    /\ UNCHANGED <<phase, idle, nils, live, used, rt>>

Finish(c) ==
    /\ pc[c] = "running"
    /\ live' = live \ {rt[c]}
    /\ used' = used \ {rt[c]}
    /\ rt' = [rt EXCEPT ![c] = None]
    /\ At(c, "replacing")
    /\ UNCHANGED <<phase, idle, nils>>

Replace(c) ==
    /\ pc[c] = "replacing"
    /\ \E r \in Runtimes :
          /\ Fresh(r)
          /\ live' = live \cup {r}
          /\ rt' = [rt EXCEPT ![c] = r]
    /\ At(c, "putting")
    /\ UNCHANGED <<phase, idle, nils, used>>

ReplaceFails(c) ==
    /\ pc[c] = "replacing"
    /\ At(c, "putting")
    /\ UNCHANGED <<phase, idle, nils, live, used, rt>>

\* The send of the replacement, or of nil.  "Pool is full; should not occur
\* with correct Acquire/Release pairing": then the replacement is closed.
Put(c) ==
    /\ pc[c] = "putting" /\ phase = "open"
    /\ IF Slots < Size
          THEN /\ idle' = idle \cup ({rt[c]} \ {None})
               /\ nils' = IF rt[c] = None THEN nils + 1 ELSE nils
               /\ UNCHANGED live
          ELSE /\ live' = live \ {rt[c]}
               /\ UNCHANGED <<idle, nils>>
    /\ rt' = [rt EXCEPT ![c] = None]
    /\ At(c, "idle")
    /\ UNCHANGED <<phase, used>>

\* A send on a closed channel panics.
SendOnClosed(c) ==
    /\ pc[c] \in {"restoring", "putting"} /\ phase = "closed"
    /\ At(c, "panicked")
    /\ UNCHANGED <<phase, idle, nils, live, used, rt>>

-----------------------------------------------------------------------------
\* Close, called by runServe when the server has returned.  ServeStdio
\* returns between two requests; ListenAndServe returns as soon as Shutdown
\* is called, whatever requests are still running.
Close ==
    /\ phase = "open"
    /\ phase' = "closed"
    /\ live' = live \ idle
    /\ idle' = {} /\ nils' = 0
    /\ UNCHANGED <<used, pc, rt>>

Acquire(c) ==
    \/ Receive(c) \/ ReceiveClosed(c) \/ Cancel(c)
    \/ Make(c) \/ MakeFails(c) \/ Restore(c)

Release(c) ==
    \/ Finish(c) \/ Replace(c) \/ ReplaceFails(c)
    \/ Put(c) \/ SendOnClosed(c)

Next ==
    \/ Warm \/ WarmFails \/ WarmDone \/ Close
    \/ \E c \in Callers : Request(c) \/ Acquire(c) \/ Release(c)

Spec == Init /\ [][Next]_vars

\* A script ends, at the latest when its time is up, and the calls into the
\* runtime library return.  A blocked receiver is served in the order of
\* arrival: a slot that comes free again and again reaches it.
FairSpec ==
    /\ Spec
    /\ \A c \in Callers :
          /\ SF_vars(Receive(c))
          /\ WF_vars(ReceiveClosed(c))
          /\ WF_vars(Make(c) \/ MakeFails(c) \/ Restore(c))
          /\ WF_vars(Release(c))

-----------------------------------------------------------------------------
\* No slot is lost and none is invented: not by a runtime that cannot be
\* created, in Acquire or in Release, nor by a context that ends while a
\* caller waits.
SlotsConserved == phase = "open" => Slots + Cardinality(Holders) = Size

\* The send in Acquire never blocks and the default branches in Release,
\* "should not occur", do not.
NeverFull ==
    phase = "open" =>
       \A c \in Callers : pc[c] \in {"restoring", "putting"} => Slots < Size

\* Every runtime that exists is in the channel or with one execution, so
\* closing those two closes all, and no script shares one.
RuntimesAccounted ==
    /\ live = idle \cup ({rt[c] : c \in Callers} \ {None})
    /\ \A c \in Callers : rt[c] \notin idle
    /\ \A c, d \in Callers : c # d /\ rt[c] # None => rt[c] # rt[d]

\* "Runtimes are never reused across executions": none that a script has
\* had is in the channel, or about to be put there.
NeverReused ==
    \A r \in used : r \notin idle /\ \A c \in Callers : rt[c] = r => pc[c] = "running"

\* "At most size executions run in parallel", until the pool is closed, and
\* so at most so many runtimes exist.
Semaphore == INSTANCE Semaphore WITH
    open <- phase # "closed",
    waiting <- IF phase = "closed" THEN {} ELSE {c \in Callers : pc[c] = "waiting"},
    holding <- IF phase = "closed" THEN {} ELSE Holders

ParallelLimit == Semaphore!Spec

\* "additional callers block in Acquire until a slot becomes free or their
\* context is cancelled": nobody waits for ever, although creating a runtime
\* may fail any number of times.
Served == \A c \in Callers : pc[c] = "waiting" ~> pc[c] # "waiting"

\* "Close must not be called concurrently with Acquire or Release."
CloseIsAlone ==
    [][Close => \A c \in Callers : pc[c] \notin HoldLabels \cup {"waiting"}]_vars

=============================================================================
