--------------------------- MODULE ExecutorProofs ---------------------------
(***************************************************************************)
(* Theorems about the executor: first Pool, for any number of executions   *)
(* and any size, then Bridge with Shapes, for any listing, any names, any  *)
(* payloads and any number of calls.                                       *)
(***************************************************************************)
EXTENDS Pool, Shapes, FiniteSetTheorems, SequenceTheorems, TLAPS

LEMMA LabelsAre ==
    Labels = {"idle", "waiting", "panicked", "making", "restoring", "running", "replacing", "putting"}
BY DEF Labels, HoldLabels

LEMMA AtOthers ==
    ASSUME TypeOK, NEW c \in Callers, NEW l \in Labels, At(c, l)
    PROVE  /\ pc' \in [Callers -> Labels]
           /\ \A d \in Callers : pc'[d] = IF d = c THEN l ELSE pc[d]
BY DEF At, TypeOK

\* The shape of the state is kept by every step.
LEMMA PoolTypeStep == TypeOK /\ [Next]_vars => TypeOK'
<1> SUFFICES ASSUME TypeOK, [Next]_vars PROVE TypeOK'
    OBVIOUS
<1>1. CASE Warm \/ WarmFails \/ WarmDone \/ Close
    BY <1>1 DEF Warm, WarmFails, WarmDone, Close, TypeOK
<1>2. ASSUME NEW c \in Callers, Request(c) \/ Acquire(c) \/ Release(c) PROVE TypeOK'
    <2>1. pc' \in [Callers -> Labels]
        BY <1>2, AtOthers, LabelsAre
           DEF Request, Acquire, Receive, ReceiveClosed, Cancel, Make, MakeFails, Restore,
               Release, Finish, Replace, ReplaceFails, Put, SendOnClosed
    <2>2. rt' \in [Callers -> Runtimes \cup {None}]
        BY <1>2
           DEF TypeOK, Request, Acquire, Receive, ReceiveClosed, Cancel, Make, MakeFails, Restore,
               Release, Finish, Replace, ReplaceFails, Put, SendOnClosed
    <2>3. /\ phase' = phase
          /\ idle' \subseteq Runtimes /\ live' \subseteq Runtimes /\ used' \subseteq Runtimes
        BY <1>2
           DEF TypeOK, Request, Acquire, Receive, ReceiveClosed, Cancel, Make, MakeFails, Restore,
               Release, Finish, Replace, ReplaceFails, Put, SendOnClosed
    <2>4. nils' \in Nat
        BY <1>2
           DEF TypeOK, Request, Acquire, Receive, ReceiveClosed, Cancel, Make, MakeFails, Restore,
               Release, Finish, Replace, ReplaceFails, Put, SendOnClosed
    <2> QED
        BY <2>1, <2>2, <2>3, <2>4 DEF TypeOK
<1>3. CASE UNCHANGED vars
    BY <1>3 DEF vars, TypeOK
<1> QED
    BY <1>1, <1>2, <1>3 DEF Next

\* Every reachable state has the shape TypeOK gives it.
THEOREM PoolTypeCorrect == Spec => []TypeOK
<1>1. Init => TypeOK
    BY DEF Init, TypeOK, Labels
<1> QED
    BY <1>1, PoolTypeStep, PTL DEF Spec

-----------------------------------------------------------------------------
(* Runtimes.                                                               *)

\* An execution has a runtime while it runs, and the replacement from then
\* to the send.
Having ==
    \A c \in Callers :
       /\ rt[c] # None => pc[c] \in {"running", "putting", "panicked"}
       /\ pc[c] = "running" => rt[c] # None

\* RuntimesAccounted, element by element.
Accounted ==
    /\ \A r \in Runtimes : r \in live <=> r \in idle \/ \E c \in Callers : rt[c] = r
    /\ \A c \in Callers : rt[c] \notin idle
    /\ \A c, d \in Callers : c # d /\ rt[c] # None => rt[c] # rt[d]

RuntimeInv == Having /\ Accounted /\ NeverReused /\ used \subseteq live

LEMMA RuntimeStep == TypeOK /\ RuntimeInv /\ [Next]_vars => RuntimeInv'
<1> SUFFICES ASSUME TypeOK, RuntimeInv, [Next]_vars PROVE RuntimeInv'
    OBVIOUS
<1> USE NoneIsNoRuntime
<1>1. CASE Warm \/ WarmFails \/ WarmDone \/ Close
    BY <1>1 DEF Warm, WarmFails, WarmDone, Close, Fresh, RuntimeInv, Having, Accounted, NeverReused, TypeOK
<1>2. ASSUME NEW c \in Callers, NEW l \in Labels, At(c, l), pc[c] # "running",
             rt[c] = None, l # "running", UNCHANGED <<idle, live, used, rt>>
      PROVE  RuntimeInv'
    BY <1>2, AtOthers DEF RuntimeInv, Having, Accounted, NeverReused
<1>3. ASSUME NEW c \in Callers, Request(c) \/ ReceiveClosed(c) \/ Cancel(c) \/ MakeFails(c)
                                \/ Restore(c) \/ ReplaceFails(c)
      PROVE  RuntimeInv'
    BY <1>2, <1>3, LabelsAre
       DEF Request, ReceiveClosed, Cancel, MakeFails, Restore, ReplaceFails, RuntimeInv, Having
<1>4. ASSUME NEW c \in Callers, SendOnClosed(c) PROVE RuntimeInv'
    BY <1>4, AtOthers, LabelsAre DEF SendOnClosed, RuntimeInv, Having, Accounted, NeverReused
<1>5. ASSUME NEW c \in Callers, Receive(c) PROVE RuntimeInv'
    BY <1>5, AtOthers, LabelsAre DEF Receive, RuntimeInv, Having, Accounted, NeverReused, TypeOK
<1>6. ASSUME NEW c \in Callers, Make(c) PROVE RuntimeInv'
    <2>1. PICK r \in Runtimes : Fresh(r) /\ live' = live \cup {r} /\ used' = used \cup {r}
                                /\ rt' = [rt EXCEPT ![c] = r]
        BY <1>6 DEF Make
    <2>2. rt[c] = None /\ UNCHANGED idle
        BY <1>6 DEF Make, RuntimeInv, Having
    <2>3. \A d \in Callers : /\ rt'[d] = IF d = c THEN r ELSE rt[d]
                             /\ pc'[d] = IF d = c THEN "running" ELSE pc[d]
        BY <1>6, <2>1, AtOthers, LabelsAre DEF Make, TypeOK
    <2>4. Having'
        BY <2>3 DEF RuntimeInv, Having
    <2>5. Accounted'
        BY <2>1, <2>2, <2>3 DEF RuntimeInv, Accounted, Fresh
    <2>6. NeverReused' /\ (used \subseteq live)'
        BY <2>1, <2>2, <2>3 DEF RuntimeInv, NeverReused, Accounted, Fresh
    <2> QED
        BY <2>4, <2>5, <2>6 DEF RuntimeInv
<1>7. ASSUME NEW c \in Callers, Finish(c) PROVE RuntimeInv'
    <2>1. \A d \in Callers : /\ rt'[d] = IF d = c THEN None ELSE rt[d]
                             /\ pc'[d] = IF d = c THEN "replacing" ELSE pc[d]
        BY <1>7, AtOthers, LabelsAre DEF Finish, TypeOK
    <2> QED
        BY <1>7, <2>1 DEF Finish, RuntimeInv, Having, Accounted, NeverReused, TypeOK
<1>8. ASSUME NEW c \in Callers, Replace(c) PROVE RuntimeInv'
    <2>1. PICK r \in Runtimes : Fresh(r) /\ live' = live \cup {r} /\ rt' = [rt EXCEPT ![c] = r]
        BY <1>8 DEF Replace
    <2>2. rt[c] = None /\ UNCHANGED <<idle, used>>
        BY <1>8 DEF Replace, RuntimeInv, Having
    <2>3. \A d \in Callers : /\ rt'[d] = IF d = c THEN r ELSE rt[d]
                             /\ pc'[d] = IF d = c THEN "putting" ELSE pc[d]
        BY <1>8, <2>1, AtOthers, LabelsAre DEF Replace, TypeOK
    <2> QED
        BY <1>8, <2>1, <2>2, <2>3 DEF Replace, RuntimeInv, Having, Accounted, NeverReused, Fresh
<1>9. ASSUME NEW c \in Callers, Put(c) PROVE RuntimeInv'
    <2>1. \A d \in Callers : /\ rt'[d] = IF d = c THEN None ELSE rt[d]
                             /\ pc'[d] = IF d = c THEN "idle" ELSE pc[d]
        BY <1>9, AtOthers, LabelsAre DEF Put, TypeOK
    <2>2. pc[c] = "putting" /\ rt[c] \notin used /\ UNCHANGED used
        BY <1>9 DEF Put, RuntimeInv, NeverReused
    <2>3. CASE Slots < Size
        BY <1>9, <2>1, <2>2, <2>3 DEF Put, RuntimeInv, Having, Accounted, NeverReused, TypeOK
    <2>4. CASE ~(Slots < Size)
        BY <1>9, <2>1, <2>2, <2>4 DEF Put, RuntimeInv, Having, Accounted, NeverReused, TypeOK
    <2> QED
        BY <2>3, <2>4
<1>10. CASE UNCHANGED vars
    BY <1>10 DEF vars, RuntimeInv, Having, Accounted, NeverReused
<1> QED
    BY <1>1, <1>3, <1>4, <1>5, <1>6, <1>7, <1>8, <1>9, <1>10 DEF Next, Acquire, Release

LEMMA RuntimeInvHolds == Spec => []RuntimeInv
<1>1. Init => RuntimeInv
    BY NoneIsNoRuntime DEF Init, RuntimeInv, Having, Accounted, NeverReused
<1> QED
    BY <1>1, PoolTypeCorrect, RuntimeStep, PTL DEF Spec

\* A runtime is in the channel, or with one execution, or closed.
THEOREM RuntimesAccountedHolds == Spec => []RuntimesAccounted
<1>1. TypeOK /\ RuntimeInv => RuntimesAccounted
    BY NoneIsNoRuntime DEF TypeOK, RuntimeInv, Accounted, RuntimesAccounted
<1> QED
    BY <1>1, PoolTypeCorrect, RuntimeInvHolds, PTL

\* No runtime that a script has had is handed out again, also when the pool
\* is closed under running executions.
THEOREM NeverReusedHolds == Spec => []NeverReused
<1>1. RuntimeInv => NeverReused
    BY DEF RuntimeInv
<1> QED
    BY <1>1, RuntimeInvHolds, PTL

-----------------------------------------------------------------------------
(* Slots.                                                                  *)

SlotInv ==
    /\ IsFiniteSet(idle)
    /\ phase \in {"warming", "failed"} => Holders = {} /\ nils = 0 /\ Slots <= Size
    /\ phase = "warming" => \A c \in Callers : pc[c] = "idle"
    /\ SlotsConserved

LEMMA HoldersFinite == IsFiniteSet(Holders) /\ Cardinality(Holders) \in Nat
BY CallersAreFinite, FS_Subset, FS_CardinalityType DEF Holders

LEMMA HoldersGain ==
    ASSUME TypeOK, NEW c \in Callers, NEW l \in HoldLabels, At(c, l), pc[c] \notin HoldLabels
    PROVE  Holders' = Holders \cup {c} /\ Cardinality(Holders') = Cardinality(Holders) + 1
<1>1. Holders' = Holders \cup {c} /\ c \notin Holders
    BY DEF Holders, At, TypeOK
<1> QED
    BY <1>1, HoldersFinite, FS_AddElement

LEMMA HoldersLose ==
    ASSUME TypeOK, NEW c \in Callers, NEW l \in Labels \ HoldLabels, At(c, l), pc[c] \in HoldLabels
    PROVE  Holders' = Holders \ {c} /\ Cardinality(Holders') = Cardinality(Holders) - 1
<1>1. Holders' = Holders \ {c} /\ c \in Holders
    BY DEF Holders, At, TypeOK
<1> QED
    BY <1>1, HoldersFinite, FS_RemoveElement

LEMMA HoldersKeep ==
    ASSUME TypeOK, NEW c \in Callers, NEW l \in Labels, At(c, l),
           pc[c] \in HoldLabels <=> l \in HoldLabels
    PROVE  Holders' = Holders
BY DEF Holders, At, TypeOK

LEMMA HoldLabelsAre ==
    /\ HoldLabels = {"making", "restoring", "running", "replacing", "putting"}
    /\ Labels \ HoldLabels = {"idle", "waiting", "panicked"}
BY DEF Labels, HoldLabels

LEMMA SlotStep == TypeOK /\ RuntimeInv /\ SlotInv /\ [Next]_vars => SlotInv'
<1> SUFFICES ASSUME TypeOK, RuntimeInv, SlotInv, [Next]_vars PROVE SlotInv'
    OBVIOUS
<1> USE SizeIsNat
<1>0. /\ IsFiniteSet(idle) /\ Cardinality(idle) \in Nat /\ nils \in Nat
      /\ IsFiniteSet(Holders) /\ Cardinality(Holders) \in Nat
    BY HoldersFinite, FS_CardinalityType DEF SlotInv, TypeOK
<1>1. CASE Warm
    <2>1. PICK r \in Runtimes : Fresh(r) /\ idle' = idle \cup {r}
        BY <1>1 DEF Warm
    <2>2. r \notin idle
        BY <2>1 DEF Fresh, RuntimeInv, Accounted
    <2>3. IsFiniteSet(idle') /\ Cardinality(idle') = Cardinality(idle) + 1
        BY <1>0, <2>1, <2>2, FS_AddElement
    <2> QED
        BY <1>0, <1>1, <2>3 DEF Warm, SlotInv, Slots, Holders, SlotsConserved
<1>2. CASE WarmFails
    BY <1>0, <1>2, FS_EmptySet DEF WarmFails, SlotInv, Slots, Holders, SlotsConserved
<1>3. CASE WarmDone
    BY <1>0, <1>3, FS_EmptySet DEF WarmDone, SlotInv, Slots, Holders, SlotsConserved
<1>4. CASE Close
    BY <1>4, FS_EmptySet DEF Close, SlotInv, SlotsConserved
<1>5. ASSUME phase # "warming", UNCHANGED <<phase, idle, nils, Holders>> PROVE SlotInv'
    BY <1>5 DEF SlotInv, SlotsConserved, Slots
<1>6. ASSUME NEW c \in Callers, Request(c) \/ Cancel(c) \/ Make(c) \/ MakeFails(c)
                                \/ Finish(c) \/ Replace(c) \/ ReplaceFails(c)
      PROVE  SlotInv'
    <2>1. Holders' = Holders
        <3>1. PICK l \in Labels : At(c, l) /\ (pc[c] \in HoldLabels <=> l \in HoldLabels)
            <4>1. CASE Request(c)
                BY <4>1, HoldLabelsAre DEF Request, Labels
            <4>2. CASE Cancel(c)
                BY <4>2, HoldLabelsAre DEF Cancel, Labels
            <4>3. CASE Make(c) \/ MakeFails(c)
                BY <4>3, HoldLabelsAre DEF Make, MakeFails, Labels
            <4>4. CASE Finish(c) \/ Replace(c) \/ ReplaceFails(c)
                BY <4>4, HoldLabelsAre DEF Finish, Replace, ReplaceFails, Labels
            <4> QED
                BY <1>6, <4>1, <4>2, <4>3, <4>4
        <3> QED
            BY <3>1, HoldersKeep
    <2>2. phase # "warming"
        BY <1>6 DEF Request, Cancel, Make, MakeFails, Finish, Replace, ReplaceFails, SlotInv
    <2> QED
        BY <1>5, <1>6, <2>1, <2>2 DEF Request, Cancel, Make, MakeFails, Finish, Replace, ReplaceFails
<1>7. ASSUME NEW c \in Callers, ReceiveClosed(c) \/ SendOnClosed(c) PROVE SlotInv'
    BY <1>7 DEF ReceiveClosed, SendOnClosed, SlotInv, SlotsConserved
<1>8. ASSUME NEW c \in Callers, Receive(c) PROVE SlotInv'
    <2>1. Cardinality(Holders') = Cardinality(Holders) + 1
        BY <1>8, HoldersGain, HoldLabelsAre DEF Receive
    <2>2. IsFiniteSet(idle') /\ Slots' = Slots - 1
        <3>1. ASSUME NEW r \in idle, idle' = idle \ {r}, UNCHANGED nils
              PROVE  IsFiniteSet(idle') /\ Slots' = Slots - 1
            <4>1. IsFiniteSet(idle') /\ Cardinality(idle') = Cardinality(idle) - 1
                BY <1>0, <3>1, FS_RemoveElement
            <4> QED
                BY <1>0, <3>1, <4>1 DEF Slots
        <3>2. CASE nils > 0 /\ nils' = nils - 1 /\ UNCHANGED idle
            BY <1>0, <3>2 DEF Slots
        <3> QED
            BY <1>8, <3>1, <3>2 DEF Receive
    <2>3. Slots \in Int
        BY <1>0 DEF Slots
    <2> QED
        BY <1>0, <1>8, <2>1, <2>2, <2>3 DEF Receive, SlotInv, SlotsConserved
<1>9. ASSUME NEW c \in Callers, Restore(c) PROVE SlotInv'
    <2>1. Cardinality(Holders') = Cardinality(Holders) - 1
        BY <1>9, HoldersLose, HoldLabelsAre DEF Restore
    <2> QED
        BY <1>0, <1>9, <2>1 DEF Restore, SlotInv, SlotsConserved, Slots
<1>10. ASSUME NEW c \in Callers, Put(c) PROVE SlotInv'
    <2>1. c \in Holders /\ Cardinality(Holders') = Cardinality(Holders) - 1
        BY <1>10, HoldersLose, HoldLabelsAre DEF Put, Holders
    <2>2. Cardinality(Holders) > 0
        BY <1>0, <2>1, FS_EmptySet
    <2>3. Slots < Size
        BY <1>0, <1>10, <2>2 DEF Put, SlotInv, SlotsConserved, Slots
    <2>4. IsFiniteSet(idle') /\ Slots' = Slots + 1
        <3>1. CASE rt[c] = None
            <4>1. idle' = idle /\ nils' = nils + 1
                BY <1>10, <2>3, <3>1 DEF Put
            <4> QED
                BY <1>0, <4>1 DEF Slots
        <3>2. CASE rt[c] # None
            <4>1. idle' = idle \cup {rt[c]} /\ nils' = nils /\ rt[c] \notin idle
                BY <1>10, <2>3, <3>2 DEF Put, RuntimeInv, Accounted
            <4>2. IsFiniteSet(idle') /\ Cardinality(idle') = Cardinality(idle) + 1
                BY <1>0, <4>1, FS_AddElement
            <4> QED
                BY <1>0, <4>1, <4>2 DEF Slots
        <3> QED
            BY <3>1, <3>2
    <2>5. Slots \in Int
        BY <1>0 DEF Slots
    <2> QED
        BY <1>0, <1>10, <2>1, <2>4, <2>5 DEF Put, SlotInv, SlotsConserved
<1>11. CASE UNCHANGED vars
    BY <1>11 DEF vars, SlotInv, SlotsConserved, Slots, Holders
<1> QED
    BY <1>1, <1>2, <1>3, <1>4, <1>6, <1>7, <1>8, <1>9, <1>10, <1>11 DEF Next, Acquire, Release

LEMMA SlotInvHolds == Spec => []SlotInv
<1>1. Init => SlotInv
    BY SizeIsNat, FS_EmptySet, HoldLabelsAre DEF Init, SlotInv, SlotsConserved, Slots, Holders
<1> QED
    BY <1>1, PoolTypeCorrect, RuntimeInvHolds, SlotStep, PTL DEF Spec

\* Slots in the channel and slots with executions add up to the size of the
\* pool, whichever runtimes cannot be created and whoever gives up waiting.
THEOREM SlotsConservedHolds == Spec => []SlotsConserved
<1>1. SlotInv => SlotsConserved
    BY DEF SlotInv
<1> QED
    BY <1>1, SlotInvHolds, PTL

\* So there is room for every slot that comes back: what the comments in
\* Release say should not occur does not.
THEOREM NeverFullHolds == Spec => []NeverFull
<1>1. TypeOK /\ SlotInv => NeverFull
    <2> SUFFICES ASSUME TypeOK, SlotInv, phase = "open",
                        NEW c \in Callers, pc[c] \in {"restoring", "putting"}
                 PROVE  Slots < Size
        BY DEF NeverFull
    <2>1. c \in Holders
        BY DEF Holders, HoldLabels
    <2>2. Cardinality(Holders) > 0
        BY <2>1, HoldersFinite, FS_EmptySet
    <2>3. Slots \in Int
        BY FS_CardinalityType DEF Slots, SlotInv, TypeOK
    <2> QED
        BY <2>2, <2>3, HoldersFinite, SizeIsNat DEF SlotInv, SlotsConserved
<1> QED
    BY <1>1, PoolTypeCorrect, SlotInvHolds, PTL

-----------------------------------------------------------------------------
(* What follows for resources and for those who wait.                      *)

\* Only a send on a closed channel panics.
PanicsAfterClose == \A c \in Callers : pc[c] = "panicked" => phase = "closed"

LEMMA PanicsAfterCloseHolds == Spec => []PanicsAfterClose
<1>1. Init => PanicsAfterClose
    BY DEF Init, PanicsAfterClose
<1>2. TypeOK /\ PanicsAfterClose /\ [Next]_vars => PanicsAfterClose'
    <2> SUFFICES ASSUME TypeOK, PanicsAfterClose, [Next]_vars PROVE PanicsAfterClose'
        OBVIOUS
    <2>1. CASE Warm \/ WarmFails \/ WarmDone \/ Close \/ UNCHANGED vars
        BY <2>1 DEF Warm, WarmFails, WarmDone, Close, vars, PanicsAfterClose
    <2>2. ASSUME NEW c \in Callers, SendOnClosed(c) PROVE PanicsAfterClose'
        BY <2>2 DEF SendOnClosed, PanicsAfterClose
    <2>3. ASSUME NEW c \in Callers, NEW l \in Labels \ {"panicked"}, At(c, l), UNCHANGED phase
          PROVE  PanicsAfterClose'
        BY <2>3 DEF At, PanicsAfterClose, TypeOK
    <2>4. ASSUME NEW c \in Callers, Request(c) \/ Acquire(c) \/ (Release(c) /\ ~SendOnClosed(c))
          PROVE  PanicsAfterClose'
        BY <2>3, <2>4, LabelsAre
           DEF Request, Acquire, Receive, ReceiveClosed, Cancel, Make, MakeFails, Restore,
               Release, Finish, Replace, ReplaceFails, Put
    <2> QED
        BY <2>1, <2>2, <2>4 DEF Next
<1> QED
    BY <1>1, <1>2, PoolTypeCorrect, PTL DEF Spec

\* "At most size executions run in parallel", in memory: until the pool is
\* closed no more than Size runtimes exist, those in the channel, those that
\* run a script and the replacements under way together.
LiveBounded ==
    phase # "closed" => IsFiniteSet(live) /\ Cardinality(live) <= Size

\* An execution that has a runtime holds the slot for it.
THEOREM LiveBoundedHolds == Spec => []LiveBounded
<1>1. TypeOK /\ RuntimeInv /\ SlotInv /\ PanicsAfterClose => LiveBounded
    <2> SUFFICES ASSUME TypeOK, RuntimeInv, SlotInv, PanicsAfterClose, phase # "closed"
                 PROVE  IsFiniteSet(live) /\ Cardinality(live) <= Size
        BY DEF LiveBounded
    <2> DEFINE Owners == {c \in Holders : rt[c] # None}
               theirs == {rt[c] : c \in Owners}
               runtime == [c \in Owners |-> rt[c]]
    <2>1. live = idle \cup theirs
        <3>1. \A c \in Callers : rt[c] # None => c \in Owners
            BY DEF RuntimeInv, Having, PanicsAfterClose, Holders, HoldLabels
        <3>2. \A c \in Owners : c \in Callers /\ rt[c] \in Runtimes
            BY DEF Holders, TypeOK
        <3> QED
            BY <3>1, <3>2, NoneIsNoRuntime DEF RuntimeInv, Accounted, TypeOK
    <2>2. IsFiniteSet(Owners) /\ Cardinality(Owners) <= Cardinality(Holders)
        BY HoldersFinite, FS_Subset
    <2>3. runtime \in Surjection(Owners, theirs)
        BY DEF Surjection
    <2>4. IsFiniteSet(theirs) /\ Cardinality(theirs) <= Cardinality(Owners)
        BY <2>2, <2>3, FS_Surjection
    <2>5. idle \cap theirs = {}
        BY DEF RuntimeInv, Accounted, Holders
    <2>6. IsFiniteSet(idle)
        BY DEF SlotInv
    <2>7. /\ IsFiniteSet(live)
          /\ Cardinality(live) = Cardinality(idle) + Cardinality(theirs) - 0
        BY <2>1, <2>4, <2>5, <2>6, FS_Union, FS_EmptySet
    <2>8. /\ Cardinality(idle) \in Nat /\ Cardinality(theirs) \in Nat
          /\ Cardinality(Owners) \in Nat
        BY <2>2, <2>4, <2>6, FS_CardinalityType
    <2>9. Cardinality(idle) + nils + Cardinality(Holders) <= Size
        <3>1. CASE phase = "open"
            BY <3>1, <2>8, HoldersFinite, SizeIsNat DEF SlotInv, SlotsConserved, Slots, TypeOK
        <3>2. CASE phase \in {"warming", "failed"}
            BY <3>2, <2>8, FS_EmptySet, SizeIsNat DEF SlotInv, Slots, TypeOK
        <3> QED
            BY <3>1, <3>2 DEF TypeOK
    <2> QED
        BY <2>2, <2>4, <2>7, <2>8, <2>9, HoldersFinite, SizeIsNat DEF TypeOK
<1> QED
    BY <1>1, PoolTypeCorrect, RuntimeInvHolds, SlotInvHolds, PanicsAfterCloseHolds, PTL

\* While the pool is open nobody waits on nobody: there is a slot in the
\* channel, or an execution has one, and the send that gives it back finds
\* room.  With the fairness of the channel this is why Served holds.
NobodyStuck ==
    phase = "open" /\ Size > 0 =>
       \/ Slots > 0
       \/ \E d \in Callers :
             pc[d] \in HoldLabels /\ (pc[d] \in {"restoring", "putting"} => Slots < Size)

\* Whichever runtimes could not be created.
THEOREM NobodyStuckHolds == Spec => []NobodyStuck
<1>1. TypeOK /\ SlotInv => NobodyStuck
    <2> SUFFICES ASSUME TypeOK, SlotInv, phase = "open", Size > 0, ~(Slots > 0)
                 PROVE  \E d \in Callers : pc[d] \in HoldLabels /\ Slots < Size
        BY DEF NobodyStuck
    <2>1. Slots \in Nat
        BY FS_CardinalityType DEF Slots, SlotInv, TypeOK
    <2>2. Cardinality(Holders) = Size /\ Slots < Size
        BY <2>1, HoldersFinite, SizeIsNat DEF SlotInv, SlotsConserved
    <2>3. Holders # {}
        BY <2>2, FS_EmptySet, SizeIsNat
    <2> QED
        BY <2>2, <2>3 DEF Holders
<1> QED
    BY <1>1, PoolTypeCorrect, SlotInvHolds, PTL

-----------------------------------------------------------------------------
(* Until it is closed the pool implements the semaphore.                   *)

Waiting == IF phase = "closed" THEN {} ELSE {c \in Callers : pc[c] = "waiting"}
Holding == IF phase = "closed" THEN {} ELSE Holders

LEMMA SemaphoreStep ==
    ASSUME TypeOK, SlotInv, [Next]_vars
    PROVE  [Semaphore!Next]_<<phase # "closed", Waiting, Holding>>
<1> USE SizeIsNat
<1>1. CASE Warm \/ WarmFails \/ WarmDone \/ UNCHANGED vars
    BY <1>1 DEF Warm, WarmFails, WarmDone, vars, Waiting, Holding, Holders
<1>2. CASE Close
    BY <1>2 DEF Close, Semaphore!Close, Semaphore!Next
<1>3. CASE phase = "closed" /\ ~Close
    <2>1. phase' = phase
        BY <1>3
           DEF Next, vars, Warm, WarmFails, WarmDone, Request, Acquire, Receive, ReceiveClosed,
               Cancel, Make, MakeFails, Restore, Release, Finish, Replace, ReplaceFails, Put,
               SendOnClosed
    <2> QED
        BY <1>3, <2>1 DEF Waiting, Holding
<1>4. ASSUME phase # "closed", NEW c \in Callers, Request(c) PROVE Semaphore!Ask(c)
    BY <1>4, HoldLabelsAre DEF Request, Semaphore!Ask, At, Holders, TypeOK
<1>5. ASSUME phase # "closed", NEW c \in Callers, Receive(c) PROVE Semaphore!Enter(c)
    <2>1. c \in Waiting /\ Waiting' = Waiting \ {c}
        BY <1>5 DEF Receive, Waiting, At, TypeOK
    <2>2. Holders' = Holders \cup {c}
        BY <1>5, HoldersGain, HoldLabelsAre DEF Receive
    <2>3. Cardinality(Holders) < Size
        <3>1. Cardinality(idle) \in Nat /\ nils \in Nat /\ IsFiniteSet(idle)
            BY FS_CardinalityType DEF SlotInv, TypeOK
        <3>2. Slots > 0
            BY <1>5, <3>1, FS_EmptySet DEF Receive, Slots
        <3> QED
            BY <1>5, <3>1, <3>2, HoldersFinite DEF Receive, SlotInv, SlotsConserved, Slots
    <2> QED
        BY <1>5, <2>1, <2>2, <2>3 DEF Receive, Semaphore!Enter, Waiting, Semaphore!Cardinality, Cardinality
<1>6. ASSUME phase # "closed", NEW c \in Callers, Cancel(c) PROVE Semaphore!GiveUp(c)
    BY <1>6, HoldLabelsAre DEF Cancel, Semaphore!GiveUp, At, Holders, TypeOK
<1>7. ASSUME phase # "closed", NEW c \in Callers,
             Make(c) \/ MakeFails(c) \/ Finish(c) \/ Replace(c) \/ ReplaceFails(c)
      PROVE  UNCHANGED <<phase # "closed", Waiting, Holding>>
    BY <1>7, HoldLabelsAre
       DEF Make, MakeFails, Finish, Replace, ReplaceFails, At, Waiting, Holding, Holders, TypeOK
<1>8. ASSUME phase # "closed", NEW c \in Callers, Restore(c) \/ Put(c) PROVE Semaphore!Leave(c)
    BY <1>8, HoldLabelsAre DEF Restore, Put, Semaphore!Leave, At, Holders, TypeOK
<1>9. ASSUME phase # "closed", NEW c \in Callers, ReceiveClosed(c) \/ SendOnClosed(c) PROVE FALSE
    BY <1>9 DEF ReceiveClosed, SendOnClosed
<1> QED
    BY <1>1, <1>2, <1>3, <1>4, <1>5, <1>6, <1>7, <1>8, <1>9
       DEF Next, Acquire, Release, Semaphore!Next, Waiting, Holding

\* The pool is the semaphore its comment describes: at most Size executions
\* at a time, the others waiting or giving up, until Close.
THEOREM ParallelLimitHolds == Spec => ParallelLimit
<1>1. Init => Semaphore!Init
    BY HoldLabelsAre DEF Init, Semaphore!Init, Holders
<1> QED
    BY <1>1, PoolTypeCorrect, SlotInvHolds, SemaphoreStep, PTL
       DEF Spec, ParallelLimit, Semaphore!Spec, Waiting, Holding

-----------------------------------------------------------------------------
(* Bridge.                                                                 *)

\* What a key is made of, place by place.
LEMMA Joined ==
    ASSUME NEW S, NEW sep \in S, NEW v \in Seq(S), NEW w \in Seq(S)
    PROVE  /\ Len(v) \in Nat /\ Len(w) \in Nat
           /\ v \o <<sep>> \o w \in Seq(S)
           /\ Len(v \o <<sep>> \o w) = Len(v) + 1 + Len(w)
           /\ \A n \in 1..Len(v) : (v \o <<sep>> \o w)[n] = v[n]
           /\ (v \o <<sep>> \o w)[Len(v) + 1] = sep
           /\ \A n \in 1..Len(w) : (v \o <<sep>> \o w)[Len(v) + 1 + n] = w[n]
<1> DEFINE slash == <<sep>>
           head == v \o slash
<1>1. slash \in Seq(S) /\ Len(slash) = 1 /\ slash[1] = sep
    OBVIOUS
<1>2. Len(v) \in Nat /\ Len(w) \in Nat
    BY LenProperties
<1> HIDE DEF slash
<1>3. /\ head \in Seq(S) /\ Len(head) = Len(v) + 1
      /\ \A n \in 1..(Len(v) + 1) : head[n] = IF n <= Len(v) THEN v[n] ELSE slash[n - Len(v)]
    BY <1>1, ConcatProperties
<1>4. (\A n \in 1..Len(v) : head[n] = v[n]) /\ head[Len(v) + 1] = sep
    BY <1>1, <1>2, <1>3
<1> HIDE DEF head
<1>5. /\ head \o w \in Seq(S) /\ Len(head \o w) = Len(head) + Len(w)
      /\ \A n \in 1..(Len(head) + Len(w)) :
            (head \o w)[n] = IF n <= Len(head) THEN head[n] ELSE w[n - Len(head)]
    <2>1. head \in Seq(S)
        BY <1>3
    <2> QED
        BY <2>1, ConcatProperties
<1>6. v \o <<sep>> \o w = head \o w
    BY DEF head, slash
<1>7. \A n \in 1..Len(w) : (head \o w)[Len(v) + 1 + n] = w[n]
    BY <1>2, <1>3, <1>5
<1>8. (\A n \in 1..Len(v) : (head \o w)[n] = v[n]) /\ (head \o w)[Len(v) + 1] = sep
    BY <1>2, <1>3, <1>4, <1>5
<1> QED
    BY <1>2, <1>3, <1>5, <1>6, <1>7, <1>8

\* Names without a "/" can be read off a key.
LEMMA KeyInjective ==
    ASSUME NEW r \in Seq(STRING), NEW s \in Seq(STRING), NEW t \in Seq(STRING), NEW u \in Seq(STRING),
           "/" \notin Range(r), "/" \notin Range(s), Key(r, t) = Key(s, u)
    PROVE  r = s /\ t = u
<1> DEFINE slash == "/"
           T == STRING \cup {slash}
<1>1. /\ slash \in T
      /\ r \in Seq(T) /\ s \in Seq(T) /\ t \in Seq(T) /\ u \in Seq(T)
    BY SeqMonotonic
<1>2. /\ \A n \in 1..Len(r) : r[n] # slash
      /\ \A n \in 1..Len(s) : s[n] # slash
    BY LenProperties DEF Range
<1>3. r \o <<slash>> \o t = s \o <<slash>> \o u
    BY DEF Key
<1> HIDE DEF slash, T
<1> DEFINE K == r \o <<slash>> \o t
<1>4. /\ Len(r) \in Nat /\ Len(t) \in Nat
      /\ Len(K) = Len(r) + 1 + Len(t)
      /\ \A n \in 1..Len(r) : K[n] = r[n]
      /\ K[Len(r) + 1] = slash
      /\ \A n \in 1..Len(t) : K[Len(r) + 1 + n] = t[n]
    BY <1>1, Joined
<1>5. /\ Len(s) \in Nat /\ Len(u) \in Nat
      /\ Len(K) = Len(s) + 1 + Len(u)
      /\ \A n \in 1..Len(s) : K[n] = s[n]
      /\ K[Len(s) + 1] = slash
      /\ \A n \in 1..Len(u) : K[Len(s) + 1 + n] = u[n]
    <2> DEFINE L == s \o <<slash>> \o u
    <2>1. /\ Len(s) \in Nat /\ Len(u) \in Nat
          /\ Len(L) = Len(s) + 1 + Len(u)
          /\ \A n \in 1..Len(s) : L[n] = s[n]
          /\ L[Len(s) + 1] = slash
          /\ \A n \in 1..Len(u) : L[Len(s) + 1 + n] = u[n]
        BY <1>1, Joined
    <2>2. K = L
        BY <1>3
    <2> HIDE DEF K, L
    <2> QED
        BY <2>1, <2>2
<1> HIDE DEF K
<1>6. Len(r) = Len(s)
    <2>1. CASE Len(r) < Len(s)
        <3>1. Len(r) + 1 \in 1..Len(s)
            BY <1>4, <1>5, <2>1
        <3>2. K[Len(r) + 1] = s[Len(r) + 1] /\ s[Len(r) + 1] # slash
            BY <1>2, <1>5, <3>1
        <3> QED
            BY <1>4, <3>2
    <2>2. CASE Len(s) < Len(r)
        <3>1. Len(s) + 1 \in 1..Len(r)
            BY <1>4, <1>5, <2>2
        <3>2. K[Len(s) + 1] = r[Len(s) + 1] /\ r[Len(s) + 1] # slash
            BY <1>2, <1>4, <3>1
        <3> QED
            BY <1>5, <3>2
    <2> QED
        BY <1>4, <1>5, <2>1, <2>2
<1>7. Len(t) = Len(u)
    BY <1>4, <1>5, <1>6
<1>8. r = s
    BY <1>1, <1>4, <1>5, <1>6, SeqEqual
<1>9. t = u
    BY <1>1, <1>4, <1>5, <1>6, <1>7, SeqEqual
<1> QED
    BY <1>8, <1>9

\* The calls that reach a tool of a listing under the key they use.
Calls(listing) ==
    {c \in [named : (DOMAIN listing \cap Aliases) \X Members, is : Listed(listing)] :
        Key(c.named[1], c.named[2]) = Key(c.is[1], c.is[2])}

RouteInv ==
    /\ tools \in Listings
    /\ dispatch \in DispatchMaps(tools)
    /\ ran \in Seq(Calls(tools))

LEMMA RouteStep ==
    ASSUME RouteInv, [BridgeNext]_bridgeVars
    PROVE  RouteInv'
<1>1. ASSUME NEW alias \in Aliases, NEW member \in Members, Runs(alias, member)
      PROVE  RouteInv'
    <2> DEFINE key == Key(alias, member)
               call == [named |-> <<alias, member>>, is |-> dispatch[key]]
    <2>1. /\ alias \in DOMAIN tools /\ key \in DOMAIN dispatch
          /\ ran' = Append(ran, call) /\ tools' = tools /\ dispatch' = dispatch
        BY <1>1 DEF Runs, Bridged
    <2>2. dispatch[key] \in Listed(tools) /\ Key(dispatch[key][1], dispatch[key][2]) = key
        BY <2>1 DEF RouteInv, DispatchMaps
    <2> HIDE DEF key
    <2>3. <<alias, member>> \in (DOMAIN tools \cap Aliases) \X Members
        BY <2>1
    <2>4. call \in Calls(tools)
        BY <2>2, <2>3 DEF Calls, key
    <2> HIDE DEF call
    <2>5. ran' \in Seq(Calls(tools))
        BY <2>1, <2>4, AppendProperties DEF RouteInv
    <2> QED
        BY <2>1, <2>5 DEF RouteInv
<1>2. ASSUME UNCHANGED <<tools, dispatch, ran>> PROVE RouteInv'
    BY <1>2 DEF RouteInv
<1>3. \/ UNCHANGED <<tools, dispatch, ran>>
      \/ \E alias \in Aliases, member \in Members : Runs(alias, member)
    BY DEF BridgeNext, bridgeVars, CallRefused, CallUnknown, CallFails, CallSucceeds
<1> QED
    BY <1>1, <1>2, <1>3

LEMMA RouteImplies ==
    ASSUME RouteInv
    PROVE  Routed
<1> SUFFICES ASSUME \A s \in DOMAIN tools : "/" \notin Range(s), NEW n \in DOMAIN ran
             PROVE  ran[n].is = ran[n].named
    BY DEF Routed
<1> DEFINE c == ran[n]
<1>1. c \in Calls(tools)
    BY LenProperties DEF RouteInv
<1> HIDE DEF c
<1>2. /\ c.named \in (DOMAIN tools \cap Aliases) \X Members
      /\ c.is \in Listed(tools)
      /\ Key(c.named[1], c.named[2]) = Key(c.is[1], c.is[2])
    BY <1>1 DEF Calls
<1>3. c.is[1] \in DOMAIN tools /\ c.is[2] \in tools[c.is[1]] /\ c.is = <<c.is[1], c.is[2]>>
    BY <1>2 DEF Listed
<1>4. /\ c.named[1] \in Seq(STRING) /\ c.named[2] \in Seq(STRING)
      /\ c.is[1] \in Seq(STRING) /\ c.is[2] \in Seq(STRING)
    BY <1>2, <1>3, NamesAreTexts DEF RouteInv
<1>5. "/" \notin Range(c.named[1]) /\ "/" \notin Range(c.is[1])
    BY <1>2, <1>3
<1>6. c.named[1] = c.is[1] /\ c.named[2] = c.is[2]
    BY <1>2, <1>4, <1>5, KeyInjective
<1>7. c.named = <<c.named[1], c.named[2]>>
    BY <1>2
<1>8. c.is = c.named
    BY <1>3, <1>6, <1>7
<1> QED
    BY <1>8 DEF c

\* A call reaches the tool it names, on the server it names, when no server has
\* a "/" in its name: for any listing, any names a script uses, any number of
\* calls.
THEOREM RoutedHolds == BridgeSpec => []Routed
<1>1. BridgeInit => RouteInv
    BY EmptySeq DEF BridgeInit, RouteInv
<1>2. RouteInv /\ [BridgeNext]_bridgeVars => RouteInv'
    BY RouteStep
<1>3. RouteInv => Routed
    BY RouteImplies
<1> QED
    BY <1>1, <1>2, <1>3, PTL DEF BridgeSpec

-----------------------------------------------------------------------------
(* What comes out of a wrapper.                                            *)

UpTo(S, n) == {j \in S : j <= n}

\* g counts the members of a set of numbers from below.
Counts(g, k, at) ==
    /\ g \in [1..k -> at]
    /\ \A i \in at : \E n \in 1..k : g[n] = i
    /\ \A m, n \in 1..k : m < n => g[m] < g[n]

LEMMA CountedUpTo ==
    ASSUME NEW at \in SUBSET Int, NEW k \in Nat, NEW g, Counts(g, k, at)
    PROVE  /\ Cardinality(at) = k
           /\ \A n \in 1..k : Cardinality(UpTo(at, g[n])) = n
<1> USE DEF Counts
<1>1. \A m, n \in 1..k : (g[m] <= g[n] <=> m <= n) /\ (g[m] = g[n] => m = n)
    <2> SUFFICES ASSUME NEW m \in 1..k, NEW n \in 1..k
                 PROVE  (g[m] <= g[n] <=> m <= n) /\ (g[m] = g[n] => m = n)
        OBVIOUS
    <2>1. g[m] \in Int /\ g[n] \in Int
        OBVIOUS
    <2> QED
        BY <2>1
<1>2. Cardinality(at) = k
    <2>1. g \in Bijection(1..k, at)
        BY <1>1 DEF Bijection, Injection, IsInjective, Surjection
    <2> QED
        BY <2>1, FS_CountingElements DEF ExistsBijection
<1>3. ASSUME NEW n \in 1..k PROVE Cardinality(UpTo(at, g[n])) = n
    <2> DEFINE low == {j \in at : j <= g[n]}
               h == [m \in 1..n |-> g[m]]
    <2>1. \A m \in 1..n : m \in 1..k /\ m <= n
        OBVIOUS
    <2>2. h \in [1..n -> low]
        BY <1>1, <2>1
    <2>3. \A j \in low : \E m \in 1..n : h[m] = j
        <3> SUFFICES ASSUME NEW j \in low PROVE \E m \in 1..n : h[m] = j
            OBVIOUS
        <3>1. PICK m \in 1..k : g[m] = j
            OBVIOUS
        <3>2. m \in 1..n
            BY <1>1, <3>1
        <3> QED
            BY <3>1, <3>2
    <2>4. \A a, b \in 1..n : h[a] = h[b] => a = b
        BY <1>1, <2>1
    <2> HIDE DEF low, h
    <2>5. h \in Bijection(1..n, low)
        BY <2>2, <2>3, <2>4 DEF Bijection, Injection, IsInjective, Surjection
    <2>6. n \in Nat
        OBVIOUS
    <2>7. Cardinality(low) = n
        BY <2>5, <2>6, FS_CountingElements DEF ExistsBijection
    <2> QED
        BY <2>7 DEF low, UpTo
<1> QED
    BY <1>2, <1>3

\* The texts among blocks, when g says which blocks they are.
TextsAt(blocks) == {n \in DOMAIN blocks : IsText(blocks[n])}

LEMMA TextsAre ==
    ASSUME NEW blocks, TextsAt(blocks) \subseteq Int, NEW k \in Nat, NEW g,
           Counts(g, k, TextsAt(blocks))
    PROVE  Texts(blocks) = [n \in 1..k |-> TextOf(blocks[g[n]])]
<1> DEFINE at == TextsAt(blocks)
           Nth(n) == CHOOSE i \in at : Cardinality({j \in at : j <= i}) = n
<1>1. g \in [1..k -> at] /\ \A i \in at : \E n \in 1..k : g[n] = i
    BY DEF Counts
<1>2. Texts(blocks) = [n \in 1..Cardinality(at) |-> TextOf(blocks[Nth(n)])]
    BY DEF Texts, TextsAt
<1> HIDE DEF at
<1>3. /\ Cardinality(at) = k
      /\ \A n \in 1..k : Cardinality(UpTo(at, g[n])) = n
    BY CountedUpTo DEF at
<1>4. ASSUME NEW n \in 1..k PROVE Nth(n) = g[n]
    <2>1. g[n] \in at /\ Cardinality({j \in at : j <= g[n]}) = n
        BY <1>1, <1>3 DEF UpTo
    <2>2. Nth(n) \in at /\ Cardinality({j \in at : j <= Nth(n)}) = n
        BY <2>1
    <2> HIDE DEF Nth
    <2>3. PICK m \in 1..k : g[m] = Nth(n)
        BY <1>1, <2>2
    <2>4. Cardinality(UpTo(at, g[m])) = n
        BY <2>2, <2>3 DEF UpTo
    <2>5. m = n
        BY <1>3, <2>4
    <2> QED
        BY <2>3, <2>5
<1> HIDE DEF Nth
<1> QED
    BY <1>2, <1>3, <1>4

LEMMA BlockOfText ==
    ASSUME NEW s, s.kind = "string"
    PROVE  /\ IsBlock(Block(s)) /\ IsText(Block(s)) /\ TextOf(Block(s)) = s
<1>1. /\ Block(s).kind = "object" /\ DOMAIN Block(s).fields = {"type", "text"}
      /\ Block(s).fields["type"] = Words("text") /\ Block(s).fields["text"] = s
    BY DEF Block, Obj
<1>2. Words("text").kind = "string"
    BY DEF Words, Str
<1> QED
    BY <1>1, <1>2 DEF IsBlock, IsText, TextOf

LEMMA ImageIsNoText == IsBlock(Image) /\ ~IsText(Image)
<1>1. /\ Image.kind = "object" /\ DOMAIN Image.fields = {"type"}
      /\ Image.fields["type"] = Words("image")
    BY DEF Image, Obj
<1>2. Words("image").kind = "string" /\ Words("image") # Words("text")
    BY DEF Words, Str
<1> QED
    BY <1>1, <1>2 DEF IsBlock, IsText

\* A record of blocks is a wrapper, with or without the flag.
LEMMA RecordIsWrapper ==
    ASSUME NEW c, c # <<>>, \A b \in Range(c) : IsBlock(b), NEW flag \in BOOLEAN
    PROVE  IsWrapper(Record(c, flag)) /\ Record(c, flag).fields["content"].elems = c
<1>1. /\ Record(c, flag).kind = "object"
      /\ DOMAIN Record(c, flag).fields \subseteq {"content", "isError"}
      /\ "content" \in DOMAIN Record(c, flag).fields
      /\ Record(c, flag).fields["content"] = Arr(c)
    BY DEF Record, Obj
<1>2. Arr(c).kind = "array" /\ Arr(c).elems = c
    BY DEF Arr
<1> QED
    BY <1>1, <1>2 DEF IsWrapper, Known

\* One block of text says what it is.
LEMMA UnwrapOne ==
    ASSUME NEW s, s.kind = "string", NEW flag \in BOOLEAN
    PROVE  Unwrap(Record(<<Block(s)>>, flag)) = Parsed(s)
<1> DEFINE b == Block(s)
           c == <<b>>
<1>1. IsBlock(b) /\ IsText(b) /\ TextOf(b) = s
    BY BlockOfText
<1> HIDE DEF b
<1>2. c # <<>> /\ Len(c) = 1 /\ c[1] = b
    OBVIOUS
<1>3. \A x \in Range(c) : IsBlock(x)
    BY <1>1 DEF Range
<1> HIDE DEF c
<1>4. IsWrapper(Record(c, flag)) /\ Record(c, flag).fields["content"].elems = c
    BY <1>2, <1>3, RecordIsWrapper
<1>5. Unwrap(Record(c, flag)) = Parsed(s)
    BY <1>1, <1>2, <1>4 DEF Unwrap
<1> QED
    BY <1>5 DEF b, c

\* Blocks other than one text say what their texts say.
LEMMA UnwrapSeveral ==
    ASSUME NEW c, c # <<>>, Len(c) = 1 => ~IsText(c[1]), \A b \in Range(c) : IsBlock(b),
           NEW flag \in BOOLEAN
    PROVE  Unwrap(Record(c, flag)) = Arr(Texts(c))
BY RecordIsWrapper DEF Unwrap

\* A result that is handed over bare is not taken for a wrapper.
LEMMA UnwrapBare ==
    ASSUME NEW v, ~IsResult(v)
    PROVE  Unwrap(v) = v
<1>1. \A b : IsBlock(b) => b.kind \in {"object", "null"}
    BY DEF IsBlock
<1> QED
    BY <1>1 DEF IsResult, Unwrap, IsWrapper, Known

\* A list of texts, one block for each, comes out as it was.
LEMMA UnwrapBlocks ==
    ASSUME NEW T, NEW s \in Seq(T), Len(s) > 1, \A n \in 1..Len(s) : s[n].kind = "string",
           NEW flag \in BOOLEAN
    PROVE  Unwrap(Record(TextBlocks(s), flag)) = Arr(s)
<1> DEFINE c == TextBlocks(s)
           g == [n \in 1..Len(s) |-> n]
<1>1. Len(s) \in Nat /\ DOMAIN s = 1..Len(s) /\ s = [n \in 1..Len(s) |-> s[n]]
    BY LenProperties
<1>2. DOMAIN c = 1..Len(s) /\ \A n \in 1..Len(s) : c[n] = Block(s[n])
    BY DEF TextBlocks
<1>3. c \in Seq({Block(s[n]) : n \in 1..Len(s)}) /\ Len(c) = Len(s)
    BY <1>1 DEF TextBlocks
<1>4. c # <<>> /\ Len(c) # 1
    BY <1>1, <1>3
<1> HIDE DEF c
<1>5. \A n \in 1..Len(s) : IsBlock(c[n]) /\ IsText(c[n]) /\ TextOf(c[n]) = s[n]
    BY <1>2, BlockOfText
<1>6. \A b \in Range(c) : IsBlock(b)
    BY <1>2, <1>5 DEF Range
<1>7. TextsAt(c) = 1..Len(s)
    BY <1>2, <1>5 DEF TextsAt
<1>8. Counts(g, Len(s), 1..Len(s))
    BY <1>1 DEF Counts
<1>9. g = [n \in 1..Len(s) |-> n]
    OBVIOUS
<1> HIDE DEF g
<1>10. Texts(c) = [n \in 1..Len(s) |-> TextOf(c[g[n]])]
    BY <1>1, <1>7, <1>8, TextsAre
<1>11. Texts(c) = s
    BY <1>1, <1>5, <1>9, <1>10
<1> QED
    BY <1>4, <1>6, <1>11, UnwrapSeveral DEF c

\* ... also with an image anywhere between; and then one text is a list, too.
LEMMA UnwrapWithImage ==
    ASSUME NEW T, NEW s \in Seq(T), \A n \in 1..Len(s) : s[n].kind = "string",
           NEW p \in 1..(Len(s) + 1), NEW flag \in BOOLEAN
    PROVE  Unwrap(Record(WithImage(TextBlocks(s), p), flag)) = Arr(s)
<1> DEFINE t == TextBlocks(s)
           c == WithImage(t, p)
           k == Len(s)
           g == [n \in 1..k |-> IF n < p THEN n ELSE n + 1]
<1>1. k \in Nat /\ DOMAIN s = 1..k /\ s = [n \in 1..k |-> s[n]]
    BY LenProperties
<1>2. Len(t) = k /\ \A n \in 1..k : t[n] = Block(s[n])
    BY <1>1 DEF TextBlocks
<1> HIDE DEF t, k
<1>3. /\ DOMAIN c = 1..(k + 1)
      /\ \A n \in 1..(k + 1) : c[n] = IF n < p THEN t[n] ELSE IF n = p THEN Image ELSE t[n - 1]
    BY <1>2 DEF WithImage
<1>4. Len(c) = k + 1
    BY <1>1, <1>2 DEF WithImage
<1>5. c # <<>>
    BY <1>1, <1>4
<1> HIDE DEF c
<1>6. p \in 1..(k + 1)
    BY DEF k
<1>7. \A n \in 1..k : IsBlock(t[n]) /\ IsText(t[n]) /\ TextOf(t[n]) = s[n]
    BY <1>2, BlockOfText DEF k
<1>8. \A n \in 1..(k + 1) : IsBlock(c[n]) /\ (IsText(c[n]) <=> n # p)
    <2> TAKE n \in 1..(k + 1)
    <2>1. CASE n < p
        <3>1. c[n] = t[n] /\ n \in 1..k
            BY <1>1, <1>3, <1>6, <2>1
        <3> QED
            BY <1>6, <1>7, <2>1, <3>1
    <2>2. CASE n = p
        <3>1. c[n] = Image
            BY <1>3, <1>6, <2>2
        <3> QED
            BY <2>2, <3>1, ImageIsNoText
    <2>3. CASE n > p
        <3>1. c[n] = t[n - 1] /\ n - 1 \in 1..k
            BY <1>1, <1>3, <1>6, <2>3
        <3> QED
            BY <1>6, <1>7, <2>3, <3>1
    <2> QED
        BY <1>6, <2>1, <2>2, <2>3
<1>9. \A b \in Range(c) : IsBlock(b)
    BY <1>3, <1>8 DEF Range
<1>10. TextsAt(c) = (1..(k + 1)) \ {p}
    BY <1>3, <1>8 DEF TextsAt
<1>11. \A n \in 1..k : g[n] \in (1..(k + 1)) \ {p}
    BY <1>1, <1>6
<1>12. Counts(g, k, (1..(k + 1)) \ {p})
    <2>1. g \in [1..k -> (1..(k + 1)) \ {p}]
        BY <1>11
    <2>2. \A i \in (1..(k + 1)) \ {p} : \E n \in 1..k : g[n] = i
        <3> TAKE i \in (1..(k + 1)) \ {p}
        <3>1. CASE i < p
            BY <1>1, <1>6, <3>1
        <3>2. CASE i > p
            <4>1. i - 1 \in 1..k /\ g[i - 1] = i
                BY <1>1, <1>6, <3>2
            <4> QED
                BY <4>1
        <3> QED
            BY <1>6, <3>1, <3>2
    <2>3. \A m, n \in 1..k : m < n => g[m] < g[n]
        BY <1>1, <1>6
    <2> QED
        BY <2>1, <2>2, <2>3 DEF Counts
<1>13. \A n \in 1..k : c[g[n]] = t[n]
    <2> TAKE n \in 1..k
    <2>1. CASE n < p
        <3>1. g[n] = n /\ n \in 1..(k + 1)
            BY <1>1, <2>1
        <3> QED
            BY <1>3, <2>1, <3>1
    <2>2. CASE ~(n < p)
        <3>1. g[n] = n + 1 /\ n + 1 \in 1..(k + 1) /\ ~(n + 1 < p) /\ n + 1 # p /\ (n + 1) - 1 = n
            BY <1>1, <1>6, <2>2
        <3> QED
            BY <1>3, <3>1
    <2> QED
        BY <2>1, <2>2
<1> HIDE DEF g
<1>14. Texts(c) = [n \in 1..k |-> TextOf(c[g[n]])]
    <2>1. Counts(g, k, TextsAt(c)) /\ TextsAt(c) \subseteq Int
        BY <1>10, <1>12
    <2> QED
        BY <1>1, <2>1, TextsAre
<1>15. Texts(c) = s
    BY <1>1, <1>7, <1>13, <1>14
<1>16. Len(c) = 1 => ~IsText(c[1])
    <2> SUFFICES ASSUME Len(c) = 1 PROVE ~IsText(c[1])
        OBVIOUS
    <2>1. 1 \in 1..(k + 1) /\ p = 1
        BY <1>1, <1>4, <1>6
    <2> QED
        BY <1>8, <2>1
<1> QED
    BY <1>5, <1>9, <1>15, <1>16, UnwrapSeveral DEF c, t

\* The sequences of texts a payload may be told in.
LEMMA WordingsAreTexts ==
    ASSUME NEW v \in Payloads, NEW s \in Wordings(v)
    PROVE  /\ s \in Seq(Range(s)) /\ Len(s) \in Nat
           /\ \A n \in 1..Len(s) : s[n].kind = "string" /\ IsString(s[n])
<1>1. ASSUME NEW t, s = <<t>>, t.kind = "string", IsString(t)
      PROVE  /\ s \in Seq(Range(s)) /\ Len(s) \in Nat
             /\ \A n \in 1..Len(s) : s[n].kind = "string" /\ IsString(s[n])
    <2>1. s \in Seq({t}) /\ Len(s) = 1 /\ s[1] = t /\ Range(s) = {t}
        BY <1>1 DEF Range
    <2> QED
        BY <1>1, <2>1
<1>2. CASE s = <<JSONText(v)>>
    <2>1. JSONText(v).kind = "string" /\ JSONText(v).json[1] = v
        BY DEF JSONText, Str
    <2> QED
        BY <1>1, <1>2, <2>1 DEF IsString
<1>3. CASE s = <<v>> /\ v.kind = "string"
    BY <1>1, <1>3, PayloadsAreValues
<1>4. CASE s = v.elems /\ ListOfTexts(v)
    <2>1. s \in Seq(Range(s)) /\ \A e \in Range(s) : e.kind = "string" /\ IsString(e)
        BY <1>4, PayloadsAreValues DEF ListOfTexts
    <2> QED
        BY <2>1, ElementOfSeq, LenProperties
<1> QED
    BY <1>2, <1>3, <1>4 DEF Wordings

\* A text can be meant for what it says, and texts for the list of them.
LEMMA MeantFor ==
    /\ \A t : t.kind = "string" /\ IsString(t) => <<t>> \in Wordings(Parsed(t))
    /\ \A s : (\A n \in 1..Len(s) : s[n].kind = "string") /\ s \in Seq(Range(s)) =>
                 s \in Wordings(Arr(s))
<1>1. ASSUME NEW t, t.kind = "string", IsString(t) PROVE <<t>> \in Wordings(Parsed(t))
    <2>1. CASE t = Words(t.tag)
        <3>1. t.json = <<>>
            BY <2>1 DEF Words, Str
        <3> QED
            BY <1>1, <3>1 DEF Parsed, Wordings
    <2>2. CASE t = JSONText(t.json[1])
        <3>1. t.json = <<t.json[1]>>
            BY <2>2 DEF JSONText, Str
        <3>2. Parsed(t) = t.json[1]
            BY <3>1 DEF Parsed
        <3> QED
            BY <2>2, <3>2 DEF Wordings
    <2> QED
        BY <1>1, <2>1, <2>2 DEF IsString
<1>2. ASSUME NEW s, \A n \in 1..Len(s) : s[n].kind = "string", s \in Seq(Range(s))
      PROVE  s \in Wordings(Arr(s))
    <2>1. Arr(s).kind = "array" /\ Arr(s).elems = s
        BY DEF Arr
    <2>2. \A e \in Range(s) : e.kind = "string"
        BY <1>2, LenProperties DEF Range
    <2> QED
        BY <2>1, <2>2 DEF ListOfTexts, Wordings
<1> QED
    BY <1>1, <1>2

\* What a script gets of a record with blocks is something the record says.
LEMMA UnwrapWrapped ==
    ASSUME NEW v \in Payloads, NEW s \in Wordings(v), NEW c \in Around(TextBlocks(s)),
           NEW flag \in BOOLEAN
    PROVE  \/ Record(c, flag) \in Wrapped(Unwrap(Record(c, flag)))
           \/ v = Arr(<<>>) /\ Unwrap(Record(c, flag)) = Record(c, flag)
<1> DEFINE r == Record(c, flag)
<1>0. /\ s \in Seq(Range(s)) /\ Len(s) \in Nat
      /\ \A n \in 1..Len(s) : s[n].kind = "string" /\ IsString(s[n])
    BY WordingsAreTexts
<1>1. ASSUME NEW u, s \in Wordings(u), Unwrap(r) = u PROVE r \in Wrapped(Unwrap(r))
    BY <1>1 DEF Wrapped, Contents
<1>2. s \in Wordings(Arr(s))
    BY <1>0, MeantFor
<1>3. ASSUME NEW p \in 1..(Len(TextBlocks(s)) + 1), c = WithImage(TextBlocks(s), p)
      PROVE  r \in Wrapped(Unwrap(r))
    <2>1. Len(TextBlocks(s)) = Len(s)
        BY <1>0 DEF TextBlocks
    <2>2. Unwrap(r) = Arr(s)
        BY <1>0, <1>3, <2>1, UnwrapWithImage
    <2> QED
        BY <1>1, <1>2, <2>2
<1>4. CASE c = TextBlocks(s) /\ Len(s) > 1
    <2>1. Unwrap(r) = Arr(s)
        BY <1>0, <1>4, UnwrapBlocks
    <2> QED
        BY <1>1, <1>2, <2>1
<1>5. CASE c = TextBlocks(s) /\ Len(s) = 1
    <2> DEFINE t == s[1]
    <2>1. s = <<t>> /\ t.kind = "string" /\ IsString(t)
        BY <1>0, <1>5
    <2> HIDE DEF t
    <2>2. Len(s) = 1 /\ s[1] = t
        BY <2>1
    <2>3. c = <<Block(t)>>
        BY <1>5, <2>2 DEF TextBlocks
    <2>4. Unwrap(r) = Parsed(t)
        BY <2>1, <2>3, UnwrapOne
    <2>5. s \in Wordings(Parsed(t))
        BY <2>1, MeantFor
    <2> QED
        BY <1>1, <2>4, <2>5
<1>6. CASE c = TextBlocks(s) /\ Len(s) = 0
    <2>1. s = <<>>
        BY <1>0, <1>6, EmptySeq
    <2>2. v = Arr(<<>>)
        BY <2>1, PayloadsAreValues DEF Wordings, ListOfTexts
    <2>3. c = <<>>
        BY <1>6, <2>1 DEF TextBlocks
    <2>4. r.fields["content"] = Arr(<<>>)
        BY <2>3 DEF Record, Obj
    <2>5. Arr(<<>>).elems = <<>>
        BY DEF Arr
    <2>6. ~IsWrapper(r)
        BY <2>4, <2>5 DEF IsWrapper
    <2> QED
        BY <2>2, <2>6 DEF Unwrap
<1>7. c = TextBlocks(s) \/ \E p \in 1..(Len(TextBlocks(s)) + 1) : c = WithImage(TextBlocks(s), p)
    BY DEF Around
<1>8. Len(s) > 1 \/ Len(s) = 1 \/ Len(s) = 0
    <2> DEFINE k == Len(s)
    <2>1. k \in Nat
        BY <1>0
    <2> HIDE DEF k
    <2>2. k > 1 \/ k = 1 \/ k = 0
        BY <2>1
    <2> QED
        BY <2>2 DEF k
<1> QED
    BY <1>3, <1>4, <1>5, <1>6, <1>7, <1>8

\* The value of a call is what the tool said, as far as the reply tells.
PayloadInv ==
    /\ payload \in Payloads /\ reply \in Replies(payload)
    /\ PayloadKept

\* A script gets what the tool said, or something that is told in the same
\* words: for any payloads, of any depth, in any of the forms of Replies.
THEOREM PayloadKeptHolds == BridgeSpec => []PayloadKept
<1>1. BridgeInit => PayloadInv
    BY DEF BridgeInit, PayloadInv, PayloadKept
<1>2. PayloadInv /\ [BridgeNext]_bridgeVars => PayloadInv'
    <2> SUFFICES ASSUME PayloadInv, [BridgeNext]_bridgeVars PROVE PayloadInv'
        OBVIOUS
    <2>1. payload' = payload /\ reply' = reply /\ (value' = value \/ value' = <<Unwrap(reply)>>)
        BY DEF BridgeNext, bridgeVars, CallRefused, CallUnknown, Runs, CallFails, CallSucceeds
    <2>2. CASE value' = value
        BY <2>1, <2>2 DEF PayloadInv, PayloadKept
    <2>3. CASE value' = <<Unwrap(reply)>>
        <3>1. value'[1] = Unwrap(reply)
            BY <2>3
        <3>2. CASE reply = payload
            <4>1. IsResult(payload) \/ Unwrap(payload) = payload
                BY UnwrapBare
            <4> QED
                BY <2>1, <3>1, <3>2, <4>1 DEF PayloadInv, PayloadKept
        <3>3. ASSUME NEW c \in Contents(payload), NEW flag \in BOOLEAN, reply = Record(c, flag)
              PROVE  PayloadInv'
            <4>1. PICK s \in Wordings(payload) : c \in Around(TextBlocks(s))
                BY DEF Contents
            <4>2. \/ reply \in Wrapped(Unwrap(reply))
                  \/ payload = Arr(<<>>) /\ Unwrap(reply) = reply
                BY <3>3, <4>1, UnwrapWrapped DEF PayloadInv
            <4> QED
                BY <2>1, <3>1, <4>2 DEF PayloadInv, PayloadKept
        <3> QED
            BY <3>2, <3>3 DEF PayloadInv, Replies, Wrapped
    <2> QED
        BY <2>1, <2>2, <2>3
<1>3. PayloadInv => PayloadKept
    BY DEF PayloadInv
<1> QED
    BY <1>1, <1>2, <1>3, PTL DEF BridgeSpec

-----------------------------------------------------------------------------
(* The types of Shapes, depth by depth.                                    *)

\* Does the type inferred from one value fit another?
Fits4(u, v) == Has4(Type4(Infer4(u)), v)
Fits3(u, v) == Has3(Type3(Infer3(u)), v)
Fits2(u, v) == Has2(Type2(Infer2(u)), v)
Fits1(u, v) == Has1(Type1(Infer1(u)), v)
Fits(u, v) == Has(TypeOf(InferSchema(u)), v)

\* The items of an empty array may be anything.
LEMMA NoSchemaSaysNothing ==
    ASSUME NEW v
    PROVE  /\ Has1(Type1(NoSchema), v) /\ Has2(Type2(NoSchema), v)
           /\ Has3(Type3(NoSchema), v) /\ Has4(Type4(NoSchema), v)
BY DEF NoSchema, AnyType, Has1, Has2, Has3, Has4, HasIn, Type1, Type2, Type3, Type4, schemaTypeToTS

\* One value has the kind of the other, and what it has inside fits what is
\* read of the other: the first of a list, each field of an object.
Follows(Inner(_, _), u, v) ==
    /\ u.kind = v.kind /\ u.kind # "null"
    /\ u.kind = "array" /\ 1 \in DOMAIN u.elems => \A e \in Range(v.elems) : Inner(u.elems[1], e)
    /\ u.kind = "object" /\ ~Opaque(u) =>
          \A x \in DOMAIN u.fields : x \in DOMAIN v.fields /\ Inner(u.fields[x], v.fields[x])

LEMMA FitsAtDepth3 ==
    ASSUME NEW u, NEW v, Follows(Fits4, u, v)
    PROVE  Fits3(u, v)
<1> DEFINE t == Type3(Infer3(u))
<1>1. CASE u.kind = "array"
    <2> DEFINE items == IF 1 \in DOMAIN u.elems THEN Infer4(u.elems[1]) ELSE NoSchema
    <2>1. Infer3(u) = ArrayOf(items)
        BY <1>1 DEF Infer3, inferValue
    <2>2. t.type = "Array" /\ t.of = Type4(items)
        BY <2>1 DEF Type3, schemaTypeToTS, ArrayOf
    <2>3. v.kind = "array" /\ \A e \in Range(v.elems) : Has4(Type4(items), e)
        BY <1>1, NoSchemaSaysNothing DEF Follows, Fits4
    <2> HIDE DEF t, items
    <2>4. Has3(t, v)
        BY <2>2, <2>3 DEF Has3, HasIn
    <2> QED
        BY <2>4 DEF Fits3, t
<1>2. CASE u.kind = "object" /\ ~Opaque(u)
    <2> DEFINE props == [x \in DOMAIN u.fields |-> Infer4(u.fields[x])]
               keys == [x \in DOMAIN props |-> Type4(props[x])]
    <2>1. Infer3(u) = ObjectOf(props)
        BY <1>2 DEF Infer3, inferValue
    <2>2. \A x \in DOMAIN keys : x \in DOMAIN v.fields /\ Has4(keys[x], v.fields[x])
        BY <1>2 DEF Follows, Fits4
    <2> HIDE DEF props
    <2>3. t.type = "{}" /\ t.keys = keys
        <3>1. /\ Infer3(u).type = "object" /\ "properties" \in DOMAIN Infer3(u)
              /\ Infer3(u).properties = props
            BY <2>1 DEF ObjectOf
        <3>2. t = [type |-> "{}", keys |-> keys]
            BY <3>1 DEF Type3, schemaTypeToTS
        <3> HIDE DEF t, keys
        <3> QED
            BY <3>2
    <2>4. v.kind = "object"
        BY <1>2 DEF Follows
    <2> HIDE DEF t, keys
    <2>5. Has3(t, v)
        BY <2>2, <2>3, <2>4 DEF Has3, HasIn
    <2> QED
        BY <2>5 DEF Fits3, t
<1>3. CASE u.kind = "object" /\ Opaque(u)
    <2>1. t = [type |-> "Record"]
        BY <1>3 DEF Infer3, inferValue, Type3, schemaTypeToTS, Plain
    <2> QED
        BY <1>3, <2>1 DEF Fits3, Has3, HasIn, Follows
<1>4. CASE u.kind \notin {"array", "object"}
    <2>1. Infer3(u) = [type |-> u.kind] /\ v.kind = u.kind
        BY <1>4 DEF Infer3, inferValue, Plain, Follows
    <2>2. t.type = "any" \/ (t.type = u.kind /\ u.kind \in {"string", "number", "boolean"})
        BY <1>4, <2>1 DEF Type3, schemaTypeToTS, AnyType
    <2> HIDE DEF t
    <2>3. Has3(t, v)
        BY <2>1, <2>2 DEF Has3, HasIn
    <2> QED
        BY <2>3 DEF Fits3, t
<1> QED
    BY <1>1, <1>2, <1>3, <1>4

LEMMA FitsAtDepth2 ==
    ASSUME NEW u, NEW v, Follows(Fits3, u, v)
    PROVE  Fits2(u, v)
<1> DEFINE t == Type2(Infer2(u))
<1>1. CASE u.kind = "array"
    <2> DEFINE items == IF 1 \in DOMAIN u.elems THEN Infer3(u.elems[1]) ELSE NoSchema
    <2>1. Infer2(u) = ArrayOf(items)
        BY <1>1 DEF Infer2, inferValue
    <2>2. t.type = "Array" /\ t.of = Type3(items)
        BY <2>1 DEF Type2, schemaTypeToTS, ArrayOf
    <2>3. v.kind = "array" /\ \A e \in Range(v.elems) : Has3(Type3(items), e)
        BY <1>1, NoSchemaSaysNothing DEF Follows, Fits3
    <2> HIDE DEF t, items
    <2>4. Has2(t, v)
        BY <2>2, <2>3 DEF Has2, HasIn
    <2> QED
        BY <2>4 DEF Fits2, t
<1>2. CASE u.kind = "object" /\ ~Opaque(u)
    <2> DEFINE props == [x \in DOMAIN u.fields |-> Infer3(u.fields[x])]
               keys == [x \in DOMAIN props |-> Type3(props[x])]
    <2>1. Infer2(u) = ObjectOf(props)
        BY <1>2 DEF Infer2, inferValue
    <2>2. \A x \in DOMAIN keys : x \in DOMAIN v.fields /\ Has3(keys[x], v.fields[x])
        BY <1>2 DEF Follows, Fits3
    <2> HIDE DEF props
    <2>3. t.type = "{}" /\ t.keys = keys
        <3>1. /\ Infer2(u).type = "object" /\ "properties" \in DOMAIN Infer2(u)
              /\ Infer2(u).properties = props
            BY <2>1 DEF ObjectOf
        <3>2. t = [type |-> "{}", keys |-> keys]
            BY <3>1 DEF Type2, schemaTypeToTS
        <3> HIDE DEF t, keys
        <3> QED
            BY <3>2
    <2>4. v.kind = "object"
        BY <1>2 DEF Follows
    <2> HIDE DEF t, keys
    <2>5. Has2(t, v)
        BY <2>2, <2>3, <2>4 DEF Has2, HasIn
    <2> QED
        BY <2>5 DEF Fits2, t
<1>3. CASE u.kind = "object" /\ Opaque(u)
    <2>1. t = [type |-> "Record"]
        BY <1>3 DEF Infer2, inferValue, Type2, schemaTypeToTS, Plain
    <2> QED
        BY <1>3, <2>1 DEF Fits2, Has2, HasIn, Follows
<1>4. CASE u.kind \notin {"array", "object"}
    <2>1. Infer2(u) = [type |-> u.kind] /\ v.kind = u.kind
        BY <1>4 DEF Infer2, inferValue, Plain, Follows
    <2>2. t.type = "any" \/ (t.type = u.kind /\ u.kind \in {"string", "number", "boolean"})
        BY <1>4, <2>1 DEF Type2, schemaTypeToTS, AnyType
    <2> HIDE DEF t
    <2>3. Has2(t, v)
        BY <2>1, <2>2 DEF Has2, HasIn
    <2> QED
        BY <2>3 DEF Fits2, t
<1> QED
    BY <1>1, <1>2, <1>3, <1>4

LEMMA FitsAtDepth1 ==
    ASSUME NEW u, NEW v, Follows(Fits2, u, v)
    PROVE  Fits1(u, v)
<1> DEFINE t == Type1(Infer1(u))
<1>1. CASE u.kind = "array"
    <2> DEFINE items == IF 1 \in DOMAIN u.elems THEN Infer2(u.elems[1]) ELSE NoSchema
    <2>1. Infer1(u) = ArrayOf(items)
        BY <1>1 DEF Infer1, inferValue
    <2>2. t.type = "Array" /\ t.of = Type2(items)
        BY <2>1 DEF Type1, schemaTypeToTS, ArrayOf
    <2>3. v.kind = "array" /\ \A e \in Range(v.elems) : Has2(Type2(items), e)
        BY <1>1, NoSchemaSaysNothing DEF Follows, Fits2
    <2> HIDE DEF t, items
    <2>4. Has1(t, v)
        BY <2>2, <2>3 DEF Has1, HasIn
    <2> QED
        BY <2>4 DEF Fits1, t
<1>2. CASE u.kind = "object" /\ ~Opaque(u)
    <2> DEFINE props == [x \in DOMAIN u.fields |-> Infer2(u.fields[x])]
               keys == [x \in DOMAIN props |-> Type2(props[x])]
    <2>1. Infer1(u) = ObjectOf(props)
        BY <1>2 DEF Infer1, inferValue
    <2>2. \A x \in DOMAIN keys : x \in DOMAIN v.fields /\ Has2(keys[x], v.fields[x])
        BY <1>2 DEF Follows, Fits2
    <2> HIDE DEF props
    <2>3. t.type = "{}" /\ t.keys = keys
        <3>1. /\ Infer1(u).type = "object" /\ "properties" \in DOMAIN Infer1(u)
              /\ Infer1(u).properties = props
            BY <2>1 DEF ObjectOf
        <3>2. t = [type |-> "{}", keys |-> keys]
            BY <3>1 DEF Type1, schemaTypeToTS
        <3> HIDE DEF t, keys
        <3> QED
            BY <3>2
    <2>4. v.kind = "object"
        BY <1>2 DEF Follows
    <2> HIDE DEF t, keys
    <2>5. Has1(t, v)
        BY <2>2, <2>3, <2>4 DEF Has1, HasIn
    <2> QED
        BY <2>5 DEF Fits1, t
<1>3. CASE u.kind = "object" /\ Opaque(u)
    <2>1. t = [type |-> "Record"]
        BY <1>3 DEF Infer1, inferValue, Type1, schemaTypeToTS, Plain
    <2> QED
        BY <1>3, <2>1 DEF Fits1, Has1, HasIn, Follows
<1>4. CASE u.kind \notin {"array", "object"}
    <2>1. Infer1(u) = [type |-> u.kind] /\ v.kind = u.kind
        BY <1>4 DEF Infer1, inferValue, Plain, Follows
    <2>2. t.type = "any" \/ (t.type = u.kind /\ u.kind \in {"string", "number", "boolean"})
        BY <1>4, <2>1 DEF Type1, schemaTypeToTS, AnyType
    <2> HIDE DEF t
    <2>3. Has1(t, v)
        BY <2>1, <2>2 DEF Has1, HasIn
    <2> QED
        BY <2>3 DEF Fits1, t
<1> QED
    BY <1>1, <1>2, <1>3, <1>4

LEMMA FitsAtDepth0 ==
    ASSUME NEW u, NEW v, Follows(Fits1, u, v)
    PROVE  Fits(u, v)
<1> DEFINE t == TypeOf(InferSchema(u))
<1>1. CASE u.kind = "array"
    <2> DEFINE items == IF 1 \in DOMAIN u.elems THEN Infer1(u.elems[1]) ELSE NoSchema
    <2>1. InferSchema(u) = ArrayOf(items)
        BY <1>1 DEF InferSchema, inferValue
    <2>2. t.type = "Array" /\ t.of = Type1(items)
        BY <2>1 DEF TypeOf, schemaTypeToTS, ArrayOf
    <2>3. v.kind = "array" /\ \A e \in Range(v.elems) : Has1(Type1(items), e)
        BY <1>1, NoSchemaSaysNothing DEF Follows, Fits1
    <2> HIDE DEF t, items
    <2>4. Has(t, v)
        BY <2>2, <2>3 DEF Has, HasIn
    <2> QED
        BY <2>4 DEF Fits, t
<1>2. CASE u.kind = "object" /\ ~Opaque(u)
    <2> DEFINE props == [x \in DOMAIN u.fields |-> Infer1(u.fields[x])]
               keys == [x \in DOMAIN props |-> Type1(props[x])]
    <2>1. InferSchema(u) = ObjectOf(props)
        BY <1>2 DEF InferSchema, inferValue
    <2>2. \A x \in DOMAIN keys : x \in DOMAIN v.fields /\ Has1(keys[x], v.fields[x])
        BY <1>2 DEF Follows, Fits1
    <2> HIDE DEF props
    <2>3. t.type = "{}" /\ t.keys = keys
        <3>1. /\ InferSchema(u).type = "object" /\ "properties" \in DOMAIN InferSchema(u)
              /\ InferSchema(u).properties = props
            BY <2>1 DEF ObjectOf
        <3>2. t = [type |-> "{}", keys |-> keys]
            BY <3>1 DEF TypeOf, schemaTypeToTS
        <3> HIDE DEF t, keys
        <3> QED
            BY <3>2
    <2>4. v.kind = "object"
        BY <1>2 DEF Follows
    <2> HIDE DEF t, keys
    <2>5. Has(t, v)
        BY <2>2, <2>3, <2>4 DEF Has, HasIn
    <2> QED
        BY <2>5 DEF Fits, t
<1>3. CASE u.kind = "object" /\ Opaque(u)
    <2>1. t = [type |-> "Record"]
        BY <1>3 DEF InferSchema, inferValue, TypeOf, schemaTypeToTS, Plain
    <2> QED
        BY <1>3, <2>1 DEF Fits, Has, HasIn, Follows
<1>4. CASE u.kind \notin {"array", "object"}
    <2>1. InferSchema(u) = [type |-> u.kind] /\ v.kind = u.kind
        BY <1>4 DEF InferSchema, inferValue, Plain, Follows
    <2>2. t.type = "any" \/ (t.type = u.kind /\ u.kind \in {"string", "number", "boolean"})
        BY <1>4, <2>1 DEF TypeOf, schemaTypeToTS, AnyType
    <2> HIDE DEF t
    <2>3. Has(t, v)
        BY <2>1, <2>2 DEF Has, HasIn
    <2> QED
        BY <2>3 DEF Fits, t
<1> QED
    BY <1>1, <1>2, <1>3, <1>4

\* The type inferred from a regular value fits every value of its shape ...
LEMMA AlikeFits ==
    \A u, v :
        /\ Regular1(u) /\ Alike1(u, v) => Fits1(u, v)
        /\ Regular2(u) /\ Alike2(u, v) => Fits2(u, v)
        /\ Regular3(u) /\ Alike3(u, v) => Fits3(u, v)
        /\ Regular4(u) /\ Alike4(u, v) => Fits4(u, v)
<1>4. ASSUME NEW u, NEW v, Regular4(u), Alike4(u, v) PROVE Fits4(u, v)
    BY <1>4 DEF Fits4, Has4, HasIn, Type4, schemaTypeToTS, Infer4, Plain, Regular4, Alike4
<1>3. ASSUME NEW u, NEW v, Regular3(u), Alike3(u, v) PROVE Fits3(u, v)
    <2>1. Follows(Fits4, u, v)
        BY <1>4, <1>3 DEF Follows, Regular3, RegularIn, Alike3, AlikeIn, Range
    <2> QED
        BY <2>1, FitsAtDepth3
<1>2. ASSUME NEW u, NEW v, Regular2(u), Alike2(u, v) PROVE Fits2(u, v)
    <2>1. Follows(Fits3, u, v)
        BY <1>3, <1>2 DEF Follows, Regular2, RegularIn, Alike2, AlikeIn, Range
    <2> QED
        BY <2>1, FitsAtDepth2
<1>1. ASSUME NEW u, NEW v, Regular1(u), Alike1(u, v) PROVE Fits1(u, v)
    <2>1. Follows(Fits2, u, v)
        BY <1>2, <1>1 DEF Follows, Regular1, RegularIn, Alike1, AlikeIn, Range
    <2> QED
        BY <2>1, FitsAtDepth1
<1> QED
    BY <1>1, <1>2, <1>3, <1>4

\* ... and the value itself.
LEMMA RegularFits == \A v : Regular(v) => Fits(v, v)
<1>4. ASSUME NEW v, Regular4(v) PROVE Fits4(v, v)
    BY <1>4 DEF Fits4, Has4, HasIn, Type4, schemaTypeToTS, Infer4, Plain, Regular4, Alike4
<1>3. ASSUME NEW v, Regular3(v) PROVE Fits3(v, v)
    <2>1. Follows(Fits4, v, v)
        BY <1>4, <1>3, AlikeFits DEF Follows, Regular3, RegularIn, Range
    <2> QED
        BY <2>1, FitsAtDepth3
<1>2. ASSUME NEW v, Regular2(v) PROVE Fits2(v, v)
    <2>1. Follows(Fits3, v, v)
        BY <1>3, <1>2, AlikeFits DEF Follows, Regular2, RegularIn, Range
    <2> QED
        BY <2>1, FitsAtDepth2
<1>1. ASSUME NEW v, Regular1(v) PROVE Fits1(v, v)
    <2>1. Follows(Fits2, v, v)
        BY <1>2, <1>1, AlikeFits DEF Follows, Regular1, RegularIn, Range
    <2> QED
        BY <2>1, FitsAtDepth1
<1>0. ASSUME NEW v, Regular(v) PROVE Fits(v, v)
    <2>1. Follows(Fits1, v, v)
        BY <1>1, <1>0, AlikeFits DEF Follows, Regular, RegularIn, Range
    <2> QED
        BY <2>1, FitsAtDepth0
<1> QED
    BY <1>0

\* The type shown for a tool is one its result has, for results of any depth and
\* width, as far as they are regular.
THEOREM TypeFitsHolds == BridgeSpec => []TypeFits
<1>1. TypeFits
    BY RegularFits DEF TypeFits, Fits
<1> QED
    BY <1>1, PTL

=============================================================================
