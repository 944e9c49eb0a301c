----------------------------- MODULE Semaphore -----------------------------
(***************************************************************************)
(* What the runtime pool promises the executor: a counting semaphore.      *)
(* "At most size executions run in parallel; additional callers block      *)
(* until a slot becomes free or their context is cancelled."  Once it is   *)
(* closed it promises nothing.                                             *)
(***************************************************************************)
EXTENDS Naturals, FiniteSets

CONSTANTS Callers, Size

VARIABLES open, waiting, holding

Init == open = TRUE /\ waiting = {} /\ holding = {}

Ask(c) ==
    /\ open
    /\ c \notin waiting \cup holding
    /\ waiting' = waiting \cup {c}
    /\ UNCHANGED <<open, holding>>

Enter(c) ==
    /\ c \in waiting
    /\ Cardinality(holding) < Size
    /\ waiting' = waiting \ {c}
    /\ holding' = holding \cup {c}
    /\ UNCHANGED open

GiveUp(c) ==
    /\ c \in waiting
    /\ waiting' = waiting \ {c}
    /\ UNCHANGED <<open, holding>>

Leave(c) ==
    /\ c \in holding
    /\ holding' = holding \ {c}
    /\ UNCHANGED <<open, waiting>>

Close ==
    /\ open
    /\ open' = FALSE /\ waiting' = {} /\ holding' = {}

Next == Close \/ \E c \in Callers : Ask(c) \/ Enter(c) \/ GiveUp(c) \/ Leave(c)

Spec == Init /\ [][Next]_<<open, waiting, holding>>

=============================================================================
