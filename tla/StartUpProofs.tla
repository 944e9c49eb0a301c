---------------------------- MODULE StartUpProofs ----------------------------
(***************************************************************************)
(* TokensReadable and OneBearer for every number of processes, servers,    *)
(* keys and tokens.                                                        *)
(***************************************************************************)
EXTENDS StartUp, TLAPS

Records == [pc : Labels, cmd : Commands, key : Keys \cup {None},
            token : Tokens \cup {None}, servers : SUBSET Names]

LEMMA NoProcType == NoProc \in Records /\ NoProc.pc = "idle"
BY DEF NoProc, Records, Labels, Commands

\* What a step of a process does to its record and to the others'.
LEMMA BecomesFacts ==
    ASSUME TypeOK, NEW p \in Procs, NEW r \in Records, Becomes(p, r)
    PROVE  /\ proc' \in [Procs -> Records]
           /\ proc'[p] = r
           /\ \A q \in Procs \ {p} : proc'[q] = proc[q]
BY DEF TypeOK, Becomes, Records

LEMMA MovesFacts ==
    ASSUME TypeOK, NEW p \in Procs, NEW l \in Labels, Moves(p, l)
    PROVE  /\ proc' \in [Procs -> Records]
           /\ proc'[p].pc = l /\ proc'[p].cmd = proc[p].cmd
           /\ proc'[p].key = proc[p].key /\ proc'[p].token = proc[p].token
           /\ \A q \in Procs \ {p} : proc'[q] = proc[q]
<1> DEFINE r == [proc[p] EXCEPT !.pc = l]
<1>1. r \in Records /\ r.pc = l /\ r.cmd = proc[p].cmd /\ r.key = proc[p].key
      /\ r.token = proc[p].token
    BY DEF TypeOK, Records
<1> QED
    BY <1>1, BecomesFacts DEF Moves

\* The rest of what TypeOK says, without the records.
StoreType ==
    /\ keyFile \in Keys \cup {None, Torn}
    /\ rows \in [Names -> Keys \cup {None, Plain}]
    /\ bearer \in [key : Keys \cup {None}, token : Tokens \cup {None}]
    /\ minted \subseteq Keys \cup Tokens
    /\ excuse \subseteq {"KeyRace", "TokenRace", "ReadError"}
    /\ down \subseteq Fragile

LEMMA TypeSplit == TypeOK <=> StoreType /\ proc \in [Procs -> Records]
BY DEF TypeOK, StoreType, Records

LEMMA TypeSplitNext == TypeOK' <=> StoreType' /\ proc' \in [Procs -> Records]
BY DEF TypeOK, StoreType, Records

-----------------------------------------------------------------------------
LEMMA TypeStep == TypeOK /\ [Next]_vars => TypeOK'
<1> SUFFICES ASSUME TypeOK, [Next]_vars PROVE TypeOK'
    OBVIOUS
<1>0. StoreType /\ proc \in [Procs -> Records]
    BY TypeSplit
<1>1. ASSUME NEW p \in Procs, NEW c \in Commands, Start(p, c) PROVE TypeOK'
    <2> DEFINE r == [NoProc EXCEPT !.pc = "opening", !.cmd = c]
    <2>1. r \in Records
        BY NoProcType DEF Records, Labels
    <2> QED
        BY <1>0, <1>1, <2>1, BecomesFacts, TypeSplitNext DEF Start, StoreType
<1>2. ASSUME NEW p \in Procs, Open(p) PROVE TypeOK'
    <2>1. CASE FindKey(p)
        <3> DEFINE r == [proc[p] EXCEPT !.pc = "opened", !.key = keyFile]
        <3>1. r \in Records
            BY <1>0, <2>1 DEF FindKey, Records, Labels
        <3> QED
            BY <1>0, <2>1, <3>1, BecomesFacts, TypeSplitNext DEF FindKey, StoreType
    <2>2. CASE FindNoKey(p)
        <3> DEFINE k == New(Keys)
        <3>0. /\ k \in Keys /\ minted' = minted \cup {k}
              /\ Becomes(p, [proc[p] EXCEPT !.pc = "creating", !.key = k])
            BY <2>2 DEF FindNoKey, New
        <3> HIDE DEF k
        <3> DEFINE r == [proc[p] EXCEPT !.pc = "creating", !.key = k]
        <3>1. r \in Records
            BY <1>0, <3>0 DEF Records, Labels
        <3> QED
            BY <1>0, <2>2, <3>0, <3>1, BecomesFacts, TypeSplitNext DEF FindNoKey, StoreType
    <2>3. CASE CreateKey(p)
        BY <1>0, <2>3, MovesFacts, TypeSplitNext DEF CreateKey, StoreType, Labels
    <2>4. CASE WriteKey(p)
        <3>1. proc[p].key \in Keys \cup {None}
            BY <1>0 DEF Records
        <3> QED
            BY <1>0, <2>4, <3>1, MovesFacts, TypeSplitNext DEF WriteKey, StoreType, Labels
    <2> QED
        BY <1>2, <2>1, <2>2, <2>3, <2>4 DEF Open
<1>3. ASSUME NEW p \in Procs, Stop(p) PROVE TypeOK'
    BY <1>0, <1>3, NoProcType, BecomesFacts, TypeSplitNext DEF Stop, StoreType
<1>4. ASSUME NEW p \in Procs, Serve(p) PROVE TypeOK'
    <2>1. CASE Load(p)
        <3> PICK S \in {Loaded(p), {}} :
               Becomes(p, [proc[p] EXCEPT !.servers = S,
                              !.pc = IF proc[p].cmd = "serve" THEN "resolving" ELSE "serving"])
            BY <2>1 DEF Load
        <3> DEFINE r == [proc[p] EXCEPT !.servers = S,
                            !.pc = IF proc[p].cmd = "serve" THEN "resolving" ELSE "serving"]
        <3>1. S \subseteq Names
            BY DEF Loaded, Registered
        <3>2. r \in Records
            BY <1>0, <3>1 DEF Records, Labels
        <3> QED
            BY <1>0, <2>1, <3>2, BecomesFacts, TypeSplitNext DEF Load, StoreType
    <2>2. CASE GetToken(p)
        <3> DEFINE r == [proc[p] EXCEPT !.pc = "serving", !.token = bearer.token]
        <3>1. r \in Records
            BY <1>0 DEF Records, Labels, StoreType
        <3> QED
            BY <1>0, <2>2, <3>1, BecomesFacts, TypeSplitNext DEF GetToken, StoreType
    <2>3. CASE MintToken(p)
        <3> DEFINE t == New(Tokens)
        <3>0. /\ t \in Tokens /\ minted' = minted \cup {t}
              /\ Becomes(p, [proc[p] EXCEPT !.pc = "minting", !.token = t])
            BY <2>3 DEF MintToken, New
        <3> HIDE DEF t
        <3> DEFINE r == [proc[p] EXCEPT !.pc = "minting", !.token = t]
        <3>1. r \in Records
            BY <1>0, <3>0 DEF Records, Labels
        <3> QED
            BY <1>0, <2>3, <3>0, <3>1, BecomesFacts, TypeSplitNext DEF MintToken, StoreType
    <2>4. CASE SetToken(p)
        <3>1. proc[p].key \in Keys \cup {None} /\ proc[p].token \in Tokens \cup {None}
            BY <1>0 DEF Records
        <3> QED
            BY <1>0, <2>4, <3>1, MovesFacts, TypeSplitNext DEF SetToken, StoreType, Labels
    <2>5. CASE Tick(p)
        <3> DEFINE r == [proc[p] EXCEPT !.servers = (@ \ Dropped(p)) \cup Added(p)]
        <3>1. r \in Records
            BY <1>0 DEF Records, Registered, ReadableBy, Added
        <3> QED
            BY <1>0, <2>5, <3>1, BecomesFacts, TypeSplitNext DEF Tick, StoreType
    <2>6. ASSUME NEW n \in Names, ServeAdd(p, n) PROVE TypeOK'
        <3> DEFINE r == [proc[p] EXCEPT !.servers = @ \cup {n}]
        <3>1. r \in Records
            BY <1>0 DEF Records
        <3> QED
            BY <1>0, <2>6, <3>1, BecomesFacts, TypeSplitNext DEF ServeAdd, StoreType
    <2>7. ASSUME NEW n \in Names, ServeRemove(p, n) PROVE TypeOK'
        <3> DEFINE r == [proc[p] EXCEPT !.servers = @ \ {n}]
        <3>1. r \in Records
            BY <1>0 DEF Records
        <3> QED
            BY <1>0, <2>7, <3>1, BecomesFacts, TypeSplitNext DEF ServeRemove, StoreType
    <2> QED
        BY <1>4, <2>1, <2>2, <2>3, <2>4, <2>5, <2>6, <2>7 DEF Serve
<1>5. ASSUME NEW p \in Procs, NEW n \in Names, AddServer(p, n) PROVE TypeOK'
    <2>1. proc[p].key \in Keys \cup {None}
        BY <1>0 DEF Records
    <2> QED
        BY <1>0, <1>5, <2>1, MovesFacts, TypeSplitNext DEF AddServer, StoreType, Labels
<1>6. ASSUME NEW p \in Procs, NEW n \in Names, RemoveServer(p, n) PROVE TypeOK'
    BY <1>0, <1>6, MovesFacts, TypeSplitNext DEF RemoveServer, StoreType, Labels
<1>7. ASSUME NEW n \in Fragile, Turns(n) PROVE TypeOK'
    BY <1>7 DEF Turns, TypeOK
<1>8. CASE UNCHANGED vars
    BY <1>8 DEF vars, TypeOK
<1> QED
    BY <1>1, <1>2, <1>3, <1>4, <1>5, <1>6, <1>7, <1>8 DEF Next

\* Processes, rows, key file and tokens are what the code can make of them.
THEOREM StartUpTypeCorrect == Spec => []TypeOK
<1>1. Init => TypeOK
    BY NoProcType, TypeSplit DEF Init, StoreType, NoBearer
<1> QED
    BY <1>1, TypeStep, PTL DEF Spec

-----------------------------------------------------------------------------
(* The key.  Until two processes find no key file there is one writer; what *)
(* others have in memory, or have stored under it, is what is in the file.  *)

Writing(p) == At(p, "creating") \/ At(p, "writing")
Past(p) == proc[p].pc \in {"opened", "resolving", "minting", "serving", "ended"}

KeyOf(p) ==
    /\ At(p, "creating") => proc[p].key \in Keys /\ keyFile = None
    /\ At(p, "writing") => proc[p].key \in Keys /\ keyFile = Torn
    /\ Past(p) => proc[p].key \in Keys /\ proc[p].key = keyFile

Stored ==
    /\ \A n \in Names : rows[n] \in Keys => rows[n] = keyFile
    /\ bearer.key # None => bearer.key = keyFile

KeyInv ==
    "KeyRace" \notin excuse =>
       /\ \A p, q \in Procs : Writing(p) /\ Writing(q) => p = q
       /\ \A p \in Procs : KeyOf(p)
       /\ Stored

\* A step of a process that neither writes the key file nor is about to.
LEMMA KeyKept ==
    ASSUME TypeOK, KeyInv, NEW p \in Procs,
           keyFile' = keyFile, excuse \subseteq excuse',
           \A q \in Procs \ {p} : proc'[q] = proc[q],
           "KeyRace" \notin excuse /\ KeyOf(p) /\ Stored => ~Writing(p)' /\ KeyOf(p)' /\ Stored'
    PROVE  KeyInv'
<1> SUFFICES ASSUME "KeyRace" \notin excuse'
             PROVE  /\ \A q, r \in Procs : Writing(q)' /\ Writing(r)' => q = r
                    /\ \A q \in Procs : KeyOf(q)'
                    /\ Stored'
    BY DEF KeyInv
<1>1. ~Writing(p)' /\ KeyOf(p)' /\ Stored'
    BY DEF KeyInv
<1>2. \A q \in Procs \ {p} : (Writing(q)' <=> Writing(q)) /\ KeyOf(q)'
    BY DEF KeyInv, KeyOf, Writing, Past, At
<1> QED
    BY <1>1, <1>2 DEF KeyInv

LEMMA KeyStep == TypeOK /\ KeyInv /\ [Next]_vars => KeyInv'
<1> SUFFICES ASSUME TypeOK, KeyInv, [Next]_vars PROVE KeyInv'
    OBVIOUS
<1>0. StoreType /\ proc \in [Procs -> Records]
    BY TypeSplit
<1>1. ASSUME NEW p \in Procs, NEW c \in Commands, Start(p, c) PROVE KeyInv'
    <2> DEFINE r == [NoProc EXCEPT !.pc = "opening", !.cmd = c]
    <2>1. r \in Records /\ r.pc = "opening"
        BY NoProcType DEF Records, Labels
    <2>2. proc'[p].pc = "opening" /\ \A q \in Procs \ {p} : proc'[q] = proc[q]
        BY <1>1, <2>1, BecomesFacts DEF Start
    <2> QED
        BY <1>1, <2>2, KeyKept DEF Start, Writing, Past, At, KeyOf, Stored
<1>2. ASSUME NEW p \in Procs, Open(p) PROVE KeyInv'
    <2>1. CASE FindKey(p)
        <3> DEFINE r == [proc[p] EXCEPT !.pc = "opened", !.key = keyFile]
        <3>1. r \in Records /\ r.pc = "opened" /\ r.key = keyFile
            BY <1>0, <2>1 DEF FindKey, Records, Labels
        <3>2. /\ proc'[p].pc = "opened" /\ proc'[p].key = keyFile /\ keyFile \in Keys
              /\ \A q \in Procs \ {p} : proc'[q] = proc[q]
            BY <2>1, <3>1, BecomesFacts DEF FindKey
        <3> QED
            BY <2>1, <3>2, KeyKept DEF FindKey, Writing, At, KeyOf, Stored
    <2>2. CASE FindNoKey(p)
        <3> DEFINE k == New(Keys)
        <3>0. k \in Keys /\ Becomes(p, [proc[p] EXCEPT !.pc = "creating", !.key = k])
            BY <2>2 DEF FindNoKey, New
        <3> HIDE DEF k
        <3> DEFINE r == [proc[p] EXCEPT !.pc = "creating", !.key = k]
        <3>1. r \in Records /\ r.pc = "creating" /\ r.key = k
            BY <3>0, <1>0 DEF Records, Labels
        <3>2. /\ proc'[p].pc = "creating" /\ proc'[p].key \in Keys
              /\ \A q \in Procs \ {p} : proc'[q] = proc[q]
            BY <3>0, <3>1, BecomesFacts
        <3>3. CASE KeyRace(p)
            BY <2>2, <3>3 DEF FindNoKey, KeyInv
        <3>4. CASE ~KeyRace(p)
            <4>1. \A q \in Procs \ {p} : ~Writing(q) /\ ~Writing(q)'
                BY <3>2, <3>4 DEF KeyRace, Writing, At
            <4>2. excuse' = excuse /\ UNCHANGED <<keyFile, rows, bearer>> /\ keyFile = None
                BY <2>2, <3>4 DEF FindNoKey
            <4> QED
                BY <3>2, <4>1, <4>2 DEF KeyInv, KeyOf, Stored, Writing, Past, At
        <3> QED
            BY <3>3, <3>4
    <2>3. CASE CreateKey(p)
        <3>1. /\ proc'[p].pc = "writing" /\ proc'[p].key = proc[p].key
              /\ \A q \in Procs \ {p} : proc'[q] = proc[q]
            BY <2>3, MovesFacts DEF CreateKey, Labels
        <3> SUFFICES ASSUME "KeyRace" \notin excuse'
                     PROVE  /\ \A q, r \in Procs : Writing(q)' /\ Writing(r)' => q = r
                            /\ \A q \in Procs : KeyOf(q)'
                            /\ Stored'
            BY DEF KeyInv
        <3>2. /\ keyFile = None /\ Stored /\ KeyOf(p) /\ Writing(p)
              /\ \A q \in Procs : KeyOf(q) /\ (q # p => ~Writing(q))
            BY <2>3 DEF KeyInv, CreateKey, KeyOf, Writing
        <3>3. \A q \in Procs \ {p} : ~Past(q) /\ ~Past(q)' /\ ~Writing(q)'
            BY <3>1, <3>2, SpecialValues DEF KeyOf, Past, Writing, At
        <3>4. Stored'
            BY <1>0, <2>3, <3>2, SpecialValues DEF CreateKey, Stored
        <3>5. KeyOf(p)'
            BY <2>3, <3>1, <3>2 DEF CreateKey, KeyOf, Past, At
        <3>6. \A q \in Procs \ {p} : KeyOf(q)'
            BY <3>3 DEF KeyOf, Writing
        <3> QED
            BY <3>3, <3>4, <3>5, <3>6
    <2>4. CASE WriteKey(p)
        <3>1. /\ proc'[p].pc = "opened" /\ proc'[p].key = proc[p].key
              /\ \A q \in Procs \ {p} : proc'[q] = proc[q]
            BY <2>4, MovesFacts DEF WriteKey, Labels
        <3> SUFFICES ASSUME "KeyRace" \notin excuse'
                     PROVE  /\ \A q, r \in Procs : Writing(q)' /\ Writing(r)' => q = r
                            /\ \A q \in Procs : KeyOf(q)'
                            /\ Stored'
            BY DEF KeyInv
        <3>2. /\ keyFile = Torn /\ Stored /\ KeyOf(p) /\ proc[p].key \in Keys
              /\ \A q \in Procs : KeyOf(q) /\ (q # p => ~Writing(q))
            BY <2>4 DEF KeyInv, WriteKey, KeyOf, Writing
        <3>3. \A q \in Procs \ {p} : ~Past(q) /\ ~Past(q)' /\ ~Writing(q)'
            BY <3>1, <3>2, SpecialValues DEF KeyOf, Past, Writing, At
        <3>4. Stored'
            BY <1>0, <2>4, <3>2, SpecialValues DEF WriteKey, Stored, StoreType
        <3>5. KeyOf(p)' /\ ~Writing(p)'
            BY <2>4, <3>1, <3>2 DEF WriteKey, KeyOf, Past, At, Writing
        <3>6. \A q \in Procs \ {p} : KeyOf(q)'
            BY <3>3 DEF KeyOf, Writing
        <3> QED
            BY <3>3, <3>4, <3>5, <3>6
    <2> QED
        BY <1>2, <2>1, <2>2, <2>3, <2>4 DEF Open
<1>3. ASSUME NEW p \in Procs, Stop(p) PROVE KeyInv'
    <2>1. proc'[p].pc = "idle" /\ \A q \in Procs \ {p} : proc'[q] = proc[q]
        BY <1>3, NoProcType, BecomesFacts DEF Stop
    <2> QED
        BY <1>3, <2>1, KeyKept DEF Stop, Writing, Past, At, KeyOf, Stored
<1>4. ASSUME NEW p \in Procs, Past(p), proc' \in [Procs -> Records],
             proc'[p].pc \in {"opened", "resolving", "minting", "serving", "ended"},
             proc'[p].key = proc[p].key, \A q \in Procs \ {p} : proc'[q] = proc[q],
             keyFile' = keyFile, excuse \subseteq excuse',
             bearer'.key \in {bearer.key, proc[p].key},
             \A n \in Names : rows'[n] \in {rows[n], proc[p].key, Plain, None}
      PROVE  KeyInv'
    <2>1. ASSUME KeyOf(p), Stored PROVE ~Writing(p)' /\ KeyOf(p)' /\ Stored'
        BY <1>4, <2>1, SpecialValues DEF Writing, Past, At, KeyOf, Stored
    <2> QED
        BY <1>4, <2>1, KeyKept
<1>5. ASSUME NEW p \in Procs, Serve(p) PROVE KeyInv'
    <2>1. CASE Load(p)
        <3> PICK S \in {Loaded(p), {}} :
               Becomes(p, [proc[p] EXCEPT !.servers = S,
                              !.pc = IF proc[p].cmd = "serve" THEN "resolving" ELSE "serving"])
            BY <2>1 DEF Load
        <3> DEFINE r == [proc[p] EXCEPT !.servers = S,
                            !.pc = IF proc[p].cmd = "serve" THEN "resolving" ELSE "serving"]
        <3>1. S \subseteq Names
            BY DEF Loaded, Registered
        <3>2. r \in Records /\ r.pc \in {"resolving", "serving"} /\ r.key = proc[p].key
            BY <1>0, <3>1 DEF Records, Labels
        <3>3. /\ proc' \in [Procs -> Records] /\ proc'[p] = r
              /\ \A q \in Procs \ {p} : proc'[q] = proc[q]
            BY <3>2, BecomesFacts
        <3> QED
            BY <1>4, <2>1, <3>2, <3>3 DEF Load, Past, At
    <2>2. CASE GetToken(p)
        <3> DEFINE r == [proc[p] EXCEPT !.pc = "serving", !.token = bearer.token]
        <3>1. r \in Records /\ r.pc = "serving" /\ r.key = proc[p].key
            BY <1>0 DEF Records, Labels, StoreType
        <3>2. /\ proc' \in [Procs -> Records] /\ proc'[p] = r
              /\ \A q \in Procs \ {p} : proc'[q] = proc[q]
            BY <2>2, <3>1, BecomesFacts DEF GetToken
        <3> QED
            BY <1>4, <2>2, <3>1, <3>2 DEF GetToken, Past, At
    <2>3. CASE MintToken(p)
        <3> DEFINE t == New(Tokens)
        <3>0. t \in Tokens /\ Becomes(p, [proc[p] EXCEPT !.pc = "minting", !.token = t])
            BY <2>3 DEF MintToken, New
        <3> HIDE DEF t
        <3> DEFINE r == [proc[p] EXCEPT !.pc = "minting", !.token = t]
        <3>1. r \in Records /\ r.pc = "minting" /\ r.key = proc[p].key
            BY <3>0, <1>0 DEF Records, Labels
        <3>2. /\ proc' \in [Procs -> Records] /\ proc'[p] = r
              /\ \A q \in Procs \ {p} : proc'[q] = proc[q]
            BY <3>0, <3>1, BecomesFacts
        <3> QED
            BY <1>4, <2>3, <3>1, <3>2 DEF MintToken, Past, At
    <2>4. CASE SetToken(p)
        <3>1. /\ proc' \in [Procs -> Records] /\ proc'[p].pc = "serving"
              /\ proc'[p].key = proc[p].key /\ \A q \in Procs \ {p} : proc'[q] = proc[q]
            BY <2>4, MovesFacts DEF SetToken, Labels
        <3> QED
            BY <1>4, <2>4, <3>1 DEF SetToken, Past, At
    <2>5. CASE Tick(p)
        <3> DEFINE r == [proc[p] EXCEPT !.servers = (@ \ Dropped(p)) \cup Added(p)]
        <3>1. r \in Records /\ r.pc = proc[p].pc /\ r.key = proc[p].key
            BY <1>0 DEF Records, Registered, ReadableBy, Added
        <3>2. /\ proc' \in [Procs -> Records] /\ proc'[p] = r
              /\ \A q \in Procs \ {p} : proc'[q] = proc[q]
            BY <2>5, <3>1, BecomesFacts DEF Tick
        <3> QED
            BY <1>4, <2>5, <3>1, <3>2 DEF Tick, Past, At
    <2>6. ASSUME NEW n \in Names, ServeAdd(p, n) PROVE KeyInv'
        <3> DEFINE r == [proc[p] EXCEPT !.servers = @ \cup {n}]
        <3>1. r \in Records /\ r.pc = proc[p].pc /\ r.key = proc[p].key
            BY <1>0 DEF Records
        <3>2. /\ proc' \in [Procs -> Records] /\ proc'[p] = r
              /\ \A q \in Procs \ {p} : proc'[q] = proc[q]
            BY <2>6, <3>1, BecomesFacts DEF ServeAdd
        <3>3. \A m \in Names : rows'[m] \in {rows[m], Plain}
            BY <1>0, <2>6 DEF ServeAdd, StoreType
        <3> QED
            BY <1>4, <2>6, <3>1, <3>2, <3>3 DEF ServeAdd, Past, At
    <2>7. ASSUME NEW n \in Names, ServeRemove(p, n) PROVE KeyInv'
        <3> DEFINE r == [proc[p] EXCEPT !.servers = @ \ {n}]
        <3>1. r \in Records /\ r.pc = proc[p].pc /\ r.key = proc[p].key
            BY <1>0 DEF Records
        <3>2. /\ proc' \in [Procs -> Records] /\ proc'[p] = r
              /\ \A q \in Procs \ {p} : proc'[q] = proc[q]
            BY <2>7, <3>1, BecomesFacts DEF ServeRemove
        <3>3. \A m \in Names : rows'[m] \in {rows[m], None}
            BY <1>0, <2>7 DEF ServeRemove, StoreType
        <3> QED
            BY <1>4, <2>7, <3>1, <3>2, <3>3 DEF ServeRemove, Past, At
    <2> QED
        BY <1>5, <2>1, <2>2, <2>3, <2>4, <2>5, <2>6, <2>7 DEF Serve
<1>6. ASSUME NEW p \in Procs, NEW n \in Names, AddServer(p, n) \/ RemoveServer(p, n) PROVE KeyInv'
    <2>1. /\ proc' \in [Procs -> Records] /\ proc'[p].pc = "ended"
          /\ proc'[p].key = proc[p].key /\ \A q \in Procs \ {p} : proc'[q] = proc[q]
        BY <1>6, MovesFacts DEF AddServer, RemoveServer, Labels
    <2>2. \A m \in Names : rows'[m] \in {rows[m], proc[p].key, Plain, None}
        BY <1>0, <1>6 DEF AddServer, RemoveServer, StoreType
    <2> QED
        BY <1>4, <1>6, <2>1, <2>2 DEF AddServer, RemoveServer, Past, At
<1>7. ASSUME NEW n \in Fragile, Turns(n) PROVE KeyInv'
    BY <1>7 DEF Turns, KeyInv, KeyOf, Stored, Writing, Past, At
<1>8. CASE UNCHANGED vars
    BY <1>8 DEF vars, KeyInv, KeyOf, Stored, Writing, Past, At
<1> QED
    BY <1>1, <1>2, <1>3, <1>5, <1>6, <1>7, <1>8 DEF Next

\* Whatever is stored encrypted can be decrypted by whoever opens the store
\* later: for any number of processes, killed at any time, as long as no two
\* of them have found no key file.
THEOREM TokensReadableHolds == Spec => []TokensReadable
<1>1. Init => KeyInv
    BY NoProcType, SpecialValues DEF Init, KeyInv, KeyOf, Stored, Writing, Past, At, NoBearer
<1>2. KeyInv => TokensReadable
    BY DEF KeyInv, Stored, TokensReadable
<1> QED
    BY <1>1, <1>2, KeyStep, StartUpTypeCorrect, PTL DEF Spec

-----------------------------------------------------------------------------
(* The bearer token.  Whoever is about to store one has found none, and is *)
(* alone.                                                                  *)

BearerOf(p) ==
    /\ At(p, "minting") => bearer.key = None
    /\ At(p, "serving") /\ proc[p].cmd = "serve" =>
          bearer.token = proc[p].token /\ bearer.key = keyFile

BearerInv ==
    excuse = {} =>
       /\ \A p, q \in Procs : At(p, "minting") /\ At(q, "minting") => p = q
       /\ \A p \in Procs : BearerOf(p)

\* A step that leaves the stored token and the key file alone.
LEMMA BearerKept ==
    ASSUME TypeOK, BearerInv, NEW p \in Procs,
           keyFile' = keyFile, bearer' = bearer, excuse \subseteq excuse',
           \A q \in Procs \ {p} : proc'[q] = proc[q],
           excuse = {} /\ BearerOf(p) => ~At(p, "minting")' /\ BearerOf(p)'
    PROVE  BearerInv'
<1> SUFFICES ASSUME excuse' = {}
             PROVE  /\ \A q, r \in Procs : At(q, "minting")' /\ At(r, "minting")' => q = r
                    /\ \A q \in Procs : BearerOf(q)'
    BY DEF BearerInv
<1>1. ~At(p, "minting")' /\ BearerOf(p)'
    BY DEF BearerInv
<1>2. \A q \in Procs \ {p} : (At(q, "minting")' <=> At(q, "minting")) /\ BearerOf(q)'
    BY DEF BearerInv, BearerOf, At
<1> QED
    BY <1>1, <1>2 DEF BearerInv

\* A step of a process that serves already.
LEMMA ServingKept ==
    ASSUME TypeOK, BearerInv, NEW p \in Procs, NEW r \in Records, Becomes(p, r),
           keyFile' = keyFile, bearer' = bearer, excuse \subseteq excuse',
           At(p, "serving"), r.pc = "serving", r.cmd = proc[p].cmd, r.token = proc[p].token
    PROVE  BearerInv'
<1>1. proc'[p] = r /\ \A q \in Procs \ {p} : proc'[q] = proc[q]
    BY BecomesFacts
<1> QED
    BY <1>1, BearerKept DEF BearerOf, At

LEMMA BearerStep == TypeOK /\ KeyInv /\ BearerInv /\ [Next]_vars => BearerInv'
<1> SUFFICES ASSUME TypeOK, KeyInv, BearerInv, [Next]_vars PROVE BearerInv'
    OBVIOUS
<1>0. StoreType /\ proc \in [Procs -> Records]
    BY TypeSplit
<1>1. ASSUME NEW p \in Procs, NEW l \in Labels \ {"minting", "serving"}, proc'[p].pc = l,
             \A q \in Procs \ {p} : proc'[q] = proc[q],
             keyFile' = keyFile, bearer' = bearer, excuse \subseteq excuse'
      PROVE  BearerInv'
    BY <1>1, BearerKept DEF BearerOf, At
<1>2. ASSUME NEW p \in Procs, NEW c \in Commands, Start(p, c) PROVE BearerInv'
    <2> DEFINE r == [NoProc EXCEPT !.pc = "opening", !.cmd = c]
    <2>1. r \in Records /\ r.pc = "opening"
        BY NoProcType DEF Records, Labels
    <2>2. proc'[p].pc = "opening" /\ \A q \in Procs \ {p} : proc'[q] = proc[q]
        BY <1>2, <2>1, BecomesFacts DEF Start
    <2> QED
        BY <1>1, <1>2, <2>2 DEF Start, Labels
<1>3. ASSUME NEW p \in Procs, Open(p) PROVE BearerInv'
    <2>1. CASE FindKey(p)
        <3> DEFINE r == [proc[p] EXCEPT !.pc = "opened", !.key = keyFile]
        <3>1. r \in Records /\ r.pc = "opened"
            BY <1>0, <2>1 DEF FindKey, Records, Labels
        <3>2. proc'[p].pc = "opened" /\ \A q \in Procs \ {p} : proc'[q] = proc[q]
            BY <2>1, <3>1, BecomesFacts DEF FindKey
        <3> QED
            BY <1>1, <2>1, <3>2 DEF FindKey, Labels
    <2>2. CASE FindNoKey(p)
        <3> DEFINE k == New(Keys)
        <3>0. k \in Keys /\ Becomes(p, [proc[p] EXCEPT !.pc = "creating", !.key = k])
            BY <2>2 DEF FindNoKey, New
        <3> HIDE DEF k
        <3> DEFINE r == [proc[p] EXCEPT !.pc = "creating", !.key = k]
        <3>1. r \in Records /\ r.pc = "creating"
            BY <3>0, <1>0 DEF Records, Labels
        <3>2. proc'[p].pc = "creating" /\ \A q \in Procs \ {p} : proc'[q] = proc[q]
            BY <3>0, <3>1, BecomesFacts
        <3> QED
            BY <1>1, <2>2, <3>2 DEF FindNoKey, Labels
    <2>3. CASE CreateKey(p) \/ WriteKey(p)
        <3>1. /\ proc'[p].pc \in {"writing", "opened"} /\ excuse' = excuse
              /\ \A q \in Procs \ {p} : proc'[q] = proc[q]
            BY <2>3, MovesFacts DEF CreateKey, WriteKey, Labels
        <3> SUFFICES ASSUME excuse' = {}
                     PROVE  /\ \A q, r \in Procs : At(q, "minting")' /\ At(r, "minting")' => q = r
                            /\ \A q \in Procs : BearerOf(q)'
            BY DEF BearerInv
        <3>2. \A q \in Procs : ~Past(q)
            BY <2>3, <3>1, SpecialValues
            DEF KeyInv, KeyOf, CreateKey, WriteKey, Past, At
        <3> QED
            BY <3>1, <3>2 DEF BearerOf, At, Past
    <2> QED
        BY <1>3, <2>1, <2>2, <2>3 DEF Open
<1>4. ASSUME NEW p \in Procs, Stop(p) PROVE BearerInv'
    <2>1. proc'[p].pc = "idle" /\ \A q \in Procs \ {p} : proc'[q] = proc[q]
        BY <1>4, NoProcType, BecomesFacts DEF Stop
    <2> QED
        BY <1>1, <1>4, <2>1 DEF Stop, Labels
<1>5. ASSUME NEW p \in Procs, Serve(p) PROVE BearerInv'
    <2>1. CASE Load(p)
        <3> PICK S \in {Loaded(p), {}} :
               Becomes(p, [proc[p] EXCEPT !.servers = S,
                              !.pc = IF proc[p].cmd = "serve" THEN "resolving" ELSE "serving"])
            BY <2>1 DEF Load
        <3> DEFINE r == [proc[p] EXCEPT !.servers = S,
                            !.pc = IF proc[p].cmd = "serve" THEN "resolving" ELSE "serving"]
        <3>1. S \subseteq Names
            BY DEF Loaded, Registered
        <3>2. r \in Records /\ r.cmd = proc[p].cmd
              /\ r.pc = IF proc[p].cmd = "serve" THEN "resolving" ELSE "serving"
            BY <1>0, <3>1 DEF Records, Labels
        <3>3. proc'[p] = r /\ \A q \in Procs \ {p} : proc'[q] = proc[q]
            BY <3>2, BecomesFacts
        <3>4. ~At(p, "minting")' /\ BearerOf(p)'
            <4>1. proc'[p].pc # "minting" /\ ~(proc'[p].pc = "serving" /\ proc'[p].cmd = "serve")
                BY <3>2, <3>3
            <4> QED
                BY <4>1 DEF BearerOf, At
        <3> QED
            BY <2>1, <3>3, <3>4, BearerKept DEF Load
    <2>2. CASE GetToken(p)
        <3> DEFINE r == [proc[p] EXCEPT !.pc = "serving", !.token = bearer.token]
        <3>1. r \in Records /\ r.pc = "serving" /\ r.token = bearer.token /\ r.key = proc[p].key
            BY <1>0 DEF Records, Labels, StoreType
        <3>2. proc'[p] = r /\ \A q \in Procs \ {p} : proc'[q] = proc[q]
            BY <2>2, <3>1, BecomesFacts DEF GetToken
        <3>3. excuse = {} => bearer.key = keyFile
            BY <2>2 DEF GetToken, KeyInv, KeyOf, Past, At
        <3> QED
            BY <2>2, <3>1, <3>2, <3>3, BearerKept DEF GetToken, BearerOf, At
    <2>3. CASE MintToken(p)
        <3> DEFINE t == New(Tokens)
        <3>0. t \in Tokens /\ Becomes(p, [proc[p] EXCEPT !.pc = "minting", !.token = t])
            BY <2>3 DEF MintToken, New
        <3> HIDE DEF t
        <3> DEFINE r == [proc[p] EXCEPT !.pc = "minting", !.token = t]
        <3>1. r \in Records /\ r.pc = "minting"
            BY <3>0, <1>0 DEF Records, Labels
        <3>2. proc'[p].pc = "minting" /\ \A q \in Procs \ {p} : proc'[q] = proc[q]
            BY <3>0, <3>1, BecomesFacts
        <3> SUFFICES ASSUME excuse' = {}
                     PROVE  /\ \A q, s \in Procs : At(q, "minting")' /\ At(s, "minting")' => q = s
                            /\ \A q \in Procs : BearerOf(q)'
            BY DEF BearerInv
        <3>3. excuse = {} /\ ~TokenRace(p) /\ ~ReadError(p) /\ UNCHANGED <<keyFile, bearer>>
            BY <2>3 DEF MintToken
        <3>4. bearer.key = None
            BY <2>3, <3>3 DEF MintToken, ReadError, KeyInv, KeyOf, Stored, Past, At
        <3>5. \A q \in Procs \ {p} : ~At(q, "minting")' /\ BearerOf(q)'
            BY <3>2, <3>3 DEF TokenRace, BearerInv, BearerOf, At
        <3> QED
            BY <3>2, <3>3, <3>4, <3>5 DEF BearerOf, At
    <2>4. CASE SetToken(p)
        <3>1. /\ proc'[p].pc = "serving" /\ proc'[p].key = proc[p].key
              /\ proc'[p].token = proc[p].token /\ \A q \in Procs \ {p} : proc'[q] = proc[q]
            BY <2>4, MovesFacts DEF SetToken, Labels
        <3> SUFFICES ASSUME excuse' = {}
                     PROVE  /\ \A q, s \in Procs : At(q, "minting")' /\ At(s, "minting")' => q = s
                            /\ \A q \in Procs : BearerOf(q)'
            BY DEF BearerInv
        <3>2. /\ excuse = {} /\ keyFile' = keyFile /\ At(p, "minting") /\ bearer.key = None
              /\ bearer' = [key |-> proc[p].key, token |-> proc[p].token]
            BY <2>4 DEF SetToken, BearerInv, BearerOf
        <3>3. proc[p].key = keyFile /\ keyFile \in Keys
            BY <3>2 DEF KeyInv, KeyOf, Past, At
        <3>4. \A q \in Procs \ {p} :
                 ~At(q, "minting") /\ ~(At(q, "serving") /\ proc[q].cmd = "serve")
            BY <3>2, <3>3, SpecialValues DEF BearerInv, BearerOf
        <3>5. \A q \in Procs \ {p} : ~At(q, "minting")' /\ BearerOf(q)'
            BY <3>1, <3>4 DEF BearerOf, At
        <3> QED
            BY <3>1, <3>2, <3>3, <3>5 DEF BearerOf, At
    <2>5. CASE Tick(p)
        <3> DEFINE r == [proc[p] EXCEPT !.servers = (@ \ Dropped(p)) \cup Added(p)]
        <3>1. r \in Records /\ r.pc = proc[p].pc /\ r.cmd = proc[p].cmd /\ r.token = proc[p].token
            BY <1>0 DEF Records, Registered, ReadableBy, Added
        <3> QED
            BY <2>5, <3>1, ServingKept DEF Tick, At
    <2>6. ASSUME NEW n \in Names, ServeAdd(p, n) PROVE BearerInv'
        <3> DEFINE r == [proc[p] EXCEPT !.servers = @ \cup {n}]
        <3>1. r \in Records /\ r.pc = proc[p].pc /\ r.cmd = proc[p].cmd /\ r.token = proc[p].token
            BY <1>0 DEF Records
        <3> QED
            BY <2>6, <3>1, ServingKept DEF ServeAdd, At
    <2>7. ASSUME NEW n \in Names, ServeRemove(p, n) PROVE BearerInv'
        <3> DEFINE r == [proc[p] EXCEPT !.servers = @ \ {n}]
        <3>1. r \in Records /\ r.pc = proc[p].pc /\ r.cmd = proc[p].cmd /\ r.token = proc[p].token
            BY <1>0 DEF Records
        <3> QED
            BY <2>7, <3>1, ServingKept DEF ServeRemove, At
    <2> QED
        BY <1>5, <2>1, <2>2, <2>3, <2>4, <2>5, <2>6, <2>7 DEF Serve
<1>6. ASSUME NEW p \in Procs, NEW n \in Names, AddServer(p, n) \/ RemoveServer(p, n)
      PROVE  BearerInv'
    BY <1>1, <1>6, MovesFacts DEF AddServer, RemoveServer, Labels
<1>7. ASSUME NEW n \in Fragile, Turns(n) PROVE BearerInv'
    BY <1>7 DEF Turns, BearerInv, BearerOf, At
<1>8. CASE UNCHANGED vars
    BY <1>8 DEF vars, BearerInv, BearerOf, At
<1> QED
    BY <1>2, <1>3, <1>4, <1>5, <1>6, <1>7, <1>8 DEF Next

\* All processes that serve with the persisted bearer token have the one that
\* is persisted, however many start, unless two find none or the store fails.
THEOREM OneBearerHolds == Spec => []OneBearer
<1>1. Init => KeyInv /\ BearerInv
    BY NoProcType, SpecialValues
    DEF Init, KeyInv, KeyOf, Stored, Writing, Past, At, NoBearer, BearerInv, BearerOf
<1>2. TypeOK /\ BearerInv => OneBearer
    BY DEF TypeOK, BearerInv, BearerOf, OneBearer
<1> QED
    BY <1>1, <1>2, KeyStep, BearerStep, StartUpTypeCorrect, PTL DEF Spec

=============================================================================
