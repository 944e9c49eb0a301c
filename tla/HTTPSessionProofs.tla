------------------------- MODULE HTTPSessionProofs -------------------------
(***************************************************************************)
(* ExecutedOnce for every number of callers and sessions, by an invariant  *)
(* that says in each state of a call how often the tool has been run; and  *)
(* RecoversUndisturbed, by one that says what a call that nobody disturbs  *)
(* has in hand at each stage.                                              *)
(***************************************************************************)
EXTENDS HTTPSession, TLAPS

\* Type correctness without the numbers, which ExecutedInv is about.
CallType ==
    /\ call \in [Callers -> [pc : {"idle", "send", "sent", "reply", "clear"},
                             stage : Stages, sid : MaybeSession,
                             status : Statuses, header : MaybeSession]]
    /\ \A c \in Callers :
          /\ call[c].pc = "idle" => call[c] = Idle
          /\ call[c].pc = "clear" => call[c].stage = "try"
    /\ outcome \in [Callers -> {"none", "ok", "error"}]
    /\ executed \in [Callers -> Nat]
    /\ excused \in [Callers -> BOOLEAN]

LEMMA TypeSplit ==
    TypeOK <=> /\ sessionID \in MaybeSession /\ open \subseteq Sessions /\ CallType
               /\ disturbed \in [Callers -> BOOLEAN]
BY DEF TypeOK, CallType

\* Every record a step puts in call.
LEMMA RecordTypes ==
    /\ Idle \in [pc : {"idle", "send", "sent", "reply", "clear"}, stage : Stages,
                 sid : MaybeSession, status : Statuses, header : MaybeSession]
    /\ Idle.pc = "idle"
    /\ \A s \in Stages :
          /\ Sending(s) \in [pc : {"idle", "send", "sent", "reply", "clear"}, stage : Stages,
                             sid : MaybeSession, status : Statuses, header : MaybeSession]
          /\ Sending(s).pc = "send" /\ Sending(s).stage = s
BY DEF Idle, Sending, At, MaybeSession, Statuses, Stages

\* One step of one caller leaves the types alone.
LEMMA CallTypeKept ==
    ASSUME TypeOK, NEW c \in Callers,
           NEW r \in [pc : {"idle", "send", "sent", "reply", "clear"}, stage : Stages,
                      sid : MaybeSession, status : Statuses, header : MaybeSession],
           r.pc = "idle" => r = Idle,
           r.pc = "clear" => r.stage = "try",
           Become(c, r),
           outcome' \in [Callers -> {"none", "ok", "error"}],
           executed' \in [Callers -> Nat], excused' \in [Callers -> BOOLEAN]
    PROVE  CallType'
<1>1. \A d \in Callers : call'[d] = IF d = c THEN r ELSE call[d]
    BY DEF Become, TypeOK
<1>2. call' \in [Callers -> [pc : {"idle", "send", "sent", "reply", "clear"},
                             stage : Stages, sid : MaybeSession,
                             status : Statuses, header : MaybeSession]]
    BY DEF Become, TypeOK
<1>3. ASSUME NEW d \in Callers
      PROVE  /\ call'[d].pc = "idle" => call'[d] = Idle
             /\ call'[d].pc = "clear" => call'[d].stage = "try"
    <2>1. CASE d = c
        BY <1>1, <2>1
    <2>2. CASE d # c
        BY <1>1, <2>2 DEF TypeOK
    <2> QED
        BY <2>1, <2>2
<1> QED
    BY <1>2, <1>3 DEF CallType, Idle, At

LEMMA OutcomeKept ==
    ASSUME TypeOK, NEW c \in Callers, NEW o \in {"none", "ok", "error"}
    PROVE  [outcome EXCEPT ![c] = o] \in [Callers -> {"none", "ok", "error"}]
BY DEF TypeOK

LEMMA ExecutedKept ==
    ASSUME TypeOK, NEW c \in Callers
    PROVE  /\ [executed EXCEPT ![c] = @ + 1] \in [Callers -> Nat]
           /\ [executed EXCEPT ![c] = 0] \in [Callers -> Nat]
           /\ \A b \in BOOLEAN : [excused EXCEPT ![c] = b] \in [Callers -> BOOLEAN]
BY DEF TypeOK

LEMMA DisturbedKept ==
    ASSUME TypeOK, [Next]_vars
    PROVE  disturbed' \in [Callers -> BOOLEAN]
<1>0. disturbed \in [Callers -> BOOLEAN]
    BY DEF TypeOK
<1>1. ASSUME NEW c \in Callers, CallTool(c) \/ Serve(c) \/ Lose(c)
      PROVE  disturbed' \in [Callers -> BOOLEAN]
    <2>1. CASE Start(c)
        BY <1>0, <2>1 DEF Start
    <2>2. ASSUME Disturb(c) PROVE disturbed' \in [Callers -> BOOLEAN]
        BY <1>0, <2>2 DEF Disturb
    <2>3. CASE Receive(c)
        BY <2>2, <2>3 DEF Receive
    <2>4. CASE Reinitialize(c)
        BY <2>2, <2>4 DEF Reinitialize
    <2>5. CASE Send(c) \/ Lose(c) \/ Serve(c)
        BY <1>0, <2>5 DEF Send, Lose, Serve, ServerInitializes, ServerAnswers,
                          ServerRefuses, ghosts
    <2> QED
        BY <1>1, <2>1, <2>3, <2>4, <2>5 DEF CallTool
<1>2. ASSUME NEW s \in Sessions, ServerDrops(s) PROVE disturbed' = disturbed
    BY <1>2 DEF ServerDrops
<1>3. CASE UNCHANGED vars
    BY <1>0, <1>3 DEF vars
<1> QED
    BY <1>0, <1>1, <1>2, <1>3 DEF Next

LEMMA TypeStep == TypeOK /\ [Next]_vars => TypeOK'
<1> SUFFICES ASSUME TypeOK, [Next]_vars PROVE TypeOK'
    OBVIOUS
<1> DEFINE Records == [pc : {"idle", "send", "sent", "reply", "clear"}, stage : Stages,
                       sid : MaybeSession, status : Statuses, header : MaybeSession]
<1>0. /\ sessionID \in MaybeSession /\ open \subseteq Sessions
      /\ \A c \in Callers : call[c] \in Records
      /\ outcome \in [Callers -> {"none", "ok", "error"}]
      /\ executed \in [Callers -> Nat] /\ excused \in [Callers -> BOOLEAN]
      /\ MaybeSession = Sessions \cup {None}
    BY DEF TypeOK, MaybeSession
<1>a. disturbed' \in [Callers -> BOOLEAN]
    BY DisturbedKept
<1>1. ASSUME NEW c \in Callers, Start(c) PROVE TypeOK'
    <2>1. CallType'
        BY <1>0, <1>1, RecordTypes, CallTypeKept, OutcomeKept, ExecutedKept DEF Start, Stages
    <2> QED
        BY <1>0, <1>a, <1>1, <2>1, TypeSplit DEF Start, transportVars, TypeOK, CallType
<1>2. ASSUME NEW c \in Callers, Send(c) PROVE TypeOK'
    <2> DEFINE r == [call[c] EXCEPT !.pc = "sent", !.sid = sessionID]
    <2>1. r \in Records /\ r.pc = "sent"
        BY <1>0
    <2>2. CallType'
        BY <1>0, <1>2, <2>1, CallTypeKept DEF Send, ghosts
    <2> QED
        BY <1>0, <1>a, <1>2, <2>2 DEF Send, transportVars, TypeOK, CallType
<1>3. ASSUME NEW c \in Callers, Receive(c) PROVE TypeOK'
    <2>1. sessionID' \in MaybeSession /\ open' \subseteq Sessions
        BY <1>0, <1>3 DEF Receive, Store
    <2>2. executed' \in [Callers -> Nat] /\ excused' \in [Callers -> BOOLEAN]
        BY <1>0, <1>3 DEF Receive
    <2>3. ASSUME NEW o \in {"none", "ok", "error"}, Return(c, o) PROVE CallType'
        BY <2>2, <2>3, RecordTypes, CallTypeKept, OutcomeKept DEF Return
    <2>4. ASSUME NEW s \in Stages, Become(c, Sending(s)), UNCHANGED outcome PROVE CallType'
        BY <1>0, <2>2, <2>4, RecordTypes, CallTypeKept
    <2>5. ASSUME call[c].stage = "try", Become(c, [call[c] EXCEPT !.pc = "clear"]), UNCHANGED outcome
          PROVE  CallType'
        <3>1. [call[c] EXCEPT !.pc = "clear"] \in Records
              /\ [call[c] EXCEPT !.pc = "clear"].pc = "clear"
              /\ [call[c] EXCEPT !.pc = "clear"].stage = "try"
            BY <1>0, <2>5
        <3> QED
            BY <1>0, <2>2, <2>5, <3>1, CallTypeKept
    <2>6. CallType'
        BY <1>3, <2>3, <2>4, <2>5 DEF Receive, Stages
    <2> QED
        BY <1>a, <2>1, <2>6 DEF TypeOK, CallType
<1>4. ASSUME NEW c \in Callers, Reinitialize(c) PROVE TypeOK'
    <2>1. CallType'
        BY <1>0, <1>4, RecordTypes, CallTypeKept DEF Reinitialize, ghosts, Stages
    <2> QED
        BY <1>0, <1>a, <1>4, <2>1 DEF Reinitialize, TypeOK, CallType
<1>5. ASSUME NEW c \in Callers, Lose(c) PROVE TypeOK'
    <2>1. executed' \in [Callers -> Nat] /\ excused' \in [Callers -> BOOLEAN]
        BY <1>0, <1>5, ExecutedKept DEF Lose
    <2>2. CallType'
        BY <1>0, <1>5, <2>1, RecordTypes, CallTypeKept, OutcomeKept DEF Lose, Return, Stages
    <2> QED
        BY <1>0, <1>a, <1>5, <2>2 DEF Lose, transportVars, TypeOK, CallType
<1>6. ASSUME NEW c \in Callers, NEW st \in Statuses, NEW h \in MaybeSession, Answer(c, st, h),
             outcome' = outcome, excused' = excused, executed' \in [Callers -> Nat]
      PROVE  CallType'
    <2> DEFINE r == [call[c] EXCEPT !.pc = "reply", !.status = st, !.header = h]
    <2>1. r \in Records /\ r.pc = "reply"
        BY <1>0
    <2> QED
        BY <1>0, <1>6, <2>1, CallTypeKept DEF Answer
<1>7. ASSUME NEW c \in Callers, Serve(c) PROVE TypeOK'
    <2>1. CASE ServerInitializes(c)
        BY <1>0, <1>a, <1>6, <2>1 DEF ServerInitializes, ghosts, Statuses, TypeOK, CallType
    <2>2. CASE ServerAnswers(c)
        <3>1. executed' \in [Callers -> Nat]
            BY <1>0, <2>2, ExecutedKept DEF ServerAnswers
        <3>2. PICK h \in MaybeSession, st \in Statuses : Answer(c, st, h)
            BY <1>0, <2>2 DEF ServerAnswers, Statuses
        <3> QED
            BY <1>0, <1>a, <1>6, <2>2, <3>1, <3>2 DEF ServerAnswers, transportVars, TypeOK, CallType
    <2>3. CASE ServerRefuses(c)
        <3>1. PICK st \in Statuses : Answer(c, st, None)
            BY <2>3 DEF ServerRefuses, Statuses
        <3> QED
            BY <1>0, <1>a, <1>6, <2>3, <3>1 DEF ServerRefuses, transportVars, ghosts, TypeOK, CallType
    <2> QED
        BY <1>7, <2>1, <2>2, <2>3 DEF Serve
<1>8. ASSUME NEW s \in Sessions, ServerDrops(s) PROVE TypeOK'
    BY <1>0, <1>a, <1>8 DEF ServerDrops, TypeOK
<1>9. CASE UNCHANGED vars
    BY <1>9 DEF vars, TypeOK
<1> QED
    BY <1>1, <1>2, <1>3, <1>4, <1>5, <1>7, <1>8, <1>9 DEF Next, CallTool

\* The fields hold what the code can put there: for any number of callers and
\* sessions, only a first try leads to reinitialize.
THEOREM SessionTypeCorrect == Spec => []TypeOK
<1>1. Init => TypeOK
    BY RecordTypes DEF Init, TypeOK, MaybeSession, Idle, At
<1> QED
    BY <1>1, TypeStep, PTL DEF Spec

-----------------------------------------------------------------------------
\* The server has run the tool, and its answer is on the way.
Ran(c) ==
    call[c].pc = "reply" /\ call[c].stage \in {"try", "retry"} /\ call[c].status = 200

\* ExecutedOnce is not inductive: that the second try is safe depends on what
\* the first was answered.
ExecutedInv ==
    \A c \in Callers :
       /\ Ran(c) => executed[c] = 1
       /\ call[c].pc # "idle" /\ ~Ran(c) => executed[c] = 0
       /\ call[c].pc = "idle" =>
             executed[c] \in {0, 1} /\ (outcome[c] = "ok" => executed[c] = 1)
       /\ call[c].pc # "idle" => outcome[c] = "none"

\* What ExecutedInv says of one caller, and that a step leaves the others alone.
CallerInv(c) ==
    /\ Ran(c) => executed[c] = 1
    /\ call[c].pc # "idle" /\ ~Ran(c) => executed[c] = 0
    /\ call[c].pc = "idle" =>
          executed[c] \in {0, 1} /\ (outcome[c] = "ok" => executed[c] = 1)
    /\ call[c].pc # "idle" => outcome[c] = "none"

LEMMA OthersKept ==
    ASSUME TypeOK, ExecutedInv, NEW c \in Callers, CallerInv(c)',
           \A d \in Callers \ {c} :
              call'[d] = call[d] /\ outcome'[d] = outcome[d] /\ executed'[d] = executed[d]
    PROVE  ExecutedInv'
BY DEF ExecutedInv, CallerInv, Ran

LEMMA ExecutedStep == TypeOK /\ ExecutedInv /\ [Next]_vars => ExecutedInv'
<1> SUFFICES ASSUME TypeOK, ExecutedInv, [Next]_vars PROVE ExecutedInv'
    OBVIOUS
<1>1. ASSUME NEW c \in Callers, CallTool(c) \/ Serve(c) \/ Lose(c) PROVE ExecutedInv'
    <2>0. /\ CallerInv(c) /\ call[c].stage \in Stages /\ call[c].status \in Statuses
          /\ executed[c] \in Nat
        BY DEF ExecutedInv, CallerInv, TypeOK
    <2>1. \A d \in Callers \ {c} :
             call'[d] = call[d] /\ outcome'[d] = outcome[d] /\ executed'[d] = executed[d]
        <3>1. CASE CallTool(c)
            BY <3>1 DEF TypeOK, CallTool, Start, Send, Receive, Reinitialize, Return, Become, ghosts
        <3>2. CASE Lose(c)
            BY <3>2 DEF TypeOK, Lose, Return, Become
        <3>3. CASE Serve(c)
            BY <3>3 DEF TypeOK, Serve, Answer, Become, ServerInitializes, ServerAnswers,
                        ServerRefuses, ghosts
        <3> QED
            BY <1>1, <3>1, <3>2, <3>3
    <2>2. CallerInv(c)'
        <3>1. CASE Start(c)
            BY <2>0, <3>1, RecordTypes DEF Start, Become, CallerInv, Ran, TypeOK, Stages
        <3>2. CASE Send(c)
            BY <2>0, <3>2 DEF Send, Become, CallerInv, Ran, TypeOK, ghosts
        <3>3. CASE Reinitialize(c)
            BY <2>0, <3>3, RecordTypes DEF Reinitialize, Become, CallerInv, Ran, TypeOK, ghosts, Stages
        <3>4. CASE Receive(c)
            BY <2>0, <3>4, RecordTypes DEF Receive, Return, Become, CallerInv, Ran, TypeOK, Stages
        <3>5. CASE Lose(c)
            BY <2>0, <3>5, RecordTypes DEF Lose, Return, Become, Runs, CallerInv, Ran, TypeOK, Stages
        <3>6. CASE ServerInitializes(c)
            BY <2>0, <3>6 DEF ServerInitializes, Answer, Become, CallerInv, Ran, TypeOK, ghosts
        <3>7. CASE ServerAnswers(c)
            <4>1. PICK h \in MaybeSession, st \in Statuses :
                     Answer(c, st, h) /\ (st = 200 \/ call[c].stage = "initialize")
                BY <2>0, <3>7 DEF ServerAnswers, Statuses, TypeOK, MaybeSession
            <4>2. /\ call'[c].pc = "reply"
                  /\ call'[c].stage = call[c].stage
                  /\ call'[c].status = st
                BY <2>0, <4>1 DEF Answer, Become, TypeOK
            <4>3. executed[c] = 0 /\ outcome'[c] = "none"
                BY <2>0, <3>7 DEF ServerAnswers, CallerInv, Ran
            <4>4. CASE call[c].stage \in {"try", "retry"}
                <5>1. executed'[c] = 1
                    BY <3>7, <4>3, <4>4 DEF ServerAnswers, Runs, TypeOK
                <5> QED
                    BY <4>1, <4>2, <4>3, <4>4, <5>1 DEF CallerInv, Ran
            <4>5. CASE call[c].stage \notin {"try", "retry"}
                <5>1. executed'[c] = 0
                    BY <3>7, <4>3, <4>5 DEF ServerAnswers, Runs
                <5> QED
                    BY <4>2, <4>3, <4>5, <5>1 DEF CallerInv, Ran
            <4> QED
                BY <4>4, <4>5
        <3>8. CASE ServerRefuses(c)
            <4>1. PICK st \in {400, 404} : Answer(c, st, None)
                BY <3>8 DEF ServerRefuses
            <4>2. call'[c].pc = "reply" /\ call'[c].status # 200
                BY <4>1 DEF Answer, Become, TypeOK
            <4>3. executed[c] = 0 /\ executed' = executed /\ outcome'[c] = "none"
                BY <2>0, <3>8 DEF ServerRefuses, CallerInv, Ran, ghosts
            <4> QED
                BY <4>2, <4>3 DEF CallerInv, Ran
        <3> QED
            BY <1>1, <3>1, <3>2, <3>3, <3>4, <3>5, <3>6, <3>7, <3>8 DEF CallTool, Serve
    <2> QED
        BY <2>1, <2>2, OthersKept
<1>2. ASSUME NEW s \in Sessions, ServerDrops(s) PROVE ExecutedInv'
    BY <1>2 DEF ServerDrops, ExecutedInv, Ran
<1>3. CASE UNCHANGED vars
    BY <1>3 DEF vars, ExecutedInv, Ran
<1> QED
    BY <1>1, <1>2, <1>3 DEF Next

\* No CallTool runs the tool twice, however many others replace the session
\* under it, and one that reports success has run it.
THEOREM ExecutedOnceHolds == Spec => []ExecutedOnce
<1>1. Init => ExecutedInv
    <2> SUFFICES ASSUME Init, NEW c \in Callers PROVE CallerInv(c)
        BY DEF ExecutedInv, CallerInv
    <2>1. call[c].pc = "idle" /\ executed[c] = 0 /\ outcome[c] = "none"
        BY RecordTypes DEF Init
    <2> QED
        BY <2>1 DEF CallerInv, Ran
<1>2. ExecutedInv => ExecutedOnce
    <2> SUFFICES ASSUME ExecutedInv, NEW c \in Callers
                 PROVE  executed[c] <= 1 /\ (outcome[c] = "ok" => executed[c] = 1)
        BY DEF ExecutedOnce
    <2>1. CallerInv(c)
        BY DEF ExecutedInv, CallerInv
    <2> QED
        BY <2>1 DEF CallerInv
<1> QED
    BY <1>1, <1>2, SessionTypeCorrect, ExecutedStep, PTL DEF Spec

-----------------------------------------------------------------------------
\* The call is under way, and neither the network nor another call got in its
\* way so far.
Calm(c) == call[c].pc # "idle" /\ ~excused[c] /\ ~disturbed[c]

\* Its first request goes out in the transport's session, so that the server
\* answers it or knows the session no more: a 400 is impossible.
CalmTry(c) ==
    /\ sessionID # None
    /\ call[c].pc \in {"sent", "reply"} => call[c].sid = sessionID
    /\ call[c].pc = "reply" =>
          call[c].status \in {200, 404} /\ call[c].header \in {None, sessionID}

\* Its handshake goes out without a session, and a session is opened for it.
CalmInitialize(c) ==
    /\ sessionID = None
    /\ call[c].pc \in {"sent", "reply"} => call[c].sid = None
    /\ call[c].pc = "reply" => call[c].status = 200 /\ call[c].header \in open

\* From then on the transport's session is one the server keeps.
CalmAfter(c) ==
    /\ sessionID \in open
    /\ call[c].pc \in {"sent", "reply"} => call[c].sid = sessionID
    /\ call[c].pc = "reply" => call[c].status = 200 /\ call[c].header \in {None, sessionID}

\* RecoversUndisturbed is not inductive: that the last request of a call is
\* not refused depends on the sessions of all the requests before it.
RecoveryInv(c) ==
    /\ call[c].pc # "idle" => outcome[c] = "none"
    /\ Calm(c) =>
          /\ call[c].stage = "try" => CalmTry(c)
          /\ call[c].stage = "initialize" => CalmInitialize(c)
          /\ call[c].stage \in {"initialized", "retry"} => CalmAfter(c)
    /\ outcome[c] = "error" => excused[c] \/ disturbed[c]

\* A step of another caller: it is calm only if the session id is left alone.
LEMMA RecoveryOthers ==
    ASSUME TypeOK, NEW c \in Callers, NEW d \in Callers \ {c}, RecoveryInv(d),
           CallTool(c) \/ Serve(c) \/ Lose(c)
    PROVE  RecoveryInv(d)'
<1>1. call'[d] = call[d] /\ outcome'[d] = outcome[d] /\ excused'[d] = excused[d]
    <2>1. CASE CallTool(c)
        BY <2>1 DEF TypeOK, CallTool, Start, Send, Receive, Reinitialize, Return, Become, ghosts
    <2>2. CASE Lose(c)
        BY <2>2 DEF TypeOK, Lose, Return, Become
    <2>3. CASE Serve(c)
        BY <2>3 DEF TypeOK, Serve, Answer, Become, ServerInitializes, ServerAnswers,
                    ServerRefuses, ghosts
    <2> QED
        BY <2>1, <2>2, <2>3
<1>2. open \subseteq open'
    BY DEF CallTool, Start, Send, Receive, Reinitialize, Lose, Serve, ServerInitializes,
           ServerAnswers, ServerRefuses, transportVars
<1>3. /\ disturbed[d] => disturbed'[d]
      /\ call[d].pc # "idle" /\ ~disturbed'[d] => sessionID' = sessionID
    <2>1. ASSUME Disturb(c)
          PROVE  /\ disturbed[d] => disturbed'[d]
                 /\ call[d].pc # "idle" /\ ~disturbed'[d] => sessionID' = sessionID
        BY <2>1, RecordTypes DEF Disturb
    <2>2. CASE Start(c)
        BY <2>2 DEF TypeOK, Start, transportVars
    <2>3. CASE Receive(c) \/ Reinitialize(c)
        BY <2>1, <2>3 DEF Receive, Reinitialize
    <2>4. CASE Send(c) \/ Lose(c) \/ Serve(c)
        BY <2>4 DEF Send, Lose, Serve, ServerInitializes, ServerAnswers, ServerRefuses,
                    ghosts, transportVars
    <2> QED
        BY <2>2, <2>3, <2>4 DEF CallTool
<1>4. Calm(d)' => Calm(d) /\ sessionID' = sessionID
    BY <1>1, <1>3 DEF Calm
<1> QED
    BY <1>1, <1>2, <1>3, <1>4 DEF RecoveryInv, CalmTry, CalmInitialize, CalmAfter

\* A step of the caller itself, or of the server for it.
LEMMA RecoveryOwn ==
    ASSUME TypeOK, NEW c \in Callers, RecoveryInv(c), CallTool(c) \/ Serve(c) \/ Lose(c)
    PROVE  RecoveryInv(c)'
<1>0. /\ call[c].pc \in {"idle", "send", "sent", "reply", "clear"}
      /\ call[c].stage \in Stages /\ call[c].status \in Statuses
      /\ call[c].sid \in MaybeSession /\ call[c].header \in MaybeSession
      /\ sessionID \in MaybeSession /\ open \subseteq Sessions
      /\ excused[c] \in BOOLEAN /\ disturbed[c] \in BOOLEAN
      /\ call[c].pc = "clear" => call[c].stage = "try"
    BY DEF TypeOK
<1>n. None \notin Sessions
    BY NoneIsNoSession
<1>1. CASE Start(c)
    <2>1. /\ call'[c] = Sending("try") /\ outcome'[c] = "none"
          /\ ~disturbed'[c] => sessionID # None
          /\ sessionID' = sessionID
        BY <1>1 DEF Start, Become, TypeOK, transportVars
    <2>2. call'[c].pc = "send" /\ call'[c].stage = "try"
        BY <2>1, RecordTypes DEF Stages
    <2> QED
        BY <2>1, <2>2 DEF RecoveryInv, Calm, CalmTry
<1>2. CASE Send(c)
    <2>1. /\ call'[c].pc = "sent" /\ call'[c].stage = call[c].stage
          /\ call'[c].sid = sessionID /\ call[c].pc = "send"
        BY <1>2 DEF Send, Become, TypeOK
    <2>2. UNCHANGED <<sessionID, open, outcome, excused, disturbed>>
        BY <1>2 DEF Send, ghosts, transportVars
    <2> QED
        BY <1>0, <2>1, <2>2 DEF RecoveryInv, Calm, CalmTry, CalmInitialize, CalmAfter, Stages
<1>3. CASE Reinitialize(c)
    <2>1. /\ call'[c] = Sending("initialize") /\ call[c].pc = "clear"
          /\ sessionID' = None /\ outcome' = outcome
        BY <1>3 DEF Reinitialize, Become, TypeOK
    <2>2. call'[c].pc = "send" /\ call'[c].stage = "initialize"
        BY <2>1, RecordTypes DEF Stages
    <2> QED
        BY <2>1, <2>2 DEF RecoveryInv, CalmInitialize
<1>4. CASE Lose(c)
    <2>1. excused'[c] /\ disturbed' = disturbed
        BY <1>4 DEF Lose, TypeOK
    <2>2. call'[c].pc # "idle" => outcome'[c] = "none"
        BY <1>4, RecordTypes DEF Lose, Return, Become, TypeOK, RecoveryInv, Stages
    <2> QED
        BY <2>1, <2>2 DEF RecoveryInv, Calm
<1>5. CASE Receive(c)
    <2>0. /\ call[c].pc = "reply" /\ open' = open /\ excused' = excused
          /\ sessionID' = IF call[c].header # None THEN call[c].header ELSE sessionID
          /\ disturbed'[c] = disturbed[c]
          /\ outcome[c] = "none"
        BY <1>5 DEF Receive, Store, Disturb, TypeOK, RecoveryInv
    <2>c. ~excused[c] /\ ~disturbed[c] =>
             /\ call[c].stage = "try" => CalmTry(c)
             /\ call[c].stage = "initialize" => CalmInitialize(c)
             /\ call[c].stage \in {"initialized", "retry"} => CalmAfter(c)
        BY <2>0 DEF RecoveryInv, Calm
    <2>1. ASSUME NEW o \in {"ok", "error"}, Return(c, o),
                 o = "error" => excused[c] \/ disturbed[c]
          PROVE  RecoveryInv(c)'
        <3>1. call'[c].pc = "idle" /\ outcome'[c] = o
            BY <2>1, RecordTypes DEF Return, Become, TypeOK
        <3> QED
            BY <2>0, <2>1, <3>1 DEF RecoveryInv, Calm
    <2>2. CASE /\ call[c].stage \in {"try", "retry"} /\ call[c].status = 200
               /\ Return(c, "ok")
        BY <2>1, <2>2
    <2>3. CASE /\ call[c].stage = "try" /\ call[c].status = 404
               /\ Become(c, [call[c] EXCEPT !.pc = "clear"]) /\ UNCHANGED outcome
        <3>1. call'[c].pc = "clear" /\ call'[c].stage = "try" /\ outcome' = outcome
            BY <2>3 DEF Become, TypeOK
        <3>2. ~excused[c] /\ ~disturbed[c] => sessionID' = sessionID /\ sessionID # None
            BY <2>0, <2>c, <2>3 DEF CalmTry
        <3> QED
            BY <2>0, <3>1, <3>2 DEF RecoveryInv, Calm, CalmTry
    <2>4. CASE /\ call[c].stage = "initialize" /\ call[c].status = 200
               /\ Become(c, Sending("initialized")) /\ UNCHANGED outcome
        <3>1. call'[c] = Sending("initialized") /\ outcome' = outcome
            BY <2>4 DEF Become, TypeOK
        <3>2. call'[c].pc = "send" /\ call'[c].stage = "initialized"
            BY <3>1, RecordTypes DEF Stages
        <3>3. ~excused[c] /\ ~disturbed[c] => sessionID' \in open
            BY <1>0, <1>n, <2>0, <2>c, <2>4 DEF CalmInitialize
        <3> QED
            BY <2>0, <3>1, <3>2, <3>3 DEF RecoveryInv, Calm, CalmAfter
    <2>5. CASE /\ call[c].stage = "initialized"
               /\ Become(c, Sending("retry")) /\ UNCHANGED outcome
        <3>1. call'[c] = Sending("retry") /\ outcome' = outcome
            BY <2>5 DEF Become, TypeOK
        <3>2. call'[c].pc = "send" /\ call'[c].stage = "retry"
            BY <3>1, RecordTypes DEF Stages
        <3>3. ~excused[c] /\ ~disturbed[c] => sessionID' \in open
            BY <2>0, <2>c, <2>5 DEF CalmAfter
        <3> QED
            BY <2>0, <3>1, <3>2, <3>3 DEF RecoveryInv, Calm, CalmAfter
    <2>6. CASE /\ \/ call[c].stage \in {"try", "initialize", "retry"} /\ call[c].status = 400
                  \/ call[c].stage \in {"initialize", "retry"} /\ call[c].status = 404
               /\ Return(c, "error")
        <3>1. excused[c] \/ disturbed[c]
            BY <1>0, <2>0, <2>c, <2>6 DEF CalmTry, CalmInitialize, CalmAfter
        <3> QED
            BY <2>1, <2>6, <3>1
    <2> QED
        BY <1>5, <2>2, <2>3, <2>4, <2>5, <2>6 DEF Receive
<1>6. ASSUME NEW st \in Statuses, NEW h \in MaybeSession, Answer(c, st, h), call[c].pc = "sent"
      PROVE  /\ call'[c].pc = "reply" /\ call'[c].stage = call[c].stage
             /\ call'[c].sid = call[c].sid /\ call'[c].status = st /\ call'[c].header = h
    BY <1>6 DEF Answer, Become, TypeOK
<1>7. CASE ServerInitializes(c)
    <2>1. PICK s \in Sessions : open' = open \cup {s} /\ Answer(c, 200, s)
        BY <1>7 DEF ServerInitializes
    <2>2. /\ call[c].pc = "sent" /\ call[c].stage = "initialize" /\ call[c].sid = None
          /\ UNCHANGED <<sessionID, outcome, excused, disturbed>>
        BY <1>7 DEF ServerInitializes, ghosts
    <2>3. /\ call'[c].pc = "reply" /\ call'[c].stage = "initialize" /\ call'[c].sid = None
          /\ call'[c].status = 200 /\ call'[c].header = s
        BY <1>6, <2>1, <2>2 DEF Statuses, MaybeSession
    <2> QED
        BY <2>1, <2>2, <2>3 DEF RecoveryInv, Calm, CalmInitialize
<1>8. CASE ServerAnswers(c)
    <2>1. PICK h \in {None, call[c].sid}, st \in {200, 400} :
             Answer(c, st, h) /\ (st = 200 \/ call[c].stage = "initialize")
        BY <1>8 DEF ServerAnswers
    <2>2. /\ call[c].pc = "sent" /\ call[c].sid \in open
          /\ UNCHANGED <<sessionID, open, outcome, excused, disturbed>>
        BY <1>8 DEF ServerAnswers, transportVars
    <2>3. /\ call'[c].pc = "reply" /\ call'[c].stage = call[c].stage
          /\ call'[c].sid = call[c].sid /\ call'[c].status = st /\ call'[c].header = h
        BY <1>0, <1>6, <2>1, <2>2 DEF Statuses, MaybeSession
    <2>4. Calm(c) => call[c].stage # "initialize"
        BY <1>0, <1>n, <2>2 DEF RecoveryInv, CalmInitialize
    <2>5. Calm(c)' => Calm(c)
        BY <2>2 DEF Calm
    <2> QED
        BY <1>0, <2>1, <2>2, <2>3, <2>4, <2>5 DEF RecoveryInv, CalmTry, CalmAfter
<1>9. CASE ServerRefuses(c)
    <2>1. PICK st \in {400, 404} :
             /\ Answer(c, st, None)
             /\ st = 404 => call[c].sid # None
             /\ st = 400 => call[c].sid = None /\ call[c].stage # "initialize"
        BY <1>9 DEF ServerRefuses
    <2>2. /\ call[c].pc = "sent" /\ call[c].sid \notin open
          /\ UNCHANGED <<sessionID, open, outcome, excused, disturbed>>
        BY <1>9 DEF ServerRefuses, transportVars, ghosts
    <2>3. /\ call'[c].pc = "reply" /\ call'[c].stage = call[c].stage
          /\ call'[c].sid = call[c].sid /\ call'[c].status = st /\ call'[c].header = None
        BY <1>6, <2>1, <2>2 DEF Statuses, MaybeSession
    <2>4. Calm(c) => call[c].stage = "try" /\ st = 404
        BY <1>0, <2>1, <2>2 DEF RecoveryInv, CalmTry, CalmInitialize, CalmAfter, Stages
    <2>5. Calm(c)' => Calm(c)
        BY <2>2 DEF Calm
    <2> QED
        BY <2>1, <2>2, <2>3, <2>4, <2>5 DEF RecoveryInv, CalmTry
<1> QED
    BY <1>1, <1>2, <1>3, <1>4, <1>5, <1>7, <1>8, <1>9 DEF CallTool, Serve

LEMMA RecoveryStep ==
    TypeOK /\ (\A c \in Callers : RecoveryInv(c)) /\ [Next]_vars
        => (\A c \in Callers : RecoveryInv(c))'
<1> SUFFICES ASSUME TypeOK, \A d \in Callers : RecoveryInv(d), [Next]_vars, NEW c \in Callers
             PROVE  RecoveryInv(c)'
    OBVIOUS
<1>1. ASSUME NEW d \in Callers, CallTool(d) \/ Serve(d) \/ Lose(d) PROVE RecoveryInv(c)'
    BY <1>1, RecoveryOwn, RecoveryOthers
\* A session dropped under a call that recovers excuses it.
<1>2. ASSUME NEW s \in Sessions, ServerDrops(s) PROVE RecoveryInv(c)'
    <2>1. UNCHANGED <<sessionID, call, outcome, disturbed>>
        BY <1>2 DEF ServerDrops
    <2>2. excused'[c] = (excused[c] \/ call[c].pc = "clear" \/ call[c].stage # "try")
        BY <1>2 DEF ServerDrops
    <2>3. Calm(c)' => Calm(c) /\ call'[c].stage = "try"
        BY <2>1, <2>2 DEF Calm
    <2>4. Calm(c)' => CalmTry(c)'
        BY <2>1, <2>3 DEF RecoveryInv, CalmTry
    <2>5. outcome'[c] = "error" => excused'[c] \/ disturbed'[c]
        BY <2>1, <2>2 DEF RecoveryInv
    <2>6. call'[c].pc # "idle" => outcome'[c] = "none"
        BY <2>1 DEF RecoveryInv
    <2> QED
        BY <2>3, <2>4, <2>5, <2>6 DEF RecoveryInv
<1>3. CASE UNCHANGED vars
    BY <1>3 DEF vars, RecoveryInv, Calm, CalmTry, CalmInitialize, CalmAfter
<1> QED
    BY <1>1, <1>2, <1>3 DEF Next

\* A call whose session expired succeeds all the same, for every number of
\* callers and sessions, unless the network fails it, the server drops a
\* session while it recovers, or another call changes the session id.
THEOREM RecoversUndisturbedHolds == Spec => []RecoversUndisturbed
<1>1. Init => \A c \in Callers : RecoveryInv(c)
    <2> SUFFICES ASSUME Init, NEW c \in Callers PROVE RecoveryInv(c)
        OBVIOUS
    <2>1. call[c].pc = "idle" /\ outcome[c] = "none"
        BY RecordTypes DEF Init
    <2> QED
        BY <2>1 DEF RecoveryInv, Calm
<1>2. (\A c \in Callers : RecoveryInv(c)) => RecoversUndisturbed
    BY DEF RecoversUndisturbed, RecoveryInv
<1> QED
    BY <1>1, <1>2, SessionTypeCorrect, RecoveryStep, PTL DEF Spec

-----------------------------------------------------------------------------
(* A CallTool comes to an end: the safety half of CallReturns.             *)

\* How far a call is: its request, and within it sending, waiting, reading
\* the answer, and forgetting the session id.
StageNo == [try |-> 0, initialize |-> 4, initialized |-> 8, retry |-> 12]
PlaceNo == [send |-> 0, sent |-> 1, reply |-> 2, clear |-> 3]
Progress(r) == IF r.pc = "idle" THEN 15 ELSE StageNo[r.stage] + PlaceNo[r.pc]

\* Whatever the server answers, however often it drops the session and
\* however often others replace the session id, a call that has begun only
\* advances: it sends each of its four requests at most once and returns
\* within fifteen steps.
CallsAdvance ==
    [][\A c \in Callers :
         call[c] # Idle /\ call'[c] # call[c]
            => /\ Progress(call'[c]) > Progress(call[c])
               /\ Progress(call'[c]) <= 15]_vars

LEMMA ProgressValues ==
    /\ StageNo["try"] = 0 /\ StageNo["initialize"] = 4
    /\ StageNo["initialized"] = 8 /\ StageNo["retry"] = 12
    /\ PlaceNo["send"] = 0 /\ PlaceNo["sent"] = 1 /\ PlaceNo["reply"] = 2 /\ PlaceNo["clear"] = 3
BY DEF StageNo, PlaceNo

THEOREM CallsAdvanceHolds == Spec => CallsAdvance
<1> DEFINE Advance == \A c \in Callers :
                         call[c] # Idle /\ call'[c] # call[c]
                            => /\ Progress(call'[c]) > Progress(call[c])
                               /\ Progress(call'[c]) <= 15
<1>1. TypeOK /\ [Next]_vars => [Advance]_vars
    <2> SUFFICES ASSUME TypeOK, Next, NEW c \in Callers, call[c] # Idle, call'[c] # call[c]
                 PROVE  Progress(call'[c]) > Progress(call[c]) /\ Progress(call'[c]) <= 15
        OBVIOUS
    <2>1. call[c].pc # "idle" /\ call[c].stage \in Stages
        BY DEF TypeOK
    <2>2. CallTool(c) \/ Serve(c) \/ Lose(c)
        <3>1. ASSUME NEW d \in Callers, CallTool(d) \/ Serve(d) \/ Lose(d) PROVE d = c
            <4>1. ASSUME NEW k, Become(d, k) PROVE d = c
                BY <4>1 DEF Become, TypeOK
            <4>2. CASE CallTool(d) \/ Lose(d)
                BY <4>1, <4>2 DEF CallTool, Start, Send, Receive, Reinitialize, Lose, Return
            <4>3. CASE Serve(d)
                BY <4>1, <4>3 DEF Serve, ServerInitializes, ServerAnswers, ServerRefuses, Answer
            <4> QED
                BY <3>1, <4>2, <4>3
        <3> QED
            BY <3>1 DEF Next, ServerDrops
    <2>3. CASE Send(c)
        <3>1. call'[c].pc = "sent" /\ call'[c].stage = call[c].stage
            BY <2>3 DEF Send, Become, TypeOK
        <3> QED
            BY <2>1, <2>3, <3>1, ProgressValues DEF Send, Progress, Stages
    <2>4. CASE Receive(c)
        <3>1. call[c].pc = "reply"
            BY <2>4 DEF Receive
        <3>2. \/ call'[c] = Idle
              \/ call[c].stage = "try" /\ call'[c].pc = "clear" /\ call'[c].stage = "try"
              \/ call[c].stage = "initialize" /\ call'[c] = Sending("initialized")
              \/ call[c].stage = "initialized" /\ call'[c] = Sending("retry")
            BY <2>4 DEF Receive, Return, Become, TypeOK
        <3> QED
            BY <2>1, <3>1, <3>2, RecordTypes, ProgressValues DEF Progress, Stages
    <2>5. CASE Reinitialize(c)
        <3>1. call[c].stage = "try" /\ call'[c] = Sending("initialize")
            BY <2>5 DEF Reinitialize, Become, TypeOK
        <3> QED
            BY <2>5, <3>1, RecordTypes, ProgressValues DEF Reinitialize, Progress, Stages
    <2>6. CASE Serve(c)
        <3>1. call[c].pc = "sent" /\ call'[c].pc = "reply" /\ call'[c].stage = call[c].stage
            <4>1. ASSUME NEW st, NEW h, Answer(c, st, h)
                  PROVE  call'[c].pc = "reply" /\ call'[c].stage = call[c].stage
                BY <4>1 DEF Answer, Become, TypeOK
            <4> QED
                BY <2>6, <4>1 DEF Serve, ServerInitializes, ServerAnswers, ServerRefuses
        <3> QED
            BY <2>1, <3>1, ProgressValues DEF Progress, Stages
    <2>7. CASE Lose(c)
        <3>1. /\ call[c].pc = "sent"
              /\ \/ call'[c] = Idle
                 \/ call[c].stage = "initialized" /\ call'[c] = Sending("retry")
            BY <2>7 DEF Lose, Return, Become, TypeOK
        <3> QED
            BY <2>1, <3>1, RecordTypes, ProgressValues DEF Progress, Stages
    <2> QED
        BY <2>1, <2>2, <2>3, <2>4, <2>5, <2>6, <2>7, RecordTypes DEF CallTool, Start
<1> QED
    BY <1>1, SessionTypeCorrect, PTL DEF Spec, CallsAdvance

=============================================================================
