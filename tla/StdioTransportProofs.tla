----------------------- MODULE StdioTransportProofs -----------------------
(***************************************************************************)
(* Answers find their call, and the map pending leaks nothing: for any     *)
(* number of calls and closers, any pipe, and any child.  Close reaps the  *)
(* child, if one caller closes and the reader has not closed done before.  *)
(***************************************************************************)
EXTENDS StdioTransport, FiniteSetTheorems, TLAPS

CallType == [pc : CallLabels, stage : Stages, id : Ids \cup {0}]
Total == 2 * Cardinality(Lists) + Cardinality(Others)

LEMMA Sizes ==
    /\ IsFiniteSet(Lists) /\ IsFiniteSet(Others)
    /\ Cardinality(Lists) \in Nat /\ Cardinality(Others) \in Nat /\ Total \in Nat
    /\ Ids = 1 .. Total
<1>1. IsFiniteSet(Lists) /\ IsFiniteSet(Others)
    BY CallsAreFinite, FS_Subset DEF Calls
<1>2. Cardinality(Lists) \in Nat /\ Cardinality(Others) \in Nat
    BY <1>1, FS_CardinalityType
<1> QED
    BY <1>1, <1>2 DEF Total, Ids

LEMMA Labels ==
    /\ CallLabels = {"start", "lock", "write", "wait", "leave", "end"}
    /\ Stages = {"initialize", "initialized", "tools/list", "call"}
BY DEF CallLabels, Stages

LEMMA GotoMoves ==
    ASSUME TypeOK, NEW c \in Calls, NEW l
    PROVE  /\ [call[c] EXCEPT !.pc = l] = At(l, call[c].stage, call[c].id)
           /\ [call EXCEPT ![c].pc = l] = [call EXCEPT ![c] = At(l, call[c].stage, call[c].id)]
<1>1. call[c] \in CallType
    BY DEF TypeOK, CallType
<1>2. [call[c] EXCEPT !.pc = l] = At(l, call[c].stage, call[c].id)
    BY <1>1 DEF CallType, At
<1> QED
    BY <1>2

LEMMA Moved ==
    ASSUME TypeOK, NEW c \in Calls, NEW r \in CallType, call' = [call EXCEPT ![c] = r]
    PROVE  /\ call' \in [Calls -> CallType] /\ call'[c] = r
           /\ \A d \in Calls \ {c} : call'[d] = call[d]
BY DEF TypeOK, CallType

LEMMA AtType ==
    ASSUME NEW l \in CallLabels, NEW s \in Stages, NEW i \in Ids \cup {0}
    PROVE  /\ At(l, s, i) \in CallType
           /\ At(l, s, i).pc = l /\ At(l, s, i).stage = s /\ At(l, s, i).id = i
BY DEF At, CallType

LEMMA RequestType ==
    ASSUME TypeOK, NEW c \in Calls
    PROVE  Request(c) \in Requests
BY DEF TypeOK, Request, Requests

LEMMA ZeroIsNoId == 0 \notin Ids
BY Sizes

-----------------------------------------------------------------------------
(* Where a call can be.                                                    *)

CallOK(c) ==
    /\ call[c].stage \in IF c \in Lists THEN {"initialize", "initialized", "tools/list"} ELSE {"call"}
    /\ call[c].pc = "start" => call[c].id = 0 /\ call[c].stage # "initialized"
    /\ call[c].stage = "initialized" => call[c].id = 0 /\ call[c].pc \in {"lock", "write"}
    /\ call[c].pc # "start" /\ call[c].stage # "initialized" => call[c].id # 0
    /\ call[c].id <= idSeq

Shape ==
    /\ \A c \in Calls : CallOK(c)
    /\ \A c, d \in Calls : call[c].id = call[d].id /\ call[c].id # 0 => c = d
    /\ \A c \in Calls : got[c] # None => call[c].pc \in {"leave", "end"}

\* Calls that have a request before them: their first, or tools/list.
First == {c \in Calls : call[c] = At("start", FirstStage(c), 0)}
Second == {c \in Lists : \/ call[c].stage \in {"initialize", "initialized"}
                         \/ call[c].stage = "tools/list" /\ call[c].pc = "start"}

Budget == idSeq + Cardinality(First) + Cardinality(Second) <= Total

\* A call's place, without the pending map: what a step of the call may do.
CallMoves(c) ==
    \/ /\ call[c].pc = "start" /\ idSeq' = idSeq + 1
       /\ call' = [call EXCEPT ![c] = At("lock", call[c].stage, idSeq + 1)]
       /\ UNCHANGED got
    \/ /\ call[c].pc \in {"lock", "write", "wait"} /\ UNCHANGED idSeq
       /\ call[c].stage = "initialized" => call[c].pc = "lock"
       /\ \E l \in {"write", "wait", "leave"} :
             /\ call[c].stage = "initialized" => l = "write"
             /\ call' = [call EXCEPT ![c] = At(l, call[c].stage, call[c].id)]
             /\ \/ UNCHANGED got
                \/ l = "leave" /\ call[c].pc = "wait" /\ \E r : got' = [got EXCEPT ![c] = r]
    \/ /\ call[c].stage = "initialized" /\ call[c].pc = "write" /\ UNCHANGED <<idSeq, got>>
       /\ call' = [call EXCEPT ![c] = At("start", "tools/list", 0)]
    \/ /\ call[c].pc = "leave" /\ UNCHANGED idSeq
       /\ \/ /\ call[c].stage = "initialize"
             /\ call' = [call EXCEPT ![c] = At("lock", "initialized", 0)]
             /\ got' = [got EXCEPT ![c] = None]
          \/ /\ call' = [call EXCEPT ![c] = At("end", call[c].stage, call[c].id)]
             /\ UNCHANGED got

LEMMA StepMoves ==
    ASSUME TypeOK, Shape, NEW c \in Calls, CallStep(c) \/ Timeout(c)
    PROVE  CallMoves(c)
<1> CallOK(c)
    BY DEF Shape
<1> \A l : Goto(c, l) => call' = [call EXCEPT ![c] = At(l, call[c].stage, call[c].id)]
    BY GotoMoves DEF Goto
<1>1. CASE Register(c)
    <2>1. call' = [call EXCEPT ![c] = At("lock", call[c].stage, idSeq + 1)]
        <3>1. call' = [call EXCEPT ![c].pc = "lock", ![c].id = idSeq + 1]
            BY <1>1 DEF Register
        <3>2. call' = [call EXCEPT ![c] = [[call[c] EXCEPT !.pc = "lock"] EXCEPT !.id = idSeq + 1]]
            BY <3>1 DEF TypeOK
        <3>3. [At("lock", call[c].stage, call[c].id) EXCEPT !.id = idSeq + 1]
              = At("lock", call[c].stage, idSeq + 1)
            BY DEF At
        <3>4. [call[c] EXCEPT !.pc = "lock"] = At("lock", call[c].stage, call[c].id)
            BY GotoMoves
        <3> QED
            BY <3>2, <3>3, <3>4
    <2> QED
        BY <1>1, <2>1 DEF Register, CallMoves
<1>2. CASE Lock(c)
    BY <1>2 DEF Lock, CallMoves
<1>3. CASE Write(c) \/ WriteFails(c)
    BY <1>3 DEF Write, WriteFails, AfterWrite, CallMoves
<1>4. CASE Answered(c)
    BY <1>4 DEF Answered, CallMoves, CallOK
<1>5. CASE Closed(c) \/ Timeout(c)
    BY <1>5 DEF Closed, Timeout, CallMoves, CallOK
<1>6. CASE Leave(c)
    BY <1>6 DEF Leave, CallMoves
<1> QED
    BY <1>1, <1>2, <1>3, <1>4, <1>5, <1>6 DEF CallStep

LEMMA Counts ==
    /\ IsFiniteSet(First) /\ IsFiniteSet(Second)
    /\ Cardinality(First) \in Nat /\ Cardinality(Second) \in Nat
<1>1. IsFiniteSet(First) /\ IsFiniteSet(Second)
    BY CallsAreFinite, Sizes, FS_Subset DEF First, Second
<1> QED
    BY <1>1, FS_CardinalityType

\* A call that draws an id has one in store.
LEMMA RoomForId ==
    ASSUME TypeOK, Shape, Budget, NEW c \in Calls, call[c].pc = "start"
    PROVE  /\ idSeq + 1 \in Ids /\ c \in First \cup Second
           /\ c \in First <=> call[c].stage = FirstStage(c)
<1>1. CallOK(c) /\ call[c] \in CallType
    BY DEF Shape, TypeOK, CallType
<1>2. call[c] = At("start", call[c].stage, 0)
    BY <1>1 DEF CallOK, At, CallType
<1>3. c \in First <=> call[c].stage = FirstStage(c)
    BY <1>2 DEF First, At
<1>4. c \in First \cup Second
    BY <1>1, <1>3 DEF CallOK, Second, FirstStage
<1>5. Cardinality(First) > 0 \/ Cardinality(Second) > 0
    BY <1>4, Counts, FS_EmptySet
<1>6. idSeq \in Nat
    BY Sizes DEF TypeOK
<1> QED
    BY <1>3, <1>4, <1>5, <1>6, Counts, Sizes DEF Budget

LEMMA MovesType ==
    ASSUME TypeOK, Shape, Budget, NEW c \in Calls, CallMoves(c)
    PROVE  /\ idSeq' \in Ids \cup {0} /\ idSeq' >= idSeq
           /\ call' \in [Calls -> CallType]
           /\ \A d \in Calls \ {c} : call'[d] = call[d]
<1>1. call[c].stage \in Stages /\ call[c].id \in Ids \cup {0} /\ idSeq \in Nat
    BY Sizes DEF TypeOK
<1>2. PICK r \in CallType : call' = [call EXCEPT ![c] = r]
    <2>1. ASSUME NEW l \in CallLabels, NEW t \in Stages, NEW n \in Ids \cup {0},
                 call' = [call EXCEPT ![c] = At(l, t, n)]
          PROVE  \E r \in CallType : call' = [call EXCEPT ![c] = r]
        BY <2>1, AtType
    <2> QED
        BY <1>1, <2>1, RoomForId, Labels DEF CallMoves
<1>3. idSeq' \in Ids \cup {0} /\ idSeq' >= idSeq
    BY <1>1, RoomForId DEF CallMoves, TypeOK
<1> QED
    BY <1>2, <1>3, Moved

\* What is left of a call's id by a step.
LEMMA MovesShape ==
    ASSUME TypeOK, Shape, Budget, NEW c \in Calls, CallMoves(c)
    PROVE  /\ Shape'
           /\ \/ call'[c].id = 0 \/ call'[c].id > idSeq
              \/ call'[c].id = call[c].id /\ call'[c].stage = call[c].stage
<1>1. CallOK(c) /\ idSeq \in Nat /\ call[c] \in CallType
    BY Sizes DEF Shape, TypeOK, CallType
<1>2. /\ idSeq' \in Nat /\ idSeq' >= idSeq /\ call' \in [Calls -> CallType]
      /\ \A d \in Calls \ {c} : call'[d] = call[d]
    BY MovesType, Sizes
<1>3. \A l, t, n : call' = [call EXCEPT ![c] = At(l, t, n)] =>
         call'[c].pc = l /\ call'[c].stage = t /\ call'[c].id = n
    BY DEF TypeOK, At
<1>4. CallOK(c)'
    BY <1>1, <1>2, <1>3 DEF CallMoves, CallOK
<1>5. \A d \in Calls : call[d].id <= idSeq /\ call[d].id \in Nat
    BY Sizes DEF Shape, CallOK, TypeOK
<1>6. \A d \in Calls \ {c} : CallOK(d)'
    BY <1>1, <1>2, <1>5 DEF Shape, CallOK
<1>7. \/ call'[c].id = 0 \/ call'[c].id > idSeq
      \/ call'[c].id = call[c].id /\ call'[c].stage = call[c].stage
    BY <1>1, <1>3 DEF CallMoves
<1>8. \A d, e \in Calls : call'[d].id = call'[e].id /\ call'[d].id # 0 => d = e
    BY <1>1, <1>2, <1>5, <1>7 DEF Shape
<1>9. \A d \in Calls : got'[d] # None => call'[d].pc \in {"leave", "end"}
    <2>1. \A d \in Calls \ {c} : got'[d] = got[d]
        BY DEF CallMoves, TypeOK
    <2>2. got'[c] # None => call'[c].pc \in {"leave", "end"}
        BY <1>1, <1>3 DEF CallMoves, CallOK, Shape, TypeOK
    <2> QED
        BY <1>2, <2>1, <2>2 DEF Shape
<1> QED
    BY <1>4, <1>6, <1>7, <1>8, <1>9 DEF Shape

LEMMA MovesBudget ==
    ASSUME TypeOK, Shape, Budget, NEW c \in Calls, CallMoves(c)
    PROVE  Budget'
<1>1. CallOK(c) /\ idSeq \in Nat /\ call[c] \in CallType
    BY Sizes DEF Shape, TypeOK, CallType
<1>2. \A d \in Calls \ {c} : call'[d] = call[d]
    BY MovesType
<1>3. \A l, t, n : call' = [call EXCEPT ![c] = At(l, t, n)] =>
         call'[c] = At(l, t, n) /\ call'[c].pc = l /\ call'[c].stage = t /\ call'[c].id = n
    BY DEF TypeOK, At
<1>4. CASE call[c].pc = "start"
    <2>1. /\ idSeq' = idSeq + 1 /\ call'[c].pc = "lock" /\ call'[c].stage = call[c].stage
        BY <1>3, <1>4 DEF CallMoves, CallOK
    <2>2. First' = First \ {c}
        BY <1>2, <2>1 DEF First, At
    <2>3. CASE c \in First
        <3>1. c \in Lists => call[c].stage = "initialize"
            BY <1>4, <2>3, RoomForId DEF FirstStage
        <3>2. \A d \in Lists : d \in Second' <=> d \in Second
            BY <1>2, <2>1, <3>1 DEF Second, Calls
        <3>3. Second' = Second
            BY <3>2 DEF Second
        <3>4. Cardinality(First') = Cardinality(First) - 1
            BY <2>2, <2>3, Counts, FS_RemoveElement
        <3> QED
            BY <1>1, <2>1, <3>3, <3>4, Counts, Sizes DEF Budget
    <2>4. CASE c \notin First
        <3>1. c \in Second /\ First' = First /\ call[c].stage = "tools/list"
            BY <1>1, <1>4, <2>2, <2>4, RoomForId DEF CallOK, FirstStage
        <3>2. \A d \in Lists : d \in Second' <=> d \in Second /\ d # c
            BY <1>2, <2>1, <3>1 DEF Second, Calls
        <3>3. Second' = Second \ {c}
            BY <3>2 DEF Second
        <3>4. Cardinality(Second') = Cardinality(Second) - 1
            BY <3>1, <3>3, Counts, FS_RemoveElement
        <3> QED
            BY <1>1, <2>1, <3>1, <3>4, Counts, Sizes DEF Budget
    <2> QED
        BY <2>3, <2>4
<1>5. CASE call[c].pc # "start"
    <2>1. idSeq' = idSeq
        BY <1>5 DEF CallMoves
    <2>2. call'[c] # At("start", FirstStage(c), 0) /\ call[c] # At("start", FirstStage(c), 0)
        <3>1. call'[c].pc # "start" \/ call'[c].stage = "tools/list"
            BY <1>3, <1>5 DEF CallMoves
        <3>2. FirstStage(c) # "tools/list"
            BY DEF FirstStage
        <3>3. At("start", FirstStage(c), 0).pc = "start" /\ At("start", FirstStage(c), 0).stage = FirstStage(c)
            BY DEF At
        <3> QED
            BY <1>5, <3>1, <3>2, <3>3
    <2>3. First' = First
        BY <1>2, <2>2 DEF First
    <2>4. c \in Lists => (c \in Second' <=> c \in Second)
        BY <1>1, <1>3, <1>5 DEF CallMoves, CallOK, Second
    <2>5. Second' = Second
        BY <1>2, <2>4 DEF Second, Calls
    <2> QED
        BY <2>1, <2>3, <2>5 DEF Budget
<1> QED
    BY <1>4, <1>5

-----------------------------------------------------------------------------
(* Whose request a line is.                                                *)

\* A request that was sent: whoever has its id sent it.
Issued(r) == r.id # 0 /\ r.id <= idSeq /\ \A c \in Calls : call[c].id = r.id => r = Request(c)

\* A line is the answer to a request that was sent, or the child's own.
Rightful(l) == Issued(l) \/ l = Own(l.id)

Issue ==
    /\ \A r \in taken : Issued(r)
    /\ \A k \in DOMAIN stdout : Rightful(stdout[k])
    /\ stdin # None => \A k \in DOMAIN stdin : stdin[k].stage # "initialized" => Issued(stdin[k])
    /\ reader.pc \in {"look", "put"} => reader.line \in Lines /\ Rightful(reader.line)
    /\ \A i \in Ids : chan[i] # None => chan[i].id = i /\ Rightful(chan[i])

IInv == TypeOK /\ Shape /\ Budget /\ Issue /\ OwnAnswer /\ PendingIsActive

LEMMA IssuedKept ==
    ASSUME TypeOK, Shape, Budget, NEW c \in Calls, CallMoves(c)
    PROVE  \A r \in Requests : Issued(r) => Issued(r)'
<1> SUFFICES ASSUME NEW r \in Requests, Issued(r) PROVE Issued(r)'
    OBVIOUS
<1>1. r.id \in Nat /\ idSeq \in Nat /\ idSeq' \in Nat /\ idSeq' >= idSeq
    BY MovesType, Sizes DEF Requests, TypeOK
<1>2. ASSUME NEW d \in Calls, call'[d].id = r.id PROVE call[d].id = r.id /\ call'[d].stage = call[d].stage
    BY <1>1, <1>2, MovesType, MovesShape DEF Issued
<1> QED
    BY <1>1, <1>2 DEF Issued, Request

LEMMA RightfulKept ==
    ASSUME TypeOK, Shape, Budget, NEW c \in Calls, CallMoves(c)
    PROVE  \A l \in Lines : Rightful(l) => Rightful(l)'
<1> SUFFICES ASSUME NEW l \in Lines, Rightful(l) PROVE Rightful(l)'
    OBVIOUS
<1>1. CASE l \in Requests /\ Issued(l)
    BY <1>1, IssuedKept DEF Rightful
<1>2. CASE l = Own(l.id)
    BY <1>2 DEF Rightful
<1>3. l \in Requests \/ l = Own(l.id)
    BY DEF Lines, Own
<1> QED
    BY <1>1, <1>2, <1>3 DEF Rightful

LEMMA RequestIsIssued ==
    ASSUME TypeOK, Shape, NEW c \in Calls, call[c].pc # "start", call[c].stage # "initialized"
    PROVE  Issued(Request(c))
BY DEF Shape, CallOK, Issued, Request

\* What a step of a call does to all but the call itself.
LEMMA StepFrame ==
    ASSUME TypeOK, NEW c \in Calls, CallStep(c) \/ Timeout(c)
    PROVE  /\ UNCHANGED <<reader, stdout, mute, child, taken, done, close>>
           /\ mu' \in Calls \cup {None}
           /\ \/ stdin' = stdin
              \/ /\ call[c].pc = "write" /\ stdin # None /\ stdin' = Append(stdin, Request(c))
                 /\ Len(stdin) < PipeSize
           /\ \/ chan' = chan
              \/ chan' = [chan EXCEPT ![call[c].id] = None]
           /\ \/ got' = got \/ got' = [got EXCEPT ![c] = None]
              \/ Answered(c)
BY DEF CallStep, Timeout, Register, Lock, Write, WriteFails, AfterWrite, Answered, Closed, Leave,
       Goto, childVars, TypeOK

LEMMA PendingType ==
    ASSUME IInv, NEW c \in Calls, CallStep(c) \/ Timeout(c)
    PROVE  pending' \subseteq Ids
<1>1. CASE Register(c)
    BY <1>1, RoomForId DEF Register, TypeOK, IInv
<1> QED
    BY <1>1 DEF CallStep, Timeout, Lock, Write, WriteFails, Answered, Closed, Leave, TypeOK, IInv

LEMMA TypeCall ==
    ASSUME IInv, NEW c \in Calls, CallStep(c) \/ Timeout(c)
    PROVE  TypeOK'
<1> USE DEF IInv
<1>1. idSeq' \in Ids \cup {0} /\ call' \in [Calls -> CallType]
    BY StepMoves, MovesType
<1>2. stdin' # None => stdin' \in Seq(Requests) /\ Len(stdin') <= PipeSize
    <2>1. CASE stdin' = stdin
        BY <2>1 DEF TypeOK
    <2>2. CASE stdin # None /\ stdin' = Append(stdin, Request(c)) /\ Len(stdin) < PipeSize
        BY <2>2, RequestType, PipeSizeIsPos DEF TypeOK
    <2> QED
        BY <2>1, <2>2, StepFrame
<1>3. chan' \in [Ids -> Lines \cup {None}]
    BY StepFrame DEF TypeOK
<1>4. got' \in [Calls -> Lines \cup {None}]
    <2>1. CASE Answered(c)
        <3>1. call[c].id \in Ids
            BY <2>1 DEF Answered, Shape, CallOK, TypeOK
        <3> QED
            BY <2>1, <3>1 DEF Answered, TypeOK
    <2> QED
        BY <2>1, StepFrame DEF TypeOK
<1>5. pending' \subseteq Ids
    BY PendingType
<1>6. /\ reader' = reader /\ stdout' = stdout /\ mute' = mute /\ child' = child /\ taken' = taken
      /\ done' = done /\ close' = close /\ mu' \in Calls \cup {None}
    BY StepFrame
<1> QED
    BY <1>1, <1>2, <1>3, <1>4, <1>5, <1>6 DEF TypeOK, CallType

LEMMA IssueCall ==
    ASSUME IInv, NEW c \in Calls, CallStep(c) \/ Timeout(c)
    PROVE  Issue'
<1> USE DEF IInv
<1>1. /\ \A r \in Requests : Issued(r) => Issued(r)'
      /\ \A l \in Lines : Rightful(l) => Rightful(l)'
    BY StepMoves, IssuedKept, RightfulKept
<1>2. UNCHANGED <<reader, stdout, taken>>
    BY StepFrame
<1>3. \A r \in taken' : Issued(r)'
    BY <1>1, <1>2 DEF Issue, TypeOK
<1>4. \A k \in DOMAIN stdout' : Rightful(stdout[k])'
    BY <1>1, <1>2 DEF Issue, TypeOK
<1>5. stdin' # None => \A k \in DOMAIN stdin' : stdin'[k].stage # "initialized" => Issued(stdin[k])'
    <2>1. CASE stdin' = stdin
        BY <1>1, <2>1 DEF Issue, TypeOK
    <2>2. CASE call[c].pc = "write" /\ stdin # None /\ stdin' = Append(stdin, Request(c))
        <3>1. stdin \in Seq(Requests) /\ Request(c) \in Requests
            BY <2>2, RequestType DEF TypeOK
        <3>2. \A k \in DOMAIN stdin' : \/ k \in DOMAIN stdin /\ stdin'[k] = stdin[k]
                                       \/ stdin'[k] = Request(c)
            BY <2>2, <3>1
        <3>3. Request(c).stage # "initialized" => Issued(Request(c))
            BY <2>2, RequestIsIssued DEF Request
        <3> QED
            BY <1>1, <2>2, <3>1, <3>2, <3>3 DEF Issue
    <2> QED
        BY <2>1, <2>2, StepFrame
<1>6. reader'.pc \in {"look", "put"} => reader'.line \in Lines /\ Rightful(reader.line)'
    BY <1>1, <1>2 DEF Issue
<1>7. \A i \in Ids : chan'[i] # None => chan'[i].id = i /\ Rightful(chan[i])'
    <2>1. \A i \in Ids : chan'[i] # None => chan'[i] = chan[i]
        BY StepFrame DEF TypeOK
    <2> QED
        BY <1>1, <2>1 DEF Issue, TypeOK
<1> QED
    BY <1>3, <1>4, <1>5, <1>6, <1>7 DEF Issue

LEMMA AnswerCall ==
    ASSUME IInv, NEW c \in Calls, CallStep(c) \/ Timeout(c)
    PROVE  OwnAnswer'
<1> USE DEF IInv
<1>1. CallMoves(c) /\ CallOK(c) /\ call[c] \in CallType
    BY StepMoves DEF Shape, TypeOK, CallType
<1>2. \A l, t, n : call' = [call EXCEPT ![c] = At(l, t, n)] =>
         call'[c].pc = l /\ call'[c].stage = t /\ call'[c].id = n
    BY DEF TypeOK, At
<1>3. \A d \in Calls \ {c} : call'[d] = call[d] /\ got'[d] = got[d]
    <2>1. \A d \in Calls \ {c} : call'[d] = call[d]
        BY <1>1, MovesType
    <2>2. \A d \in Calls \ {c} : got'[d] = got[d]
        BY <1>1 DEF CallMoves, TypeOK
    <2> QED
        BY <2>1, <2>2
<1>4. got'[c] # None => got'[c] \in {Request(c)', Own(call'[c].id)}
    <2>1. CASE Answered(c)
        <3>1. call[c].id \in Ids /\ chan[call[c].id] # None
            BY <1>1, <2>1 DEF Answered, CallOK, TypeOK
        <3>2. chan[call[c].id] \in {Request(c), Own(call[c].id)}
            BY <3>1 DEF Issue, Rightful, Issued
        <3>3. got'[c] \in {Request(c), Own(call[c].id)}
            BY <2>1, <3>2 DEF Answered, TypeOK
        <3>4. call'[c].stage = call[c].stage /\ call'[c].id = call[c].id
            BY <1>1, <1>2, <2>1 DEF Answered, CallMoves, CallOK
        <3> QED
            BY <3>3, <3>4 DEF Request
    <2>2. CASE ~Answered(c) /\ got'[c] # None
        <3>1. got'[c] = got[c] /\ got[c] # None
            BY <2>2, StepFrame DEF TypeOK
        <3>2. call[c].pc \in {"leave", "end"}
            BY <3>1 DEF Shape
        <3>3. call' = [call EXCEPT ![c] = At("end", call[c].stage, call[c].id)]
            BY <1>1, <2>2, <3>2 DEF CallMoves, TypeOK
        <3>4. call'[c].stage = call[c].stage /\ call'[c].id = call[c].id
            BY <1>2, <3>3
        <3>5. got[c] \in {Request(c), Own(call[c].id)}
            BY <3>1 DEF OwnAnswer
        <3> QED
            BY <3>1, <3>4, <3>5 DEF Request
    <2> QED
        BY <2>1, <2>2
<1> QED
    BY <1>3, <1>4 DEF OwnAnswer, Request

\* The map, id by id.
Active(i) == i # 0 /\ \E c \in Calls : Sending(c) /\ call[c].id = i

LEMMA PendingById == PendingIsActive <=> \A i : i \in pending <=> Active(i)
BY DEF PendingIsActive, Active

LEMMA PendingCall ==
    ASSUME IInv, NEW c \in Calls, CallStep(c) \/ Timeout(c)
    PROVE  PendingIsActive'
<1> USE DEF IInv
<1>1. CallMoves(c) /\ CallOK(c) /\ call[c] \in CallType
    BY StepMoves DEF Shape, TypeOK, CallType
<1>2. \A l, t, n : call' = [call EXCEPT ![c] = At(l, t, n)] =>
         call'[c].pc = l /\ call'[c].stage = t /\ call'[c].id = n
    BY DEF TypeOK, At
<1>3. \A d \in Calls \ {c} : call'[d] = call[d]
    BY <1>1, MovesType
<1>4. \A i : i \in pending <=> Active(i)
    BY PendingById
<1>5. \A d \in Calls \ {c} : call[d].id = call[c].id => call[c].id = 0
    BY DEF Shape
<1>6. \A i : i \in pending' <=> Active(i)'
    <2>1. CASE Register(c)
        <3>1. pending' = pending \cup {idSeq + 1} /\ call[c].pc = "start" /\ idSeq + 1 # 0
            BY <2>1, RoomForId, ZeroIsNoId DEF Register
        <3>2. call'[c].pc = "lock" /\ call'[c].id = idSeq + 1
            BY <1>1, <1>2, <3>1 DEF CallMoves
        <3> QED
            BY <1>3, <1>4, <3>1, <3>2 DEF Active, Sending
    <2>2. CASE Leave(c)
        <3>1. pending' = pending \ {call[c].id} /\ call[c].pc = "leave" /\ call[c].id # 0
            BY <1>1, <2>2 DEF Leave, CallOK
        <3>2. call'[c].id = 0 \/ call'[c].pc = "end"
            BY <1>1, <1>2, <3>1 DEF CallMoves
        <3> QED
            BY <1>3, <1>4, <1>5, <3>1, <3>2 DEF Active, Sending
    <2>3. CASE ~Register(c) /\ ~Leave(c)
        <3>1. pending' = pending
            BY <2>3 DEF CallStep, Timeout, Lock, Write, WriteFails, Answered, Closed
        <3>2. call[c].pc \in {"lock", "write", "wait"}
            BY <2>3 DEF CallStep, Timeout, Lock, Write, WriteFails, Answered, Closed
        <3>3. call'[c].id = call[c].id /\ (call[c].id # 0 => call'[c].pc \in {"write", "wait", "leave"})
            BY <1>1, <1>2, <3>2 DEF CallMoves, CallOK
        <3> QED
            BY <1>3, <1>4, <3>1, <3>2, <3>3 DEF Active, Sending
    <2> QED
        BY <2>1, <2>2, <2>3
<1> QED
    BY <1>6 DEF PendingIsActive, Active

LEMMA CallKeeps ==
    ASSUME IInv, NEW c \in Calls, CallStep(c) \/ Timeout(c)
    PROVE  IInv'
<1>1. TypeOK' /\ Issue' /\ OwnAnswer' /\ PendingIsActive'
    BY TypeCall, IssueCall, AnswerCall, PendingCall
<1>2. Shape' /\ Budget'
    BY StepMoves, MovesShape, MovesBudget DEF IInv
<1> QED
    BY <1>1, <1>2 DEF IInv

-----------------------------------------------------------------------------
(* The others: the reader, Close and the child move no call.               *)

LEMMA CallsRest ==
    ASSUME IInv, UNCHANGED callVars, TypeOK', Issue'
    PROVE  IInv'
<1>1. Shape' /\ Budget'
    BY DEF IInv, callVars, Shape, CallOK, Budget, First, Second
<1>2. OwnAnswer' /\ PendingIsActive'
    BY DEF IInv, callVars, OwnAnswer, Request, PendingIsActive, Sending
<1> QED
    BY <1>1, <1>2 DEF IInv

LEMMA ReaderType ==
    ASSUME IInv, ReaderStep
    PROVE  TypeOK'
<1> USE DEF IInv
<1>1. UNCHANGED <<callVars, mu, close, stdin, mute, child, taken>>
    BY DEF ReaderStep, Scan, Look, Put, ScanEnds, ReaderChecks, ReaderCloses, childVars
<1>2. stdout' \in Seq(Lines) /\ Len(stdout') <= LineBound
    <2>1. CASE Scan
        BY <2>1, LineBoundIsNat DEF Scan, TypeOK
    <2>2. CASE ~Scan
        <3>1. stdout' = stdout
            BY <2>2 DEF ReaderStep, Look, Put, ScanEnds, ReaderChecks, ReaderCloses, childVars
        <3> QED
            BY <3>1 DEF TypeOK
    <2> QED
        BY <2>1, <2>2
<1>3. done' \in BOOLEAN
    BY DEF ReaderStep, Scan, Look, Put, ScanEnds, ReaderChecks, ReaderCloses, TypeOK
<1>4. chan' \in [Ids -> Lines \cup {None}]
    <2>1. CASE Put
        BY <2>1 DEF Put, Issue, TypeOK
    <2> QED
        BY <2>1 DEF ReaderStep, Scan, Look, ScanEnds, ReaderChecks, ReaderCloses, TypeOK
<1>5. reader' \in [pc : {"scan", "look", "put", "check", "close", "ended", "closed", "panicked"},
                   line : Lines \cup {None}]
    <2>1. CASE Scan
        BY <2>1 DEF Scan, TypeOK
    <2> QED
        BY <2>1 DEF ReaderStep, Look, Put, ScanEnds, ReaderChecks, ReaderCloses, TypeOK
<1> QED
    BY <1>1, <1>2, <1>3, <1>4, <1>5 DEF TypeOK, callVars

LEMMA ReaderIssue ==
    ASSUME IInv, ReaderStep
    PROVE  Issue'
<1> USE DEF IInv
<1>1. UNCHANGED <<callVars, stdin, taken>>
    BY DEF ReaderStep, Scan, Look, Put, ScanEnds, ReaderChecks, ReaderCloses, childVars
<1>2. \A r : (Issued(r)' <=> Issued(r)) /\ (Rightful(r)' <=> Rightful(r))
    BY <1>1 DEF callVars, Issued, Request, Rightful
<1>3. \A k \in DOMAIN stdout' : Rightful(stdout[k])'
    <2>1. CASE Scan
        <3>1. \A k \in DOMAIN Tail(stdout) : k + 1 \in DOMAIN stdout /\ Tail(stdout)[k] = stdout[k + 1]
            BY <2>1 DEF Scan, TypeOK
        <3> QED
            BY <1>2, <2>1, <3>1 DEF Scan, Issue
    <2> QED
        BY <1>2, <2>1 DEF ReaderStep, Look, Put, ScanEnds, ReaderChecks, ReaderCloses, childVars, Issue
<1>4. reader'.pc \in {"look", "put"} => reader'.line \in Lines /\ Rightful(reader.line)'
    <2>1. CASE Scan
        <3>1. 1 \in DOMAIN stdout /\ Head(stdout) = stdout[1] /\ Head(stdout) \in Lines
            BY <2>1 DEF Scan, TypeOK
        <3> QED
            BY <1>2, <2>1, <3>1 DEF Scan, Issue
    <2>2. CASE Look
        BY <1>2, <2>2 DEF Look, Issue, TypeOK
    <2> QED
        BY <2>1, <2>2 DEF ReaderStep, Put, ScanEnds, ReaderChecks, ReaderCloses, TypeOK
<1>5. \A i \in Ids : chan'[i] # None => chan'[i].id = i /\ Rightful(chan[i])'
    <2>1. CASE Put
        BY <1>2, <2>1 DEF Put, Issue, TypeOK
    <2> QED
        BY <1>2, <2>1 DEF ReaderStep, Scan, Look, ScanEnds, ReaderChecks, ReaderCloses, Issue
<1> QED
    BY <1>1, <1>2, <1>3, <1>4, <1>5 DEF Issue

LEMMA CloseKeeps ==
    ASSUME IInv, NEW k \in Closers, Close(k)
    PROVE  IInv'
<1> USE DEF IInv
<1>1. UNCHANGED <<callVars, chan, mu, reader, stdout>> /\ taken' \in {taken, {}}
    BY DEF Close, CloseCheck, CloseDone, CloseStdin, Kill, CloseWaited, childVars
<1>2. stdin' \in {stdin, None}
    BY DEF Close, CloseCheck, CloseDone, CloseStdin, Kill, CloseWaited
<1>3. /\ done' \in BOOLEAN /\ mute' \in BOOLEAN /\ child' \in {"running", "exited", "reaped"}
    BY DEF Close, CloseCheck, CloseDone, CloseStdin, Kill, CloseWaited, childVars, TypeOK
<1>4. close' \in [Closers -> {"start", "close", "stdin", "wait", "returned", "panicked"}]
    BY DEF Close, CloseCheck, CloseDone, CloseStdin, Kill, CloseWaited, TypeOK
<1>5. TypeOK'
    BY <1>1, <1>2, <1>3, <1>4 DEF TypeOK, callVars
<1>6. \A r : (Issued(r)' <=> Issued(r)) /\ (Rightful(r)' <=> Rightful(r))
    BY <1>1 DEF callVars, Issued, Request, Rightful
<1>7. Issue'
    BY <1>1, <1>2, <1>6 DEF Issue
<1> QED
    BY <1>1, <1>5, <1>7, CallsRest

LEMMA ChildKeeps ==
    ASSUME IInv, Child
    PROVE  IInv'
<1> USE DEF IInv
<1>1. UNCHANGED <<callVars, chan, mu, reader, done, close>>
    BY DEF Child, ChildReads, ChildAnswers, ChildSpeaks, ChildMutes, ChildExits
<1>2. \A r : (Issued(r)' <=> Issued(r)) /\ (Rightful(r)' <=> Rightful(r))
    BY <1>1 DEF callVars, Issued, Request, Rightful
<1>3. CASE ChildReads
    <2>1. /\ Head(stdin) = stdin[1] /\ 1 \in DOMAIN stdin /\ Head(stdin) \in Requests
          /\ Tail(stdin) \in Seq(Requests) /\ Len(Tail(stdin)) <= PipeSize
          /\ \A k \in DOMAIN Tail(stdin) : k + 1 \in DOMAIN stdin /\ Tail(stdin)[k] = stdin[k + 1]
        BY <1>3, PipeSizeIsPos DEF ChildReads, TypeOK
    <2>2. \A r \in taken' : r \in taken \/ (r = Head(stdin) /\ r.stage # "initialized")
        BY <1>3, <2>1 DEF ChildReads
    <2>3. TypeOK'
        BY <1>1, <1>3, <2>1, <2>2 DEF ChildReads, TypeOK, callVars
    <2>4. Issue'
        BY <1>1, <1>2, <1>3, <2>1, <2>2 DEF ChildReads, Issue
    <2> QED
        BY <1>1, <2>3, <2>4, CallsRest
<1>4. ASSUME NEW l \in Lines, Rightful(l), Len(stdout) < LineBound,
             stdout' = Append(stdout, l), UNCHANGED <<stdin, mute, child, taken>>
      PROVE  IInv'
    <2>1. stdout \in Seq(Lines)
        BY DEF TypeOK
    <2>2. stdout' \in Seq(Lines) /\ Len(stdout') = Len(stdout) + 1
        BY <1>4, <2>1
    <2>3. \A k \in DOMAIN stdout' : \/ k \in DOMAIN stdout /\ stdout'[k] = stdout[k]
                                    \/ stdout'[k] = l
        BY <1>4, <2>1
    <2>4. TypeOK'
        BY <1>1, <1>4, <2>1, <2>2, LineBoundIsNat DEF TypeOK, callVars
    <2>5. Issue'
        BY <1>1, <1>2, <1>4, <2>3 DEF Issue
    <2> QED
        BY <1>1, <2>4, <2>5, CallsRest
<1>6. ASSUME NEW r \in taken, ChildAnswers(r) PROVE IInv'
    <2>1. r \in Lines /\ Rightful(r)
        BY DEF Issue, Rightful, TypeOK, Lines
    <2> QED
        BY <1>4, <1>6, <2>1 DEF ChildAnswers
<1>7. ASSUME NEW i \in OwnIds, ChildSpeaks(i) PROVE IInv'
    <2>1. Own(i) \in Lines /\ Rightful(Own(i))
        BY DEF Lines, Rightful, Own
    <2> QED
        BY <1>4, <1>7, <2>1 DEF ChildSpeaks
<1>5. CASE ChildMutes \/ ChildExits
    <2>1. TypeOK'
        BY <1>1, <1>5 DEF ChildMutes, ChildExits, TypeOK, callVars
    <2>2. Issue'
        BY <1>1, <1>2, <1>5 DEF ChildMutes, ChildExits, Issue
    <2> QED
        BY <1>1, <2>1, <2>2, CallsRest
<1> QED
    BY <1>3, <1>5, <1>6, <1>7 DEF Child

-----------------------------------------------------------------------------
LEMMA InitHolds == Init => IInv
<1> SUFFICES ASSUME Init PROVE IInv
    OBVIOUS
<1>1. \A c \in Calls : call[c] = At("start", FirstStage(c), 0)
    BY DEF Init
<1>2. TypeOK
    <2>1. call \in [Calls -> CallType]
        <3>1. \A c \in Calls : At("start", FirstStage(c), 0) \in CallType
            BY AtType, Labels DEF FirstStage
        <3> QED
            BY <3>1 DEF Init
    <2>2. reader \in [pc : {"scan", "look", "put", "check", "close", "ended", "closed", "panicked"},
                      line : Lines \cup {None}]
        BY DEF Init
    <2>3. stdin \in Seq(Requests) /\ Len(stdin) <= PipeSize
        BY PipeSizeIsPos DEF Init
    <2>4. stdout \in Seq(Lines) /\ Len(stdout) <= LineBound
        BY LineBoundIsNat DEF Init
    <2> QED
        BY <2>1, <2>2, <2>3, <2>4 DEF Init, TypeOK, CallType
<1>3. Shape
    BY <1>1, CallsAreDisjoint DEF Init, Shape, CallOK, At, FirstStage, Calls
<1>4. Budget
    <2>1. First = Lists \cup Others /\ Second = Lists
        <3>1. First = Calls
            BY <1>1 DEF First
        <3>2. \A c \in Lists : call[c].stage = "initialize"
            <4> SUFFICES ASSUME NEW c \in Lists PROVE call[c].stage = "initialize"
                OBVIOUS
            <4>1. call[c] = At("start", "initialize", 0)
                BY <1>1 DEF Calls, FirstStage
            <4> QED
                BY <4>1 DEF At
        <3>3. Second = Lists
            BY <3>2 DEF Second
        <3> QED
            BY <3>1, <3>3 DEF Calls
    <2>2. Cardinality(Lists \cup Others) = Cardinality(Lists) + Cardinality(Others)
        <3>1. Cardinality(Lists \cap Others) = 0
            BY CallsAreDisjoint, FS_EmptySet
        <3>2. Cardinality(Lists \cup Others)
              = Cardinality(Lists) + Cardinality(Others) - Cardinality(Lists \cap Others)
            BY Sizes, FS_Union
        <3> QED
            BY <3>1, <3>2, Sizes
    <2> QED
        BY <2>1, <2>2, Sizes DEF Init, Budget, Total
<1>5. Issue
    BY DEF Init, Issue
<1>6. OwnAnswer /\ PendingIsActive
    BY <1>1 DEF Init, OwnAnswer, PendingIsActive, Sending, At
<1> QED
    BY <1>2, <1>3, <1>4, <1>5, <1>6 DEF IInv

LEMMA NextKeeps == IInv /\ [Next]_vars => IInv'
<1> SUFFICES ASSUME IInv, [Next]_vars PROVE IInv'
    OBVIOUS
<1>1. ASSUME NEW c \in Calls, CallStep(c) \/ Timeout(c) PROVE IInv'
    BY <1>1, CallKeeps
<1>2. CASE ReaderStep
    <2>1. UNCHANGED callVars
        BY <1>2 DEF ReaderStep, Scan, Look, Put, ScanEnds, ReaderChecks, ReaderCloses, callVars
    <2> QED
        BY <1>2, <2>1, ReaderType, ReaderIssue, CallsRest
<1>3. ASSUME NEW k \in Closers, Close(k) PROVE IInv'
    BY <1>3, CloseKeeps
<1>4. CASE Child
    BY <1>4, ChildKeeps
<1>5. CASE UNCHANGED vars
    <2>1. TypeOK'
        BY <1>5 DEF vars, IInv, TypeOK
    <2>2. Issue'
        BY <1>5 DEF vars, IInv, Issue, Issued, Request, Rightful
    <2> QED
        BY <1>5, <2>1, <2>2, CallsRest DEF vars, callVars
<1> QED
    BY <1>1, <1>2, <1>3, <1>4, <1>5 DEF Next

LEMMA IInvHolds == Spec => []IInv
<1> QED
    BY InitHolds, NextKeeps, PTL DEF Spec

-----------------------------------------------------------------------------
\* The state has its type; that an id is always left for a call that draws
\* one is part of it.
THEOREM StdioTypeCorrect == Spec => []TypeOK
<1>1. IInv => TypeOK
    BY DEF IInv
<1> QED
    BY <1>1, IInvHolds, PTL

\* An answer reaches the request it answers and no other, however late,
\* often or out of order the child answers, and whatever else it writes.
THEOREM OwnAnswerHolds == Spec => []OwnAnswer
<1>1. IInv => OwnAnswer
    BY DEF IInv
<1> QED
    BY <1>1, IInvHolds, PTL

\* The map pending holds the requests under way and no other.
THEOREM PendingIsActiveHolds == Spec => []PendingIsActive
<1>1. IInv => PendingIsActive
    BY DEF IInv
<1> QED
    BY <1>1, IInvHolds, PTL

-----------------------------------------------------------------------------
(* Close, of a transport that is closed by one caller, as the registry     *)
(* does, over any child.                                                   *)

OneCloser == \A k, l \in Closers : k = l

\* done is closed by the Close that goes on from there, or by the reader;
\* and how far that Close is tells what is left.
CloseInv ==
    /\ done /\ (\A k \in Closers : close[k] \in {"start", "close"}) => reader.pc = "closed"
    /\ \A k \in Closers :
          /\ close[k] = "wait" => stdin = None
          /\ close[k] = "returned" => reader.pc = "closed" \/ (stdin = None /\ child = "reaped")

LEMMA CloseInvStep ==
    ASSUME OneCloser, TypeOK, CloseInv, Next
    PROVE  CloseInv'
\* A call only writes: a pipe that is closed stays closed.
<1>1. ASSUME NEW c \in Calls, CallStep(c) \/ Timeout(c) PROVE CloseInv'
    <2>1. UNCHANGED <<reader, child, done, close>>
        BY <1>1, StepFrame
    <2>2. stdin = None => stdin' = None
        BY <1>1, StepFrame
    <2> QED
        BY <2>1, <2>2 DEF CloseInv
\* The reader never leaves "closed".
<1>2. CASE ReaderStep
    <2>1. UNCHANGED <<close, stdin, child>>
        BY <1>2 DEF ReaderStep, Scan, Look, Put, ScanEnds, ReaderChecks, ReaderCloses, childVars
    <2>2. reader.pc # "closed"
        BY <1>2 DEF ReaderStep, Scan, Look, Put, ScanEnds, ReaderChecks, ReaderCloses
    <2>3. CASE ReaderCloses
        <3>1. done \/ reader'.pc = "closed"
            BY <2>3 DEF ReaderCloses, TypeOK
        <3> QED
            BY <2>1, <2>2, <3>1 DEF CloseInv
    <2>4. CASE ~ReaderCloses
        <3>1. done' = done
            BY <1>2, <2>4 DEF ReaderStep, Scan, Look, Put, ScanEnds, ReaderChecks
        <3> QED
            BY <2>1, <2>2, <3>1 DEF CloseInv
    <2> QED
        BY <2>3, <2>4
<1>3. ASSUME NEW k \in Closers, Close(k) PROVE CloseInv'
    <2>0. /\ \A l \in Closers : l = k
          /\ reader' = reader
        BY <1>3 DEF OneCloser, Close, CloseCheck, CloseDone, CloseStdin, Kill, CloseWaited
    \* Who finds done closed has not closed it himself.
    <2>1. CASE CloseCheck(k)
        <3>1. /\ close[k] = "start" /\ done' = done
              /\ close'[k] = IF done THEN "returned" ELSE "close"
            BY <2>1 DEF CloseCheck, TypeOK
        <3>2. done => reader.pc = "closed"
            BY <2>0, <3>1 DEF CloseInv
        <3> QED
            BY <2>0, <3>1, <3>2 DEF CloseInv
    <2>2. CASE CloseDone(k)
        <3>1. close'[k] \in {"stdin", "panicked"}
            BY <2>2 DEF CloseDone, TypeOK
        <3> QED
            BY <2>0, <3>1 DEF CloseInv
    <2>3. CASE CloseStdin(k)
        <3>1. close'[k] = "wait" /\ stdin' = None
            BY <2>3 DEF CloseStdin, TypeOK
        <3> QED
            BY <2>0, <3>1 DEF CloseInv
    <2>4. CASE Kill(k)
        <3>1. close'[k] = "wait" /\ close[k] = "wait" /\ stdin' = stdin
            BY <2>4 DEF Kill
        <3> QED
            BY <2>0, <3>1 DEF CloseInv
    <2>5. CASE CloseWaited(k)
        <3>1. /\ close[k] = "wait" /\ close'[k] = "returned"
              /\ child' = "reaped" /\ stdin' = stdin
            BY <2>5 DEF CloseWaited, TypeOK
        <3> QED
            BY <2>0, <3>1 DEF CloseInv
    <2> QED
        BY <1>3, <2>1, <2>2, <2>3, <2>4, <2>5 DEF Close
\* The child reads from a pipe that is open, and is not reaped by itself.
<1>4. CASE Child
    <2>1. UNCHANGED <<done, reader, close>>
        BY <1>4 DEF Child, ChildReads, ChildAnswers, ChildSpeaks, ChildMutes, ChildExits
    <2>2. (stdin = None => stdin' = None) /\ (child = "reaped" => child' = "reaped")
        BY <1>4 DEF Child, ChildReads, ChildAnswers, ChildSpeaks, ChildMutes, ChildExits
    <2> QED
        BY <2>1, <2>2 DEF CloseInv
<1> QED
    BY <1>1, <1>2, <1>3, <1>4 DEF Next

LEMMA CloseInvHolds ==
    ASSUME OneCloser
    PROVE  Spec => []CloseInv
<1>1. Init => CloseInv
    BY DEF Init, CloseInv
<1>2. TypeOK /\ CloseInv /\ [Next]_vars => CloseInv'
    <2>1. ASSUME CloseInv, UNCHANGED vars PROVE CloseInv'
        BY <2>1 DEF vars, CloseInv
    <2> QED
        BY <2>1, CloseInvStep
<1> QED
    BY <1>1, <1>2, StdioTypeCorrect, PTL DEF Spec

\* A Close that has returned has closed the pipe and waited for the child,
\* whatever the child does and whenever it ends, unless the reader has
\* closed done.
THEOREM CloseReapsHolds ==
    ASSUME OneCloser
    PROVE  Spec => []CloseReaps
<1>1. CloseInv => CloseReaps
    BY DEF CloseInv, CloseReaps, Reaped
<1> QED
    BY <1>1, CloseInvHolds, PTL

-----------------------------------------------------------------------------
(* What the liveness of calls rests on: the mutex, and that a call only    *)
(* advances.                                                               *)

\* The mutex of stdin is held by the call that writes, so requests never
\* mix in the pipe; and nobody else has it, so a call that waits for it
\* waits for a write, which ends at the latest when Close closes the pipe.
WriterHasMutex ==
    /\ \A c \in Calls : call[c].pc = "write" <=> mu = c
    /\ mu \in Calls \cup {None}

LEMMA WriterHasMutexStep ==
    ASSUME TypeOK, WriterHasMutex, [Next]_vars
    PROVE  WriterHasMutex'
<1>1. ASSUME NEW c \in Calls, CallStep(c) \/ Timeout(c) PROVE WriterHasMutex'
    <2>1. ASSUME NEW d \in Calls \ {c} PROVE call'[d] = call[d]
        BY <1>1 DEF CallStep, Timeout, Register, Lock, Write, WriteFails, AfterWrite, Answered,
                    Closed, Leave, Goto, TypeOK
    <2>2. CASE Lock(c)
        <3>1. call'[c].pc = "write" /\ mu' = c
            BY <2>2 DEF Lock, Goto, TypeOK
        <3> QED
            BY <2>1, <2>2, <3>1, NoneIsNoCall DEF Lock, WriterHasMutex
    <2>3. CASE Write(c) \/ WriteFails(c)
        <3>1. call'[c].pc # "write"
            BY <2>3 DEF Write, WriteFails, AfterWrite, Goto, At, TypeOK
        <3>2. mu = c /\ mu' = None
            BY <2>3 DEF Write, WriteFails, WriterHasMutex
        <3> QED
            BY <2>1, <3>1, <3>2, NoneIsNoCall DEF WriterHasMutex
    <2>4. CASE Register(c) \/ Answered(c) \/ Closed(c) \/ Leave(c) \/ Timeout(c)
        <3>1. call[c].pc # "write" /\ call'[c].pc # "write"
            BY <2>4 DEF Register, Answered, Closed, Leave, Timeout, Goto, At, TypeOK
        <3>2. mu' = mu
            BY <2>4 DEF Register, Answered, Closed, Leave, Timeout
        <3> QED
            BY <2>1, <3>1, <3>2 DEF WriterHasMutex
    <2> QED
        BY <1>1, <2>2, <2>3, <2>4 DEF CallStep
<1>2. CASE ReaderStep
    BY <1>2 DEF ReaderStep, Scan, Look, Put, ScanEnds, ReaderChecks, ReaderCloses, callVars,
                WriterHasMutex
<1>3. ASSUME NEW k \in Closers, Close(k) PROVE WriterHasMutex'
    BY <1>3 DEF Close, CloseCheck, CloseDone, CloseStdin, Kill, CloseWaited, callVars, WriterHasMutex
<1>4. CASE Child
    BY <1>4 DEF Child, ChildReads, ChildAnswers, ChildSpeaks, ChildMutes, ChildExits, callVars, WriterHasMutex
<1>5. CASE UNCHANGED vars
    BY <1>5 DEF vars, WriterHasMutex
<1> QED
    BY <1>1, <1>2, <1>3, <1>4, <1>5 DEF Next

\* For any number of calls, and any child.
THEOREM WriterHasMutexHolds == Spec => []WriterHasMutex
<1>1. Init => WriterHasMutex
    BY NoneIsNoCall DEF Init, At, WriterHasMutex
<1>2. TypeOK /\ WriterHasMutex /\ [Next]_vars => WriterHasMutex'
    BY WriterHasMutexStep
<1> QED
    BY <1>1, <1>2, StdioTypeCorrect, PTL DEF Spec

\* How far a call is: its request, and its place in send.
StageNo(s) == IF s = "initialize" THEN 0 ELSE IF s = "initialized" THEN 6 ELSE 12
PlaceNo == [start |-> 0, lock |-> 1, write |-> 2, wait |-> 3, leave |-> 4, end |-> 5]
Progress(r) == StageNo(r.stage) + PlaceNo[r.pc]

\* Whatever the child does, a call only advances: CallTool and Ping send one
\* request and ListTools each of its three messages at most once, and none
\* goes back to a place it has left.
CallsAdvance ==
    [][\A c \in Calls : call'[c] # call[c]
          => /\ Progress(call'[c]) > Progress(call[c])
             /\ Progress(call'[c]) <= 17]_vars

LEMMA ProgressOf ==
    ASSUME NEW l \in CallLabels, NEW s \in Stages, NEW i
    PROVE  /\ Progress(At(l, s, i)) = StageNo(s) + PlaceNo[l]
           /\ StageNo(s) \in {0, 6, 12} /\ PlaceNo[l] \in 0 .. 5
BY DEF Progress, At, PlaceNo, StageNo, CallLabels

LEMMA CallAdvances ==
    ASSUME TypeOK, Shape, NEW c \in Calls, CallStep(c) \/ Timeout(c)
    PROVE  Progress(call'[c]) > Progress(call[c]) /\ Progress(call'[c]) <= 17
<1>0. /\ call[c].pc \in CallLabels /\ call[c].stage \in Stages
      /\ Progress(call[c]) = StageNo(call[c].stage) + PlaceNo[call[c].pc]
    BY DEF TypeOK, Progress
<1>1. PlaceNo["start"] = 0 /\ PlaceNo["lock"] = 1 /\ PlaceNo["write"] = 2
      /\ PlaceNo["wait"] = 3 /\ PlaceNo["leave"] = 4 /\ PlaceNo["end"] = 5
    BY DEF PlaceNo
<1>2. ASSUME NEW l \in CallLabels, PlaceNo[l] > PlaceNo[call[c].pc],
             NEW i, call' = [call EXCEPT ![c] = At(l, call[c].stage, i)]
      PROVE  Progress(call'[c]) > Progress(call[c]) /\ Progress(call'[c]) <= 17
    <2>1. call'[c] = At(l, call[c].stage, i)
        BY <1>2 DEF TypeOK
    <2> QED
        BY <1>0, <1>2, <2>1, ProgressOf
<1>3. ASSUME NEW l, Goto(c, l) PROVE call' = [call EXCEPT ![c] = At(l, call[c].stage, call[c].id)]
    BY <1>3, GotoMoves DEF Goto
<1>4. CASE Register(c)
    <2>1. call[c].pc = "start" /\ call' = [call EXCEPT ![c] = At("lock", call[c].stage, idSeq + 1)]
        BY <1>4, StepMoves DEF Register, CallMoves
    <2>2. "lock" \in CallLabels /\ PlaceNo["lock"] > PlaceNo[call[c].pc]
        BY <1>1, <2>1, Labels
    <2> QED
        BY <1>2, <2>1, <2>2
<1>5. CASE Lock(c)
    BY <1>1, <1>2, <1>3, <1>5, Labels DEF Lock
<1>6. CASE Write(c) \/ WriteFails(c)
    <2>1. CASE call[c].stage = "initialized"
        <3>1. call'[c] = At("start", "tools/list", 0) /\ call[c].pc = "write"
            BY <1>6, <2>1 DEF Write, WriteFails, AfterWrite, TypeOK
        <3> QED
            BY <1>0, <1>1, <2>1, <3>1, ProgressOf, Labels DEF StageNo
    <2>2. CASE call[c].stage # "initialized"
        BY <1>1, <1>2, <1>3, <1>6, <2>2, Labels DEF Write, WriteFails, AfterWrite
    <2> QED
        BY <2>1, <2>2
<1>7. CASE Answered(c) \/ Closed(c) \/ Timeout(c)
    BY <1>1, <1>2, <1>3, <1>7, Labels DEF Answered, Closed, Timeout
<1>8. CASE Leave(c)
    <2>1. call[c].pc = "leave"
        BY <1>8 DEF Leave
    <2>2. CASE call[c].stage = "initialize" /\ call' = [call EXCEPT ![c] = At("lock", "initialized", 0)]
        <3>1. call'[c] = At("lock", "initialized", 0)
            BY <2>2 DEF TypeOK
        <3> QED
            BY <1>0, <1>1, <2>1, <2>2, <3>1, ProgressOf, Labels DEF StageNo
    <2>3. CASE Goto(c, "end")
        BY <1>1, <1>2, <1>3, <2>1, <2>3, Labels
    <2> QED
        BY <1>8, <2>2, <2>3 DEF Leave
<1> QED
    BY <1>4, <1>5, <1>6, <1>7, <1>8 DEF CallStep

\* The safety half of CallsEnd and of CloseReleases.
THEOREM CallsAdvanceHolds == Spec => CallsAdvance
<1> DEFINE Advance == \A c \in Calls : call'[c] # call[c]
                         => /\ Progress(call'[c]) > Progress(call[c])
                            /\ Progress(call'[c]) <= 17
<1>1. IInv /\ [Next]_vars => [Advance]_vars
    <2> SUFFICES ASSUME IInv, Next, NEW c \in Calls, call'[c] # call[c]
                 PROVE  CallStep(c) \/ Timeout(c)
        BY CallAdvances DEF IInv
    <2>1. ASSUME NEW d \in Calls, CallStep(d) \/ Timeout(d) PROVE d = c
        <3>1. PICK v : call' = [call EXCEPT ![d] = v]
            BY <2>1, StepMoves DEF IInv, CallMoves
        <3> QED
            BY <3>1 DEF IInv, TypeOK
    <2>2. ~(UNCHANGED call)
        OBVIOUS
    <2> QED
        BY <2>1, <2>2
           DEF Next, ReaderStep, Scan, Look, Put, ScanEnds, ReaderChecks, ReaderCloses,
               Close, CloseCheck, CloseDone, CloseStdin, Kill, CloseWaited,
               Child, ChildReads, ChildAnswers, ChildSpeaks, ChildMutes, ChildExits, callVars
<1> QED
    BY <1>1, IInvHolds, PTL DEF Spec, CallsAdvance

=============================================================================
