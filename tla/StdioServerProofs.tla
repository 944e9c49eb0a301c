------------------------- MODULE StdioServerProofs -------------------------
(***************************************************************************)
(* voidmcp's stdio mode implements Dialogue, for every number of notifiers *)
(* and lines: notifyMu keeps the two writes of a message together, and the *)
(* loop answers the lines one after the other.                             *)
(***************************************************************************)
EXTENDS StdioServer, TLAPS

LEMMA SeqMonotonic ==
    ASSUME NEW S, NEW T, S \subseteq T
    PROVE  Seq(S) \subseteq Seq(T)
<1> SUFFICES ASSUME NEW s \in Seq(S) PROVE s \in Seq(T)
    OBVIOUS
<1>1. Len(s) \in Nat /\ DOMAIN s = 1 .. Len(s) /\ \A k \in 1 .. Len(s) : s[k] \in T
    OBVIOUS
<1> QED
    BY <1>1

LEMMA TypeStep == TypeOK /\ [Next]_vars => TypeOK'
<1> SUFFICES ASSUME TypeOK, [Next]_vars PROVE TypeOK'
    OBVIOUS
<1> USE BoundsAreNat
<1>1. CASE ClientWrites
    <2> PICK k \in Kinds : lines' = Append(lines, k)
        BY <1>1 DEF ClientWrites
    <2>1. lines' \in Seq(Kinds) /\ Len(lines') = Len(lines) + 1 /\ Len(lines) \in Nat
        BY DEF TypeOK
    <2>2. 0 .. Len(lines) \subseteq 0 .. Len(lines')
        BY <2>1
    <2>3. Seq(0 .. Len(lines)) \subseteq Seq(0 .. Len(lines'))
        BY <2>2, SeqMonotonic
    <2>4. Seq(Seq(0 .. Len(lines))) \subseteq Seq(Seq(0 .. Len(lines')))
        BY <2>3, SeqMonotonic
    <2> QED
        BY <1>1, <2>1, <2>2, <2>3, <2>4 DEF ClientWrites, TypeOK, noteVars, outVars
<1>2. CASE ClientCloses \/ Signal
    BY <1>2 DEF ClientCloses, Signal, TypeOK, noteVars, outVars
<1>3. CASE Start \/ Scan \/ ScanEnds \/ Check \/ Handled \/ Lock
    <2>1. /\ lines' = lines /\ frames' = frames /\ partial' = partial /\ note' = note
          /\ closed' = closed /\ cancelled' = cancelled /\ notesLeft' = notesLeft
        BY <1>3 DEF Start, Scan, ScanEnds, Check, Handled, Lock, clientVars, noteVars, outVars
    <2>2. writer' \in BOOLEAN
        BY <1>3 DEF Start, Scan, ScanEnds, Check, Handled, Lock, TypeOK
    <2>3. read' \in 0 .. Len(lines) /\ (pc' \notin {"start", "scan", "returned"} => read' > 0)
        <3>1. Len(lines) \in Nat
            BY DEF TypeOK
        <3>2. CASE Start \/ ScanEnds \/ Check \/ Handled \/ Lock
            BY <3>2 DEF Start, ScanEnds, Check, Handled, Lock, TypeOK
        <3>3. CASE Scan
            BY <3>1, <3>3 DEF Scan, TypeOK
        <3> QED
            BY <1>3, <3>2, <3>3
    <2>4. /\ pc' \in {"start", "scan", "check", "handle", "lock", "body", "newline", "returned"}
          /\ mu' \in Notifiers \cup {Loop, Nobody}
        BY <1>3 DEF Start, Scan, ScanEnds, Check, Handled, Lock, TypeOK
    <2> QED
        BY <2>1, <2>2, <2>3, <2>4 DEF TypeOK
<1>4. CASE WriteBody
    <2>1. read \in 0 .. Len(lines)
        BY DEF TypeOK
    <2>2. partial' \in Seq(0 .. Len(lines))
        BY <1>4, <2>1 DEF WriteBody, TypeOK
    <2> QED
        BY <1>4, <2>2 DEF WriteBody, TypeOK, clientVars, noteVars
<1>5. CASE WriteNewline
    <2>1. frames' \in Seq(Seq(0 .. Len(lines))) /\ partial' \in Seq(0 .. Len(lines))
        BY <1>5 DEF WriteNewline, TypeOK
    <2> QED
        BY <1>5, <2>1 DEF WriteNewline, TypeOK, clientVars, noteVars
<1>6. ASSUME NEW n \in Notifiers, Notify(n) PROVE TypeOK'
    BY <1>6 DEF Notify, NoteAt, TypeOK, clientVars, outVars
<1>7. ASSUME NEW n \in Notifiers, NoteLock(n) PROVE TypeOK'
    BY <1>7 DEF NoteLock, NoteAt, TypeOK, clientVars, outVars
<1>8. ASSUME NEW n \in Notifiers, NoteBody(n) PROVE TypeOK'
    <2>1. partial' \in Seq(0 .. Len(lines))
        BY <1>8 DEF NoteBody, TypeOK
    <2> QED
        BY <1>8, <2>1 DEF NoteBody, NoteAt, TypeOK, clientVars
<1>9. ASSUME NEW n \in Notifiers, NoteNewline(n) PROVE TypeOK'
    <2>1. frames' \in Seq(Seq(0 .. Len(lines))) /\ partial' \in Seq(0 .. Len(lines))
        BY <1>9 DEF NoteNewline, TypeOK
    <2> QED
        BY <1>9, <2>1 DEF NoteNewline, NoteAt, TypeOK, clientVars
<1>10. CASE UNCHANGED vars
    BY <1>10 DEF vars, TypeOK
<1> QED
    BY <1>1, <1>2, <1>3, <1>4, <1>5, <1>6, <1>7, <1>8, <1>9, <1>10
    DEF Next, ServeStdio, sendNotification

LEMMA InitType == Init => TypeOK
<1> SUFFICES ASSUME Init PROVE TypeOK
    OBVIOUS
<1>1. lines \in Seq(Kinds) /\ Len(lines) = 0
    BY DEF Init
<1>2. frames \in Seq(Seq(0 .. Len(lines))) /\ partial \in Seq(0 .. Len(lines))
    BY DEF Init
<1>3. notesLeft \in 0 .. MaxNotes /\ read \in 0 .. Len(lines)
    BY <1>1, BoundsAreNat DEF Init
<1>4. note \in [Notifiers -> {"idle", "lock", "body", "newline"}]
    BY DEF Init
<1> QED
    BY <1>1, <1>2, <1>3, <1>4 DEF Init, TypeOK

\* What the variables hold, for any number of notifiers and any bounds.
THEOREM StdioServerTypeCorrect == Spec => []TypeOK
BY InitType, TypeStep, PTL DEF Spec

-----------------------------------------------------------------------------
(* notifyMu: whoever is between the two writes of a message holds it, and  *)
(* what has been written since the last newline is its message.            *)

Held ==
    /\ pc \in {"body", "newline"} <=> mu = Loop
    /\ \A n \in Notifiers : note[n] \in {"body", "newline"} <=> mu = n

OwnMessage ==
    /\ pc = "newline" => partial = <<read>>
    /\ \A n \in Notifiers : note[n] = "newline" => partial = <<0>>
    /\ pc # "newline" /\ (\A n \in Notifiers : note[n] # "newline") => partial = <<>>

LEMMA HeldStep == TypeOK /\ Held /\ OwnMessage /\ [Next]_vars => Held' /\ OwnMessage'
<1> SUFFICES ASSUME TypeOK, Held, OwnMessage, [Next]_vars PROVE Held' /\ OwnMessage'
    OBVIOUS
<1> USE WritersDiffer
<1>1. CASE ClientWrites \/ ClientCloses \/ Signal
    BY <1>1 DEF ClientWrites, ClientCloses, Signal, Held, OwnMessage, noteVars, outVars
<1>2. CASE Start \/ Scan \/ ScanEnds \/ Check \/ Handled
    BY <1>2 DEF Start, Scan, ScanEnds, Check, Handled, Held, OwnMessage, clientVars, noteVars, outVars
<1>3. CASE Lock
    BY <1>3 DEF Lock, Held, OwnMessage, clientVars, noteVars, outVars
<1>4. CASE WriteBody
    <2>1. mu = Loop /\ \A n \in Notifiers : note[n] \notin {"body", "newline"}
        BY <1>4 DEF WriteBody, Held
    <2>2. partial = <<>>
        BY <1>4, <2>1 DEF WriteBody, OwnMessage
    <2>3. Append(<<>>, read) = <<read>>
        OBVIOUS
    <2>4. partial' = <<read>> /\ read' = read
        BY <1>4, <2>2, <2>3 DEF WriteBody
    <2> QED
        BY <1>4, <2>1, <2>4 DEF WriteBody, Held, OwnMessage, clientVars, noteVars
<1>5. CASE WriteNewline
    BY <1>5 DEF WriteNewline, Held, OwnMessage, clientVars, noteVars
<1>6. ASSUME NEW n \in Notifiers, Notify(n) PROVE Held' /\ OwnMessage'
    BY <1>6 DEF Notify, NoteAt, TypeOK, Held, OwnMessage, clientVars, outVars
<1>7. ASSUME NEW n \in Notifiers, NoteLock(n) PROVE Held' /\ OwnMessage'
    BY <1>7 DEF NoteLock, NoteAt, TypeOK, Held, OwnMessage, clientVars, outVars
<1>8. ASSUME NEW n \in Notifiers, NoteBody(n) PROVE Held' /\ OwnMessage'
    <2>1. mu = n /\ pc \notin {"body", "newline"}
          /\ \A m \in Notifiers \ {n} : note[m] \notin {"body", "newline"}
        BY <1>8 DEF NoteBody, Held
    <2>2. partial = <<>>
        BY <1>8, <2>1 DEF NoteBody, OwnMessage
    <2>3. Append(<<>>, 0) = <<0>>
        OBVIOUS
    <2>4. partial' = <<0>>
        BY <1>8, <2>2, <2>3 DEF NoteBody
    <2> QED
        BY <1>8, <2>1, <2>4 DEF NoteBody, NoteAt, TypeOK, Held, OwnMessage, clientVars
<1>9. ASSUME NEW n \in Notifiers, NoteNewline(n) PROVE Held' /\ OwnMessage'
    BY <1>9 DEF NoteNewline, NoteAt, TypeOK, Held, OwnMessage, clientVars
<1>10. CASE UNCHANGED vars
    BY <1>10 DEF vars, Held, OwnMessage
<1> QED
    BY <1>1, <1>2, <1>3, <1>4, <1>5, <1>6, <1>7, <1>8, <1>9, <1>10
    DEF Next, ServeStdio, sendNotification

-----------------------------------------------------------------------------
(* The loop answers the lines in order, one each.                          *)

HasAnswer(i) == \E j \in DOMAIN frames : frames[j] = <<i>>

AtWork == {"check", "handle", "lock", "body", "newline"}

AnswerInv ==
    /\ pc = "start" => read = 0
    /\ \A i \in Nat : HasAnswer(i) => i <= read
    /\ pc \in AtWork => ~HasAnswer(read)
    /\ pc \in {"lock", "body", "newline"} => Handle(lines[read])
    /\ \A i \in 1 .. read : Handle(lines[i]) /\ (i < read \/ pc = "scan") => HasAnswer(i)

\* A frame written is an answer to the line it names, and to no other.
LEMMA FrameAnswers ==
    ASSUME TypeOK, NEW f, frames' = Append(frames, f), NEW i
    PROVE  HasAnswer(i)' <=> HasAnswer(i) \/ f = <<i>>
<1>1. Len(frames) \in Nat /\ DOMAIN frames = 1 .. Len(frames) /\ DOMAIN frames' = 1 .. Len(frames) + 1
    BY DEF TypeOK
<1>2. frames'[Len(frames) + 1] = f /\ \A j \in 1 .. Len(frames) : frames'[j] = frames[j]
    BY DEF TypeOK
<1>3. \A j \in 1 .. Len(frames) + 1 : j \in 1 .. Len(frames) \/ j = Len(frames) + 1
    BY <1>1
<1>4. Len(frames) + 1 \in 1 .. Len(frames) + 1 /\ \A j \in 1 .. Len(frames) : j \in 1 .. Len(frames) + 1
    BY <1>1
<1> QED
    BY <1>1, <1>2, <1>3, <1>4, Zenon DEF HasAnswer

LEMMA AnswerStep ==
    TypeOK /\ OwnMessage /\ AnswerInv /\ [Next]_vars => AnswerInv'
<1> SUFFICES ASSUME TypeOK, OwnMessage, AnswerInv, [Next]_vars PROVE AnswerInv'
    OBVIOUS
<1>1. read \in Nat /\ Len(lines) \in Nat /\ read <= Len(lines)
    BY DEF TypeOK
<1>2. CASE ClientWrites
    <2>1. /\ frames' = frames /\ read' = read /\ pc' = pc
          /\ \A i \in 1 .. read : lines'[i] = lines[i]
          /\ pc \in AtWork => read \in 1 .. read
        BY <1>1, <1>2 DEF ClientWrites, TypeOK, outVars, AtWork
    <2> QED
        BY <2>1 DEF AnswerInv, HasAnswer, AtWork
<1>3. CASE ClientCloses \/ Signal \/ Start \/ ScanEnds \/ Check \/ Lock \/ WriteBody
    <2>1. /\ frames' = frames /\ read' = read /\ lines' = lines
          /\ pc' \in AtWork => pc \in AtWork
          /\ pc' \in {"lock", "body", "newline"} => pc \in {"lock", "body", "newline"}
          /\ pc' = "scan" => pc \in {"start", "scan"}
        BY <1>3 DEF ClientCloses, Signal, Start, ScanEnds, Check, Lock, WriteBody, clientVars, outVars, AtWork
    <2>2. pc' = "start" => pc = "start"
        BY <1>3 DEF ClientCloses, Signal, Start, ScanEnds, Check, Lock, WriteBody
    <2> QED
        BY <1>1, <2>1, <2>2 DEF AnswerInv, HasAnswer
<1>4. CASE Scan
    <2>1. /\ frames' = frames /\ read' = read + 1 /\ lines' = lines
          /\ pc = "scan" /\ pc' = "check"
        BY <1>4 DEF Scan, clientVars, outVars
    <2>2. ~HasAnswer(read + 1)
        BY <1>1 DEF AnswerInv
    <2> QED
        BY <1>1, <2>1, <2>2 DEF AnswerInv, HasAnswer, AtWork
<1>5. CASE Handled
    <2>1. /\ frames' = frames /\ read' = read /\ lines' = lines /\ pc = "handle" /\ read > 0
          /\ pc' = IF Handle(lines[read]) THEN "lock" ELSE "scan"
        BY <1>5 DEF Handled, TypeOK, clientVars, outVars
    <2> QED
        BY <1>1, <2>1 DEF AnswerInv, HasAnswer, AtWork
<1>6. CASE WriteNewline
    <2>1. /\ read' = read /\ lines' = lines /\ pc = "newline" /\ pc' = "scan"
          /\ frames' = Append(frames, <<read>>)
        BY <1>6 DEF WriteNewline, OwnMessage, clientVars
    <2>2. \A i \in Nat : HasAnswer(i)' <=> HasAnswer(i) \/ <<read>> = <<i>>
        BY <2>1, FrameAnswers
    <2> QED
        BY <1>1, <2>1, <2>2 DEF AnswerInv, AtWork
<1>7. ASSUME NEW n \in Notifiers, Notify(n) \/ NoteLock(n) \/ NoteBody(n) PROVE AnswerInv'
    BY <1>7 DEF Notify, NoteLock, NoteBody, clientVars, outVars, AnswerInv, HasAnswer
<1>8. ASSUME NEW n \in Notifiers, NoteNewline(n) PROVE AnswerInv'
    <2>1. /\ read' = read /\ lines' = lines /\ pc' = pc
          /\ frames' = Append(frames, <<0>>)
        BY <1>8 DEF NoteNewline, OwnMessage, clientVars
    <2>2. \A i \in Nat : HasAnswer(i)' <=> HasAnswer(i) \/ <<0>> = <<i>>
        BY <2>1, FrameAnswers
    <2>3. pc \in AtWork => read > 0
        BY DEF TypeOK, AtWork
    <2> QED
        BY <1>1, <2>1, <2>2, <2>3 DEF AnswerInv, AtWork
<1>9. CASE UNCHANGED vars
    BY <1>9 DEF vars, AnswerInv, HasAnswer
<1> QED
    BY <1>2, <1>3, <1>4, <1>5, <1>6, <1>7, <1>8, <1>9
    DEF Next, ServeStdio, sendNotification

LEMMA RefinementStep ==
    TypeOK /\ OwnMessage /\ AnswerInv /\ [Next]_vars
    => [Client!Next]_<<lines, frames>>
<1> SUFFICES ASSUME TypeOK, OwnMessage, AnswerInv, [Next]_vars
             PROVE  [Client!Next]_<<lines, frames>>
    OBVIOUS
<1>1. CASE ClientWrites
    BY <1>1 DEF ClientWrites, outVars, Client!Next, Client!Ask
<1>2. CASE WriteNewline
    <2>1. frames' = Append(frames, <<read>>) /\ lines' = lines /\ pc = "newline"
        BY <1>2 DEF WriteNewline, OwnMessage, clientVars
    <2>2. read \in DOMAIN lines /\ Handle(lines[read]) /\ ~HasAnswer(read)
        BY <2>1 DEF TypeOK, AnswerInv, AtWork
    <2>3. \A j \in DOMAIN lines : Handle(lines[j]) /\ ~HasAnswer(j) => read <= j
        BY <2>1 DEF TypeOK, AnswerInv
    <2>4. Client!Open = {i \in DOMAIN lines : Handle(lines[i]) /\ ~HasAnswer(i)}
        BY DEF Client!Open, Client!HasAnswer, HasAnswer
    <2>5. Client!Answer(read)
        BY <2>1, <2>2, <2>3, <2>4 DEF Client!Answer
    <2> QED
        BY <2>2, <2>5 DEF Client!Next
<1>3. ASSUME NEW n \in Notifiers, NoteNewline(n) PROVE Client!Notify
    BY <1>3 DEF NoteNewline, OwnMessage, clientVars, Client!Notify
<1>4. ASSUME NEW n \in Notifiers, Notify(n) \/ NoteLock(n) \/ NoteBody(n)
      PROVE  UNCHANGED <<lines, frames>>
    BY <1>4 DEF Notify, NoteLock, NoteBody, clientVars, outVars
<1>5. CASE ClientCloses \/ Signal \/ Start \/ Scan \/ ScanEnds \/ Check \/ Handled
           \/ Lock \/ WriteBody
    BY <1>5 DEF ClientCloses, Signal, Start, Scan, ScanEnds, Check, Handled, Lock,
       WriteBody, clientVars, outVars
<1>6. CASE UNCHANGED vars
    BY <1>6 DEF vars
<1> QED
    BY <1>1, <1>2, <1>3, <1>4, <1>5, <1>6
    DEF Next, ServeStdio, sendNotification, Client!Next

\* The loop and the notifiers implement Dialogue: the client reads whole
\* messages, and one answer per request in the order of the requests.
THEOREM HoldsDialogueHolds == Spec => HoldsDialogue
<1>1. Init => TypeOK /\ Held /\ OwnMessage /\ AnswerInv
    <2> SUFFICES ASSUME Init PROVE TypeOK /\ Held /\ OwnMessage /\ AnswerInv
        OBVIOUS
    <2>1. TypeOK
        BY InitType
    <2>2. Held /\ OwnMessage
        BY WritersDiffer DEF Init, Held, OwnMessage
    <2>3. AnswerInv
        BY DEF Init, AnswerInv, HasAnswer, AtWork
    <2> QED
        BY <2>1, <2>2, <2>3
<1>2. Init => Client!Init
    BY DEF Init, Client!Init
<1>3. TypeOK /\ OwnMessage /\ AnswerInv /\ [Next]_vars
      => [Client!Next]_<<lines, frames>>
    BY RefinementStep
<1> QED
    BY <1>1, <1>2, <1>3, TypeStep, HeldStep, AnswerStep, PTL
    DEF Spec, HoldsDialogue, Client!Spec

-----------------------------------------------------------------------------
(* The safety half of RequestsAreAnswered and ReturnsOnClose.              *)

\* Whoever waits for notifyMu waits for one that is between the two writes
\* of a message, neither of which waits for anybody.
THEOREM HeldHolds == Spec => []Held
<1>1. Init => Held /\ OwnMessage
    BY WritersDiffer DEF Init, Held, OwnMessage
<1> QED
    BY <1>1, StdioServerTypeCorrect, HeldStep, PTL DEF Spec

\* A loop that has returned owes an answer to the last line it has read and
\* to no earlier one; and if it was not told to stop and met no line it
\* cannot read, it has read all there was and owes none.
NothingDropped ==
    pc = "returned" =>
       /\ \A i \in 1 .. read : i < read /\ Handle(lines[i]) => HasAnswer(i)
       /\ ~cancelled /\ (\A j \in DOMAIN lines : lines[j] # "long") =>
             \A i \in DOMAIN lines : Handle(lines[i]) => HasAnswer(i)

\* Why it has returned.
Reason ==
    pc = "returned" =>
       \/ cancelled
       \/ \E j \in DOMAIN lines : lines[j] = "long"
       \/ /\ closed /\ read = Len(lines)
          /\ \A i \in 1 .. read : Handle(lines[i]) => HasAnswer(i)

LEMMA ReasonStep ==
    TypeOK /\ OwnMessage /\ AnswerInv /\ Reason /\ [Next]_vars => Reason'
<1> SUFFICES ASSUME TypeOK, OwnMessage, AnswerInv, Reason, [Next]_vars, pc' = "returned"
             PROVE  \/ cancelled'
                    \/ \E j \in DOMAIN lines' : lines'[j] = "long"
                    \/ /\ closed' /\ read' = Len(lines')
                       /\ \A i \in 1 .. read' : Handle(lines'[i]) => HasAnswer(i)'
    BY DEF Reason
<1>1. CASE ClientWrites
    <2>1. pc = "returned" /\ ~closed /\ UNCHANGED <<cancelled>>
        BY <1>1 DEF ClientWrites
    <2>2. PICK k \in Kinds : lines' = Append(lines, k)
        BY <1>1 DEF ClientWrites
    <2>3. \A j \in DOMAIN lines : j \in DOMAIN lines' /\ lines'[j] = lines[j]
        BY <2>2 DEF TypeOK
    <2> QED
        BY <2>1, <2>3 DEF Reason
<1>2. CASE ClientCloses \/ Signal
    BY <1>2 DEF ClientCloses, Signal, Reason, outVars, HasAnswer
<1>3. CASE ScanEnds
    BY <1>3 DEF ScanEnds, AnswerInv, HasAnswer, clientVars, outVars, TypeOK
<1>4. CASE Check
    BY <1>4 DEF Check, clientVars
<1>5. CASE Start \/ Scan \/ Handled \/ Lock \/ WriteBody \/ WriteNewline
    BY <1>5 DEF Start, Scan, Handled, Lock, WriteBody, WriteNewline
<1>6. ASSUME NEW n \in Notifiers, Notify(n) \/ NoteLock(n) \/ NoteBody(n)
      PROVE  UNCHANGED <<lines, closed, cancelled, read, pc, frames>>
    BY <1>6 DEF Notify, NoteLock, NoteBody, clientVars, outVars
<1>7. ASSUME NEW n \in Notifiers, NoteNewline(n)
      PROVE  /\ UNCHANGED <<lines, closed, cancelled, read, pc>>
             /\ \A i : HasAnswer(i) => HasAnswer(i)'
    BY <1>7, FrameAnswers DEF NoteNewline, clientVars
<1>8. CASE UNCHANGED vars
    BY <1>8 DEF vars, Reason, HasAnswer
<1> QED
    BY <1>1, <1>2, <1>3, <1>4, <1>5, <1>6, <1>7, <1>8
    DEF Next, ServeStdio, sendNotification, Reason, HasAnswer

\* No request is dropped by the loop but by a signal or by a line that is
\* too long; and of the lines it has read a signal drops one.
THEOREM NothingDroppedHolds == Spec => []NothingDropped
<1>1. Init => Held /\ OwnMessage /\ AnswerInv /\ Reason
    <2>1. Init => Held /\ OwnMessage /\ Reason
        BY WritersDiffer DEF Init, Held, OwnMessage, Reason
    <2>2. Init => AnswerInv
        BY DEF Init, AnswerInv, HasAnswer, AtWork
    <2> QED
        BY <2>1, <2>2
<1>2. TypeOK /\ AnswerInv /\ Reason => NothingDropped
    BY DEF TypeOK, AnswerInv, Reason, NothingDropped
<1> QED
    BY <1>1, <1>2, StdioServerTypeCorrect, HeldStep, AnswerStep, ReasonStep, PTL DEF Spec

=============================================================================
