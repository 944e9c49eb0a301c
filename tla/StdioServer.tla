---------------------------- MODULE StdioServer ----------------------------
(***************************************************************************)
(* voidmcp's own stdio mode, internal/server/server.go: the loop of        *)
(* ServeStdio, which handles one line of standard input after the other,   *)
(* and the goroutines that send notifications meanwhile (the registry's    *)
(* watcher and the schema captures).  They share standard output and       *)
(* notifyMu.  A message and its newline are two writes.                    *)
(*                                                                         *)
(* What a request does is the business of the other modules: here it takes *)
(* time and has an answer.  A write to standard output does not fail.      *)
(***************************************************************************)
EXTENDS Naturals, Sequences

CONSTANTS
    Notifiers,  \* goroutines that call sendNotification
    Nobody,     \* holds notifyMu when it is free
    MaxLines,   \* bound: lines the client writes
    MaxNotes    \* bound: notifications sent

Loop == "loop"

ASSUME WritersDiffer == Nobody \notin Notifiers \cup {Loop} /\ Loop \notin Notifiers
ASSUME BoundsAreNat == MaxLines \in Nat /\ MaxNotes \in Nat

VARIABLES
    lines,      \* the lines the client has written
    closed,     \* has the client closed standard input?
    cancelled,  \* is the context done (SIGINT, SIGTERM)?
    pc,         \* where the loop is
    read,       \* lines it has read
    writer,     \* is stdioWriter set?
    mu,         \* notifyMu
    note,       \* where each notifier is
    notesLeft,  \* notifications still to be sent
    frames,     \* standard output up to the last newline, cut at the newlines
    partial     \* the messages written since

vars == <<lines, closed, cancelled, pc, read, writer, mu, note, notesLeft, frames, partial>>
clientVars == <<lines, closed, cancelled>>
noteVars == <<note, notesLeft>>
outVars == <<frames, partial>>

\* A line is a request, a notification, no JSON-RPC message at all, or longer
\* than the scanner's buffer.
Kinds == {"request", "notification", "malformed", "long"}

\* Handle returns nil for notifications, and for nothing else.
Handle(kind) == kind \in {"request", "malformed"}

TypeOK ==
    /\ lines \in Seq(Kinds)
    /\ closed \in BOOLEAN /\ cancelled \in BOOLEAN /\ writer \in BOOLEAN
    /\ pc \in {"start", "scan", "check", "handle", "lock", "body", "newline", "returned"}
    /\ read \in 0 .. Len(lines)
    /\ pc \notin {"start", "scan", "returned"} => read > 0
    /\ mu \in Notifiers \cup {Loop, Nobody}
    /\ note \in [Notifiers -> {"idle", "lock", "body", "newline"}]
    /\ notesLeft \in 0 .. MaxNotes
    /\ frames \in Seq(Seq(0 .. Len(lines)))
    /\ partial \in Seq(0 .. Len(lines))

Init ==
    /\ lines = <<>> /\ closed = FALSE /\ cancelled = FALSE
    /\ pc = "start" /\ read = 0 /\ writer = FALSE
    /\ mu = Nobody
    /\ note = [n \in Notifiers |-> "idle"] /\ notesLeft = MaxNotes
    /\ frames = <<>> /\ partial = <<>>

-----------------------------------------------------------------------------
(* The client, and the signal.                                             *)

ClientWrites ==
    /\ ~closed /\ Len(lines) < MaxLines
    /\ \E k \in Kinds : lines' = Append(lines, k)
    /\ UNCHANGED <<closed, cancelled, pc, read, writer, mu, noteVars, outVars>>

ClientCloses ==
    /\ ~closed /\ closed' = TRUE
    /\ UNCHANGED <<lines, cancelled, pc, read, writer, mu, noteVars, outVars>>

Signal ==
    /\ ~cancelled /\ cancelled' = TRUE
    /\ UNCHANGED <<lines, closed, pc, read, writer, mu, noteVars, outVars>>

-----------------------------------------------------------------------------
(* ServeStdio.                                                             *)

Start ==
    /\ pc = "start" /\ mu = Nobody
    /\ writer' = TRUE
    /\ pc' = "scan"
    /\ UNCHANGED <<clientVars, read, mu, noteVars, outVars>>

\* Scan returns true with the next line.
Scan ==
    /\ pc = "scan" /\ read < Len(lines) /\ lines[read + 1] # "long"
    /\ read' = read + 1
    /\ pc' = "check"
    /\ UNCHANGED <<clientVars, writer, mu, noteVars, outVars>>

\* Mutant: the end of the input passes for one more, empty line.
ScanEndsLate ==
    /\ pc = "scan"
    /\ \/ read = Len(lines) /\ closed /\ read' = read + 1 /\ pc' = "check"
       \/ read < Len(lines) /\ lines[read + 1] = "long" /\ pc' = "returned" /\ UNCHANGED read
    /\ UNCHANGED <<clientVars, writer, mu, noteVars, outVars>>

\* Scan returns false: end of input, or a line that does not fit.
ScanEnds ==
    /\ pc = "scan"
    /\ \/ read = Len(lines) /\ closed
       \/ read < Len(lines) /\ lines[read + 1] = "long"
    /\ pc' = "returned"
    /\ UNCHANGED <<clientVars, read, writer, mu, noteVars, outVars>>

\* The context is looked at once per line, when the line has been read.
Check ==
    /\ pc = "check"
    /\ pc' = IF cancelled THEN "returned" ELSE "handle"
    /\ UNCHANGED <<clientVars, read, writer, mu, noteVars, outVars>>

\* Mutant: notifications are answered as well.
HandledAnswering ==
    /\ pc = "handle"
    /\ pc' = "lock"
    /\ UNCHANGED <<clientVars, read, writer, mu, noteVars, outVars>>

Handled ==
    /\ pc = "handle"
    /\ pc' = IF Handle(lines[read]) THEN "lock" ELSE "scan"
    /\ UNCHANGED <<clientVars, read, writer, mu, noteVars, outVars>>

Lock ==
    /\ pc = "lock" /\ mu = Nobody
    /\ mu' = Loop
    /\ pc' = "body"
    /\ UNCHANGED <<clientVars, read, writer, noteVars, outVars>>

WriteBody ==
    /\ pc = "body"
    /\ partial' = Append(partial, read)
    /\ pc' = "newline"
    /\ UNCHANGED <<clientVars, read, writer, mu, noteVars, frames>>

\* Mutant: the answer is written and notifyMu stays locked.
WriteNewlineLocked ==
    /\ pc = "newline"
    /\ frames' = Append(frames, partial) /\ partial' = <<>>
    /\ pc' = "scan"
    /\ UNCHANGED <<clientVars, read, writer, mu, noteVars>>

WriteNewline ==
    /\ pc = "newline"
    /\ frames' = Append(frames, partial) /\ partial' = <<>>
    /\ mu' = Nobody
    /\ pc' = "scan"
    /\ UNCHANGED <<clientVars, read, writer, noteVars>>

ServeStdio ==
    \/ Start \/ Scan \/ ScanEnds \/ Check \/ Handled
    \/ Lock \/ WriteBody \/ WriteNewline

-----------------------------------------------------------------------------
(* sendNotification.                                                       *)

NoteAt(n, l) == note' = [note EXCEPT ![n] = l]

Notify(n) ==
    /\ note[n] = "idle" /\ notesLeft > 0
    /\ notesLeft' = notesLeft - 1
    /\ NoteAt(n, "lock")
    /\ UNCHANGED <<clientVars, pc, read, writer, mu, outVars>>

\* Before ServeStdio has set the writer nothing is sent.
NoteLock(n) ==
    /\ note[n] = "lock" /\ mu = Nobody
    /\ IF writer
          THEN mu' = n /\ NoteAt(n, "body")
          ELSE NoteAt(n, "idle") /\ UNCHANGED mu
    /\ UNCHANGED <<clientVars, pc, read, writer, notesLeft, outVars>>

NoteBody(n) ==
    /\ note[n] = "body"
    /\ partial' = Append(partial, 0)
    /\ NoteAt(n, "newline")
    /\ UNCHANGED <<clientVars, pc, read, writer, mu, notesLeft, frames>>

\* Mutant: the early return of an error path keeps notifyMu.
NoteNewlineLocked(n) ==
    /\ note[n] = "newline"
    /\ frames' = Append(frames, partial) /\ partial' = <<>>
    /\ NoteAt(n, "idle")
    /\ UNCHANGED <<clientVars, pc, read, writer, mu, notesLeft>>

NoteNewline(n) ==
    /\ note[n] = "newline"
    /\ frames' = Append(frames, partial) /\ partial' = <<>>
    /\ mu' = Nobody
    /\ NoteAt(n, "idle")
    /\ UNCHANGED <<clientVars, pc, read, writer, notesLeft>>

sendNotification(n) == NoteLock(n) \/ NoteBody(n) \/ NoteNewline(n)

-----------------------------------------------------------------------------
Next ==
    \/ ClientWrites \/ ClientCloses \/ Signal
    \/ ServeStdio
    \/ \E n \in Notifiers : Notify(n) \/ sendNotification(n)

Spec == Init /\ [][Next]_vars

\* Goroutines run, a request is handled in bounded time, the client reads
\* what is written, and sync.Mutex starves nobody.
FairSpec ==
    /\ Spec
    /\ WF_vars(ServeStdio) /\ SF_vars(Start) /\ SF_vars(Lock)
    /\ \A n \in Notifiers : WF_vars(sendNotification(n)) /\ SF_vars(NoteLock(n))

-----------------------------------------------------------------------------
\* The answers and notifications the client reads are whole messages, and
\* the answers come in the order of the requests, one each, whoever writes
\* in between.
Client == INSTANCE Dialogue WITH
    Lines <- Kinds, Answered <- Handle, asked <- lines, heard <- frames

HoldsDialogue == Client!Spec

\* A request is answered, unless the server is told to stop or has met a
\* line it cannot read.
RequestsAreAnswered ==
    \A i \in 1 .. MaxLines :
       (i <= Len(lines) /\ Handle(lines[i])) ~>
          (Client!HasAnswer(i) \/ cancelled \/ \E j \in DOMAIN lines : lines[j] = "long")

\* "It blocks until ctx is cancelled or stdin is closed": the second half.
ReturnsOnClose == closed ~> pc = "returned"

\* The first half.
ReturnsOnCancel == cancelled ~> pc = "returned"

=============================================================================
