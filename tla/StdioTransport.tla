--------------------------- MODULE StdioTransport ---------------------------
(***************************************************************************)
(* internal/transport/stdio.go: one child process, the requests that share *)
(* it, the reader goroutine that hands out its answers, and Close.         *)
(*                                                                         *)
(* A call is one execution of ListTools, CallTool or Ping.  ListTools      *)
(* sends initialize, a notification that nobody answers, and tools/list;   *)
(* the others send one request.  What an answer says is left out: a line   *)
(* is the request it answers, or one of the child's own.  The child        *)
(* process is external: it reads requests when it likes, answers those it  *)
(* has read in any order, more than once or never, and writes what else it *)
(* likes: notifications, text, its own requests with ids of its own.       *)
(***************************************************************************)
EXTENDS Integers, Sequences, FiniteSets

CONSTANTS
    Lists,      \* executions of ListTools
    Others,     \* executions of CallTool and Ping
    Closers,    \* executions of Close; the registry closes a transport once
    None,
    PipeSize,   \* requests the pipe to the child holds
    LineBound,  \* bound: lines in the pipe from the child
    OwnIds      \* bound: ids the child gives to lines of its own

Calls == Lists \cup Others

ASSUME CallsAreDisjoint == Lists \cap Others = {}
ASSUME CallsAreFinite == IsFiniteSet(Calls)
ASSUME PipeSizeIsPos == PipeSize \in Nat \ {0}
ASSUME LineBoundIsNat == LineBound \in Nat
ASSUME OwnIdsAreNat == OwnIds \subseteq Nat

VARIABLES
    idSeq,      \* the last id given to a request
    pending,    \* the ids in the map pending
    chan,       \* per id: what its channel of capacity one holds
    mu,         \* who holds the mutex of stdin
    call,       \* per call: where it is, in which request, with which id
    got,        \* per call: the answer its last request returned with
    reader,     \* readLoop: where it is, and the line it has read
    done,       \* is the channel done closed?
    close,      \* where each Close is
    stdin,      \* requests in the pipe; None once Close has closed it
    stdout,     \* lines in the pipe
    mute,       \* no line can come any more: EOF, or one line too long
    child,      \* running, exited, reaped (cmd.Wait has returned)
    taken       \* requests the child has read and may answer

vars == <<idSeq, pending, chan, mu, call, got, reader, done, close,
          stdin, stdout, mute, child, taken>>
callVars == <<idSeq, pending, call, got>>
childVars == <<stdout, mute, child, taken>>

Ids == 1..(2 * Cardinality(Lists) + Cardinality(Others))
Stages == {"initialize", "initialized", "tools/list", "call"}
Requests == [by : Calls, stage : Stages, id : Ids \cup {0}]

\* A line of the child's own: a request (ping, roots/list) with an id the
\* child has chosen, or, with 0, one that has no id that is an integer: text,
\* a notification.
Own(i) == [by |-> None, stage |-> "own", id |-> i]
Lines == Requests \cup {Own(i) : i \in OwnIds}

ASSUME NoneIsNoPipe == None \notin Seq(Requests)
ASSUME NoneIsNoCall == None \notin Calls

CallLabels == {"start", "lock", "write", "wait", "leave", "end"}

TypeOK ==
    /\ idSeq \in Ids \cup {0}
    /\ pending \subseteq Ids
    /\ chan \in [Ids -> Lines \cup {None}]
    /\ mu \in Calls \cup {None}
    /\ call \in [Calls -> [pc : CallLabels, stage : Stages, id : Ids \cup {0}]]
    /\ got \in [Calls -> Lines \cup {None}]
    /\ reader \in [pc : {"scan", "look", "put", "check", "close", "ended", "closed", "panicked"},
                   line : Lines \cup {None}]
    /\ done \in BOOLEAN
    /\ close \in [Closers -> {"start", "close", "stdin", "wait", "returned", "panicked"}]
    /\ stdin # None => stdin \in Seq(Requests) /\ Len(stdin) <= PipeSize
    /\ stdout \in Seq(Lines) /\ Len(stdout) <= LineBound
    /\ mute \in BOOLEAN
    /\ child \in {"running", "exited", "reaped"}
    /\ taken \subseteq Requests

At(l, s, i) == [pc |-> l, stage |-> s, id |-> i]
FirstStage(c) == IF c \in Lists THEN "initialize" ELSE "call"

\* NewStdio: the child runs and the reader goroutine is started.
Init ==
    /\ idSeq = 0 /\ pending = {} /\ mu = None /\ done = FALSE
    /\ chan = [i \in Ids |-> None]
    /\ call = [c \in Calls |-> At("start", FirstStage(c), 0)]
    /\ got = [c \in Calls |-> None]
    /\ reader = [pc |-> "scan", line |-> None]
    /\ close = [k \in Closers |-> "start"]
    /\ stdin = <<>> /\ stdout = <<>> /\ mute = FALSE
    /\ child = "running" /\ taken = {}

Goto(c, l) == call' = [call EXCEPT ![c].pc = l]
Request(c) == [by |-> c, stage |-> call[c].stage, id |-> call[c].id]

-----------------------------------------------------------------------------
(* send, and what ListTools does between its two requests.                 *)

\* Mutants: an id is drawn twice; ids are numbered by the requests under way.
RegisterTwice(c) ==
    /\ call[c].pc = "start"
    /\ idSeq' = idSeq + 2
    /\ call' = [call EXCEPT ![c].pc = "lock", ![c].id = idSeq + 2]
    /\ pending' = pending \cup {idSeq + 2}
    /\ UNCHANGED <<chan, mu, got, reader, done, close, stdin, childVars>>

RegisterReusing(c) ==
    /\ call[c].pc = "start"
    /\ LET i == CHOOSE j \in Ids : j \notin pending /\ \A k \in Ids \ pending : j <= k
       IN  /\ call' = [call EXCEPT ![c].pc = "lock", ![c].id = i]
           /\ pending' = pending \cup {i}
           /\ chan' = [chan EXCEPT ![i] = None]
    /\ UNCHANGED <<idSeq, mu, got, reader, done, close, stdin, childVars>>

\* A new id, and a new channel for the answer.
Register(c) ==
    /\ call[c].pc = "start"
    /\ idSeq' = idSeq + 1
    /\ call' = [call EXCEPT ![c].pc = "lock", ![c].id = idSeq + 1]
    /\ pending' = pending \cup {idSeq + 1}
    /\ UNCHANGED <<chan, mu, got, reader, done, close, stdin, childVars>>

Lock(c) ==
    /\ call[c].pc = "lock" /\ mu = None
    /\ mu' = c
    /\ Goto(c, "write")
    /\ UNCHANGED <<idSeq, pending, chan, got, reader, done, close, stdin, childVars>>

\* Nobody waits for the answer of a notification, and nobody looks at its
\* error.
AfterWrite(c, l) ==
    IF call[c].stage = "initialized"
       THEN call' = [call EXCEPT ![c] = At("start", "tools/list", 0)]
       ELSE Goto(c, l)

\* The write blocks while the pipe is full.
Write(c) ==
    /\ call[c].pc = "write"
    /\ stdin # None /\ child = "running"
    /\ Len(stdin) < PipeSize
    /\ stdin' = Append(stdin, Request(c))
    /\ mu' = None
    /\ AfterWrite(c, "wait")
    /\ UNCHANGED <<idSeq, pending, chan, got, reader, done, close, childVars>>

\* The pipe is closed, here (which ends a blocked write) or there.
WriteFails(c) ==
    /\ call[c].pc = "write"
    /\ stdin = None \/ child # "running"
    /\ mu' = None
    /\ AfterWrite(c, "leave")
    /\ UNCHANGED <<idSeq, pending, chan, got, reader, done, close, stdin, childVars>>

\* The select: an answer, done, or the timer or the context.
Answered(c) ==
    /\ call[c].pc = "wait" /\ chan[call[c].id] # None
    /\ got' = [got EXCEPT ![c] = chan[call[c].id]]
    /\ chan' = [chan EXCEPT ![call[c].id] = None]
    /\ Goto(c, "leave")
    /\ UNCHANGED <<idSeq, pending, mu, reader, done, close, stdin, childVars>>

\* Mutant: the select has no case for done.
ClosedIgnored(c) ==
    /\ call[c].pc = "wait" /\ done
    /\ UNCHANGED vars

Closed(c) ==
    /\ call[c].pc = "wait" /\ done
    /\ Goto(c, "leave")
    /\ UNCHANGED <<idSeq, pending, chan, mu, got, reader, done, close, stdin, childVars>>

Timeout(c) ==
    /\ call[c].pc = "wait"
    /\ Goto(c, "leave")
    /\ UNCHANGED <<idSeq, pending, chan, mu, got, reader, done, close, stdin, childVars>>

\* The deferred delete.  After an answer to initialize, ListTools goes on to
\* the notification, which needs the mutex only.
Leave(c) ==
    /\ call[c].pc = "leave"
    /\ pending' = pending \ {call[c].id}
    /\ IF call[c].stage = "initialize" /\ got[c] # None
          THEN /\ call' = [call EXCEPT ![c] = At("lock", "initialized", 0)]
               /\ got' = [got EXCEPT ![c] = None]
          ELSE /\ Goto(c, "end")
               /\ UNCHANGED got
    /\ UNCHANGED <<idSeq, chan, mu, reader, done, close, stdin, childVars>>

\* It has been called and has not returned.
Begun(c) == call[c].pc # "end" /\ call[c] # At("start", FirstStage(c), 0)

CallStep(c) ==
    \/ Register(c) \/ Lock(c) \/ Write(c) \/ WriteFails(c)
    \/ Answered(c) \/ Closed(c) \/ Leave(c)

-----------------------------------------------------------------------------
(* readLoop.                                                               *)

\* A line with no id to look up is passed over.
Scan ==
    /\ reader.pc = "scan" /\ stdout # <<>>
    /\ reader' = IF Head(stdout).id = 0 THEN reader
                 ELSE [pc |-> "look", line |-> Head(stdout)]
    /\ stdout' = Tail(stdout)
    /\ UNCHANGED <<callVars, chan, mu, done, close, stdin, mute, child, taken>>

\* The lookup, and after the unlock the delivery: the call may have left in
\* between, and its channel may be full.
Look ==
    /\ reader.pc = "look"
    /\ IF reader.line.id \in pending
          THEN reader' = [reader EXCEPT !.pc = "put"]
          ELSE reader' = [pc |-> "scan", line |-> None]
    /\ UNCHANGED <<callVars, chan, mu, done, close, stdin, childVars>>

\* Mutant: the send has no default branch.
PutBlocking ==
    /\ reader.pc = "put"
    /\ chan[reader.line.id] = None
    /\ chan' = [chan EXCEPT ![reader.line.id] = reader.line]
    /\ reader' = [pc |-> "scan", line |-> None]
    /\ UNCHANGED <<callVars, mu, done, close, stdin, childVars>>

Put ==
    /\ reader.pc = "put"
    /\ chan' = [chan EXCEPT ![reader.line.id] = IF @ = None THEN reader.line ELSE @]
    /\ reader' = [pc |-> "scan", line |-> None]
    /\ UNCHANGED <<callVars, mu, done, close, stdin, childVars>>

\* EOF, a line that is too long, or cmd.Wait has closed the pipe.
ScanEnds ==
    /\ reader.pc = "scan"
    /\ (mute /\ stdout = <<>>) \/ child = "reaped"
    /\ reader' = [reader EXCEPT !.pc = "check"]
    /\ UNCHANGED <<callVars, chan, mu, done, close, stdin, childVars>>

\* The deferred function: first look whether done is closed, then close it.
ReaderChecks ==
    /\ reader.pc = "check"
    /\ reader' = [reader EXCEPT !.pc = IF done THEN "ended" ELSE "close"]
    /\ UNCHANGED <<callVars, chan, mu, done, close, stdin, childVars>>

ReaderCloses ==
    /\ reader.pc = "close"
    /\ reader' = [reader EXCEPT !.pc = IF done THEN "panicked" ELSE "closed"]
    /\ done' = TRUE
    /\ UNCHANGED <<callVars, chan, mu, close, stdin, childVars>>

ReaderStep == Scan \/ Look \/ Put \/ ScanEnds \/ ReaderChecks \/ ReaderCloses

-----------------------------------------------------------------------------
(* Close.                                                                  *)

CloseCheck(k) ==
    /\ close[k] = "start"
    /\ close' = [close EXCEPT ![k] = IF done THEN "returned" ELSE "close"]
    /\ UNCHANGED <<callVars, chan, mu, reader, done, stdin, childVars>>

CloseDone(k) ==
    /\ close[k] = "close"
    /\ close' = [close EXCEPT ![k] = IF done THEN "panicked" ELSE "stdin"]
    /\ done' = TRUE
    /\ UNCHANGED <<callVars, chan, mu, reader, stdin, childVars>>

\* t.stdin.Close() takes no mutex: it also ends the write that has it.
CloseStdin(k) ==
    /\ close[k] = "stdin"
    /\ stdin' = None
    /\ close' = [close EXCEPT ![k] = "wait"]
    /\ UNCHANGED <<callVars, chan, mu, reader, done, childVars>>

\* Mutant: five seconds are up, and Close leaves it at that.
KillNobody(k) ==
    /\ close[k] = "wait" /\ child = "running"
    /\ close' = [close EXCEPT ![k] = "returned"]
    /\ UNCHANGED <<callVars, chan, mu, reader, done, stdin, childVars>>

\* Five seconds are up.
Kill(k) ==
    /\ close[k] = "wait" /\ child = "running"
    /\ child' = "exited" /\ mute' = TRUE /\ taken' = {}
    /\ UNCHANGED <<callVars, chan, mu, reader, done, close, stdin, stdout>>

CloseWaited(k) ==
    /\ close[k] = "wait" /\ child = "exited"
    /\ child' = "reaped"
    /\ close' = [close EXCEPT ![k] = "returned"]
    /\ UNCHANGED <<callVars, chan, mu, reader, done, stdin, stdout, mute, taken>>

Close(k) == CloseCheck(k) \/ CloseDone(k) \/ CloseStdin(k) \/ Kill(k) \/ CloseWaited(k)

-----------------------------------------------------------------------------
(* The child process.                                                      *)

ChildReads ==
    /\ child = "running" /\ stdin # None /\ stdin # <<>>
    /\ stdin' = Tail(stdin)
    /\ taken' = taken \cup ({Head(stdin)} \ {r \in Requests : r.stage = "initialized"})
    /\ UNCHANGED <<callVars, chan, mu, reader, done, close, stdout, mute, child>>

ChildAnswers(r) ==
    /\ child = "running" /\ ~mute
    /\ r \in taken /\ Len(stdout) < LineBound
    /\ stdout' = Append(stdout, r)
    /\ UNCHANGED <<callVars, chan, mu, reader, done, close, stdin, mute, child, taken>>

ChildSpeaks(i) ==
    /\ child = "running" /\ ~mute
    /\ Len(stdout) < LineBound
    /\ stdout' = Append(stdout, Own(i))
    /\ UNCHANGED <<callVars, chan, mu, reader, done, close, stdin, mute, child, taken>>

\* It closes its standard output, or writes a line over 10 MiB, and goes on.
ChildMutes ==
    /\ child = "running" /\ ~mute
    /\ mute' = TRUE
    /\ UNCHANGED <<callVars, chan, mu, reader, done, close, stdin, stdout, child, taken>>

ChildExits ==
    /\ child = "running"
    /\ child' = "exited" /\ mute' = TRUE /\ taken' = {}
    /\ UNCHANGED <<callVars, chan, mu, reader, done, close, stdin, stdout>>

Child ==
    \/ ChildReads \/ ChildMutes \/ ChildExits
    \/ \E r \in taken : ChildAnswers(r)
    \/ \E i \in OwnIds : ChildSpeaks(i)

-----------------------------------------------------------------------------
\* Closing a closed channel panics, and a panic ends the process.
Panicked == reader.pc = "panicked" \/ \E k \in Closers : close[k] = "panicked"

Next ==
    /\ ~Panicked
    /\ \/ \E c \in Calls : CallStep(c) \/ Timeout(c)
       \/ ReaderStep
       \/ \E k \in Closers : Close(k)
       \/ Child

Spec == Init /\ [][Next]_vars

\* Goroutines run, a mutex goes to each that waits for it in turn, and a
\* Close that has begun goes on.  Nothing is assumed of the child, and
\* nothing of the time a request may take.
RunSpec ==
    /\ Spec
    /\ \A c \in Calls :
          /\ SF_vars(Lock(c))
          /\ WF_vars(~Panicked /\ Begun(c) /\ CallStep(c))
    /\ WF_vars(~Panicked /\ ReaderStep)
    /\ \A k \in Closers : WF_vars(~Panicked /\ close[k] # "start" /\ Close(k))

\* The timer of a request that waits for its answer fires.
TimedSpec == RunSpec /\ \A c \in Calls : WF_vars(~Panicked /\ Timeout(c))

-----------------------------------------------------------------------------
Sending(c) == call[c].pc \in {"lock", "write", "wait", "leave"}

\* "dispatches each response to the waiting caller", "waits for the matching
\* response": an answer reaches the request it answers and no other, neither
\* another call nor a later request of the same one, however late or often
\* it comes.  The reader does not look whether a line is a response: all a
\* call may be handed in place of its answer is a line of the child's own
\* that happens to have its id.
OwnAnswer ==
    \A c \in Calls : got[c] # None => got[c] \in {Request(c), Own(call[c].id)}

\* As the comments have it: a response, to the request.
OnlyResponses == \A c \in Calls : got[c] # None => got[c] = Request(c)

\* The map holds the requests that are under way and no other: none is
\* leaked by an error, a timeout or a child that does not answer.
PendingIsActive ==
    pending = {call[c].id : c \in {d \in Calls : Sending(d)}} \ {0}

\* "It is safe for concurrent use": done is closed once, whether by Close or
\* by the end of the output.
NoPanic == ~Panicked

\* "Close releases any resources held by the transport (idle connections,
\* child processes, etc.)": when it has returned, the child has been waited
\* for and the pipe to it is closed.
Reaped == \A k \in Closers : close[k] = "returned" => child = "reaped" /\ stdin = None

\* So it is, whatever the child does, unless the output ended first and the
\* reader has closed done: Close takes the transport for closed then.
CloseReaps == reader.pc # "closed" => Reaped

\* The reader is never stuck with a line that nobody takes any more; if it
\* were, no other call would get its answer.
ReaderGoesOn == reader.pc = "put" ~> reader.pc # "put"

\* Close returns, also when the child ignores the end of its input, and it
\* lets every call go that has begun, also one that is stuck in the write to
\* a child that does not read, and those that queue behind it; no timer is
\* needed for it.  Unless, again, the reader has closed done, or the process
\* has ended in the race for it.
CloseReleases ==
    \A k \in Closers :
       close[k] # "start" ~> \/ close[k] = "returned" /\ \A c \in Calls : ~Begun(c)
                            \/ reader.pc = "closed" \/ Panicked

\* "stdioTimeout is the maximum time to wait for a response to a single
\* request": every request that has begun comes back.
CallsEnd == \A c \in Calls : Begun(c) ~> ~Begun(c)

=============================================================================
