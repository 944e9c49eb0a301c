---------------------------- MODULE HTTPSession ----------------------------
(***************************************************************************)
(* internal/transport/http.go: the calls that share one HTTPTransport and  *)
(* the session id it keeps.                                                *)
(*                                                                         *)
(* A request takes three steps: send reads the session id under t.mu; the  *)
(* remote server handles the request; send stores the session id of the    *)
(* response under t.mu, and its caller goes on.  Others run in between.    *)
(*                                                                         *)
(* The remote server is external.  It keeps sessions, as MCP servers may:  *)
(* initialize without a session id opens one; a request with the id of a   *)
(* session it has dropped is answered 404, one without an id 400.  Bodies, *)
(* JSON and SSE decoding and the authorization headers are left out.       *)
(***************************************************************************)
EXTENDS Naturals

CONSTANTS
    Callers,    \* goroutines that run CallTool
    Sessions,   \* session ids
    None,       \* no session id
    Cold,       \* was the transport made by Load with a fresh tool cache, so
                \* that nobody has called ListTools?
    Lossy       \* may a request fail on the way?

ASSUME NoneIsNoSession == None \notin Sessions
ASSUME FlagsAreBoolean == Cold \in BOOLEAN /\ Lossy \in BOOLEAN

VARIABLES
    sessionID,  \* the field of the transport
    open,       \* the sessions the server keeps
    call,       \* per caller: the call it is in
    outcome,    \* per caller: how its last call ended
    executed,   \* per caller: how often the server ran the tool in this call
    excused,    \* per caller: has the network failed it, or the server
                \* dropped a session after it was told 404?
    disturbed   \* per caller: has another call taken the session id away, or
                \* replaced it, since the call began, or left none before?

vars == <<sessionID, open, call, outcome, executed, excused, disturbed>>
transportVars == <<sessionID, open>>
ghosts == <<outcome, executed, excused, disturbed>>

\* The requests of a CallTool: the first try, the handshake, the second try.
Stages == {"try", "initialize", "initialized", "retry"}
Statuses == {200, 400, 404}

MaybeSession == Sessions \cup {None}

At(l, s, i, st, h) == [pc |-> l, stage |-> s, sid |-> i, status |-> st, header |-> h]
Sending(s) == At("send", s, None, 200, None)
Idle == At("idle", "try", None, 200, None)

TypeOK ==
    /\ sessionID \in MaybeSession
    /\ open \subseteq Sessions
    /\ call \in [Callers -> [pc : {"idle", "send", "sent", "reply", "clear"},
                             stage : Stages, sid : MaybeSession,
                             status : Statuses, header : MaybeSession]]
    /\ \A c \in Callers :
          /\ call[c].pc = "idle" => call[c] = Idle
          /\ call[c].pc = "clear" => call[c].stage = "try"
    /\ outcome \in [Callers -> {"none", "ok", "error"}]
    /\ executed \in [Callers -> Nat]
    /\ excused \in [Callers -> BOOLEAN]
    /\ disturbed \in [Callers -> BOOLEAN]

\* The registry calls ListTools before anybody else can use the transport:
\* its handshake has left a session id, of a session the server may have
\* dropped since.
Init ==
    /\ sessionID \in IF Cold THEN {None} ELSE Sessions
    /\ open = {sessionID} \ {None}
    /\ call = [c \in Callers |-> Idle]
    /\ outcome = [c \in Callers |-> "none"]
    /\ executed = [c \in Callers |-> 0]
    /\ excused = [c \in Callers |-> FALSE]
    /\ disturbed = [c \in Callers |-> FALSE]

Become(c, r) == call' = [call EXCEPT ![c] = r]
Return(c, o) == Become(c, Idle) /\ outcome' = [outcome EXCEPT ![c] = o]

\* The session id was the other calls' as well.
Disturb(c) ==
    disturbed' = [d \in Callers |->
        disturbed[d] \/ (d # c /\ call[d] # Idle /\ sessionID' # sessionID)]

-----------------------------------------------------------------------------
(* CallTool.                                                               *)

Start(c) ==
    /\ call[c] = Idle
    /\ Become(c, Sending("try"))
    /\ outcome' = [outcome EXCEPT ![c] = "none"]
    /\ executed' = [executed EXCEPT ![c] = 0]
    /\ excused' = [excused EXCEPT ![c] = FALSE]
    /\ disturbed' = [disturbed EXCEPT ![c] = sessionID = None]
    /\ UNCHANGED transportVars

\* send, first part.
Send(c) ==
    /\ call[c].pc = "send"
    /\ Become(c, [call[c] EXCEPT !.pc = "sent", !.sid = sessionID])
    /\ UNCHANGED <<transportVars, ghosts>>

\* send, second part: "capture and store any session ID the server returns".
Store(c) ==
    sessionID' = IF call[c].header # None THEN call[c].header ELSE sessionID

\* Mutant: every 404 leads to another try, not only the first.
ReceiveRetryingOn(c) ==
    /\ call[c].pc = "reply"
    /\ Store(c)
    /\ \/ /\ call[c].stage \in {"try", "retry"} /\ call[c].status = 200
          /\ Return(c, "ok")
       \/ /\ call[c].stage # "initialized" /\ call[c].status = 404
          /\ Become(c, [call[c] EXCEPT !.pc = "clear"]) /\ UNCHANGED outcome
       \/ /\ call[c].stage = "initialize" /\ call[c].status = 200
          /\ Become(c, Sending("initialized")) /\ UNCHANGED outcome
       \/ /\ call[c].stage = "initialized"
          /\ Become(c, Sending("retry")) /\ UNCHANGED outcome
       \/ /\ call[c].stage # "initialized" /\ call[c].status = 400
          /\ Return(c, "error")
    /\ Disturb(c)
    /\ UNCHANGED <<open, executed, excused>>

\* What the caller of send makes of the response: the first 404 leads to
\* reinitialize, whatever comes back from the notification is ignored, and
\* any other error is returned.
Receive(c) ==
    /\ call[c].pc = "reply"
    /\ Store(c)
    /\ \/ /\ call[c].stage \in {"try", "retry"} /\ call[c].status = 200
          /\ Return(c, "ok")
       \/ /\ call[c].stage = "try" /\ call[c].status = 404
          /\ Become(c, [call[c] EXCEPT !.pc = "clear"]) /\ UNCHANGED outcome
       \/ /\ call[c].stage = "initialize" /\ call[c].status = 200
          /\ Become(c, Sending("initialized")) /\ UNCHANGED outcome
       \/ /\ call[c].stage = "initialized"
          /\ Become(c, Sending("retry")) /\ UNCHANGED outcome
       \/ /\ \/ call[c].stage \in {"try", "initialize", "retry"} /\ call[c].status = 400
             \/ call[c].stage \in {"initialize", "retry"} /\ call[c].status = 404
          /\ Return(c, "error")
    /\ Disturb(c)
    /\ UNCHANGED <<open, executed, excused>>

\* Mutant: the handshake takes place in the session that has expired.
ReinitializeInSession(c) ==
    /\ call[c].pc = "clear"
    /\ Become(c, Sending("initialize"))
    /\ UNCHANGED <<sessionID, open, ghosts>>

\* reinitialize forgets the session id, whichever it is by now.
Reinitialize(c) ==
    /\ call[c].pc = "clear"
    /\ sessionID' = None
    /\ Disturb(c)
    /\ Become(c, Sending("initialize"))
    /\ UNCHANGED <<open, outcome, executed, excused>>

\* The server is about to run the tool.
Runs(c) == call[c].stage \in {"try", "retry"} /\ call[c].sid \in open

\* Mutant: a request that got no answer is sent again.
LoseRetrying(c) ==
    /\ Lossy
    /\ call[c].pc = "sent"
    /\ IF call[c].stage \in {"try", "initialized"}
          THEN Become(c, Sending("retry")) /\ UNCHANGED outcome
          ELSE Return(c, "error")
    /\ \/ UNCHANGED executed
       \/ Runs(c) /\ executed' = [executed EXCEPT ![c] = @ + 1]
    /\ excused' = [excused EXCEPT ![c] = TRUE]
    /\ UNCHANGED <<transportVars, disturbed>>

\* The connection breaks, the time is up, or the context is done; the server
\* may have run the tool all the same.
Lose(c) ==
    /\ Lossy
    /\ call[c].pc = "sent"
    /\ IF call[c].stage = "initialized"
          THEN Become(c, Sending("retry")) /\ UNCHANGED outcome
          ELSE Return(c, "error")
    /\ \/ UNCHANGED executed
       \/ Runs(c) /\ executed' = [executed EXCEPT ![c] = @ + 1]
    /\ excused' = [excused EXCEPT ![c] = TRUE]
    /\ UNCHANGED <<transportVars, disturbed>>

CallTool(c) == Start(c) \/ Send(c) \/ Receive(c) \/ Reinitialize(c)

-----------------------------------------------------------------------------
(* The remote server.                                                      *)

Answer(c, st, h) ==
    Become(c, [call[c] EXCEPT !.pc = "reply", !.status = st, !.header = h])

\* A session id nobody knows any more.  The identity of a session that is
\* open, but forgotten, may be taken again: nothing can tell the two apart.
FreshSession(s) ==
    /\ s \in Sessions \ {sessionID}
    /\ \A c \in Callers : s \notin {call[c].sid, call[c].header}

ServerInitializes(c) ==
    /\ call[c].pc = "sent" /\ call[c].stage = "initialize" /\ call[c].sid = None
    /\ \E s \in Sessions :
          /\ FreshSession(s)
          /\ open' = open \cup {s}
          /\ Answer(c, 200, s)
    /\ UNCHANGED <<sessionID, ghosts>>

\* A second initialize in a session: answered in it, or refused.  The id may
\* be repeated in the header of any response in the session.
ServerAnswers(c) ==
    /\ call[c].pc = "sent" /\ call[c].sid \in open
    /\ \E h \in {None, call[c].sid} :
          \/ Answer(c, 200, h)
          \/ call[c].stage = "initialize" /\ Answer(c, 400, h)
    /\ executed' = IF Runs(c) THEN [executed EXCEPT ![c] = @ + 1] ELSE executed
    /\ UNCHANGED <<transportVars, outcome, excused, disturbed>>

ServerRefuses(c) ==
    /\ call[c].pc = "sent" /\ call[c].sid \notin open
    /\ \/ call[c].sid # None /\ Answer(c, 404, None)
       \/ call[c].sid = None /\ call[c].stage # "initialize" /\ Answer(c, 400, None)
    /\ UNCHANGED <<transportVars, ghosts>>

ServerDrops(s) ==
    /\ s \in open
    /\ open' = open \ {s}
    /\ excused' = [c \in Callers |->
                     excused[c] \/ call[c].pc = "clear" \/ call[c].stage # "try"]
    /\ UNCHANGED <<sessionID, call, outcome, executed, disturbed>>

Serve(c) == ServerInitializes(c) \/ ServerAnswers(c) \/ ServerRefuses(c)

Next ==
    \/ \E c \in Callers : CallTool(c) \/ Serve(c) \/ Lose(c)
    \/ \E s \in Sessions : ServerDrops(s)

Spec == Init /\ [][Next]_vars

\* Goroutines run, and every request is answered or fails: the client has a
\* timeout of 30 seconds.
FairSpec ==
    /\ Spec
    /\ \A c \in Callers :
          /\ WF_vars(call[c] # Idle /\ CallTool(c))
          /\ WF_vars(Serve(c) \/ Lose(c))

-----------------------------------------------------------------------------
\* A tool call has effects: one CallTool never runs the tool twice, and has
\* run it when it reports success, although it sends its request again after
\* a 404 and other calls replace the session meanwhile.
ExecutedOnce ==
    \A c \in Callers :
       /\ executed[c] <= 1
       /\ outcome[c] = "ok" => executed[c] = 1

\* CallTool returns even if the server drops every session it opens.
CallReturns == \A c \in Callers : call[c] # Idle ~> call[c] = Idle

\* "If the session has expired (HTTP 404) it re-initializes and retries
\* once", "safe for concurrent use": a call fails only if the network fails
\* it, or if the server drops a session while the call is recovering.
Recovers == \A c \in Callers : outcome[c] = "error" => excused[c]

\* What is left of it when calls do run concurrently: a call whose session
\* expired succeeds all the same, whichever state earlier calls and late
\* answers to them left the transport in, unless another call changes the
\* session id meanwhile, or none is there when it begins.
RecoversUndisturbed ==
    \A c \in Callers : outcome[c] = "error" => excused[c] \/ disturbed[c]

=============================================================================
