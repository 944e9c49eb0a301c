------------------------------- MODULE Bridge -------------------------------
(***************************************************************************)
(* One execution of a script and the calls it makes (Execute in            *)
(* internal/executor/executor.go): the dispatch map from "server/tool" to  *)
(* the tool, the proxies of the preamble, the bridge function, and what    *)
(* becomes of a result: the script gets it unwrapped, and so does the hook *)
(* (Shapes has what it makes of it, SchemaCapture when).  Pool has the     *)
(* runtime, and ExecutorProofs extends both.                               *)
(***************************************************************************)
EXTENDS Results

CONSTANTS
    Listings,       \* params.ServerTools: server -> names of its tools
    Aliases,        \* names a script uses for servers ...
    Members,        \* ... and for tools; names are sequences of characters
    Payloads,       \* what tools have to say
    MaxToolCalls

ASSUME NamesAreTexts ==
    /\ \A l \in Listings : \A s \in DOMAIN l : s \in Seq(STRING) /\ l[s] \subseteq Seq(STRING)
    /\ Aliases \subseteq Seq(STRING) /\ Members \subseteq Seq(STRING)

\* A string is words or the text of a value, and an array is a sequence.
IsString(v) == v.kind = "string" => v = Words(v.tag) \/ v = JSONText(v.json[1])

ASSUME PayloadsAreValues ==
    \A v \in Payloads :
       /\ IsString(v)
       /\ v.kind = "array" => /\ v = Arr(v.elems) /\ v.elems \in Seq(Range(v.elems))
                              /\ \A e \in Range(v.elems) : IsString(e)

VARIABLES
    tools,          \* the listing of this execution
    dispatch,       \* dispatchMap: key -> <<server, tool>>
    payload, reply, \* what tools say, and the form in which they say it
    count,          \* toolCallCount
    ran,            \* calls that reached a tool: what the script named, and what ran
    logs,           \* toolLogs, without the times
    value           \* what the last call resolved to, <<>> for nothing

bridgeVars == <<tools, dispatch, payload, reply, count, ran, logs, value>>

-----------------------------------------------------------------------------
\* Mutant: nothing between the server and the tool.
KeyUnseparated(server, tool) == server \o tool

Key(server, tool) == server \o <<"/">> \o tool

Listed(listing) == UNION {{s} \X listing[s] : s \in DOMAIN listing}

\* The map is filled in the order of another map: of two tools with one key
\* either may be there in the end.
DispatchMaps(listing) ==
    {f \in [{Key(e[1], e[2]) : e \in Listed(listing)} -> Listed(listing)] :
        \A k \in DOMAIN f : Key(f[k][1], f[k][2]) = k}

\* What servers make of a payload: nothing, or a record of content blocks.
\* The blocks carry its text, which for a string is its own or that of its
\* JSON, or, for a list of strings, each of them in a block; and another block
\* may be anywhere between.  "isError" may be there or not.
Record(c, flag) ==
    Obj(IF flag THEN [content |-> Arr(c), isError |-> Bool] ELSE [content |-> Arr(c)])
Block(s) == Obj([type |-> Words("text"), text |-> s])
Image == Obj([type |-> Words("image")])

TextBlocks(s) == [n \in 1..Len(s) |-> Block(s[n])]
WithImage(blocks, p) ==
    [n \in 1..(Len(blocks) + 1) |->
        IF n < p THEN blocks[n] ELSE IF n = p THEN Image ELSE blocks[n - 1]]
Around(blocks) == {blocks} \cup {WithImage(blocks, p) : p \in 1..(Len(blocks) + 1)}

ListOfTexts(v) == v.kind = "array" /\ \A e \in Range(v.elems) : e.kind = "string"

Wordings(v) ==
    {<<JSONText(v)>>} \cup (IF v.kind = "string" THEN {<<v>>} ELSE {})
                     \cup (IF ListOfTexts(v) THEN {v.elems} ELSE {})

Contents(v) == UNION {Around(TextBlocks(s)) : s \in Wordings(v)}

Wrapped(v) == {Record(c, flag) : c \in Contents(v), flag \in BOOLEAN}
Replies(v) == {v} \cup Wrapped(v)

\* What passes for a result, whatever it is.
IsResult(v) ==
    /\ v.kind = "object" /\ "content" \in DOMAIN v.fields
    /\ DOMAIN v.fields \subseteq {"content", "isError", "structuredContent", "_meta"}
    /\ v.fields["content"].kind = "array" /\ v.fields["content"].elems # <<>>
    /\ \A b \in Range(v.fields["content"].elems) : b.kind \in {"object", "null"}

BridgeInit ==
    /\ tools \in Listings /\ dispatch \in DispatchMaps(tools)
    /\ payload \in Payloads /\ reply \in Replies(payload)
    /\ count = 0 /\ ran = <<>> /\ logs = <<>>
    /\ value = <<>>

-----------------------------------------------------------------------------
\* tools.alias is there for a server of the listing; tools.alias.member is
\* always a function, which calls the bridge.
Bridged(alias) == alias \in DOMAIN tools

Logged(e, status) == logs' = Append(logs, [server |-> e[1], tool |-> e[2], status |-> status])

\* Counted, refused, and not logged.
CallRefused(alias) ==
    /\ Bridged(alias) /\ count = MaxToolCalls
    /\ count' = count + 1
    /\ UNCHANGED <<tools, dispatch, payload, reply, ran, logs, value>>

CallUnknown(alias, member) ==
    /\ Bridged(alias) /\ count < MaxToolCalls
    /\ Key(alias, member) \notin DOMAIN dispatch
    /\ count' = count + 1
    /\ Logged(<<alias, member>>, "error")
    /\ UNCHANGED <<tools, dispatch, payload, reply, ran, value>>

Runs(alias, member) ==
    /\ Bridged(alias) /\ count < MaxToolCalls
    /\ Key(alias, member) \in DOMAIN dispatch
    /\ count' = count + 1
    /\ ran' = Append(ran, [named |-> <<alias, member>>, is |-> dispatch[Key(alias, member)]])
    /\ UNCHANGED <<tools, dispatch, payload, reply>>

CallFails(alias, member) ==
    /\ Runs(alias, member)
    /\ Logged(dispatch[Key(alias, member)], "error")
    /\ UNCHANGED value

\* The promise is resolved with the unwrapped result, and the hook is given
\* the same.
CallSucceeds(alias, member) ==
    /\ Runs(alias, member)
    /\ Logged(dispatch[Key(alias, member)], "success")
    /\ value' = <<Unwrap(reply)>>

BridgeNext ==
    \E alias \in Aliases, member \in Members :
        \/ CallRefused(alias) \/ CallUnknown(alias, member)
        \/ CallFails(alias, member) \/ CallSucceeds(alias, member)

BridgeSpec == BridgeInit /\ [][BridgeNext]_bridgeVars

-----------------------------------------------------------------------------
\* A call reaches the tool it names, on the server it names, although the map
\* is keyed by one string - unless the name of a server has a "/" in it.
Routed ==
    (\A s \in DOMAIN tools : "/" \notin Range(s)) =>
        \A n \in DOMAIN ran : ran[n].is = ran[n].named

\* "Single text block with valid JSON -> return parsed JSON", "plain text ->
\* return as JSON string", "Multiple text blocks -> return JSON array of texts",
\* "Not a ToolResult -> return raw unchanged": a script gets what the tool
\* said, or else the reply is also one for what the script gets: a text that
\* is JSON and the value it stands for, one text with an image and the list
\* of that text are told in the same words.  A result without any block is
\* handed on as it is, and a payload that is a result itself is unwrapped.
PayloadKept ==
    value # <<>> =>
       \/ value[1] = payload
       \/ reply \in Wrapped(value[1])
       \/ value[1] = reply /\ payload = Arr(<<>>)
       \/ reply = payload /\ IsResult(payload)

=============================================================================
