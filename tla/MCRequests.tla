----------------------------- MODULE MCRequests -----------------------------
(* The two requests that read the registry, for TLC: search goes through   *)
(* its tools, execute_code gets a listing of them.  A behaviour is one of  *)
(* the one or of the other; what the other has is left where it starts.    *)
EXTENDS Search, Shapes, TLC

\* No tools, two in either order, and one name twice.
SomeLists == {<<>>, <<1, 2>>, <<2, 1, 1>>, <<2, 2>>}

\* Names that make the same letters, names with a "/".
SomeListings ==
    { (<<"a">> :> {<<"a", "b">>}) @@ (<<"a", "a">> :> {<<"b">>}),
      (<<"a">> :> {<<"b">>, <<"b", "/", "b">>}) @@ (<<"b">> :> {}),
      (<<"a">> :> {<<"b", "/", "b">>}) @@ (<<"a", "/", "b">> :> {<<"b">>}) }

SomeAliases == {<<"a">>, <<"b">>, <<"a", "a">>, <<"a", "/", "b">>}
SomeMembers == {<<"b">>, <<"a", "b">>, <<"b", "/", "b">>}

\* Payloads of every kind down to the depth where inference ends ...
Scalars == {Null, Bool, Num, Words("w")}
Flat == Scalars \cup
    {Arr(s) : s \in {<<>>} \cup {<<x, y>> : x, y \in Scalars}} \cup
    {Obj(<<>>), Obj("a" :> Num), Obj("a" :> Num @@ "b" :> Null @@ "c" :> Bool)} \cup
    {Obj("a" :> x @@ "b" :> y) : x, y \in {Num, Words("w")}}

\* n arrays and objects around v.
Nest[n \in 0..3, v \in Flat] ==
    IF n = 0 THEN {v}
    ELSE UNION {{Arr(<<u>>), Arr(<<u, u>>), Obj("a" :> u)} : u \in Nest[n - 1, v]}

\* ... texts that are JSON, and lists of such ...
JSONTexts == {JSONText(v) : v \in {Null, Num, Words("w"), JSONText(Num), Arr(<<>>), Obj("a" :> Num)}}
TextLists == {Arr(<<s>>) : s \in JSONTexts} \cup
             {Arr(<<s, t>>) : s, t \in JSONTexts \cup {Words("w")}}

\* ... and payloads that are results, or look like one.
Lookalikes ==
    { Obj("content" :> Arr(<<Block(Words("w"))>>)),
      Obj("content" :> Arr(<<Block(Words("w"))>>) @@ "a" :> Num),
      Obj("content" :> Arr(<<Image, Block(JSONText(Num))>>)),
      Obj("content" :> Arr(<<>>)), Obj("content" :> Words("w")),
      Obj("content" :> Arr(<<Num>>)), Obj("content" :> Arr(<<Null>>)) }

SomePayloads ==
    UNION {Nest[n, v] : n \in 0..3, v \in Flat} \cup JSONTexts \cup TextLists \cup Lookalikes \cup
    {Arr(<<u, v>>) : u, v \in {Obj("a" :> Num), Obj("a" :> Words("w")), Num}}

-----------------------------------------------------------------------------
\* Where the request that is not made stays.
NoSearch ==
    /\ offered = [s \in Servers |-> <<>>]
    /\ query = CHOOSE q \in Queries : q.browse
    /\ todo = Servers /\ at = Between /\ results = <<>>
    /\ i = 2 /\ j = 2 /\ pc = "none"

NoExecution ==
    /\ tools = <<>> /\ dispatch = <<>> /\ payload = Null /\ reply = Null
    /\ count = 0 /\ ran = <<>> /\ logs = <<>> /\ value = <<>>

RequestInit == (Init /\ NoExecution) \/ (BridgeInit /\ NoSearch)

RequestNext ==
    \/ Next /\ UNCHANGED bridgeVars
    \/ BridgeNext /\ UNCHANGED vars

RequestSpec == RequestInit /\ [][RequestNext]_<<vars, bridgeVars>>

=============================================================================
