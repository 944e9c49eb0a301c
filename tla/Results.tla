------------------------------ MODULE Results ------------------------------
(***************************************************************************)
(* JSON values, and unwrapToolResult of internal/executor/schema.go, which *)
(* takes a tool's result out of its wrapper.                               *)
(*                                                                         *)
(* A string is told from another by a tag, and knows which JSON text it    *)
(* is, if it is one: json is <<v>> for the serialization of v.             *)
(***************************************************************************)
EXTENDS Naturals, Sequences, FiniteSets, Functions

Null == [kind |-> "null"]
Bool == [kind |-> "boolean"]
Num == [kind |-> "number"]
Str(tag, json) == [kind |-> "string", tag |-> tag, json |-> json]
Arr(s) == [kind |-> "array", elems |-> s]
Obj(f) == [kind |-> "object", fields |-> f]

Words(tag) == Str(tag, <<>>)        \* a text that is no JSON
JSONText(v) == Str("json", <<v>>)

-----------------------------------------------------------------------------
(* unwrapToolResult                                                        *)

Known == {"content", "isError", "structuredContent", "_meta"}

\* What json.Unmarshal takes for a content block.
IsBlock(v) ==
    \/ v.kind = "null"
    \/ /\ v.kind = "object"
       /\ \A x \in {"type", "text"} \cap DOMAIN v.fields : v.fields[x].kind \in {"string", "null"}

IsText(v) == v.kind = "object" /\ "type" \in DOMAIN v.fields /\ v.fields["type"] = Words("text")
TextOf(v) == IF "text" \in DOMAIN v.fields /\ v.fields["text"].kind = "string" THEN v.fields["text"] ELSE Words("")

\* Mutant: one known key is enough.
IsWrapperLoosely(v) ==
    /\ v.kind = "object" /\ "content" \in DOMAIN v.fields
    /\ v.fields["content"].kind = "array" /\ v.fields["content"].elems # <<>>
    /\ \A b \in Range(v.fields["content"].elems) : IsBlock(b)

IsWrapper(v) ==
    /\ v.kind = "object" /\ "content" \in DOMAIN v.fields /\ DOMAIN v.fields \subseteq Known
    /\ v.fields["content"].kind = "array" /\ v.fields["content"].elems # <<>>
    /\ \A b \in Range(v.fields["content"].elems) : IsBlock(b)

\* The texts among the blocks, in their order.  The n-th is the one with n up
\* to it.
Texts(blocks) ==
    LET at == {n \in DOMAIN blocks : IsText(blocks[n])}
        Nth(n) == CHOOSE i \in at : Cardinality({j \in at : j <= i}) = n
    IN  [n \in 1..Cardinality(at) |-> TextOf(blocks[Nth(n)])]

\* A text that is JSON is what it says, any other is a string.
Parsed(s) == IF s.json # <<>> THEN s.json[1] ELSE s

Unwrap(v) ==
    IF ~IsWrapper(v) THEN v
    ELSE LET blocks == v.fields["content"].elems
         IN  IF Len(blocks) = 1 /\ IsText(blocks[1]) THEN Parsed(TextOf(blocks[1]))
             ELSE Arr(Texts(blocks))

=============================================================================
