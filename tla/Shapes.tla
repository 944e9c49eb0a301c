------------------------------- MODULE Shapes -------------------------------
(***************************************************************************)
(* The type of a tool: what the hook makes of a result the bridge has      *)
(* handed out.  InferSchema of internal/executor/schema.go infers a schema *)
(* from it, schemaTypeToTS of internal/executor/types.go shows it.         *)
(*                                                                         *)
(* inferValue calls itself to depth 3 and no further.  Each of its depths  *)
(* is a definition here, which is given the one below it; and so are those *)
(* of what is made of a schema that deep.                                  *)
(***************************************************************************)
EXTENDS Bridge

CONSTANT MaxProperties

-----------------------------------------------------------------------------
(* inferValue.  A schema is a record with the keys the code writes.        *)

Plain(type) == [type |-> type]
NoSchema == [type |-> ""]                           \* items: {}
ArrayOf(items) == [type |-> "array", items |-> items]
ObjectOf(props) == [type |-> "object", properties |-> props]

\* Objects inference does not look into.
Opaque(v) == DOMAIN v.fields = {} \/ Cardinality(DOMAIN v.fields) > MaxProperties

inferValue(Deeper(_), v) ==
    CASE v.kind = "null"   -> Plain("string")
      [] v.kind = "array"  -> ArrayOf(IF 1 \in DOMAIN v.elems THEN Deeper(v.elems[1]) ELSE NoSchema)
      [] v.kind = "object" -> IF Opaque(v) THEN Plain("object")
                              ELSE ObjectOf([x \in DOMAIN v.fields |-> Deeper(v.fields[x])])
      [] OTHER             -> Plain(v.kind)

\* Mutant: the depth ends one level early.
InferShallow(v) == Plain("object")

Infer4(v) == Plain("object")
Infer3(v) == inferValue(Infer4, v)
Infer2(v) == inferValue(Infer3, v)
Infer1(v) == inferValue(Infer2, v)
InferSchema(v) == inferValue(Infer1, v)

-----------------------------------------------------------------------------
(* schemaTypeToTS: string, number, boolean, any, Array<T>,                 *)
(* Record<string, any>, { key: T; ... }.                                   *)

AnyType == [type |-> "any"]

schemaTypeToTS(Inner(_), s) ==
    CASE s.type \in {"string", "number", "boolean"} -> [type |-> s.type]
      [] s.type = "array"  -> [type |-> "Array", of |-> Inner(s.items)]
      [] s.type = "object" ->
           IF "properties" \notin DOMAIN s THEN [type |-> "Record"]
           ELSE [type |-> "{}", keys |-> [x \in DOMAIN s.properties |-> Inner(s.properties[x])]]
      [] OTHER -> AnyType

\* A schema that was inferred has nothing in it at depth 4.
Type4(s) == schemaTypeToTS(LAMBDA inner : AnyType, s)
Type3(s) == schemaTypeToTS(Type4, s)
Type2(s) == schemaTypeToTS(Type3, s)
Type1(s) == schemaTypeToTS(Type2, s)
TypeOf(s) == schemaTypeToTS(Type1, s)

-----------------------------------------------------------------------------
(* What the types mean, and which values have one shape throughout.        *)

\* Does a value have a type?
HasIn(Inner(_, _), t, v) ==
    CASE t.type = "any"    -> TRUE
      [] t.type = "Array"  -> v.kind = "array" /\ \A e \in Range(v.elems) : Inner(t.of, e)
      [] t.type = "Record" -> v.kind = "object"
      [] t.type = "{}"     -> v.kind = "object" /\ \A x \in DOMAIN t.keys :
                                 x \in DOMAIN v.fields /\ Inner(t.keys[x], v.fields[x])
      [] OTHER             -> v.kind = t.type

Has4(t, v) == HasIn(LAMBDA u, w : TRUE, t, v)
Has3(t, v) == HasIn(Has4, t, v)
Has2(t, v) == HasIn(Has3, t, v)
Has1(t, v) == HasIn(Has2, t, v)
Has(t, v) == HasIn(Has1, t, v)

\* Two values of one shape: whatever either has inside, at one place, has
\* one shape.
AlikeIn(Inner(_, _), u, v) ==
    /\ u.kind = v.kind
    /\ u.kind = "array" => \A d \in Range(u.elems), e \in Range(v.elems) : Inner(d, e)
    /\ u.kind = "object" => /\ DOMAIN u.fields = DOMAIN v.fields
                            /\ \A x \in DOMAIN u.fields : Inner(u.fields[x], v.fields[x])

Alike4(u, v) == u.kind = v.kind
Alike3(u, v) == AlikeIn(Alike4, u, v)
Alike2(u, v) == AlikeIn(Alike3, u, v)
Alike1(u, v) == AlikeIn(Alike2, u, v)

\* No null, arrays of one kind of things, and nothing but objects below the
\* depth where inference ends.
RegularIn(Inner(_), Same(_, _), v) ==
    /\ v.kind # "null"
    /\ v.kind = "array" => \A e \in Range(v.elems) : Inner(e) /\ Same(v.elems[1], e)
    /\ v.kind = "object" /\ ~Opaque(v) => \A x \in DOMAIN v.fields : Inner(v.fields[x])

Regular4(v) == v.kind = "object"
Regular3(v) == RegularIn(Regular4, Alike4, v)
Regular2(v) == RegularIn(Regular3, Alike3, v)
Regular1(v) == RegularIn(Regular2, Alike2, v)
Regular(v) == RegularIn(Regular1, Alike1, v)

\* "... will show the actual structure on the next search()": the type shown
\* for a tool is one its result has, as far as the result is regular.
TypeFits ==
    value # <<>> /\ Regular(value[1]) => Has(TypeOf(InferSchema(value[1])), value[1])

=============================================================================
