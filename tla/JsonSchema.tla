----------------------------- MODULE JsonSchema -----------------------------
(***************************************************************************)
(* The validation of a tool call's arguments against the tool's schema     *)
(* (src/crates/tea-core/src/schema_validation.rs) and the schemas of the   *)
(* standard tools (src/crates/tea-core/src/tools/schemas.rs).              *)
(*                                                                         *)
(* A JSON value is a record with its type: a string has a text or a path,  *)
(* a number its value in halves and whether it is a float, an array items, *)
(* an object members.  A schema is a record of its keywords; a malformed   *)
(* keyword (an unknown one, or one of another form) is `malformed`, and a  *)
(* schema that is no JSON object is NotAnObject.                           *)
(***************************************************************************)
EXTENDS Integers, Sequences, FiniteSets

StringValue(text) == [type |-> "string", text |-> text]
PathValue(path) == [type |-> "string", path |-> path]
NumberValue(halves) == [type |-> "number", halves |-> halves, float |-> halves % 2 = 1]
BoolValue(bool) == [type |-> "boolean", bool |-> bool]
ArrayValue(items) == [type |-> "array", items |-> items]
ObjectValue(members) == [type |-> "object", members |-> members]

NotAnObject == [notAnObject |-> TRUE]
Has(schema, keyword) == keyword \in DOMAIN schema

TypeMatches(name, value) ==
    \/ value.type = name
    \/ name = "integer" /\ value.type = "number" /\ ~value.float

-----------------------------------------------------------------------------
(* validate_schema.                                                        *)

SupportedTypes == {"null", "boolean", "integer", "number", "string", "array", "object"}
ValuesOf(f) == {f[x] : x \in DOMAIN f}
Under(schema, keyword) == IF Has(schema, keyword) THEN {schema[keyword]} ELSE {}
AllUnder(schema, keyword) == UNION {ValuesOf(part) : part \in Under(schema, keyword)}

\* The schemas that stand in a schema (`additionalProperties: false` is none).
Subschemas(schema) ==
    UNION {AllUnder(schema, keyword) : keyword \in {"properties", "allOf", "anyOf", "oneOf"}}
      \cup UNION {Under(schema, keyword) : keyword \in {"items", "additionalProperties", "not"}}

RECURSIVE SchemaIsValid(_)
SchemaIsValid(schema) ==
    /\ schema # NotAnObject /\ ~Has(schema, "malformed")
    /\ \A types \in Under(schema, "type") : types # <<>> /\ ValuesOf(types) \subseteq SupportedTypes
    /\ \A names \in Under(schema, "required") : Cardinality(ValuesOf(names)) = Len(names)
    /\ \A part \in Subschemas(schema) : SchemaIsValid(part)

-----------------------------------------------------------------------------
(* validate_value: the errors of a value, as "error", and "panic" for the  *)
(* expect() on a schema that is no object.  The error texts and paths are  *)
(* left out; any() is taken to try every alternative.                      *)

Required(schema, members) ==
    \A names \in Under(schema, "required") : ValuesOf(names) \subseteq DOMAIN members
Unique(schema, items) ==
    Has(schema, "uniqueItems") => Cardinality(ValuesOf(items)) = Len(items)
CountFits(schema, least, most, count) ==
    /\ \A bound \in Under(schema, least) : count >= bound
    /\ \A bound \in Under(schema, most) : count <= bound
NumberFits(schema, halves) ==
    /\ \A bound \in Under(schema, "minimum") : halves >= 2 * bound
    /\ \A bound \in Under(schema, "maximum") : halves <= 2 * bound
    /\ \A bound \in Under(schema, "exclusiveMinimum") : halves > 2 * bound
    /\ \A bound \in Under(schema, "exclusiveMaximum") : halves < 2 * bound

\* The members and items a schema has a schema for, as pairs.
Inner(schema, value) ==
    CASE value.type = "array" -> Under(schema, "items") \X ValuesOf(value.items)
      [] value.type = "object" ->
           LET named == UNION {DOMAIN part : part \in Under(schema, "properties")}
           IN {<<schema.properties[key], value.members[key]>> : key \in named \cap DOMAIN value.members}
                \cup Under(schema, "additionalProperties")
                       \X {value.members[key] : key \in DOMAIN value.members \ named}
      [] OTHER -> {}

\* The keywords of one value that need no other schema.
Plain(schema, value) ==
    /\ \A values \in Under(schema, "enum") : value \in values
    /\ \A const \in Under(schema, "const") : value = const
    /\ CASE value.type = "object" ->
              /\ Required(schema, value.members)
              /\ Has(schema, "closed") =>
                   DOMAIN value.members \subseteq UNION {DOMAIN p : p \in Under(schema, "properties")}
         [] value.type = "array" ->
              /\ Unique(schema, value.items)
              /\ CountFits(schema, "minItems", "maxItems", Len(value.items))
         [] value.type = "string" ->
              Has(schema, "minLength") \/ Has(schema, "maxLength") =>
                CountFits(schema, "minLength", "maxLength", Len(value.text))
         [] value.type = "number" -> NumberFits(schema, value.halves)
         [] OTHER -> TRUE

RECURSIVE Faults(_, _)
Faults(schema, value) ==
    IF schema = NotAnObject THEN {"panic"}
    ELSE IF \E types \in Under(schema, "type") : \A k \in DOMAIN types : ~TypeMatches(types[k], value)
      THEN {"error"}
    ELSE LET Tried(keyword) ==
               [k \in 1..Len(schema[keyword]) |-> Faults(schema[keyword][k], value)]
             Panics(verdicts) == UNION {verdict \cap {"panic"} : verdict \in ValuesOf(verdicts)}
             Alternatives(keyword, Enough(_)) ==
               UNION {LET verdicts == Tried(keyword)
                      IN Panics(verdicts)
                           \cup (IF Enough(Cardinality({k \in DOMAIN verdicts : verdicts[k] = {}}))
                                   THEN {} ELSE {"error"})
                      : part \in Under(schema, keyword)}
             Negated(verdict) == IF verdict = {} THEN {"error"} ELSE verdict \ {"error"}
         IN (IF Plain(schema, value) THEN {} ELSE {"error"})
              \cup UNION {Faults(pair[1], pair[2]) : pair \in Inner(schema, value)}
              \cup UNION {Faults(part, value) : part \in AllUnder(schema, "allOf")}
              \cup Alternatives("anyOf", LAMBDA n : n > 0)
              \cup Alternatives("oneOf", LAMBDA n : n = 1)
              \cup UNION {Negated(Faults(part, value)) : part \in Under(schema, "not")}

\* validate_tool_arguments.
Validated(schema, value) ==
    IF ~SchemaIsValid(schema) THEN "invalid schema"
    ELSE LET faults == Faults(schema, value)
         IN CASE "panic" \in faults -> "panic"
              [] "error" \in faults -> "invalid"
              [] OTHER -> "valid"

-----------------------------------------------------------------------------
(* The schemas of the standard tools.                                      *)

Of(type) == [type |-> <<type>>]
ObjectSchema(required, properties) ==
    [type |-> <<"object">>, properties |-> properties, required |-> required]

ReadSchema == ObjectSchema(<<"path">>,
    [path |-> Of("string"), offset |-> Of("number"), limit |-> Of("number")])
BashSchema == ObjectSchema(<<"command">>, [command |-> Of("string"), timeout |-> Of("number")])
EditItems == ObjectSchema(<<"oldText", "newText">>,
    [oldText |-> Of("string"), newText |-> Of("string")])
EditSchema == ObjectSchema(<<"path", "edits">>,
    [path |-> Of("string"), edits |-> [type |-> <<"array">>, items |-> EditItems]])
WriteSchema == ObjectSchema(<<"path", "content">>,
    [path |-> Of("string"), content |-> Of("string")])
GrepSchema == ObjectSchema(<<"pattern">>,
    [pattern |-> Of("string"), path |-> Of("string"), glob |-> Of("string"),
     ignoreCase |-> Of("boolean"), literal |-> Of("boolean"),
     context |-> Of("number"), limit |-> Of("number")])
FindSchema == ObjectSchema(<<"pattern">>,
    [pattern |-> Of("string"), path |-> Of("string"), limit |-> Of("number")])
LsSchema == [type |-> <<"object">>,
    properties |-> [path |-> Of("string"), limit |-> Of("number")]]

StandardSchemas ==
    [read |-> ReadSchema, bash |-> BashSchema, edit |-> EditSchema, write |-> WriteSchema,
     grep |-> GrepSchema, find |-> FindSchema, ls |-> LsSchema]
=============================================================================
