------------------------------- MODULE Schema -------------------------------
(***************************************************************************)
(* schema.go: validation of a decoded JSON value against a JSON Schema,    *)
(* used for tool arguments, structured answers and declarative crews.      *)
(*                                                                         *)
(* A JSON value is a record whose one field names its type: [object |-> a  *)
(* function from keys to values], [array |-> a sequence], [string |-> s],  *)
(* [boolean |-> b], [null |-> TRUE], [number |-> twice the number], so     *)
(* that halves exist.  A schema is a JSON value too.  What strings mean to *)
(* the libraries (regexp, net/mail, strconv) is given by constants.        *)
(*                                                                         *)
(* The operators recurse over data, so this module is for TLC only.        *)
(***************************************************************************)
EXTENDS Integers, FiniteSets, Sequences, SequencesExt

CONSTANTS
    MaxSchemaRefDepth,          \* 32 in the code
    MaxSchemaRefExpansions,     \* 256 in the code
    Pointers,                   \* $ref strings that are local pointers -> unescaped parts
    Atoi,                       \* decimal strings -> their integers
    ParseFloat,                 \* strings strconv.ParseFloat accepts -> twice the number
    Patterns,                   \* patterns that compile and are short enough -> strings they match
    Formats                     \* known formats -> strings that have them

ASSUME SchemaConstants ==
    /\ MaxSchemaRefDepth \in Nat
    /\ MaxSchemaRefExpansions \in Nat

Is(type, v) == type \in DOMAIN v
Object(f) == [object |-> f]
Array(s) == [array |-> s]
String(s) == [string |-> s]
Number(n) == [number |-> 2 * n]
Boolean(b) == [boolean |-> b]

\* Keywords of a schema s, each read with the type it must have: no value, or one.
At(s, k) == IF k \in DOMAIN s THEN {s[k]} ELSE {}
Of(type, s, k) == {v \in At(s, k) : Is(type, v)}
Elements(s, k) == IF Of("array", s, k) = {} THEN <<>> ELSE s[k].array
asFloat(s, k) ==
    {v.number : v \in Of("number", s, k)}
        \cup {ParseFloat[v.string] : v \in {u \in Of("string", s, k) : u.string \in DOMAIN ParseFloat}}

-----------------------------------------------------------------------------
(***************************************************************************)
(* One call of validateSchema.  vc is schemaValidation and the error list: *)
(* the schema's root, the pointers being resolved (their number is         *)
(* refDepth), the expansions so far, the keywords that failed, and the     *)
(* order in which this call's loops over a map visit the keys.             *)
(***************************************************************************)
Start(root, order) == [root |-> root, order |-> order, stack |-> <<>>, expansions |-> 0, errs |-> {}]

FailIf(bad, vc, keyword) == IF bad THEN [vc EXCEPT !.errs = @ \cup {keyword}] ELSE vc

Keys(vc, S) == SelectSeq(vc.order, LAMBDA k : k \in S)

\* resolveLocalRef: the node a pointer leads to, as a set of none or one.
Child(node, part) ==
    IF Is("object", node) THEN At(node.object, part)
    ELSE IF Is("array", node) /\ part \in DOMAIN Atoi /\ Atoi[part] \in 0..(Len(node.array) - 1)
    THEN {node.array[Atoi[part] + 1]}
    ELSE {}
resolveLocalRef(root, ref) ==
    IF ref \notin DOMAIN Pointers THEN {}
    ELSE FoldLeft(LAMBDA nodes, part : UNION {Child(n, part) : n \in nodes}, {root}, Pointers[ref])

PushRefused(vc, ref) ==
    \/ vc.expansions >= MaxSchemaRefExpansions
    \/ Len(vc.stack) >= MaxSchemaRefDepth
    \/ \E i \in DOMAIN vc.stack : vc.stack[i] = ref
pushRef(vc, ref) == [vc EXCEPT !.stack = Append(@, ref), !.expansions = @ + 1]
\* The pointer stays on the stack.
NeverPopped(vc) == vc
popRef(vc) == [vc EXCEPT !.stack = Front(@)]

checkTypeName(v, name) ==
    CASE name = "integer" -> Is("number", v) /\ v.number % 2 = 0
      [] name \in {"object", "array", "string", "number", "boolean", "null"} -> Is(name, v)
      [] OTHER -> TRUE
RECURSIVE checkType(_, _)
checkType(v, t) ==
    CASE Is("string", t) -> checkTypeName(v, t.string)
      [] Is("array", t) -> \E i \in DOMAIN t.array : checkType(v, t.array[i])
      [] OTHER -> TRUE

checkEnum(v, s) == Of("array", s, "enum") = {} \/ \E i \in DOMAIN s["enum"].array : s["enum"].array[i] = v

\* The names in `failed` are the keywords that a value breaks.
Failed(vc, failed) == [vc EXCEPT !.errs = @ \cup failed]

Text(s, k) == {p.string : p \in Of("string", s, k)} \ {""}
validateString(str, s) ==
    LET badPattern == \E p \in Text(s, "pattern") : p \notin DOMAIN Patterns
    IN  {k \in {"minLength"} : \E n \in asFloat(s, k) : 2 * Len(str) < n}
          \cup {k \in {"maxLength"} : \E n \in asFloat(s, k) : 2 * Len(str) > n}
          \cup {k \in {"pattern"} : badPattern \/ \E p \in Text(s, k) : str \notin Patterns[p]}
          \cup {k \in {"format"} : ~badPattern /\ \E f \in Text(s, k) \cap DOMAIN Formats : str \notin Formats[f]}

\* exclusiveMinimum is a number, or (draft 04) a flag of minimum.
Exclusive(s, k, with) ==
    IF Of("boolean", s, k) = {} THEN asFloat(s, k)
    ELSE IF s[k].boolean THEN asFloat(s, with) ELSE {}
validateNumber(f, s) ==
    {k \in {"minimum"} : \E n \in asFloat(s, k) : f < n}
      \cup {k \in {"maximum"} : \E n \in asFloat(s, k) : f > n}
      \cup {k \in {"exclusiveMinimum"} : \E n \in Exclusive(s, k, "minimum") : f <= n}
      \cup {k \in {"exclusiveMaximum"} : \E n \in Exclusive(s, k, "maximum") : f >= n}

Counts(size, s, low, high) ==
    {k \in {low} : \E n \in asFloat(s, k) : 2 * size < n}
      \cup {k \in {high} : \E n \in asFloat(s, k) : 2 * size > n}

Missing(obj, s) ==
    \E i \in DOMAIN Elements(s, "required") :
        LET r == s["required"].array[i] IN Is("string", r) /\ r.string \notin DOMAIN obj
Duplicates(arr) == \E i, j \in DOMAIN arr : i < j /\ arr[i] = arr[j]
Properties(s) == UNION {DOMAIN p.object : p \in Of("object", s, "properties")}

RECURSIVE validateNode(_, _, _)

\* Errors that only decide a condition, and are dropped.
Probe(vc, v, schema) == validateNode([vc EXCEPT !.errs = {}], v, schema)
Kept(vc, probe) == [probe EXCEPT !.errs = vc.errs]

Apply(vc, v, schemas) == FoldLeft(LAMBDA c, sub : validateNode(c, v, sub), vc, schemas)

Conditional(vc, v, s) ==
    IF "if" \notin DOMAIN s THEN vc
    ELSE LET probe == Probe(vc, v, s["if"])
             branch == IF probe.errs = {} THEN "then" ELSE "else"
         IN  Apply(Kept(vc, probe), v, SetToSeq(At(s, branch)))

Negation(vc, v, s) ==
    IF "not" \notin DOMAIN s THEN vc
    ELSE LET probe == Probe(vc, v, s["not"]) IN FailIf(probe.errs = {}, Kept(vc, probe), "not")

\* matchOneOfAnyOf stops at the first match unless it counts them.
Matches(vc, v, alts, exactlyOne) ==
    FoldLeft(LAMBDA a, sub :
                 IF ~exactlyOne /\ a.n > 0 THEN a
                 ELSE LET probe == Probe(a.vc, v, sub)
                      IN  [vc |-> Kept(a.vc, probe), n |-> a.n + (IF probe.errs = {} THEN 1 ELSE 0)],
             [vc |-> vc, n |-> 0], alts)
matchOneOfAnyOf(vc, v, s, keyword) ==
    LET m == Matches(vc, v, Elements(s, keyword), keyword = "oneOf")
    IN  FailIf(Elements(s, keyword) # <<>> /\ (IF keyword = "oneOf" THEN m.n # 1 ELSE m.n = 0), m.vc, keyword)

Combinators(vc, v, s) ==
    LET c == Apply(Negation(Conditional(vc, v, s), v, s), v, Elements(s, "allOf"))
    IN  matchOneOfAnyOf(matchOneOfAnyOf(c, v, s, "anyOf"), v, s, "oneOf")

\* A property's schema that is not an object is passed over.
validateProperties(vc, obj, s) ==
    LET own == {k \in Properties(s) \cap DOMAIN obj : Is("object", s["properties"].object[k])}
    IN  FoldLeft(LAMBDA c, k : validateNode(c, obj[k], s["properties"].object[k]), vc, Keys(vc, own))
validateAdditional(vc, obj, s) ==
    LET rest == DOMAIN obj \ Properties(s)
        ap == At(s, "additionalProperties")
    IN  IF Boolean(FALSE) \in ap THEN FailIf(rest # {}, vc, "additionalProperties")
        ELSE IF Of("object", s, "additionalProperties") = {} THEN vc
        ELSE FoldLeft(LAMBDA c, k : validateNode(c, obj[k], s["additionalProperties"]), vc, Keys(vc, rest))
validateObject(vc, obj, s) ==
    LET counted == Failed(vc, Counts(Cardinality(DOMAIN obj), s, "minProperties", "maxProperties"))
    IN  validateAdditional(validateProperties(FailIf(Missing(obj, s), counted, "required"), obj, s), obj, s)

validateArray(vc, arr, s) ==
    LET counted == Failed(vc, Counts(Len(arr), s, "minItems", "maxItems"))
        unique == FailIf(At(s, "uniqueItems") = {Boolean(TRUE)} /\ Duplicates(arr), counted, "uniqueItems")
    IN  IF "items" \notin DOMAIN s THEN unique
        ELSE FoldLeft(LAMBDA c, e : validateNode(c, e, s["items"]), unique, arr)

\* A value of the wrong type is not looked into any further.
validateNodeKeywords(before, v, s) ==
    LET vc == Combinators(before, v, s)
        here == Failed(vc, {k \in {"enum"} : ~checkEnum(v, s)} \cup {k \in {"const"} : \E c \in At(s, k) : c # v})
    IN  IF \E t \in At(s, "type") : ~checkType(v, t) THEN FailIf(TRUE, vc, "type")
        ELSE CASE Is("string", v) -> Failed(here, validateString(v.string, s))
               [] Is("number", v) -> Failed(here, validateNumber(v.number, s))
               [] Is("object", v) -> validateObject(here, v.object, s)
               [] Is("array", v) -> validateArray(here, v.array, s)
               [] OTHER -> here

\* The target first, then the keywords beside $ref.
validateRef(vc, v, s) ==
    LET ref == s["$ref"].string
        beside == [k \in DOMAIN s \ {"$ref"} |-> s[k]]
    IN  IF Of("string", s, "$ref") = {} THEN FailIf(TRUE, vc, "$ref")
        ELSE IF resolveLocalRef(vc.root, ref) = {} \/ PushRefused(vc, ref) THEN FailIf(TRUE, vc, "$ref")
        ELSE LET target == CHOOSE n \in resolveLocalRef(vc.root, ref) : TRUE
             IN  validateNodeKeywords(popRef(validateNode(pushRef(vc, ref), v, target)), v, beside)

validateNode(vc, v, schema) ==
    CASE Is("boolean", schema) -> FailIf(~schema.boolean, vc, "false")
      [] Is("object", schema) ->
            IF "$ref" \in DOMAIN schema.object THEN validateRef(vc, v, schema.object)
            ELSE validateNodeKeywords(vc, v, schema.object)
      [] OTHER -> vc

validateSchema(doc, schema, order) == validateNode(Start(schema, order), doc, schema)

-----------------------------------------------------------------------------
(***************************************************************************)
(* checkSchemaSupported, for StrictSchema: the unsupported keywords found  *)
(* by walking the places where schemas are kept.                           *)
(***************************************************************************)
unsupportedStrictKeywords ==
    {"dependentRequired", "dependentSchemas", "unevaluatedProperties", "unevaluatedItems",
     "prefixItems", "contains", "propertyNames"}

ValuesOf(v) == IF Is("object", v) THEN {v.object[k] : k \in DOMAIN v.object} ELSE {}
ItemsOf(v) == IF Is("array", v) THEN ToSet(v.array) ELSE {}

\* The subschemas the walk enters below a node.
Walked(node) ==
    IF ~Is("object", node) THEN ItemsOf(node)
    ELSE LET s == node.object
             under(K) == UNION {At(s, k) : k \in K}
         IN  UNION {ValuesOf(v) : v \in under({"properties", "$defs", "definitions"})}
               \cup under({"items", "additionalProperties", "not", "if", "then", "else"})
               \cup UNION {ItemsOf(v) : v \in under({"oneOf", "anyOf", "allOf"})}

RECURSIVE walkSchemaKeywords(_)
walkSchemaKeywords(node) ==
    (IF Is("object", node) THEN DOMAIN node.object \cap unsupportedStrictKeywords ELSE {})
      \cup UNION {walkSchemaKeywords(sub) : sub \in Walked(node)}

-----------------------------------------------------------------------------
(***************************************************************************)
(* What validation promises, stated per keyword for a value and a schema   *)
(* and without an order.  `open` holds the references being followed: one  *)
(* that leads back to itself, or too deep, is not satisfied.               *)
(***************************************************************************)
RECURSIVE Satisfies(_, _, _, _)

KeywordsHold(root, v, s, open) ==
    LET holds(sub) == Satisfies(root, v, sub, open)
        some(k) == {i \in DOMAIN Elements(s, k) : holds(s[k].array[i])}
    IN  /\ "if" \in DOMAIN s => \A sub \in At(s, IF holds(s["if"]) THEN "then" ELSE "else") : holds(sub)
        /\ \A sub \in At(s, "not") : ~holds(sub)
        /\ some("allOf") = DOMAIN Elements(s, "allOf")
        /\ Elements(s, "anyOf") # <<>> => some("anyOf") # {}
        /\ Elements(s, "oneOf") # <<>> => Cardinality(some("oneOf")) = 1
        /\ \A t \in At(s, "type") : checkType(v, t)
        /\ checkEnum(v, s)
        /\ \A c \in At(s, "const") : c = v
        /\ Is("string", v) => validateString(v.string, s) = {}
        /\ Is("number", v) => validateNumber(v.number, s) = {}
        /\ Is("object", v) =>
              LET o == v.object
                  declared(k) == s["properties"].object[k]
              IN  /\ Counts(Cardinality(DOMAIN o), s, "minProperties", "maxProperties") = {}
                  /\ ~Missing(o, s)
                  /\ \A k \in DOMAIN o :
                        IF k \in Properties(s)
                        THEN Is("object", declared(k)) => Satisfies(root, o[k], declared(k), open)
                        ELSE \A ap \in At(s, "additionalProperties") : Satisfies(root, o[k], ap, open)
        /\ Is("array", v) =>
              /\ Counts(Len(v.array), s, "minItems", "maxItems") = {}
              /\ At(s, "uniqueItems") = {Boolean(TRUE)} => ~Duplicates(v.array)
              /\ \A i \in DOMAIN v.array, sub \in At(s, "items") : Satisfies(root, v.array[i], sub, open)

Satisfies(root, v, schema, open) ==
    CASE Is("boolean", schema) -> schema.boolean
      [] Is("object", schema) ->
            LET s == schema.object
            IN  /\ \A r \in At(s, "$ref") :
                      /\ Is("string", r) /\ r.string \notin open
                      /\ Cardinality(open) < MaxSchemaRefDepth
                      /\ \E target \in resolveLocalRef(root, r.string) :
                             Satisfies(root, v, target, open \cup {r.string})
                /\ KeywordsHold(root, v, s, open)
      [] OTHER -> TRUE
=============================================================================
