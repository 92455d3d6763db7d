-------------------------- MODULE CommandContract --------------------------
(***************************************************************************)
(* What a client may send a model: the declared types of a command's       *)
(* fields (core/typespec.py), their constraints (core/fields.py), the      *)
(* schema published for them (interface/model/schema.py), and the three    *)
(* places a payload meets them: the body that starts a session             *)
(* (runner/session_start.py), a client's command, and a step request.      *)
(*                                                                         *)
(* A value is what JSON decodes to, abstracted: a number keeps its         *)
(* magnitude in halves when it is a float, a string only its length.  The  *)
(* modelled model has one command, set_f, with one argument f; Declared    *)
(* gives the declarations f may have, one of which holds in a behaviour.   *)
(***************************************************************************)
EXTENDS Naturals, Sequences, FiniteSets, TLC

CONSTANTS
    Declared,      \* the declarations of f, by a name for each: [spec, info]
    SentFor,       \* the values a client may send for f, by declaration
    MaxSteps,      \* MAX_STEPS of session_start.py
    MaxCalls       \* bound: commands in one body or one step request

VARIABLES
    decl,          \* the declaration of f in the running model
    canStep,       \* whether the model runs the default step loop
    stage,         \* "idle", "running" or "ended"
    startInput,    \* the accepted session start: [generation, steps]
    startQueue,    \* starting commands not submitted yet
    postedCalls,   \* the calls the model received last, with their arguments
    refusal        \* the last refusal: [at, why, call]

contractVars == <<decl, canStep, stage, startInput, startQueue, postedCalls, refusal>>

-----------------------------------------------------------------------------
(* Values *)

Val(k, n) == [k |-> k, n |-> n, items |-> <<>>, entries |-> <<>>]
NoneVal == Val("none", 0)
BoolVal(b) == Val("bool", IF b THEN 1 ELSE 0)
IntVal(n) == Val("int", n)
FloatVal(halves) == Val("float", halves)
StrVal(n) == Val("str", n)
FileVal == Val("file", 0)
ListVal(items) == [Val("list", 0) EXCEPT !.items = items]
MapVal(entries) == [Val("map", 0) EXCEPT !.entries = entries]
Reference == MapVal("upload_id" :> StrVal(1))

Numeric(v) == v.k \in {"bool", "int", "float"}
Halves(v) == IF v.k = "float" THEN v.n ELSE 2 * v.n
Integral(v) == v.k = "int" \/ (v.k = "float" /\ v.n % 2 = 0)

\* Python's ==: a bool equals the integer of its value.
PyEquals(a, b) == a = b \/ (Numeric(a) /\ Numeric(b) /\ Halves(a) = Halves(b))

IsReference(v) ==
    /\ v.k = "map"
    /\ "upload_id" \in DOMAIN v.entries
    /\ v.entries["upload_id"].k = "str"

-----------------------------------------------------------------------------
(* Types *)

Spec1(t, of) == [t |-> t, of |-> of]
Plain(t) == [t |-> t]

\* Faulty: an integral float is refused for an int field.
PrimitiveFitsStrictly(t, v) ==
    CASE t = "bool"  -> v.k = "bool"
      [] t = "int"   -> v.k = "int"
      [] t = "float" -> v.k \in {"int", "float"}
      [] t = "str"   -> v.k = "str"

PrimitiveFits(t, v) ==
    CASE t = "bool"  -> v.k = "bool"
      [] t = "int"   -> Integral(v)
      [] t = "float" -> v.k \in {"int", "float"}
      [] t = "str"   -> v.k = "str"

RECURSIVE Check(_, _)
Check(spec, v) ==
    CASE spec.t = "any" -> TRUE
      [] spec.t \in {"bool", "int", "float", "str"} -> PrimitiveFits(spec.t, v)
      [] spec.t = "literal" -> \E w \in spec.of : PyEquals(v, w)
      [] spec.t = "enum" -> v.k = "member" \/ \E w \in spec.of : PyEquals(v, w)
      [] spec.t = "list" ->
            v.k = "list" /\ \A i \in DOMAIN v.items : Check(spec.of, v.items[i])
      [] spec.t = "dict" ->
            v.k = "map" /\ \A e \in DOMAIN v.entries : Check(spec.of, v.entries[e])
      [] spec.t = "data" ->
            /\ v.k = "map"
            /\ spec.required \subseteq DOMAIN v.entries
            /\ \A e \in DOMAIN v.entries \cap DOMAIN spec.of :
                    Check(spec.of[e], v.entries[e])
      [] spec.t = "opt" -> v.k = "none" \/ Check(spec.of, v)
      [] spec.t = "upload" -> v.k = "file" \/ IsReference(v)

\* A dataclass has no coerce of its own: a mapping stays a mapping.
RECURSIVE Coerce(_, _)
Coerce(spec, v) ==
    CASE spec.t = "int" /\ v.k = "float" -> IntVal(v.n \div 2)
      [] spec.t = "enum" -> Val("member", v.n)
      [] spec.t = "list" ->
            ListVal([i \in DOMAIN v.items |-> Coerce(spec.of, v.items[i])])
      [] spec.t = "dict" ->
            MapVal([e \in DOMAIN v.entries |-> Coerce(spec.of, v.entries[e])])
      [] spec.t = "opt" /\ v.k # "none" -> Coerce(spec.of, v)
      [] OTHER -> v

\* Faulty: the entries of a dict are not looked into.
RECURSIVE DeclaresUploadFlat(_)
DeclaresUploadFlat(spec) ==
    CASE spec.t = "upload" -> TRUE
      [] spec.t \in {"opt", "list"} -> DeclaresUploadFlat(spec.of)
      [] spec.t = "data" -> \E e \in DOMAIN spec.of : DeclaresUploadFlat(spec.of[e])
      [] OTHER -> FALSE

RECURSIVE DeclaresUpload(_)
DeclaresUpload(spec) ==
    CASE spec.t = "upload" -> TRUE
      [] spec.t \in {"opt", "list", "dict"} -> DeclaresUpload(spec.of)
      [] spec.t = "data" -> \E e \in DOMAIN spec.of : DeclaresUpload(spec.of[e])
      [] OTHER -> FALSE

\* The walk follows the declared type, never the shape of the value.
RECURSIVE ResolveUploads(_, _)
ResolveUploads(spec, v) ==
    CASE spec.t = "opt" /\ v.k # "none" -> ResolveUploads(spec.of, v)
      [] spec.t = "list" /\ v.k = "list" /\ DeclaresUpload(spec.of) ->
            ListVal([i \in DOMAIN v.items |-> ResolveUploads(spec.of, v.items[i])])
      [] spec.t = "dict" /\ v.k = "map" /\ DeclaresUpload(spec.of) ->
            MapVal([e \in DOMAIN v.entries |-> ResolveUploads(spec.of, v.entries[e])])
      [] spec.t = "data" /\ v.k = "map" ->
            MapVal([e \in DOMAIN v.entries |->
                      IF e \in DOMAIN spec.of
                        THEN ResolveUploads(spec.of[e], v.entries[e])
                        ELSE v.entries[e]])
      [] spec.t = "upload" /\ IsReference(v) -> FileVal
      [] OTHER -> v

-----------------------------------------------------------------------------
(* Constraints.  Each bound is a set: empty when not declared.  A value     *)
(* that cannot be compared, or has no length, breaks the bound.             *)

NoInfo == [choices |-> {}, ge |-> {}, le |-> {}, minLength |-> {}, maxLength |-> {},
           default |-> FALSE]

HasLength(v) == v.k \in {"str", "list", "map"}
Length(v) ==
    CASE v.k = "str" -> v.n
      [] v.k = "list" -> Len(v.items)
      [] v.k = "map" -> Cardinality(DOMAIN v.entries)

\* Faulty: the lower bound is exclusive.
ValidateFieldOffByOne(v, info) ==
    /\ info.choices # {} => \E w \in info.choices : PyEquals(v, w)
    /\ \A b \in info.ge : Numeric(v) /\ Halves(v) > 2 * b
    /\ \A b \in info.le : Numeric(v) /\ Halves(v) <= 2 * b
    /\ \A b \in info.minLength : HasLength(v) /\ Length(v) >= b
    /\ \A b \in info.maxLength : HasLength(v) /\ Length(v) <= b

ValidateField(v, info) ==
    /\ info.choices # {} => \E w \in info.choices : PyEquals(v, w)
    /\ \A b \in info.ge : Numeric(v) /\ Halves(v) >= 2 * b
    /\ \A b \in info.le : Numeric(v) /\ Halves(v) <= 2 * b
    /\ \A b \in info.minLength : HasLength(v) /\ Length(v) >= b
    /\ \A b \in info.maxLength : HasLength(v) /\ Length(v) <= b

-----------------------------------------------------------------------------
(* The published schema, a function from JSON Schema keywords. *)

EnumSchema(values) ==
    LET Uniform(k) == \A w \in values : w.k = k
        Typed(name) == [type |-> name, enum |-> values]
    IN  CASE Uniform("bool") -> Typed("boolean")
          [] Uniform("int") -> Typed("integer")
          [] Uniform("float") -> Typed("number")
          [] Uniform("str") -> Typed("string")
          [] OTHER -> [enum |-> values]

JsonType == [bool |-> "boolean", int |-> "integer", float |-> "number", str |-> "string"]

RECURSIVE ToJsonSchema(_)
ToJsonSchema(spec) ==
    CASE spec.t = "any" -> <<>>
      [] spec.t \in DOMAIN JsonType -> [type |-> JsonType[spec.t]]
      [] spec.t \in {"literal", "enum"} -> EnumSchema(spec.of)
      [] spec.t = "list" -> [type |-> "array", items |-> ToJsonSchema(spec.of)]
      [] spec.t = "dict" ->
            [type |-> "object", additionalProperties |-> ToJsonSchema(spec.of)]
      [] spec.t = "data" ->
            [type |-> "object", required |-> spec.required,
             properties |-> [e \in DOMAIN spec.of |-> ToJsonSchema(spec.of[e])]]
      [] spec.t = "opt" -> [anyOf |-> <<ToJsonSchema(spec.of), [type |-> "null"]>>]
      [] spec.t = "upload" -> [ref |-> "ReactorUploadReference"]

UploadReferenceSchema ==
    [type |-> "object",
     properties |-> [upload_id |-> [type |-> "string"], name |-> [type |-> "string"],
                     mime_type |-> [type |-> "string"], size |-> [type |-> "integer"]],
     required |-> {"upload_id", "name", "mime_type", "size"}]

\* The length bounds become string keywords whatever the field's type is.
MergeConstraints(schema, info) ==
    LET Keyword(key, bound) == IF bound = {} THEN <<>> ELSE key :> CHOOSE b \in bound : TRUE
        Choices == IF info.choices = {} THEN <<>> ELSE "enum" :> info.choices
    IN  Choices @@ Keyword("minimum", info.ge) @@ Keyword("maximum", info.le)
        @@ Keyword("minLength", info.minLength) @@ Keyword("maxLength", info.maxLength)
        @@ schema

CommandFieldSchema(field) == MergeConstraints(ToJsonSchema(field.spec), field.info)

\* JSON Schema's own reading of a schema (external).
RECURSIVE Conforms(_, _)
Conforms(schema, v) ==
    LET Has(key) == key \in DOMAIN schema
        IsType(name) ==
            CASE name = "boolean" -> v.k = "bool"
              [] name = "integer" -> Integral(v)
              [] name = "number" -> v.k \in {"int", "float"}
              [] name = "string" -> v.k = "str"
              [] name = "array" -> v.k = "list"
              [] name = "object" -> v.k = "map"
              [] name = "null" -> v.k = "none"
        Same(w) == PyEquals(v, w) /\ (v.k = "bool") = (w.k = "bool")
        Number == v.k \in {"int", "float"}
    IN  /\ Has("type") => IsType(schema.type)
        /\ Has("enum") => \E w \in schema.enum : Same(w)
        /\ (Has("minimum") /\ Number) => Halves(v) >= 2 * schema.minimum
        /\ (Has("maximum") /\ Number) => Halves(v) <= 2 * schema.maximum
        /\ (Has("minLength") /\ v.k = "str") => v.n >= schema.minLength
        /\ (Has("maxLength") /\ v.k = "str") => v.n <= schema.maxLength
        /\ (Has("items") /\ v.k = "list") =>
                \A i \in DOMAIN v.items : Conforms(schema.items, v.items[i])
        /\ (Has("additionalProperties") /\ v.k = "map") =>
                \A e \in DOMAIN v.entries : Conforms(schema.additionalProperties, v.entries[e])
        /\ (Has("properties") /\ v.k = "map") =>
                \A e \in DOMAIN v.entries \cap DOMAIN schema.properties :
                    Conforms(schema.properties[e], v.entries[e])
        /\ (Has("required") /\ v.k = "map") => schema.required \subseteq DOMAIN v.entries
        /\ Has("anyOf") => \E i \in DOMAIN schema.anyOf : Conforms(schema.anyOf[i], v)
        /\ Has("ref") => Conforms(UploadReferenceSchema, v)

-----------------------------------------------------------------------------
(* Calls *)

Field == Declared[decl]
Command == "set_f"

\* ModelContract.validate: why a call is refused, or "" when it is not.
Validate(call) ==
    CASE call.name # Command -> "unknown"
      [] DOMAIN call.args \ {"f"} # {} -> "unexpected"
      [] DOMAIN call.args = {} -> IF Field.info.default THEN "" ELSE "missing"
      [] ~Check(Field.spec, call.args["f"]) -> "type"
      [] ~ValidateField(call.args["f"], Field.info) -> "constraint"
      [] OTHER -> ""

\* The arguments the handler is called with.
Coerced(call) ==
    [call EXCEPT !.args = [a \in DOMAIN @ |-> Coerce(Field.spec, @[a])]]

\* ModelRunner._inline_upload_fields
InlineUpload(call) ==
    call.name = Command /\ "f" \in DOMAIN call.args /\ DeclaresUpload(Field.spec)

\* The arguments once every upload has arrived: the ones beside the
\* arguments first, then the references inside them.
ResolveCommandUploads(call) ==
    LET beside == [a \in call.uploads |-> FileVal] @@ call.args
    IN  [call EXCEPT !.args =
            IF InlineUpload(call)
              THEN [beside EXCEPT !["f"] = ResolveUploads(Field.spec, @)]
              ELSE beside]

NeedsUpload(call) == ResolveCommandUploads(call).args # call.args

Call(name, args, uploads) == [name |-> name, args |-> args, uploads |-> uploads]

Args == {<<>>} \cup {"f" :> SentFor[decl][i] : i \in DOMAIN SentFor[decl]}
               \cup {("f" :> SentFor[decl][1]) @@ ("g" :> NoneVal)}

\* Starting commands and a step's state keys carry their uploads inline only.
InlineCalls == {Call(Command, a, {}) : a \in Args} \cup {Call("set_g", <<>>, {})}
ClientCalls == InlineCalls \cup {Call(Command, a, {"f"}) : a \in Args}
CallLists(calls) == UNION {[1 .. n -> calls] : n \in 0 .. MaxCalls}

NoStart == [generation |-> "streamed", steps |-> 0]
NoRefusal == [at |-> "none", why |-> "", call |-> <<>>]
Refusal(at, why, call) == [at |-> at, why |-> why, call |-> call]

-----------------------------------------------------------------------------
(* Starting a session *)

\* parse_session_start: what each key of the body may hold.
StepsParse(raw) ==
    raw.k = "none" \/ (raw.k = "int" /\ raw.n >= 1 /\ raw.n <= MaxSteps)
GenerationParses(raw) == raw \in {"absent", "streamed", "stepped"}

Bodies ==
    [input : {"absent", "malformed"}, calls : {<<>>},
     steps : {NoneVal, BoolVal(TRUE), FloatVal(2), IntVal(0), IntVal(1), IntVal(MaxSteps + 1)},
     generation : {"absent", "streamed", "stepped", "other"}]
    \cup
    [input : {"commands"}, calls : CallLists(InlineCalls),
     steps : {NoneVal, IntVal(1)}, generation : {"absent", "stepped"}]

ParseSessionStart(body) ==
    body.input # "malformed" /\ StepsParse(body.steps) /\ GenerationParses(body.generation)

GenerationOf(body) == IF body.generation = "absent" THEN "streamed" ELSE body.generation

\* Faulty: only the first command of the list is checked.
FirstRefusalOfHead(calls) == IF calls = <<>> THEN "" ELSE Validate(Head(calls))

\* ModelRunner._first_refusal, over the list as the client wrote it.
FirstRefusal(calls) ==
    LET Refused == {i \in DOMAIN calls : Validate(calls[i]) # ""}
    IN  IF Refused = {} THEN ""
        ELSE Validate(calls[CHOOSE i \in Refused : \A j \in Refused : i <= j])

CheckGeneration(body) == GenerationOf(body) = "stepped" => canStep
CheckStartingInput(body) == FirstRefusal(body.calls) = ""

Unattended == startInput.generation = "streamed" /\ startInput.steps > 0

SessionBegins(body) ==
    /\ stage = "idle"
    /\ \/ /\ ParseSessionStart(body) /\ CheckGeneration(body) /\ CheckStartingInput(body)
          /\ stage' = "running"
          /\ startInput' = [generation |-> GenerationOf(body), steps |-> body.steps.n]
          /\ startQueue' = body.calls
          /\ refusal' = NoRefusal
       \/ /\ ~(ParseSessionStart(body) /\ CheckGeneration(body) /\ CheckStartingInput(body))
          /\ refusal' = Refusal("start", "invalid", <<>>)
          /\ UNCHANGED <<stage, startInput, startQueue>>
    /\ UNCHANGED <<decl, canStep, postedCalls>>

-----------------------------------------------------------------------------
(* Submitting *)

\* Bridge.submit_command of resolved arguments, for a call from `at`.
SubmitCommand(at, call) ==
    LET why == Validate(ResolveCommandUploads(call))
    IN  \/ /\ why = ""
           /\ postedCalls' = <<Coerced(ResolveCommandUploads(call))>>
           /\ refusal' = NoRefusal
        \/ /\ why # ""
           /\ refusal' = Refusal(at, why, call)
           /\ UNCHANGED postedCalls

ApplyStartingCommand ==
    /\ stage = "running" /\ startQueue # <<>>
    /\ SubmitCommand("starting", Head(startQueue))
    /\ LET ends == refusal'.at # "none" /\ Unattended
       IN  /\ startQueue' = IF ends THEN <<>> ELSE Tail(startQueue)
           /\ stage' = IF ends THEN "ended" ELSE stage
    /\ UNCHANGED <<decl, canStep, startInput>>

StartingUploadMissing ==
    /\ stage = "running" /\ startQueue # <<>>
    /\ NeedsUpload(Head(startQueue))
    /\ startQueue' = IF Unattended THEN <<>> ELSE Tail(startQueue)
    /\ stage' = IF Unattended THEN "ended" ELSE stage
    /\ refusal' = Refusal("starting", "upload", Head(startQueue))
    /\ UNCHANGED <<decl, canStep, startInput, postedCalls>>

ClientCommand(call) ==
    /\ stage = "running" /\ startQueue = <<>>
    /\ \/ SubmitCommand("client", call)
       \/ /\ NeedsUpload(call)
          /\ refusal' = Refusal("client", "upload", call)
          /\ UNCHANGED postedCalls
    /\ UNCHANGED <<decl, canStep, stage, startInput, startQueue>>

\* Every call's uploads are resolved before any call is checked, and nothing
\* is posted unless every call passes.
SubmitStep(calls) ==
    /\ stage = "running" /\ startQueue = <<>>
    /\ LET resolved == [i \in DOMAIN calls |-> ResolveCommandUploads(calls[i])]
           why == FirstRefusal(resolved)
       IN  \/ /\ startInput.generation # "stepped"
              /\ refusal' = Refusal("step", "streamed", <<>>)
              /\ UNCHANGED postedCalls
           \/ /\ startInput.generation = "stepped"
              /\ \E i \in DOMAIN calls : NeedsUpload(calls[i])
              /\ refusal' = Refusal("step", "upload", <<>>)
              /\ UNCHANGED postedCalls
           \/ /\ startInput.generation = "stepped" /\ why # ""
              /\ refusal' = Refusal("step", why, <<>>)
              /\ UNCHANGED postedCalls
           \/ /\ startInput.generation = "stepped" /\ why = ""
              /\ postedCalls' = [i \in DOMAIN resolved |-> Coerced(resolved[i])]
              /\ refusal' = NoRefusal
    /\ UNCHANGED <<decl, canStep, stage, startInput, startQueue>>

SessionOver ==
    /\ stage \in {"running", "ended"}
    /\ stage' = "idle" /\ startInput' = NoStart /\ startQueue' = <<>>
    /\ postedCalls' = <<>> /\ refusal' = NoRefusal
    /\ UNCHANGED <<decl, canStep>>

-----------------------------------------------------------------------------
ContractInit ==
    /\ decl \in DOMAIN Declared /\ canStep \in BOOLEAN
    /\ stage = "idle" /\ startInput = NoStart /\ startQueue = <<>>
    /\ postedCalls = <<>> /\ refusal = NoRefusal

ContractNext ==
    \/ \E body \in Bodies : SessionBegins(body)
    \/ ApplyStartingCommand
    \/ StartingUploadMissing
    \/ \E call \in ClientCalls : ClientCommand(call)
    \/ \E calls \in CallLists(InlineCalls) : SubmitStep(calls)
    \/ SessionOver

ContractSpec == ContractInit /\ [][ContractNext]_contractVars

-----------------------------------------------------------------------------
(* Properties *)

LengthBound == Field.info.minLength \cup Field.info.maxLength # {}

\* "a session that starts never has a starting command refused for its
\* arguments" (runner.py:1344).
StartedNeverRefused ==
    refusal.at = "starting" => refusal.why = "upload"

\* The check before the start sees references, the one when the command runs
\* sees the files, and they agree (runner.py _check_starting_input), but for a
\* length bound on an upload field: the reference has a length and the file
\* has none (core/fields.py:250).
StartedInputFits ==
    StartedNeverRefused \/ (Field.spec.t = "upload" /\ LengthBound)

\* A value in the Python form its declared type promises a handler, with
\* every upload fetched.  The fields of a dataclass are promised their type
\* and their files, not their Python form.
RECURSIVE Sound(_, _)
Sound(spec, v) ==
    CASE spec.t \in {"bool", "int", "str"} -> v.k = spec.t
      [] spec.t = "enum" -> v.k = "member"
      [] spec.t = "list" -> \A i \in DOMAIN v.items : Sound(spec.of, v.items[i])
      [] spec.t = "dict" -> \A e \in DOMAIN v.entries : Sound(spec.of, v.entries[e])
      [] spec.t = "data" ->
            \A e \in DOMAIN v.entries \cap DOMAIN spec.of :
                /\ Check(spec.of[e], v.entries[e])
                /\ spec.of[e].t = "upload" => v.entries[e].k = "file"
      [] spec.t = "opt" -> v.k = "none" \/ Sound(spec.of, v)
      [] spec.t = "upload" -> v.k = "file"
      [] OTHER -> Check(spec, v)

\* Every argument a handler gets is in its type's Python form: an integral
\* float narrowed, an enum member for its value, and a file, never a
\* reference, in every position the contract types as an upload; a mapping of
\* the model's own that carries an upload_id stays a mapping
\* (contract.validate, resolve_uploads).
ArgumentsArriveTyped ==
    \A i \in DOMAIN postedCalls :
        "f" \in DOMAIN postedCalls[i].args => Sound(Field.spec, postedCalls[i].args["f"])

\* "request-time validation and the published schema are derived from the same
\* traversal, so they cannot drift" (core/typespec.py:12): a value the published
\* schema accepts is not refused.
SchemaCannotDrift ==
    /\ refusal.at \in {"client", "starting"} /\ refusal.why \in {"type", "constraint"}
    /\ refusal.call.uploads = {}
    => ~Conforms(CommandFieldSchema(Field), refusal.call.args["f"])

\* The bounds of f, as the schema publishes them, speak of v: JSON Schema
\* reads minimum and maximum on numbers only, minLength and maxLength on
\* strings only (interface/model/schema.py:230-237).
BoundsSpeakOf(v) ==
    /\ Field.info.ge \cup Field.info.le # {} => v.k \in {"int", "float"}
    /\ LengthBound => v.k = "str"

\* A value the published schema accepts is not refused, but where
\* validate_field (core/fields.py:233-262) applies a bound the schema does not
\* put on such a value: the null of an optional number, a list or a file under
\* the length bound that a sequence may declare (core/fields.py:44).
SchemaIsHonoured ==
    \/ SchemaCannotDrift
    \/ refusal.why = "constraint" /\ ~BoundsSpeakOf(refusal.call.args["f"])

=============================================================================
