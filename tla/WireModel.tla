------------------------------- MODULE WireModel -------------------------------
(***************************************************************************)
(* The record model crates/model gives its users: a JSON value is checked  *)
(* against the schema, decoded into a typed record, edited, serialized and *)
(* checked again (crates/model/src/lib.rs over the types tools/gen-schema.py*)
(* generates), and the row that carries a record in the columnar form of a *)
(* segment (tools/gen-parquet-twin.py).                                    *)
(*                                                                         *)
(* A JSON value is a tagged pair.  Floats are counted in halves, so that   *)
(* there are whole ones and others; integers have a small width with the   *)
(* shape of the real one: signed, unsigned above it, and a 32-bit cap; and *)
(* a double holds the smaller of them, and of the larger only some.        *)
(* The schema is data, as it is in the code.  Kinds and fields that take   *)
(* the same path through it as one that is here are left out, and so are   *)
(* error paths: a refusal is a refusal.                                    *)
(***************************************************************************)
EXTENDS Maps, Integers, Sequences, Functions, TLC

CONSTANTS
  I64,        \* the largest signed integer, standing for 2^63 - 1
  U32,        \* the largest rank or group, standing for 2^32 - 1
  Mantissa,   \* as many steps of one size as a double can tell: 2^53
  Scales      \* the sizes of a step, in halves: the powers of two from 1 on

I64Min == -I64 - 1
U64 == 2 * I64 + 1

ASSUME WidthAssumption ==
  /\ {I64, U32, Mantissa} \subseteq Nat
  /\ 0 < U32 /\ U32 < Mantissa /\ Mantissa < I64

\* Some scale reaches the largest integer.
ASSUME ScaleAssumption ==
  /\ Scales \subseteq Nat \ {0} /\ {1, 2} \subseteq Scales
  /\ \E scale \in Scales : 2 * U64 <= scale * Mantissa

-----------------------------------------------------------------------------
\* JSON values.  A typed float may also be NaN, which JSON has no text for.
Null == <<"null">>
Bool(b) == <<"boolean", b>>
Integer(n) == <<"integer", n>>
Float(halves) == <<"float", halves>>
Str(s) == <<"string", s>>
Arr(items) == <<"array", items>>
Obj(fields) == <<"object", fields>>
NaN == <<"nan">>
Tag(v) == v[1]
Body(v) == v[2]
Has(v, f) == f \in DOMAIN Body(v)
Field(v, f) == Body(v)[f]

IsNumber(v) == Tag(v) \in {"integer", "float"}
Halves(v) == IF Tag(v) = "integer" THEN 2 * Body(v) ELSE Body(v)

\* Whether a number is whole and within 64 bits: any JSON integer, or a float
\* from -2^63 to below 2^63.
IsInteger(v) ==
  \/ Tag(v) = "integer"
  \/ /\ Tag(v) = "float" /\ Body(v) % 2 = 0
     /\ 2 * I64Min <= Body(v) /\ Body(v) < 2 * (I64 + 1)
integer_value(v) == Halves(v) \div 2

-----------------------------------------------------------------------------
\* Doubles, in halves: so many steps of some size.
Reaches(scale, h) == -scale * Mantissa <= h /\ h <= scale * Mantissa
IsDouble(h) == \E scale \in Scales : Reaches(scale, h) /\ h % scale = 0

\* The step between the doubles around a number.
Spacing(h) ==
  CHOOSE scale \in Scales :
    Reaches(scale, h) /\ \A other \in Scales : Reaches(other, h) => scale <= other

\* The double nearest to a number; of two, the one of an even number of steps.
Nearest(h) ==
  LET step == Spacing(h)
      below == h \div step
      IsNearer == 2 * (h % step) < step \/ (2 * (h % step) = step /\ below % 2 = 0)
  IN (IF IsNearer THEN below ELSE below + 1) * step

Rounded(h) == IF IsDouble(h) THEN h ELSE Nearest(h)

\* A number read as a double.
as_f64(v) == Rounded(Halves(v))

-----------------------------------------------------------------------------
\* The schema: a rule has only the keywords it uses.
Of(type) == [type |-> {type}]
Counter == [type |-> {"integer"}, minimum |-> 0, maximum |-> I64]
Ordinal == [type |-> {"integer"}, minimum |-> 0, maximum |-> U32]
Signed == [type |-> {"integer"}, minimum |-> I64Min, maximum |-> I64]
Clock == Of("number")
Text == Of("string")
Tier == [type |-> {"string", "null"}]
ListOf(rule) == [type |-> {"array"}, items |-> rule]
Kind(kind) == [type |-> {"string"}, const |-> Str(kind)]

Definition(required, properties) ==
  [type |-> {"object"}, required |-> required, properties |-> properties]

\* if/then over one constant field, as the schema's conditional rules are.
When(field, value, then) ==
  [if |-> [properties |-> Maplet(field, [const |-> value]), required |-> {field}],
   then |-> then]

Defs ==
  [ Endpoint |-> Definition({"msgs_seen", "source"},
      [msgs_seen |-> Counter, source |-> Text, last_msg_at_ms |-> Clock]),
    store |-> Definition({"kind", "at_ms", "instance_id", "block_id", "n_tokens", "tier"},
      [kind |-> Kind("store"), at_ms |-> Clock, instance_id |-> Text, block_id |-> Text,
       n_tokens |-> Counter, tier |-> Tier, dp_rank |-> Ordinal, group_idx |-> Ordinal,
       content_id |-> Text, parent_id |-> Text, parent_unknown |-> Of("boolean"),
       extra_keys |-> ListOf(Text), lora_id |-> Counter, lora_name |-> Text,
       locality |-> Text, spec_sliding_window |-> Signed,
       seq |-> Counter])
      ++ [allOf |-> <<When("parent_unknown", Bool(TRUE),
                           [not |-> [required |-> {"parent_id"}]])>>],
    evict |-> Definition({"kind", "at_ms", "instance_id", "block_id"},
      [kind |-> Kind("evict"), at_ms |-> Clock, instance_id |-> Text, block_id |-> Text,
       tier |-> Tier, dp_rank |-> Ordinal, group_idx |-> Ordinal, seq |-> Counter,
       locality |-> Text, content_id |-> Text]),
    clear |-> Definition({"kind", "at_ms", "instance_id", "scope"},
      [kind |-> Kind("clear"), at_ms |-> Clock, instance_id |-> Text, scope |-> Text,
       tier |-> Text, dp_rank |-> Ordinal, group_idx |-> Ordinal, seq |-> Counter]),
    holder_reset |-> Definition({"kind", "at_ms", "instance_id", "boundary_ms"},
      [kind |-> Kind("holder_reset"), at_ms |-> Clock, instance_id |-> Text,
       boundary_ms |-> Clock, dp_rank |-> Ordinal, group_idx |-> Ordinal,
       seq |-> Counter]),
    agent_start |-> Definition({"kind", "at_ms", "egress", "endpoint_count"},
      [kind |-> Kind("agent_start"), at_ms |-> Clock, egress |-> Text,
       endpoint_count |-> Counter, canary |-> Text])
      ++ [allOf |-> <<When("egress", Str("pseudonymized"), [required |-> {"canary"}])>>],
    heartbeat |-> Definition({"kind", "at_ms", "msgs_seen", "endpoints"},
      [kind |-> Kind("heartbeat"), at_ms |-> Clock, msgs_seen |-> Counter,
       endpoints |-> ListOf([ref |-> "Endpoint"])]),
    identity_refused |-> Definition({"kind", "at_ms", "window_start_ms", "window_end_ms"},
      [kind |-> Kind("identity_refused"), at_ms |-> Clock,
       window_start_ms |-> Clock, window_end_ms |-> Clock]),
    segments_dropped |-> Definition({"kind", "at_ms", "first_seq", "last_seq"},
      [kind |-> Kind("segments_dropped"), at_ms |-> Clock,
       first_seq |-> Counter, last_seq |-> Counter]) ]

\* Endpoint is a structure, not a record kind.
RECORD_KINDS == DOMAIN Defs \ {"Endpoint"}

-----------------------------------------------------------------------------
\* check() of lib.rs.
Uses(rule, keyword) == keyword \in DOMAIN rule

Accepts(type, v) ==
  CASE type = "integer" -> IsNumber(v) /\ IsInteger(v)
    [] type = "number" -> IsNumber(v)
    [] OTHER -> Tag(v) = type

\* Bounds are on integer values only.
InRange(v, rule) ==
  IsNumber(v) /\ IsInteger(v) =>
    /\ Uses(rule, "minimum") => rule.minimum <= integer_value(v)
    /\ Uses(rule, "maximum") => integer_value(v) <= rule.maximum

\* A value against a rule, every keyword of it; Deeper checks what a keyword
\* leads to.
Meets(v, rule, Deeper(_, _)) ==
  IF Uses(rule, "ref") THEN Deeper(v, Defs[rule.ref])
  ELSE
    /\ Uses(rule, "const") => v = rule.const
    /\ Uses(rule, "type") => \E type \in rule.type : Accepts(type, v)
    /\ InRange(v, rule)
    /\ Tag(v) = "object" =>
         /\ Uses(rule, "required") => \A f \in rule.required : Has(v, f)
         /\ Uses(rule, "properties") =>
              \A f \in DOMAIN rule.properties \cap DOMAIN Body(v) :
                Deeper(Field(v, f), rule.properties[f])
    /\ Tag(v) = "array" /\ Uses(rule, "items") =>
         \A i \in DOMAIN Body(v) : Deeper(Body(v)[i], rule.items)
    /\ Uses(rule, "allOf") => \A i \in DOMAIN rule.allOf : Deeper(v, rule.allOf[i])
    /\ Uses(rule, "if") => (Deeper(v, rule.if) => Deeper(v, rule.then))
    /\ Uses(rule, "not") => ~Deeper(v, rule.not)

\* The function calls itself; no rule here is more than five deep: a record, a
\* list, a reference, a structure, a scalar.  A deeper one would meet nothing.
NoRule(v, rule) == FALSE
check1(v, rule) == Meets(v, rule, NoRule)
check2(v, rule) == Meets(v, rule, check1)
check3(v, rule) == Meets(v, rule, check2)
check4(v, rule) == Meets(v, rule, check3)
check(v, rule) == Meets(v, rule, check4)

\* The pairs of fields that must not be out of order: clocks are compared as
\* doubles, sequence numbers as integers.
WindowIsOrdered(v) ==
  as_f64(Field(v, "window_start_ms")) <= as_f64(Field(v, "window_end_ms"))
SequencesAreOrdered(v) ==
  integer_value(Field(v, "first_seq")) <= integer_value(Field(v, "last_seq"))

validate_record(v) ==
  /\ Tag(v) = "object"
  /\ Has(v, "kind") /\ Tag(Field(v, "kind")) = "string"
  /\ Has(v, "at_ms") /\ IsNumber(Field(v, "at_ms"))
  /\ LET kind == Body(Field(v, "kind")) IN
       /\ kind \in RECORD_KINDS => check(v, Defs[kind])
       /\ kind = "identity_refused" => WindowIsOrdered(v)
       /\ kind = "segments_dropped" => SequencesAreOrdered(v)

validate_producer_record(v) ==
  validate_record(v) /\ Body(Field(v, "kind")) \in RECORD_KINDS

\* A field read on its own, by a reader that asks for no other column.
validate_field(kind, f, v) ==
  kind \in RECORD_KINDS /\ f \in DOMAIN Defs[kind].properties =>
    check(v, Defs[kind].properties[f])

-----------------------------------------------------------------------------
\* normalize_integers() of lib.rs: whole floats where the schema has integers.
\* Mutant: a record's own fields only, not those of the structures in it.
normalize_integers_Shallow(v, rule) ==
  Obj([f \in DOMAIN Body(v) |->
         IF /\ f \in DOMAIN rule.properties /\ IsNumber(Field(v, f))
            /\ rule.properties[f].type = {"integer"}
         THEN Integer(integer_value(Field(v, f))) ELSE Field(v, f)])

\* Wherever the rule leads, which Deeper follows.
Normal(v, rule, Deeper(_, _)) ==
  CASE Uses(rule, "ref") -> Deeper(v, Defs[rule.ref])
    [] Uses(rule, "type") /\ "integer" \in rule.type /\ IsNumber(v) /\ IsInteger(v) ->
         IF integer_value(v) <= I64 THEN Integer(integer_value(v)) ELSE v
    [] Uses(rule, "properties") /\ Tag(v) = "object" ->
         Obj([f \in DOMAIN Body(v) |->
                IF f \in DOMAIN rule.properties
                THEN Deeper(Field(v, f), rule.properties[f])
                ELSE Field(v, f)])
    [] Uses(rule, "items") /\ Tag(v) = "array" ->
         Arr([i \in DOMAIN Body(v) |-> Deeper(Body(v)[i], rule.items)])
    [] OTHER -> v

AsItIs(v, rule) == v
normal1(v, rule) == Normal(v, rule, AsItIs)
normal2(v, rule) == Normal(v, rule, normal1)
normal3(v, rule) == Normal(v, rule, normal2)
normal4(v, rule) == Normal(v, rule, normal3)
normalize_integers(v, rule) == Normal(v, rule, normal4)

-----------------------------------------------------------------------------
\* The generated types: a structure keeps the fields its definition names and,
\* beside them, every other one.  An absent field is absent from the structure.
NoRecord == [refused |-> TRUE]

\* What a Rust field of the rule's column type can be made of.
Fits(v, rule) ==
  CASE rule.type = {"integer"} ->
         Tag(v) = "integer" /\ I64Min <= Body(v) /\ Body(v) <= I64
    [] rule.type = {"number"} -> IsNumber(v)
    [] OTHER -> Tag(v) \in rule.type

\* A number is a double in the generated types, also one written as an integer.
Typed(v, rule) == IF rule.type = {"number"} THEN Float(as_f64(v)) ELSE v

\* A field that is a list of structures, and their definition.
IsNested(def, f) ==
  Uses(def.properties[f], "items") /\ Uses(def.properties[f].items, "ref")
Part(def, f) == Defs[def.properties[f].items.ref]

\* Mutant: a null is an absent field.
Known_NotNull(v, def) ==
  {f \in DOMAIN def.properties \cap DOMAIN Body(v) : Field(v, f) # Null}

\* The fields of a value that the structure has a place for.
Known(v, def) == DOMAIN def.properties \cap DOMAIN Body(v)

\* A value as the structure of its definition, or none where a field does not
\* fit its column type; Inner makes the structures of a list.
StructureOf(v, def, Inner(_, _)) ==
  LET known == Known(v, def)
      Parts(f) == [i \in DOMAIN Body(Field(v, f)) |->
                     Inner(Body(Field(v, f))[i], Part(def, f))]
      Breaks(f) == \/ ~Fits(Field(v, f), def.properties[f])
                   \/ IsNested(def, f)
                      /\ \E i \in DOMAIN Body(Field(v, f)) : Parts(f)[i] = NoRecord
  IN IF \E f \in known : Breaks(f)
     THEN NoRecord
     ELSE [fields |-> [f \in known |->
                         IF IsNested(def, f) THEN Arr(Parts(f))
                         ELSE Typed(Field(v, f), def.properties[f])],
           extensions |-> Restrict(Body(v), DOMAIN Body(v) \ known)]

\* The structures of a list have no lists of structures.
NoPart(v, def) == NoRecord
Inside(v, def) == StructureOf(v, def, NoPart)
Structure(v, def) == StructureOf(v, def, Inside)

\* Record::decode: a kind this version does not define is kept as it is.
decode(v) ==
  IF ~validate_record(v) THEN NoRecord
  ELSE LET kind == Body(Field(v, "kind")) IN
    IF kind \notin RECORD_KINDS THEN [unknown |-> v]
    ELSE Structure(normalize_integers(v, Defs[kind]), Defs[kind])

-----------------------------------------------------------------------------
\* Mutant: the discriminator, which no structure holds, is not reserved.
check_extensions_Kindless(extensions, reserved) ==
  DOMAIN extensions \cap (reserved \ {"kind"}) = {}

\* Serialization.  No extension may take the name of a field, at any depth.
check_extensions(extensions, reserved) == DOMAIN extensions \cap reserved = {}

\* Whether an extension of the structure, or of one in it, takes a field's name.
Reserved(s, def) == ~check_extensions(s.extensions, DOMAIN def.properties)
Collides(s, def) ==
  \/ Reserved(s, def)
  \/ \E f \in DOMAIN s.fields :
       /\ IsNested(def, f)
       /\ \E i \in DOMAIN Body(s.fields[f]) : Reserved(Body(s.fields[f])[i], Part(def, f))

\* A float that is not a number is written as null; an extension is written
\* after the fields, and the later of two keys stays.
WrittenOf(s, def, Inner(_, _)) ==
  Obj(s.extensions ++
      [f \in DOMAIN s.fields |->
         CASE s.fields[f] = NaN -> Null
           [] IsNested(def, f) ->
                Arr([i \in DOMAIN Body(s.fields[f]) |->
                       Inner(Body(s.fields[f])[i], Part(def, f))])
           [] OTHER -> s.fields[f]])

NotWritten(s, def) == Null
WrittenPart(s, def) == WrittenOf(s, def, NotWritten)
Written(s, def) == WrittenOf(s, def, WrittenPart)

\* Record::to_value.
Refused == <<"refused">>
Checked(v) == IF validate_record(v) THEN v ELSE Refused

IsUnknown(r) == "unknown" \in DOMAIN r
to_value(r) ==
  IF IsUnknown(r) THEN Checked(r.unknown)
  ELSE LET def == Defs[Body(r.fields.kind)] IN
    IF Collides(r, def) THEN Refused ELSE Checked(Written(r, def))

-----------------------------------------------------------------------------
\* The columnar form: gen-parquet-twin.py.

\* build_schema: a column for every field any kind types, and the extra map.
Columns == UNION {DOMAIN Defs[k].properties : k \in RECORD_KINDS}

\* The Arrow type of a rule's column, and of a field's, which is the same
\* whichever kind types it.
ColumnType(rule) ==
  CASE rule.type = {"integer"} -> "int64"
    [] rule.type = {"number"} -> "float64"
    [] rule.type = {"boolean"} -> "bool"
    [] rule.type = {"array"} ->
         IF Uses(rule.items, "ref") THEN "list<struct>" ELSE "list<utf8>"
    [] OTHER -> "utf8"
Column(f) ==
  ColumnType(Defs[CHOOSE k \in RECORD_KINDS : f \in DOMAIN Defs[k].properties].properties[f])

\* The struct of a list column has a slot for each field of this definition.
Element == Defs["Endpoint"]
Slots(v) == {f \in DOMAIN Element.properties \cap DOMAIN Body(v) : Field(v, f) # Null}

\* What PyArrow encodes a value as, in a column of one value: a whole float is
\* an integer in a column of integers, an integer a double in one of doubles.
CellOf(x, type) ==
  CASE type = "int64" -> Integer(integer_value(x))
    [] type = "float64" -> Float(as_f64(x))
    [] OTHER -> x

\* A structure's other fields have no slot, and are not encoded.
Struct(v) ==
  Obj([f \in Slots(v) |-> CellOf(Field(v, f), ColumnType(Element.properties[f]))])

Cell(x, type) ==
  IF type = "list<struct>" THEN Arr([i \in DOMAIN Body(x) |-> Struct(Body(x)[i])])
  ELSE CellOf(x, type)

JsonText(v) ==
  CASE Tag(v) = "integer" -> ToString(Body(v))
    [] Tag(v) = "boolean" -> IF Body(v) THEN "true" ELSE "false"
    [] OTHER -> Tag(v)

\* Mutant: a string as JSON text too, in quotes.
Rendered_Quoted(v) ==
  IF Tag(v) = "string" THEN "\"" \o Body(v) \o "\"" ELSE JsonText(v)

Rendered(v) == IF Tag(v) = "string" THEN Body(v) ELSE JsonText(v)

\* rows: typed fields to their columns, everything else to the map as text.  A
\* cell, or a slot, that holds null, or none, is a null one.
Row(v) ==
  LET typed == DOMAIN Body(v) \cap Columns
  IN [cells |-> [f \in {g \in typed : Field(v, g) # Null} |-> Cell(Field(v, f), Column(f))],
      extra |-> [f \in DOMAIN Body(v) \ typed |-> Rendered(Field(v, f))]]

\* What a reader makes of a row (spec 4.1): a null cell is an absent field, an
\* entry of the map is the same field inline.
FromRow(row) == Obj(row.cells ++ [f \in DOMAIN row.extra |-> Str(row.extra[f])])
=============================================================================
