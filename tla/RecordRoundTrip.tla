---------------------------- MODULE RecordRoundTrip ----------------------------
(***************************************************************************)
(* A program that uses the record model: it decodes a document, edits the  *)
(* typed record, and writes it.  The documents are, for each kind, one     *)
(* well-formed record and every record that differs from it in one field   *)
(* (or in the two fields a rule relates); the numbers in them are the ends *)
(* of each range and the ones beside them, as integers and as floats.      *)
(***************************************************************************)
EXTENDS WireModel

VARIABLES
  document,   \* the JSON value read or written last; Null when neither
  draft       \* the typed record in the program's hands, or NoRecord

\* The ends of the ranges, and of what a double holds.
Ends == {I64Min, -1, 0, 1, U32, U32 + 1, I64}
Whole == Ends \cup {Mantissa + 1, I64 + 1, U64}
\* The doubles at those ends, below each end of the signed range, and between.
Floats == {Rounded(2 * n) : n \in Whole} \cup {-1, 1, Mantissa}
          \cup {h \in {2 * n - scale : n \in {I64Min, I64 + 1}, scale \in Scales} :
                  IsDouble(h)}
Numbers == {Integer(n) : n \in Whole} \cup {Float(h) : h \in Floats}
Values == Numbers \cup {Null, Bool(TRUE), Bool(FALSE), Str("a"), Str("pseudonymized"),
                        Arr(<<>>), Arr(<<Str("a")>>), Arr(<<Integer(1)>>)}

Plain == [msgs_seen |-> Integer(1), source |-> Str("s0")]
Default(kind, f) ==
  LET rule == Defs[kind].properties[f]
  IN CASE f = "kind" -> Str(kind)
       [] f = "egress" -> Str("pseudonymized")
       [] f = "endpoints" -> Arr(<<Obj(Plain)>>)
       [] f = "extra_keys" -> Arr(<<Str("a")>>)
       [] rule = Clock -> Float(1)
       [] rule.type = {"integer"} -> Integer(1)
       [] rule.type = {"boolean"} -> Bool(FALSE)
       [] OTHER -> Str("a")

\* With nothing optional, except what the egress requires, and with everything.
Base(kind) ==
  [f \in Defs[kind].required \cup ({"canary"} \cap DOMAIN Defs[kind].properties) |->
     Default(kind, f)]
Full(kind) == [f \in DOMAIN Defs[kind].properties |-> Default(kind, f)]

\* The fields of a record that a rule relates, and what they are tried with.
Related == {{"parent_id", "parent_unknown"}, {"first_seq", "last_seq"},
            {"window_start_ms", "window_end_ms"}, {"egress", "canary"}}
Relative == {Integer(0), Integer(1), Float(0), Float(1), Integer(Mantissa),
             Integer(Mantissa + 1), Bool(TRUE), Bool(FALSE), Str("a"), Str("pseudonymized")}

\* "note" is a field no version defines; "canary" is one some kinds define.
Variations(fields, def) ==
  LET names == DOMAIN def.properties \cup {"note", "canary"}
  IN {fields ++ Maplet(f, x) : f \in names, x \in Values}
     \cup {Maplet(f, x) ++ fields : f \in names, x \in Values}
     \cup {Restrict(fields, DOMAIN fields \ {f}) : f \in names}
     \cup UNION {{g ++ fields : g \in [pair -> Relative]} :
                   pair \in {p \in Related : p \subseteq DOMAIN def.properties}}

Candidates ==
  {Obj(Maplet("endpoints", Arr(<<Obj(x)>>)) ++ Base("heartbeat")) :
     x \in Variations(Plain, Defs["Endpoint"])}
  \cup {Obj([kind |-> Str(k), at_ms |-> x, note |-> y]) :
          k \in {"future", "Endpoint"}, x \in Values, y \in Values}
  \cup UNION {{Obj(x) : x \in Variations(Base(kind), Defs[kind])} : kind \in RECORD_KINDS}

-----------------------------------------------------------------------------
\* What a caller may put in a field of a typed record.
Settable(rule) ==
  {x \in Values : Fits(x, rule) /\ x = Typed(x, rule)}
  \cup (IF rule = Clock THEN {NaN} ELSE {})

\* One edit: a field set, an optional one left out, an extension added.
EditsOf(s, def) ==
  LET editable == {f \in DOMAIN def.properties : f # "kind" /\ ~IsNested(def, f)}
  IN {[s EXCEPT !.fields = Restrict(s.fields, DOMAIN s.fields \ {f})] :
        f \in editable \ def.required}
     \cup {[s EXCEPT !.extensions = Maplet(f, x) ++ s.extensions] :
             f \in DOMAIN def.properties \cup {"note"}, x \in {Null, Str("a"), Integer(1)}}
     \cup UNION {{[s EXCEPT !.fields = Maplet(f, x) ++ s.fields] :
                     x \in Settable(def.properties[f])} : f \in editable}

EndpointEdits(s) ==
  {[s EXCEPT !.fields["endpoints"] = Arr(<<part>>)] :
     part \in EditsOf(Body(s.fields.endpoints)[1], Defs.Endpoint)}

Edits(s) ==
  EditsOf(s, Defs[Body(s.fields.kind)])
  \cup IF "endpoints" \in DOMAIN s.fields THEN EndpointEdits(s) ELSE {}

Idle == document = Null /\ draft = NoRecord

\* The well-formed documents, whose records are edited.
WellFormed == UNION {{Obj(Base(kind)), Obj(Full(kind))} : kind \in RECORD_KINDS}

Read == /\ Idle
        /\ document' \in Candidates \cup WellFormed
        /\ draft' = decode(document')

Edit == /\ document \in WellFormed /\ draft # NoRecord
        /\ draft' \in Edits(draft)
        /\ document' = Null

Write == /\ document = Null /\ draft # NoRecord
         /\ document' = to_value(draft)
         /\ UNCHANGED draft

Use == Read \/ Edit \/ Write

-----------------------------------------------------------------------------
(***************************************************************************)
(* Validation is enough for the types: a record check() accepts can always *)
(* be built, at the ends of the integer ranges too and whichever way its   *)
(* integers are written, in the record or in a structure inside it.        *)
(***************************************************************************)
AcceptedRecordsDecode == validate_record(document) => draft # NoRecord

\* A value and the record made of it, or it of the record.
Matched == Tag(document) = "object" /\ draft # NoRecord

\* Two values that say the same: numbers are compared as numbers, in a record,
\* its lists and the structures of them; what lies deeper has no rule, and is to
\* be the same.
SaidOf(v, Inner(_)) ==
  CASE IsNumber(v) -> Float(Halves(v))
    [] Tag(v) = "array" -> Arr([i \in DOMAIN Body(v) |-> Inner(Body(v)[i])])
    [] Tag(v) = "object" -> Obj([f \in DOMAIN Body(v) |-> Inner(Field(v, f))])
    [] OTHER -> v

Verbatim(v) == v
Said1(v) == SaidOf(v, Verbatim)
Said2(v) == SaidOf(v, Said1)
Said3(v) == SaidOf(v, Said2)
Said(v) == SaidOf(v, Said3)

\* A document as its number fields can hold it: each as the nearest double.
NumbersHeld(v, def) ==
  Obj([f \in DOMAIN Body(v) |->
         IF f \in DOMAIN def.properties /\ def.properties[f] = Clock
         THEN Float(as_f64(Field(v, f))) ELSE Field(v, f)])

PartsHeld(v, def) ==
  Obj([f \in DOMAIN Body(v) |->
         IF f \in DOMAIN def.properties /\ IsNested(def, f)
         THEN Arr([i \in DOMAIN Body(Field(v, f)) |->
                     NumbersHeld(Body(Field(v, f))[i], Part(def, f))])
         ELSE Field(v, f)])

Held(v) ==
  LET kind == Body(Field(v, "kind"))
  IN IF kind \in RECORD_KINDS
     THEN NumbersHeld(PartsHeld(v, Defs[kind]), Defs[kind]) ELSE v

(***************************************************************************)
(* Decoding and serializing loses nothing: no unknown field or kind, no    *)
(* difference between an absent field and a null one, and of a number only *)
(* what a double cannot hold, in a field that is one: a counter at the top *)
(* of its range is exact, and so is a large integer no version has a field *)
(* for.                                                                    *)
(***************************************************************************)
DecodeKeepsTheRecord == Matched => Said(to_value(draft)) = Said(Held(document))

(***************************************************************************)
(* A caller may set any field of a typed record to anything of its type:   *)
(* what to_value then writes is read back as that very record, so an edit  *)
(* that cannot be is refused and none is silently written as another.      *)
(***************************************************************************)
EditsAreCaught == Matched => decode(document) = draft

\* What PyArrow can encode in a column: an integer in one of doubles only as far
\* as a double holds every integer.
FitsOne(x, type) ==
  CASE type = "int64" -> IsNumber(x) /\ IsInteger(x) /\ integer_value(x) <= I64
    [] type = "float64" ->
         IsNumber(x) /\ (Tag(x) = "integer" => Body(x) \in -Mantissa .. Mantissa)
    [] type = "bool" -> Tag(x) = "boolean"
    [] OTHER -> Tag(x) = "string"

FitsStruct(v) ==
  /\ Tag(v) = "object"
  /\ \A f \in Slots(v) : FitsOne(Field(v, f), ColumnType(Element.properties[f]))

FitsColumn(x, type) ==
  IF type \in {"list<struct>", "list<utf8>"}
  THEN /\ Tag(x) = "array"
       /\ \A i \in DOMAIN Body(x) :
            IF type = "list<struct>" THEN FitsStruct(Body(x)[i]) ELSE FitsOne(Body(x)[i], "utf8")
  ELSE FitsOne(x, type)

\* Records the twin generator can encode: of known kinds, without a null, and
\* with in every field that has a column what that column can hold.
Columnar(v) ==
  /\ validate_producer_record(v)
  /\ \A f \in DOMAIN Body(v) : Field(v, f) # Null
  /\ \A f \in DOMAIN Body(v) \cap Columns : FitsColumn(Field(v, f), Column(f))

\* A typed record whose structures have the fields of their definition only.
Catalogued(s, def) ==
  [f \in DOMAIN s.fields |->
     IF IsNested(def, f)
     THEN Arr([i \in DOMAIN Body(s.fields[f]) |->
                 [Body(s.fields[f])[i] EXCEPT !.extensions = Restrict(@, {})]])
     ELSE s.fields[f]]

(***************************************************************************)
(* Both encodings of a segment hold the same records, but for three things *)
(* the rows have no place for: a null, which its cell turns into absence;  *)
(* the type of a value no version defines a field for, which its row has   *)
(* as text; and in a structure of a list, whatever its definition does not *)
(* name.  All the rest is kept: one read back from its row has the same    *)
(* typed fields, the same names beside them, and the same string under     *)
(* each that has one.  A reader that asks for a few columns only refuses   *)
(* no cell of such a row.                                                  *)
(***************************************************************************)
TwinKeepsTheRecord ==
  Columnar(document) =>
    LET back == decode(FromRow(Row(document)))
        there == decode(document)
        cells == Row(document).cells
        kind == Body(cells.kind)
    IN /\ \A f \in DOMAIN cells : validate_field(kind, f, cells[f])
       /\ back # NoRecord
       /\ back.fields = Catalogued(there, Defs[kind])
       /\ DOMAIN back.extensions = DOMAIN there.extensions
       /\ \A f \in DOMAIN there.extensions :
            Tag(there.extensions[f]) = "string" => back.extensions[f] = there.extensions[f]
=============================================================================
