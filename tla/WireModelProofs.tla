--------------------------- MODULE WireModelProofs ---------------------------
(***************************************************************************)
(* Theorems about the record model, for every JSON value and every width   *)
(* of the integers, not the documents a run enumerates: validation is      *)
(* enough for the types, and what is written of a typed record is read     *)
(* back as that record.                                                    *)
(***************************************************************************)
EXTENDS RecordRoundTrip, WellFoundedInduction, TLAPS

-----------------------------------------------------------------------------
(***************************************************************************)
(* Doubles.                                                                *)
(***************************************************************************)

\* A number is within some step of its last multiple.
LEMMA Steps ==
  ASSUME NEW step \in Nat \ {0}, NEW h \in Int
  PROVE  /\ h \div step \in Int /\ h % step \in 0..(step - 1)
         /\ h = (h \div step) * step + (h % step)
OBVIOUS

\* Whole steps have nothing left over.
LEMMA WholeSteps ==
  ASSUME NEW step \in Nat \ {0}, NEW k \in Int
  PROVE  k * step \in Int /\ (k * step) % step = 0
BY Z3

\* A number some scale reaches lies between the doubles of the least that does.
LEMMA SpacingReaches ==
  ASSUME NEW h \in Int, \E scale \in Scales : Reaches(scale, h)
  PROVE  Spacing(h) \in Scales /\ Reaches(Spacing(h), h)
<1> DEFINE S == {scale \in Scales : Reaches(scale, h)}
<1>1. S \subseteq Nat /\ S # {}
  BY ScaleAssumption
<1>2. PICK least \in S : \A other \in S : <<other, least>> \notin OpToRel(<, Nat)
  BY <1>1, WFMin, NatLessThanWellFounded, Zenon
<1>3. ASSUME NEW other \in S PROVE least <= other
  <2>1. other \in Nat /\ least \in Nat
    BY <1>1
  <2>2. ~(other < least)
    BY <1>2, <2>1, Zenon DEF OpToRel
  <2>3. QED
    BY <2>1, <2>2
<1>4. \E scale \in Scales :
        Reaches(scale, h) /\ \A other \in Scales : Reaches(other, h) => scale <= other
  <2>1. least \in Scales /\ Reaches(least, h)
    OBVIOUS
  <2>2. \A other \in Scales : Reaches(other, h) => least <= other
    BY <1>3
  <2>3. QED
    BY <2>1, <2>2
<1>5. QED
  BY <1>4, Zenon DEF Spacing

\* Rounding makes a double of a number some scale reaches, and changes none.
LEMMA RoundedIsDouble ==
  ASSUME NEW h \in Int, \E scale \in Scales : Reaches(scale, h)
  PROVE  /\ Rounded(h) \in Int /\ IsDouble(Rounded(h))
         /\ Rounded(Rounded(h)) = Rounded(h)
<1> DEFINE step == Spacing(h)
           below == h \div step
<1>1. step \in Nat \ {0} /\ step \in Scales /\ Reaches(step, h) /\ Mantissa \in Nat
  BY SpacingReaches, ScaleAssumption, WidthAssumption
<1> HIDE DEF step
<1>2. /\ below \in Int /\ h % step \in 0..(step - 1)
      /\ h = below * step + (h % step)
  BY <1>1, Steps
<1> HIDE DEF below
<1>3. ASSUME NEW k \in -Mantissa .. Mantissa
      PROVE  k * step \in Int /\ IsDouble(k * step)
  <2>1. k \in Int /\ (k * step) % step = 0 /\ k * step \in Int
    BY <1>1, <1>3, WholeSteps
  <2>2. -step * Mantissa <= k * step /\ k * step <= step * Mantissa
    BY <1>1, <1>3, Z3
  <2>3. QED
    BY <1>1, <2>1, <2>2 DEF IsDouble, Reaches
<1>4. -step * Mantissa <= h /\ h <= step * Mantissa
  BY <1>1 DEF Reaches
<1>5. below \in -Mantissa .. Mantissa
  <2>1. below >= -Mantissa
    BY <1>1, <1>2, <1>4
  <2>2. below <= Mantissa
    BY <1>1, <1>2, <1>4
  <2>3. QED
    BY <1>1, <1>2, <2>1, <2>2
<1>6. below = Mantissa => h % step = 0
  BY <1>1, <1>2, <1>4
<1>7. Nearest(h) \in {k * step : k \in -Mantissa .. Mantissa}
  <2>1. \/ Nearest(h) = below * step
        \/ Nearest(h) = (below + 1) * step /\ ~(2 * (h % step) < step)
    <3> DEFINE IsNearer == \/ 2 * (h % step) < step
                           \/ (2 * (h % step) = step /\ below % 2 = 0)
    <3>1. Nearest(h) = (IF IsNearer THEN below ELSE below + 1) * step
      BY Zenon DEF Nearest, below, step
    <3>2. ~IsNearer => ~(2 * (h % step) < step)
      OBVIOUS
    <3> HIDE DEF IsNearer
    <3>3. CASE IsNearer
      BY <3>1, <3>3
    <3>4. CASE ~IsNearer
      BY <3>1, <3>2, <3>4
    <3>5. QED
      BY <3>3, <3>4
  <2>2. CASE Nearest(h) = below * step
    BY <1>5, <2>2
  <2>3. CASE Nearest(h) = (below + 1) * step /\ ~(2 * (h % step) < step)
    <3>1. below # Mantissa
      BY <1>1, <1>6, <2>3
    <3>2. below + 1 \in -Mantissa .. Mantissa
      BY <1>1, <1>5, <3>1
    <3>3. QED
      BY <2>3, <3>2
  <2>4. QED
    BY <2>1, <2>2, <2>3
<1>8. Rounded(h) \in Int /\ IsDouble(Rounded(h))
  BY <1>3, <1>7 DEF Rounded
<1>9. QED
  BY <1>8 DEF Rounded

\* All that is asked of a number: it is an integer within 64 bits, or a double.
JsonNumber(v) ==
  /\ Tag(v) = "integer" => Body(v) \in Int /\ I64Min <= Body(v) /\ Body(v) <= U64
  /\ Tag(v) = "float" => Body(v) \in Int /\ IsDouble(Body(v))

\* Such a number can be read as a double, and one that is, is that double.
LEMMA ReadAsDouble ==
  ASSUME NEW v, JsonNumber(v), IsNumber(v)
  PROVE  /\ as_f64(v) \in Int /\ IsDouble(as_f64(v))
         /\ Tag(v) = "float" => as_f64(v) = Body(v)
         /\ as_f64(Float(as_f64(v))) = as_f64(v)
<1>1. CASE Tag(v) = "float"
  <2>1. Halves(v) = Body(v) /\ Body(v) \in Int /\ IsDouble(Body(v))
    BY <1>1 DEF Halves, JsonNumber
  <2>2. as_f64(v) = Body(v)
    BY <2>1 DEF as_f64, Rounded
  <2>3. Halves(Float(as_f64(v))) = as_f64(v)
    BY DEF Halves, Float, Tag, Body
  <2>4. QED
    BY <2>1, <2>2, <2>3 DEF as_f64, Rounded
<1>2. CASE Tag(v) = "integer"
  <2>1. Body(v) \in Int /\ I64Min <= Body(v) /\ Body(v) <= U64 /\ Halves(v) = 2 * Body(v)
    BY <1>2 DEF Halves, JsonNumber
  <2>2. PICK scale \in Scales : 2 * U64 <= scale * Mantissa
    BY ScaleAssumption
  <2>3. Reaches(scale, Halves(v))
    <3>1. scale \in Nat /\ Mantissa \in Nat /\ I64 \in Nat /\ I64 > 0
      BY ScaleAssumption, WidthAssumption
    <3>2. U64 \in Int /\ -U64 <= Body(v)
      BY <2>1, <3>1 DEF U64, I64Min
    <3>3. scale * Mantissa \in Int /\ -scale * Mantissa = -(scale * Mantissa)
      BY <3>1, Z3
    <3>4. QED
      BY <2>1, <2>2, <3>2, <3>3 DEF Reaches
  <2>4. Rounded(Halves(v)) \in Int /\ IsDouble(Rounded(Halves(v)))
    BY <2>1, <2>3, RoundedIsDouble
  <2>5. Halves(Float(as_f64(v))) = as_f64(v)
    BY DEF Halves, Float, Tag, Body
  <2>6. QED
    BY <1>2, <2>4, <2>5 DEF as_f64, Rounded
<1>3. QED
  BY <1>1, <1>2 DEF IsNumber

-----------------------------------------------------------------------------
(***************************************************************************)
(* The schema's rules.                                                     *)
(***************************************************************************)

\* The rules of a field: of one value, or of a list.
Plains == {Counter, Ordinal, Signed, Clock, Text, Tier, Of("boolean")}
          \cup {Kind(k) : k \in RECORD_KINDS}
TextList == ListOf(Text)
EndpointList == ListOf([ref |-> "Endpoint"])

\* What a definition is: an object rule whose fields have these rules.
Structured(def, rules) ==
  /\ Uses(def, "type") /\ def.type = {"object"} /\ Uses(def, "properties")
  /\ ~Uses(def, "ref") /\ ~Uses(def, "items") /\ ~Uses(def, "const")
  /\ \A f \in DOMAIN def.properties : def.properties[f] \in rules

\* The record kinds, one by one.
LEMMA Kinds ==
  RECORD_KINDS = {"store", "evict", "clear", "holder_reset", "agent_start",
                  "heartbeat", "identity_refused", "segments_dropped"}
BY DEF RECORD_KINDS, Defs

\* Every record kind is such a definition, and its discriminator its name.
LEMMA Schema ==
  ASSUME NEW kind \in RECORD_KINDS
  PROVE  /\ Structured(Defs[kind], Plains \cup {TextList, EndpointList})
         /\ "kind" \in DOMAIN Defs[kind].properties
         /\ Defs[kind].properties["kind"] = Kind(kind)
         /\ Uses(Defs[kind], "required") /\ "kind" \in Defs[kind].required
<1> DEFINE Usual == {Counter, Ordinal, Signed, Clock, Text, Tier, Of("boolean"),
                    TextList, EndpointList}
           Shaped(def) ==
             /\ Uses(def, "type") /\ def.type = {"object"} /\ Uses(def, "properties")
             /\ ~Uses(def, "ref") /\ ~Uses(def, "items") /\ ~Uses(def, "const")
             /\ Uses(def, "required") /\ "kind" \in def.required
           Ruled(k) ==
             LET P == Defs[k].properties
             IN /\ "kind" \in DOMAIN P /\ P["kind"] = Kind(k)
                /\ \A f \in DOMAIN P : P[f] \in Usual \cup {Kind(k)}
<1>1. Shaped(Defs["store"]) /\ Ruled("store")
  <2>1. Shaped(Defs["store"])
    BY DEF Defs, Definition, ++, Uses
  <2>2. Ruled("store")
    BY SMTT(30) DEF Defs, Definition, ++, TextList, EndpointList
  <2>3. QED
    BY <2>1, <2>2
<1>2. Shaped(Defs["evict"]) /\ Ruled("evict")
  <2>1. Shaped(Defs["evict"])
    BY DEF Defs, Definition, ++, Uses
  <2>2. Ruled("evict")
    BY SMTT(30) DEF Defs, Definition, ++, TextList, EndpointList
  <2>3. QED
    BY <2>1, <2>2
<1>3. Shaped(Defs["clear"]) /\ Ruled("clear")
  <2>1. Shaped(Defs["clear"])
    BY DEF Defs, Definition, ++, Uses
  <2>2. Ruled("clear")
    BY SMTT(30) DEF Defs, Definition, ++, TextList, EndpointList
  <2>3. QED
    BY <2>1, <2>2
<1>4. Shaped(Defs["holder_reset"]) /\ Ruled("holder_reset")
  <2>1. Shaped(Defs["holder_reset"])
    BY DEF Defs, Definition, ++, Uses
  <2>2. Ruled("holder_reset")
    BY SMTT(30) DEF Defs, Definition, ++, TextList, EndpointList
  <2>3. QED
    BY <2>1, <2>2
<1>5. Shaped(Defs["agent_start"]) /\ Ruled("agent_start")
  <2>1. Shaped(Defs["agent_start"])
    BY DEF Defs, Definition, ++, Uses
  <2>2. Ruled("agent_start")
    BY SMTT(30) DEF Defs, Definition, ++, TextList, EndpointList
  <2>3. QED
    BY <2>1, <2>2
<1>6. Shaped(Defs["heartbeat"]) /\ Ruled("heartbeat")
  <2>1. Shaped(Defs["heartbeat"])
    BY DEF Defs, Definition, ++, Uses
  <2>2. Ruled("heartbeat")
    BY SMTT(30) DEF Defs, Definition, ++, TextList, EndpointList
  <2>3. QED
    BY <2>1, <2>2
<1>7. Shaped(Defs["identity_refused"]) /\ Ruled("identity_refused")
  <2>1. Shaped(Defs["identity_refused"])
    BY DEF Defs, Definition, ++, Uses
  <2>2. Ruled("identity_refused")
    BY SMTT(30) DEF Defs, Definition, ++, TextList, EndpointList
  <2>3. QED
    BY <2>1, <2>2
<1>8. Shaped(Defs["segments_dropped"]) /\ Ruled("segments_dropped")
  <2>1. Shaped(Defs["segments_dropped"])
    BY DEF Defs, Definition, ++, Uses
  <2>2. Ruled("segments_dropped")
    BY SMTT(30) DEF Defs, Definition, ++, TextList, EndpointList
  <2>3. QED
    BY <2>1, <2>2
<1>9. Shaped(Defs[kind]) /\ Ruled(kind)
  <2> HIDE DEF Shaped, Ruled
  <2>1. QED
    BY <1>1, <1>2, <1>3, <1>4, <1>5, <1>6, <1>7, <1>8, Kinds, Zenon
<1>10. Usual \cup {Kind(kind)} \subseteq Plains \cup {TextList, EndpointList}
  BY Zenon DEF Plains
<1> HIDE DEF Usual
<1>11. QED
  BY <1>9, <1>10, Zenon DEF Structured

\* The structure in a record has plain fields only.
LEMMA EndpointSchema == Structured(Defs["Endpoint"], Plains)
BY DEF Structured, Defs, Definition, Uses, Plains

\* The rule of an integer, of a number, and of anything else.
IsCount(rule) ==
  /\ rule.type = {"integer"} /\ ~Uses(rule, "const")
  /\ Uses(rule, "minimum") /\ Uses(rule, "maximum")
  /\ rule.minimum \in Int /\ rule.maximum \in Int
  /\ I64Min <= rule.minimum /\ rule.maximum <= I64

IsWord(rule) ==
  /\ "integer" \notin rule.type /\ "number" \notin rule.type
  /\ "array" \notin rule.type /\ "object" \notin rule.type /\ "nan" \notin rule.type
  /\ "float" \notin rule.type
  /\ ~Uses(rule, "minimum") /\ ~Uses(rule, "maximum")

\* A rule of one value uses no keyword that leads to another rule.
LEMMA PlainRules ==
  ASSUME NEW rule \in Plains
  PROVE  /\ ~Uses(rule, "ref") /\ ~Uses(rule, "items") /\ ~Uses(rule, "properties")
         /\ ~Uses(rule, "allOf") /\ ~Uses(rule, "if") /\ ~Uses(rule, "not")
         /\ ~Uses(rule, "required") /\ Uses(rule, "type")
         /\ IsCount(rule) \/ rule = Clock \/ IsWord(rule)
<1>1. CASE rule \in {Counter, Ordinal, Signed}
  BY <1>1, WidthAssumption DEF Counter, Ordinal, Signed, Uses, IsCount, I64Min
<1>2. CASE rule = Clock
  BY <1>2 DEF Clock, Of, Uses
<1>3. CASE rule \in {Text, Tier, Of("boolean")}
  BY <1>3 DEF Text, Tier, Of, Uses, IsWord
<1>4. ASSUME NEW k \in RECORD_KINDS, rule = Kind(k) PROVE IsWord(rule)
  BY <1>4 DEF Kind, Uses, IsWord
<1>5. ASSUME NEW k \in RECORD_KINDS, rule = Kind(k)
      PROVE  /\ ~Uses(rule, "ref") /\ ~Uses(rule, "items") /\ ~Uses(rule, "properties")
             /\ ~Uses(rule, "allOf") /\ ~Uses(rule, "if") /\ ~Uses(rule, "not")
             /\ ~Uses(rule, "required") /\ Uses(rule, "type")
  BY <1>5 DEF Kind, Uses
<1>6. QED
  BY <1>1, <1>2, <1>3, <1>4, <1>5 DEF Plains

\* The two rules of lists.
LEMMA ListRules ==
  /\ \A rule \in {TextList, EndpointList} :
       /\ ~Uses(rule, "ref") /\ ~Uses(rule, "properties") /\ ~Uses(rule, "const")
       /\ ~Uses(rule, "allOf") /\ ~Uses(rule, "if") /\ ~Uses(rule, "not")
       /\ ~Uses(rule, "required") /\ Uses(rule, "type") /\ rule.type = {"array"}
       /\ Uses(rule, "items") /\ ~Uses(rule, "minimum") /\ ~Uses(rule, "maximum")
       /\ rule \notin Plains
  /\ TextList.items = Text /\ ~Uses(Text, "ref")
  /\ EndpointList.items = [ref |-> "Endpoint"] /\ Uses(EndpointList.items, "ref")
  /\ EndpointList.items.ref = "Endpoint"
<1>1. \A rule \in {TextList, EndpointList} :
       /\ ~Uses(rule, "ref") /\ ~Uses(rule, "properties") /\ ~Uses(rule, "const")
       /\ ~Uses(rule, "allOf") /\ ~Uses(rule, "if") /\ ~Uses(rule, "not")
       /\ ~Uses(rule, "required") /\ Uses(rule, "type") /\ rule.type = {"array"}
       /\ Uses(rule, "items") /\ ~Uses(rule, "minimum") /\ ~Uses(rule, "maximum")
  BY DEF TextList, EndpointList, ListOf, Uses
<1>2. \A rule \in {TextList, EndpointList} : rule \notin Plains
  BY <1>1, PlainRules
<1>3. /\ TextList.items = Text /\ ~Uses(Text, "ref")
      /\ EndpointList.items = [ref |-> "Endpoint"] /\ Uses(EndpointList.items, "ref")
      /\ EndpointList.items.ref = "Endpoint"
  BY DEF TextList, EndpointList, ListOf, Uses, Text, Of
<1>4. QED
  BY <1>1, <1>2, <1>3

-----------------------------------------------------------------------------
(***************************************************************************)
(* One value and its rule.                                                 *)
(***************************************************************************)

\* What check and normalize_integers come to where a rule leads no further.
MeetsPlain(v, rule) ==
  /\ Uses(rule, "const") => v = rule.const
  /\ \E type \in rule.type : Accepts(type, v)
  /\ InRange(v, rule)

NormalPlain(v, rule) ==
  IF "integer" \in rule.type /\ IsNumber(v) /\ IsInteger(v) /\ integer_value(v) <= I64
  THEN Integer(integer_value(v)) ELSE v

\* Checking one value, at either depth it stands at.
LEMMA PlainCheck ==
  ASSUME NEW v, NEW rule \in Plains
  PROVE  /\ check4(v, rule) <=> MeetsPlain(v, rule)
         /\ check1(v, rule) <=> MeetsPlain(v, rule)
<1>1. /\ ~Uses(rule, "ref") /\ ~Uses(rule, "items") /\ ~Uses(rule, "properties")
      /\ ~Uses(rule, "allOf") /\ ~Uses(rule, "if") /\ ~Uses(rule, "not")
      /\ ~Uses(rule, "required") /\ Uses(rule, "type")
  BY PlainRules
<1>2. check4(v, rule) <=> MeetsPlain(v, rule)
  BY <1>1, Zenon DEF check4, Meets, MeetsPlain
<1>3. check1(v, rule) <=> MeetsPlain(v, rule)
  BY <1>1, Zenon DEF check1, Meets, MeetsPlain
<1>4. QED
  BY <1>2, <1>3

\* Normalizing one value, at either depth it stands at.
LEMMA PlainNormal ==
  ASSUME NEW v, NEW rule \in Plains
  PROVE  /\ normal4(v, rule) = NormalPlain(v, rule)
         /\ normal1(v, rule) = NormalPlain(v, rule)
<1>1. /\ ~Uses(rule, "ref") /\ ~Uses(rule, "items") /\ ~Uses(rule, "properties")
      /\ Uses(rule, "type")
  BY PlainRules
<1>2. normal4(v, rule) = NormalPlain(v, rule)
  BY <1>1 DEF normal4, Normal, NormalPlain
<1>3. normal1(v, rule) = NormalPlain(v, rule)
  BY <1>1 DEF normal1, Normal, NormalPlain
<1>4. QED
  BY <1>2, <1>3

\* A value as a typed field has it.
TypedPlain(x, rule) ==
  CASE rule.type = {"integer"} -> \E n \in Int : I64Min <= n /\ n <= I64 /\ x = Integer(n)
    [] rule.type = {"number"} -> x = NaN \/ \E h \in Int : IsDouble(h) /\ x = Float(h)
    [] OTHER -> Tag(x) \in rule.type

\* In JSON a string is a string.
StringIsStr(v) == Tag(v) = "string" => v = Str(Body(v))
StringsAreStr(g) == \A f \in DOMAIN g : StringIsStr(g[f])

\* A value that meets its rule fits its column type once it is normalized.
LEMMA PlainFits ==
  ASSUME NEW v, JsonNumber(v), NEW rule \in Plains, MeetsPlain(v, rule)
  PROVE  /\ Fits(NormalPlain(v, rule), rule)
         /\ TypedPlain(Typed(NormalPlain(v, rule), rule), rule)
<1>0. IsCount(rule) \/ rule = Clock \/ IsWord(rule)
  BY PlainRules
<1>i. I64 \in Int /\ I64Min \in Int
  BY WidthAssumption DEF I64Min
<1>1. CASE IsCount(rule)
  <2>1. IsNumber(v) /\ IsInteger(v)
    BY <1>1 DEF MeetsPlain, Accepts, IsCount
  <2>2. integer_value(v) \in Int
    BY <2>1 DEF JsonNumber, integer_value, Halves, IsNumber
  <2>3. I64Min <= integer_value(v) /\ integer_value(v) <= I64
    BY <1>1, <1>i, <2>1, <2>2 DEF MeetsPlain, InRange, IsCount
  <2>4. NormalPlain(v, rule) = Integer(integer_value(v))
    BY <1>1, <2>1, <2>3 DEF NormalPlain, IsCount
  <2>5. Tag(Integer(integer_value(v))) = "integer"
        /\ Body(Integer(integer_value(v))) = integer_value(v)
    BY DEF Tag, Body, Integer
  <2>6. Fits(NormalPlain(v, rule), rule)
    BY <1>1, <2>3, <2>4, <2>5 DEF Fits, IsCount
  <2>7. Typed(NormalPlain(v, rule), rule) = Integer(integer_value(v))
    BY <1>1, <2>4 DEF Typed, IsCount
  <2>8. QED
    BY <1>1, <2>2, <2>3, <2>6, <2>7 DEF TypedPlain, IsCount
<1>2. CASE rule = Clock
  <2>1. rule.type = {"number"}
    BY <1>2 DEF Clock, Of
  <2>2. IsNumber(v)
    BY <2>1 DEF MeetsPlain, Accepts
  <2>3. NormalPlain(v, rule) = v
    BY <2>1 DEF NormalPlain
  <2>4. as_f64(v) \in Int /\ IsDouble(as_f64(v))
    BY <2>2, ReadAsDouble
  <2>5. QED
    BY <2>1, <2>2, <2>3, <2>4 DEF Fits, Typed, TypedPlain
<1>3. CASE IsWord(rule)
  <2>1. NormalPlain(v, rule) = v
    BY <1>3 DEF NormalPlain, IsWord
  <2>2. Tag(v) \in rule.type
    <3>1. PICK type \in rule.type : Accepts(type, v)
      BY DEF MeetsPlain
    <3>2. type # "integer" /\ type # "number"
      BY <1>3, <3>1 DEF IsWord
    <3>3. QED
      BY <3>1, <3>2 DEF Accepts
  <2>3. rule.type # {"integer"} /\ rule.type # {"number"}
    BY <1>3 DEF IsWord
  <2>4. QED
    BY <2>1, <2>2, <2>3 DEF Fits, Typed, TypedPlain
<1>4. QED
  BY <1>0, <1>1, <1>2, <1>3

-----------------------------------------------------------------------------
(***************************************************************************)
(* A structure inside a record.                                            *)
(***************************************************************************)
IsMap(g) == g = [x \in DOMAIN g |-> g[x]]

\* A structure as the generated type has it, with no other structure in it.
TypedPart(s, def) ==
  /\ s = [fields |-> s.fields, extensions |-> s.extensions]
  /\ IsMap(s.fields) /\ IsMap(s.extensions)
  /\ DOMAIN s.fields \subseteq DOMAIN def.properties
  /\ \A f \in DOMAIN s.fields : TypedPlain(s.fields[f], def.properties[f])

\* All that is asked of a JSON value, of its numbers.
JsonPart(v) == Tag(v) = "object" => \A f \in DOMAIN Body(v) : JsonNumber(Field(v, f))

\* How check and normalize_integers pass through the reference to a structure.
LEMMA PartCheck ==
  ASSUME NEW v, check3(v, EndpointList.items)
  PROVE  /\ Tag(v) = "object"
         /\ \A f \in DOMAIN Defs["Endpoint"].properties \cap DOMAIN Body(v) :
              check1(Field(v, f), Defs["Endpoint"].properties[f])
<1>1. check2(v, Defs["Endpoint"])
  BY ListRules DEF check3, Meets
<1>2. /\ Uses(Defs["Endpoint"], "type") /\ Defs["Endpoint"].type = {"object"}
      /\ Uses(Defs["Endpoint"], "properties") /\ ~Uses(Defs["Endpoint"], "ref")
  BY EndpointSchema DEF Structured
<1>3. Tag(v) = "object"
  BY <1>1, <1>2 DEF check2, Meets, Accepts
<1>4. QED
  BY <1>1, <1>2, <1>3, Zenon DEF check2, Meets

\* Normalizing a structure of a list.
LEMMA PartNormal ==
  ASSUME NEW v, Tag(v) = "object"
  PROVE  normal3(v, EndpointList.items) =
           Obj([f \in DOMAIN Body(v) |->
                  IF f \in DOMAIN Defs["Endpoint"].properties
                  THEN normal1(Field(v, f), Defs["Endpoint"].properties[f])
                  ELSE Field(v, f)])
<1>0. /\ ~Uses(EndpointList.items, "type") /\ ~Uses(EndpointList.items, "properties")
      /\ ~Uses(EndpointList.items, "items")
  BY ListRules DEF Uses
<1>1. normal3(v, EndpointList.items) = normal2(v, Defs["Endpoint"])
  BY <1>0, ListRules DEF normal3, Normal
<1>2. /\ Uses(Defs["Endpoint"], "type") /\ Defs["Endpoint"].type = {"object"}
      /\ Uses(Defs["Endpoint"], "properties") /\ ~Uses(Defs["Endpoint"], "ref")
  BY EndpointSchema DEF Structured
<1>3. QED
  BY <1>1, <1>2 DEF normal2, Normal

\* The fields a structure makes of a value whose fields all fit.
LEMMA PartStructure ==
  ASSUME NEW b,
         \A f \in DOMAIN Defs["Endpoint"].properties \cap DOMAIN b :
           Fits(b[f], Defs["Endpoint"].properties[f])
  PROVE  LET known == DOMAIN Defs["Endpoint"].properties \cap DOMAIN b
         IN Inside(Obj(b), Defs["Endpoint"]) =
              [fields |-> [f \in known |-> Typed(b[f], Defs["Endpoint"].properties[f])],
               extensions |-> [f \in DOMAIN b \ known |-> b[f]]]
<1> DEFINE def == Defs["Endpoint"]
           known == DOMAIN def.properties \cap DOMAIN b
<1>1. \A f \in known : ~IsNested(def, f)
  BY EndpointSchema, PlainRules DEF Structured, IsNested
<1>2. Body(Obj(b)) = b
  BY DEF Body, Obj
<1>3. Known(Obj(b), def) = known
  BY <1>2 DEF Known
<1>4. \A f \in known : Field(Obj(b), f) = b[f]
  BY <1>2 DEF Field
<1>5. [f \in known |-> Typed(b[f], def.properties[f])] =
      [f \in known |-> IF IsNested(def, f) THEN Arr([i \in DOMAIN Body(Field(Obj(b), f)) |->
                             NoPart(Body(Field(Obj(b), f))[i], Part(def, f))])
                       ELSE Typed(Field(Obj(b), f), def.properties[f])]
  BY <1>1, <1>4
<1>7. Restrict(Body(Obj(b)), DOMAIN Body(Obj(b)) \ known) = [f \in DOMAIN b \ known |-> b[f]]
  BY <1>2 DEF Restrict
<1> HIDE DEF def, known
<1>8. ~ \E f \in known : \/ ~Fits(Field(Obj(b), f), def.properties[f])
                         \/ IsNested(def, f)
                            /\ \E i \in DOMAIN Body(Field(Obj(b), f)) :
                                 [j \in DOMAIN Body(Field(Obj(b), f)) |->
                                   NoPart(Body(Field(Obj(b), f))[j], Part(def, f))][i] = NoRecord
  BY <1>1, <1>4 DEF def, known
<1>9. Inside(Obj(b), def) =
        [fields |-> [f \in known |->
                       IF IsNested(def, f) THEN Arr([i \in DOMAIN Body(Field(Obj(b), f)) |->
                             NoPart(Body(Field(Obj(b), f))[i], Part(def, f))])
                       ELSE Typed(Field(Obj(b), f), def.properties[f])],
         extensions |-> Restrict(Body(Obj(b)), DOMAIN Body(Obj(b)) \ known)]
  BY <1>3, <1>8, Zenon DEF Inside, StructureOf
<1>10. QED
  BY <1>5, <1>7, <1>9 DEF def, known

\* What the structure of a value has in its fields, which Made tells, and what
\* beside them.
MadeFrom(s, v, def, Made(_, _)) ==
  /\ DOMAIN s.fields = DOMAIN def.properties \cap DOMAIN Body(v)
  /\ \A f \in DOMAIN s.fields : s.fields[f] = Made(Field(v, f), def.properties[f])
  /\ DOMAIN s.extensions = DOMAIN Body(v) \ DOMAIN def.properties
  /\ \A f \in DOMAIN s.extensions : s.extensions[f] = Field(v, f)

MadePlain(x, rule) == Typed(NormalPlain(x, rule), rule)

\* A structure that meets its definition can be built, whichever way its
\* integers are written.
LEMMA PartDecodes ==
  ASSUME NEW v, JsonPart(v), check3(v, EndpointList.items)
  PROVE  LET s == Inside(normal3(v, EndpointList.items), Defs["Endpoint"])
         IN /\ s # NoRecord /\ TypedPart(s, Defs["Endpoint"])
            /\ MadeFrom(s, v, Defs["Endpoint"], MadePlain)
<1> DEFINE P == Defs["Endpoint"].properties
           b == [f \in DOMAIN Body(v) |->
                   IF f \in DOMAIN P THEN normal1(Field(v, f), P[f]) ELSE Field(v, f)]
           known == DOMAIN P \cap DOMAIN b
           s == Inside(normal3(v, EndpointList.items), Defs["Endpoint"])
<1>1. normal3(v, EndpointList.items) = Obj(b) /\ DOMAIN b = DOMAIN Body(v)
  BY PartCheck, PartNormal
<1>2. ASSUME NEW f \in known
      PROVE  Fits(b[f], P[f]) /\ TypedPlain(Typed(b[f], P[f]), P[f])
  <2>1. P[f] \in Plains
    BY EndpointSchema DEF Structured
  <2>2. check1(Field(v, f), P[f]) /\ JsonNumber(Field(v, f))
    BY PartCheck DEF JsonPart
  <2>3. MeetsPlain(Field(v, f), P[f]) /\ b[f] = NormalPlain(Field(v, f), P[f])
    BY <2>1, <2>2, PlainCheck, PlainNormal
  <2>4. QED
    BY <2>1, <2>2, <2>3, PlainFits
<1> HIDE DEF b
<1>3. s = [fields |-> [f \in known |-> Typed(b[f], P[f])],
           extensions |-> [f \in DOMAIN b \ known |-> b[f]]]
  BY <1>1, <1>2, PartStructure
<1>4. /\ s.fields = [f \in known |-> Typed(b[f], P[f])]
      /\ s.extensions = [f \in DOMAIN b \ known |-> b[f]]
  BY <1>3
<1>5. s # NoRecord
  BY <1>3 DEF NoRecord
<1>6. TypedPart(s, Defs["Endpoint"])
  <2>1. s = [fields |-> s.fields, extensions |-> s.extensions]
    BY <1>3, <1>4
  <2>2. IsMap(s.fields) /\ IsMap(s.extensions)
    BY <1>4 DEF IsMap
  <2>3. DOMAIN s.fields \subseteq DOMAIN P
    BY <1>4
  <2>4. \A f \in DOMAIN s.fields : TypedPlain(s.fields[f], P[f])
    BY <1>2, <1>4
  <2>5. QED
    BY <2>1, <2>2, <2>3, <2>4 DEF TypedPart
<1>7. MadeFrom(s, v, Defs["Endpoint"], MadePlain)
  <2>1. DOMAIN s.fields = DOMAIN P \cap DOMAIN Body(v)
        /\ DOMAIN s.extensions = DOMAIN Body(v) \ DOMAIN P
    BY <1>1, <1>4
  <2>2. ASSUME NEW f \in DOMAIN s.fields
        PROVE  s.fields[f] = MadePlain(Field(v, f), P[f])
    <3>1. b[f] = normal1(Field(v, f), P[f]) /\ s.fields[f] = Typed(b[f], P[f])
      BY <1>1, <1>4, <2>1 DEF b
    <3>2. P[f] \in Plains
      BY <2>1, EndpointSchema DEF Structured
    <3>3. QED
      BY <3>1, <3>2, PlainNormal DEF MadePlain
  <2>3. \A f \in DOMAIN s.extensions : s.extensions[f] = Field(v, f)
    BY <1>1, <1>4, <2>1 DEF b
  <2>4. QED
    BY <2>1, <2>2, <2>3 DEF MadeFrom
<1>8. QED
  BY <1>5, <1>6, <1>7

-----------------------------------------------------------------------------
(***************************************************************************)
(* A record.                                                               *)
(***************************************************************************)
TypedList(x, rule) ==
  \E items : /\ IsMap(items) /\ x = Arr(items)
             /\ rule = EndpointList =>
                  \A i \in DOMAIN items : TypedPart(items[i], Defs["Endpoint"])

\* A typed record of a known kind, as decoding makes it or a caller edits it.
TypedRecord(s, def) ==
  /\ s = [fields |-> s.fields, extensions |-> s.extensions]
  /\ IsMap(s.fields) /\ IsMap(s.extensions)
  /\ DOMAIN s.fields \subseteq DOMAIN def.properties
  /\ \A f \in DOMAIN s.fields :
       IF def.properties[f] \in {TextList, EndpointList}
       THEN TypedList(s.fields[f], def.properties[f])
       ELSE TypedPlain(s.fields[f], def.properties[f])

\* All that is asked of a document.
JsonField(x) ==
  /\ JsonNumber(x)
  /\ Tag(x) = "array" => \A i \in DOMAIN Body(x) : JsonPart(Body(x)[i])

Json(v) == \A f \in DOMAIN Body(v) : JsonField(Field(v, f))

\* What a record that is checked meets.
LEMMA RecordCheck ==
  ASSUME NEW v, NEW kind \in RECORD_KINDS, check(v, Defs[kind])
  PROVE  /\ Tag(v) = "object"
         /\ \A f \in Defs[kind].required : Has(v, f)
         /\ \A f \in DOMAIN Defs[kind].properties \cap DOMAIN Body(v) :
              check4(Field(v, f), Defs[kind].properties[f])
<1>1. /\ Uses(Defs[kind], "type") /\ Defs[kind].type = {"object"}
      /\ Uses(Defs[kind], "properties") /\ ~Uses(Defs[kind], "ref")
      /\ Uses(Defs[kind], "required")
  BY Schema DEF Structured
<1>2. Tag(v) = "object"
  BY <1>1 DEF check, Meets, Accepts
<1>3. QED
  BY <1>1, <1>2, Zenon DEF check, Meets

\* A record is normalized field by field.
LEMMA RecordNormal ==
  ASSUME NEW v, NEW kind \in RECORD_KINDS, Tag(v) = "object"
  PROVE  normalize_integers(v, Defs[kind]) =
           Obj([f \in DOMAIN Body(v) |->
                  IF f \in DOMAIN Defs[kind].properties
                  THEN normal4(Field(v, f), Defs[kind].properties[f])
                  ELSE Field(v, f)])
<1>1. /\ Uses(Defs[kind], "type") /\ Defs[kind].type = {"object"}
      /\ Uses(Defs[kind], "properties") /\ ~Uses(Defs[kind], "ref")
  BY Schema DEF Structured
<1>2. QED
  BY <1>1 DEF normalize_integers, Normal

\* A list is checked item by item.
LEMMA ListCheck ==
  ASSUME NEW v, NEW rule \in {TextList, EndpointList}, check4(v, rule)
  PROVE  Tag(v) = "array" /\ \A i \in DOMAIN Body(v) : check3(Body(v)[i], rule.items)
<1>1. /\ Uses(rule, "type") /\ rule.type = {"array"} /\ Uses(rule, "items")
      /\ ~Uses(rule, "ref")
  BY ListRules
<1>2. Tag(v) = "array"
  BY <1>1 DEF check4, Meets, Accepts
<1>3. QED
  BY <1>1, <1>2, Zenon DEF check4, Meets

\* A list is normalized item by item, and texts not at all.
LEMMA ListNormal ==
  ASSUME NEW v, NEW rule \in {TextList, EndpointList}, Tag(v) = "array"
  PROVE  /\ normal4(v, rule) = Arr([i \in DOMAIN Body(v) |-> normal3(Body(v)[i], rule.items)])
         /\ rule = TextList => \A x : normal3(x, rule.items) = x
<1>1. /\ Uses(rule, "type") /\ rule.type = {"array"} /\ Uses(rule, "items")
      /\ ~Uses(rule, "ref") /\ ~Uses(rule, "properties")
  BY ListRules
<1>2. normal4(v, rule) = Arr([i \in DOMAIN Body(v) |-> normal3(Body(v)[i], rule.items)])
  BY <1>1 DEF normal4, Normal
<1>3. ASSUME rule = TextList, NEW x PROVE normal3(x, rule.items) = x
  <2>1. /\ ~Uses(Text, "ref") /\ ~Uses(Text, "items") /\ ~Uses(Text, "properties")
        /\ "integer" \notin Text.type
    BY DEF Text, Of, Uses
  <2>2. rule.items = Text
    BY <1>3, ListRules
  <2>3. QED
    BY <2>1, <2>2 DEF normal3, Normal
<1>4. QED
  BY <1>2, <1>3

\* Where a record has structures in it.
LEMMA NestedFields ==
  ASSUME NEW kind \in RECORD_KINDS, NEW f \in DOMAIN Defs[kind].properties
  PROVE  /\ IsNested(Defs[kind], f) <=> Defs[kind].properties[f] = EndpointList
         /\ IsNested(Defs[kind], f) => Part(Defs[kind], f) = Defs["Endpoint"]
<1> DEFINE rule == Defs[kind].properties[f]
<1>1. rule \in Plains \cup {TextList, EndpointList}
  BY Schema DEF Structured
<1>2. CASE rule \in Plains
  BY <1>2, PlainRules, ListRules DEF IsNested
<1>3. CASE rule = TextList
  <2>1. ~IsNested(Defs[kind], f)
    BY <1>3, ListRules DEF IsNested
  <2>2. TextList # EndpointList
    BY ListRules
  <2>3. QED
    BY <1>3, <2>1, <2>2
<1>4. CASE rule = EndpointList
  BY <1>4, ListRules DEF IsNested, Part
<1>5. QED
  BY <1>1, <1>2, <1>3, <1>4

\* The fields a record makes of a value whose fields and structures all fit.
LEMMA RecordStructure ==
  ASSUME NEW kind \in RECORD_KINDS, NEW b,
         \A f \in DOMAIN Defs[kind].properties \cap DOMAIN b :
           /\ Fits(b[f], Defs[kind].properties[f])
           /\ Defs[kind].properties[f] = EndpointList =>
                \A i \in DOMAIN Body(b[f]) : Inside(Body(b[f])[i], Defs["Endpoint"]) # NoRecord
  PROVE  LET P == Defs[kind].properties
             known == DOMAIN P \cap DOMAIN b
         IN Structure(Obj(b), Defs[kind]) =
              [fields |-> [f \in known |->
                             IF P[f] = EndpointList
                             THEN Arr([i \in DOMAIN Body(b[f]) |->
                                         Inside(Body(b[f])[i], Defs["Endpoint"])])
                             ELSE Typed(b[f], P[f])],
               extensions |-> [f \in DOMAIN b \ known |-> b[f]]]
<1> DEFINE def == Defs[kind]
           P == def.properties
           known == DOMAIN P \cap DOMAIN b
           Parts(f) == [i \in DOMAIN Body(Field(Obj(b), f)) |->
                          Inside(Body(Field(Obj(b), f))[i], Part(def, f))]
<1>1. \A f \in known : /\ IsNested(def, f) <=> P[f] = EndpointList
                       /\ IsNested(def, f) => Part(def, f) = Defs["Endpoint"]
  BY NestedFields
<1>2. Body(Obj(b)) = b
  BY DEF Body, Obj
<1>3. Known(Obj(b), def) = known
  BY <1>2 DEF Known
<1>4. \A f \in known : Field(Obj(b), f) = b[f]
  BY <1>2 DEF Field
<1>5. ASSUME NEW f \in known, IsNested(def, f)
      PROVE  Parts(f) = [i \in DOMAIN Body(b[f]) |-> Inside(Body(b[f])[i], Defs["Endpoint"])]
  BY <1>1, <1>4, <1>5
<1>6. Restrict(Body(Obj(b)), DOMAIN Body(Obj(b)) \ known) = [f \in DOMAIN b \ known |-> b[f]]
  BY <1>2 DEF Restrict
<1>7. ~ \E f \in known : \/ ~Fits(Field(Obj(b), f), def.properties[f])
                         \/ IsNested(def, f)
                            /\ \E i \in DOMAIN Body(Field(Obj(b), f)) : Parts(f)[i] = NoRecord
  <2>1. ASSUME NEW f \in known
        PROVE  /\ Fits(Field(Obj(b), f), def.properties[f])
               /\ IsNested(def, f) =>
                    \A i \in DOMAIN Body(Field(Obj(b), f)) : Parts(f)[i] # NoRecord
    <3>1. Fits(Field(Obj(b), f), def.properties[f])
      BY <1>4
    <3>2. ASSUME IsNested(def, f), NEW i \in DOMAIN Body(Field(Obj(b), f))
          PROVE  Parts(f)[i] # NoRecord
      BY <3>2, <1>1, <1>4
    <3>3. QED
      BY <3>1, <3>2
  <2>2. QED
    BY <2>1
<1>8. [f \in known |-> IF IsNested(def, f) THEN Arr(Parts(f))
                       ELSE Typed(Field(Obj(b), f), def.properties[f])]
      = [f \in known |-> IF P[f] = EndpointList
                         THEN Arr([i \in DOMAIN Body(b[f]) |->
                                     Inside(Body(b[f])[i], Defs["Endpoint"])])
                         ELSE Typed(b[f], P[f])]
  <2>1. ASSUME NEW f \in known
        PROVE  (IF IsNested(def, f) THEN Arr(Parts(f))
                ELSE Typed(Field(Obj(b), f), def.properties[f]))
               = IF P[f] = EndpointList
                 THEN Arr([i \in DOMAIN Body(b[f]) |-> Inside(Body(b[f])[i], Defs["Endpoint"])])
                 ELSE Typed(b[f], P[f])
    BY <1>1, <1>4, <1>5
  <2>2. QED
    BY <2>1, Zenon
<1>9. Structure(Obj(b), def) =
        [fields |-> [f \in known |-> IF IsNested(def, f) THEN Arr(Parts(f))
                                     ELSE Typed(Field(Obj(b), f), def.properties[f])],
         extensions |-> Restrict(Body(Obj(b)), DOMAIN Body(Obj(b)) \ known)]
  BY <1>3, <1>7, Zenon DEF Structure, StructureOf
<1>10. QED
  BY <1>6, <1>8, <1>9

\* A list that meets its rule becomes a list of texts or of structures.
LEMMA ListDecodes ==
  ASSUME NEW v, NEW rule \in {TextList, EndpointList}, check4(v, rule),
         Tag(v) = "array" => \A i \in DOMAIN Body(v) : JsonPart(Body(v)[i])
  PROVE  LET list == normal4(v, rule)
         IN /\ Fits(list, rule)
            /\ DOMAIN Body(list) = DOMAIN Body(v)
            /\ rule = EndpointList =>
                 /\ \A i \in DOMAIN Body(list) : Inside(Body(list)[i], Defs["Endpoint"]) # NoRecord
                 /\ TypedList(Arr([i \in DOMAIN Body(list) |->
                                     Inside(Body(list)[i], Defs["Endpoint"])]), rule)
            /\ rule = TextList => TypedList(Typed(list, rule), rule)
<1> DEFINE list == normal4(v, rule)
           items == [i \in DOMAIN Body(v) |-> normal3(Body(v)[i], rule.items)]
           parts == [i \in DOMAIN Body(list) |-> Inside(Body(list)[i], Defs["Endpoint"])]
<1>1. Tag(v) = "array" /\ \A i \in DOMAIN Body(v) : check3(Body(v)[i], rule.items)
  BY ListCheck
<1>2. list = Arr(items)
  BY <1>1, ListNormal
<1>3. Tag(list) = "array" /\ Body(list) = items /\ DOMAIN items = DOMAIN Body(v)
  BY <1>2 DEF Tag, Body, Arr
<1>4. rule.type = {"array"}
  BY ListRules
<1>5. Fits(list, rule) /\ Typed(list, rule) = list
  BY <1>3, <1>4 DEF Fits, Typed
<1>6. IsMap(items)
  BY DEF IsMap
<1> HIDE DEF list
<1>7. ASSUME rule = EndpointList, NEW i \in DOMAIN Body(list)
      PROVE  /\ Inside(Body(list)[i], Defs["Endpoint"]) # NoRecord
             /\ TypedPart(Inside(Body(list)[i], Defs["Endpoint"]), Defs["Endpoint"])
  <2>1. i \in DOMAIN Body(v) /\ Body(list)[i] = normal3(Body(v)[i], EndpointList.items)
    BY <1>3, <1>7
  <2>2. JsonPart(Body(v)[i]) /\ check3(Body(v)[i], EndpointList.items)
    BY <1>1, <1>7, <2>1
  <2>3. QED
    BY <2>1, <2>2, PartDecodes
<1>8. ASSUME rule = EndpointList PROVE TypedList(Arr(parts), rule)
  <2>1. IsMap(parts)
    BY DEF IsMap
  <2>2. \A i \in DOMAIN parts : TypedPart(parts[i], Defs["Endpoint"])
    BY <1>7, <1>8
  <2> HIDE DEF parts
  <2>3. QED
    BY <2>1, <2>2, Zenon DEF TypedList
<1>9. ASSUME rule = TextList PROVE TypedList(list, rule)
  <2>1. rule # EndpointList
    BY <1>9, ListRules
  <2> HIDE DEF items
  <2>2. QED
    BY <2>1, <1>2, <1>6, Zenon DEF TypedList
<1>10. QED
  <2>1. DOMAIN Body(list) = DOMAIN Body(v)
    BY <1>3
  <2>2. QED
    BY <2>1, <1>5, <1>7, <1>8, <1>9 DEF list

MadeField(x, rule) ==
  LET y == normal4(x, rule)
  IN IF rule = EndpointList
     THEN Arr([i \in DOMAIN Body(y) |-> Inside(Body(y)[i], Defs["Endpoint"])])
     ELSE Typed(y, rule)

\* What a valid record of a known kind decodes to.
LEMMA KnownDecodes ==
  ASSUME NEW v, Json(v), NEW kind \in RECORD_KINDS, check(v, Defs[kind]),
         Field(v, "kind") = Str(kind)
  PROVE  LET s == Structure(normalize_integers(v, Defs[kind]), Defs[kind])
         IN /\ s # NoRecord /\ TypedRecord(s, Defs[kind])
            /\ "kind" \in DOMAIN s.fields /\ s.fields["kind"] = Str(kind)
            /\ \A f \in DOMAIN s.fields :
                 /\ f \in DOMAIN Body(v)
                 /\ Defs[kind].properties[f] = EndpointList =>
                      DOMAIN Body(s.fields[f]) = DOMAIN Body(Field(v, f))
            /\ MadeFrom(s, v, Defs[kind], MadeField)
<1> DEFINE def == Defs[kind]
           P == def.properties
           b == [f \in DOMAIN Body(v) |->
                   IF f \in DOMAIN P THEN normal4(Field(v, f), P[f]) ELSE Field(v, f)]
           known == DOMAIN P \cap DOMAIN b
           Made(f) == IF P[f] = EndpointList
                      THEN Arr([i \in DOMAIN Body(b[f]) |-> Inside(Body(b[f])[i], Defs["Endpoint"])])
                      ELSE Typed(b[f], P[f])
           s == Structure(normalize_integers(v, def), def)
<1>1. normalize_integers(v, def) = Obj(b) /\ DOMAIN b = DOMAIN Body(v)
  BY RecordCheck, RecordNormal
<1>2. ASSUME NEW f \in known
      PROVE  /\ Fits(b[f], P[f])
             /\ P[f] = EndpointList =>
                  \A i \in DOMAIN Body(b[f]) : Inside(Body(b[f])[i], Defs["Endpoint"]) # NoRecord
             /\ IF P[f] \in {TextList, EndpointList} THEN TypedList(Made(f), P[f])
                ELSE TypedPlain(Made(f), P[f])
             /\ P[f] = EndpointList => DOMAIN Body(b[f]) = DOMAIN Body(Field(v, f))
  <2>1. P[f] \in Plains \cup {TextList, EndpointList}
    BY Schema DEF Structured
  <2>2. check4(Field(v, f), P[f]) /\ b[f] = normal4(Field(v, f), P[f])
    BY RecordCheck
  <2>3. /\ JsonNumber(Field(v, f))
        /\ Tag(Field(v, f)) = "array" =>
             \A i \in DOMAIN Body(Field(v, f)) : JsonPart(Body(Field(v, f))[i])
    BY DEF Json, JsonField
  <2> HIDE DEF b
  <2>4. CASE P[f] \in Plains
    <3>1. MeetsPlain(Field(v, f), P[f]) /\ b[f] = NormalPlain(Field(v, f), P[f])
      BY <2>2, <2>4, PlainCheck, PlainNormal
    <3>2. P[f] \notin {TextList, EndpointList}
      BY <2>4, ListRules
    <3>3. QED
      BY <2>3, <2>4, <3>1, <3>2, PlainFits
  <2>5. CASE P[f] \in {TextList, EndpointList}
    <3>1. TextList # EndpointList
      BY ListRules
    <3>2. QED
      BY <2>2, <2>3, <2>5, <3>1, ListDecodes
  <2>6. QED
    BY <2>1, <2>4, <2>5
<1> HIDE DEF b
<1>3. s = [fields |-> [f \in known |-> Made(f)],
           extensions |-> [f \in DOMAIN b \ known |-> b[f]]]
  BY <1>1, <1>2, RecordStructure
<1>4. /\ s.fields = [f \in known |-> Made(f)]
      /\ s.extensions = [f \in DOMAIN b \ known |-> b[f]]
  BY <1>3
<1>5. s # NoRecord
  BY <1>3 DEF NoRecord
<1>6. TypedRecord(s, def)
  <2>1. s = [fields |-> s.fields, extensions |-> s.extensions]
    BY <1>3, <1>4
  <2>2. IsMap(s.fields) /\ IsMap(s.extensions)
    BY <1>4 DEF IsMap
  <2>3. DOMAIN s.fields = known /\ \A f \in known : s.fields[f] = Made(f)
    BY <1>4
  <2> HIDE DEF Made, known
  <2>4. DOMAIN s.fields \subseteq DOMAIN P
    BY <2>3 DEF known
  <2>5. \A f \in DOMAIN s.fields :
          IF P[f] \in {TextList, EndpointList} THEN TypedList(s.fields[f], P[f])
          ELSE TypedPlain(s.fields[f], P[f])
    BY <1>2, <2>3
  <2>6. QED
    BY <2>1, <2>2, <2>4, <2>5, Zenon DEF TypedRecord
<1>7. "kind" \in DOMAIN s.fields /\ s.fields["kind"] = Str(kind)
  <2>1. "kind" \in known /\ P["kind"] = Kind(kind) /\ Kind(kind) \in Plains
    BY <1>1, Schema, RecordCheck DEF Has, Plains
  <2>2. b["kind"] = normal4(Str(kind), Kind(kind))
    BY <2>1, <1>1 DEF b
  <2>3. Kind(kind).type = {"string"}
    BY DEF Kind
  <2>4. b["kind"] = Str(kind)
    BY <2>1, <2>2, <2>3, PlainNormal DEF NormalPlain
  <2>5. Kind(kind) # EndpointList
    BY <2>1, ListRules
  <2>6. QED
    BY <1>4, <2>1, <2>3, <2>4, <2>5 DEF Typed
<1>8. \A f \in DOMAIN s.fields :
        /\ f \in DOMAIN Body(v)
        /\ P[f] = EndpointList => DOMAIN Body(s.fields[f]) = DOMAIN Body(Field(v, f))
  <2>1. ASSUME NEW f \in known, P[f] = EndpointList
        PROVE  DOMAIN Body(Made(f)) = DOMAIN Body(Field(v, f))
    <3>1. Body(Made(f)) = [i \in DOMAIN Body(b[f]) |->
                             Inside(Body(b[f])[i], Defs["Endpoint"])]
      BY <2>1 DEF Body, Arr
    <3>2. QED
      BY <1>2, <2>1, <3>1
  <2>2. known \subseteq DOMAIN Body(v)
    BY <1>1
  <2> HIDE DEF Made, known
  <2>3. QED
    BY <1>4, <2>1, <2>2
<1>9. MadeFrom(s, v, def, MadeField)
  <2>1. /\ DOMAIN s.fields = DOMAIN P \cap DOMAIN Body(v)
        /\ DOMAIN s.extensions = DOMAIN Body(v) \ DOMAIN P
        /\ \A f \in DOMAIN s.fields : s.fields[f] = Made(f)
        /\ \A f \in DOMAIN s.extensions : s.extensions[f] = b[f]
    BY <1>1, <1>4
  <2>2. /\ \A f \in DOMAIN Body(v) \ DOMAIN P : b[f] = Field(v, f)
        /\ \A f \in DOMAIN P \cap DOMAIN Body(v) : b[f] = normal4(Field(v, f), P[f])
    BY DEF b
  <2>3. \A f \in DOMAIN P \cap DOMAIN Body(v) : Made(f) = MadeField(Field(v, f), P[f])
    BY <2>2 DEF MadeField
  <2> HIDE DEF Made
  <2>4. QED
    BY <2>1, <2>2, <2>3 DEF MadeFrom
<1>10. QED
  BY <1>5, <1>6, <1>7, <1>8, <1>9

\* The kind a valid record names is its discriminator.
LEMMA ValidKind ==
  ASSUME NEW v, validate_record(v), Body(Field(v, "kind")) \in RECORD_KINDS
  PROVE  LET kind == Body(Field(v, "kind"))
         IN check(v, Defs[kind]) /\ Field(v, "kind") = Str(kind)
<1> DEFINE kind == Body(Field(v, "kind"))
<1>1. check(v, Defs[kind]) /\ Has(v, "kind")
  BY DEF validate_record
<1>2. check4(Field(v, "kind"), Kind(kind)) /\ Kind(kind) \in Plains
  BY <1>1, Schema, RecordCheck DEF Has, Plains
<1>3. Field(v, "kind") = Kind(kind).const /\ Uses(Kind(kind), "const")
  BY <1>2, PlainCheck DEF MeetsPlain, Kind, Uses
<1>4. QED
  BY <1>1, <1>3 DEF Kind

(***************************************************************************)
(* Validation is enough for the types: every record validate_record        *)
(* accepts, of any kind, known or not, decodes.                            *)
(***************************************************************************)
THEOREM ValidRecordsDecode ==
  ASSUME NEW v, Json(v), validate_record(v)
  PROVE  decode(v) # NoRecord
<1>1. CASE Body(Field(v, "kind")) \in RECORD_KINDS
  BY <1>1, ValidKind, KnownDecodes DEF decode
<1>2. CASE Body(Field(v, "kind")) \notin RECORD_KINDS
  <2>1. decode(v) = [unknown |-> v]
    BY <1>2 DEF decode
  <2>2. QED
    BY <2>1 DEF NoRecord
<1>3. QED
  BY <1>1, <1>2

-----------------------------------------------------------------------------
(***************************************************************************)
(* What is written of a typed record.                                      *)
(***************************************************************************)

\* Validation finds the one typed value that has no JSON text.
LEMMA WrittenValue ==
  ASSUME NEW x, NEW rule \in Plains, TypedPlain(x, rule),
         MeetsPlain(IF x = NaN THEN Null ELSE x, rule)
  PROVE  x # NaN
<1> SUFFICES ASSUME x = NaN PROVE FALSE
  OBVIOUS
<1>0. IsCount(rule) \/ rule = Clock \/ IsWord(rule)
  BY PlainRules
<1>t. Tag(NaN) = "nan" /\ Tag(Null) = "null"
  BY DEF Tag, NaN, Null
<1>1. CASE IsCount(rule)
  <2>1. PICK n \in Int : x = Integer(n)
    BY <1>1 DEF TypedPlain, IsCount
  <2>2. QED
    BY <2>1, <1>t DEF Tag, Integer
<1>2. CASE rule = Clock
  <2>1. MeetsPlain(Null, Clock)
    BY <1>2
  <2>2. QED
    BY <2>1, <1>t DEF MeetsPlain, Clock, Of, Accepts, IsNumber
<1>3. CASE IsWord(rule)
  BY <1>3, <1>t DEF IsWord, TypedPlain
<1>4. QED
  BY <1>0, <1>1, <1>2, <1>3

\* A typed value is read back as it is.
LEMMA ReadBack ==
  ASSUME NEW x, NEW rule \in Plains, TypedPlain(x, rule), x # NaN
  PROVE  NormalPlain(x, rule) = x /\ Fits(x, rule) /\ Typed(x, rule) = x
<1>0. IsCount(rule) \/ rule = Clock \/ IsWord(rule)
  BY PlainRules
<1>1. CASE IsCount(rule)
  <2>1. PICK n \in Int : I64Min <= n /\ n <= I64 /\ x = Integer(n)
    BY <1>1 DEF TypedPlain, IsCount
  <2>2. Tag(x) = "integer" /\ Body(x) = n
    BY <2>1 DEF Tag, Body, Integer
  <2>3. IsNumber(x) /\ IsInteger(x)
    BY <2>2 DEF IsNumber, IsInteger
  <2>4. integer_value(x) = n
    BY <2>2 DEF integer_value, Halves
  <2>5. QED
    BY <1>1, <2>1, <2>2, <2>3, <2>4 DEF NormalPlain, Fits, Typed, IsCount
<1>2. CASE rule = Clock
  <2>1. rule.type = {"number"}
    BY <1>2 DEF Clock, Of
  <2>2. PICK h \in Int : IsDouble(h) /\ x = Float(h)
    BY <2>1 DEF TypedPlain
  <2>3. Tag(x) = "float" /\ Body(x) = h
    BY <2>2 DEF Tag, Body, Float
  <2>4. as_f64(x) = h
    BY <2>2, <2>3 DEF as_f64, Halves, Rounded
  <2>5. QED
    BY <2>1, <2>2, <2>3, <2>4 DEF NormalPlain, Fits, Typed, IsNumber
<1>3. CASE IsWord(rule)
  <2>1. rule.type # {"integer"} /\ rule.type # {"number"}
    BY <1>3 DEF IsWord
  <2>2. QED
    BY <1>3, <2>1 DEF IsWord, NormalPlain, Fits, Typed, TypedPlain
<1>4. QED
  BY <1>0, <1>1, <1>2, <1>3

\* A structure whose extensions take no field's name is read back as it was.
LEMMA PartBack ==
  ASSUME NEW s, TypedPart(s, Defs["Endpoint"]), ~Reserved(s, Defs["Endpoint"]),
         check3(WrittenPart(s, Defs["Endpoint"]), EndpointList.items)
  PROVE  Inside(normal3(WrittenPart(s, Defs["Endpoint"]), EndpointList.items),
                Defs["Endpoint"]) = s
<1> DEFINE def == Defs["Endpoint"]
           P == def.properties
           F == s.fields
           E == s.extensions
           G == [f \in DOMAIN F |-> IF F[f] = NaN THEN Null ELSE F[f]]
           w == E ++ G
           b == [f \in DOMAIN w |-> IF f \in DOMAIN P THEN normal1(w[f], P[f]) ELSE w[f]]
           known == DOMAIN P \cap DOMAIN b
<1>1. /\ s = [fields |-> F, extensions |-> E] /\ IsMap(F) /\ IsMap(E)
      /\ DOMAIN F \subseteq DOMAIN P /\ DOMAIN E \cap DOMAIN P = {}
      /\ \A f \in DOMAIN F : TypedPlain(F[f], P[f])
  BY DEF TypedPart, Reserved, check_extensions
<1>2. \A f \in DOMAIN P : P[f] \in Plains
  BY EndpointSchema DEF Structured
<1>3. WrittenPart(s, def) = Obj(w)
  <2>1. \A f \in DOMAIN F : ~IsNested(def, f)
    BY <1>1, <1>2, PlainRules DEF IsNested
  <2>2. G = [f \in DOMAIN F |->
               CASE F[f] = NaN -> Null
                 [] IsNested(def, f) ->
                      Arr([i \in DOMAIN Body(F[f]) |-> NotWritten(Body(F[f])[i], Part(def, f))])
                 [] OTHER -> F[f]]
    BY <2>1
  <2> HIDE DEF G
  <2>3. QED
    BY <2>2 DEF WrittenPart, WrittenOf
<1> HIDE DEF def
<1>4. /\ DOMAIN w = DOMAIN E \cup DOMAIN F
      /\ \A f \in DOMAIN F : w[f] = IF F[f] = NaN THEN Null ELSE F[f]
      /\ \A f \in DOMAIN E : w[f] = E[f]
  BY <1>1 DEF ++
<1> HIDE DEF w
<1>5. Tag(Obj(w)) = "object" /\ Body(Obj(w)) = w /\ \A f : Field(Obj(w), f) = w[f]
  BY DEF Tag, Body, Obj, Field
<1>6. ASSUME NEW f \in DOMAIN F
      PROVE  w[f] = F[f] /\ b[f] = F[f] /\ Fits(F[f], P[f]) /\ Typed(F[f], P[f]) = F[f]
  <2>1. f \in DOMAIN P /\ f \in DOMAIN w /\ P[f] \in Plains /\ TypedPlain(F[f], P[f])
    BY <1>1, <1>2, <1>4
  <2>2. check1(w[f], P[f])
    BY <1>3, <1>5, <2>1, PartCheck DEF def
  <2>3. MeetsPlain(w[f], P[f])
    BY <2>1, <2>2, PlainCheck
  <2>4. F[f] # NaN
    BY <1>4, <2>1, <2>3, WrittenValue
  <2>5. w[f] = F[f]
    BY <1>4, <2>4
  <2>6. normal1(F[f], P[f]) = F[f] /\ Fits(F[f], P[f]) /\ Typed(F[f], P[f]) = F[f]
    BY <2>1, <2>4, PlainNormal, ReadBack
  <2>7. QED
    BY <2>1, <2>5, <2>6
<1>7. \A f \in DOMAIN E : b[f] = E[f]
  BY <1>1, <1>4
<1>8. normal3(Obj(w), EndpointList.items) = Obj(b)
  BY <1>5, PartNormal DEF def
<1>9. known = DOMAIN F /\ DOMAIN b \ known = DOMAIN E
  BY <1>1, <1>4
<1> HIDE DEF b, known
<1>10. Inside(Obj(b), def) = [fields |-> [f \in known |-> Typed(b[f], P[f])],
                              extensions |-> [f \in DOMAIN b \ known |-> b[f]]]
  <2>1. \A f \in known : Fits(b[f], P[f])
    BY <1>6, <1>9
  <2>2. QED
    BY <2>1, PartStructure DEF known, def
<1>11. [f \in known |-> Typed(b[f], P[f])] = F
  BY <1>1, <1>6, <1>9 DEF IsMap
<1>12. [f \in DOMAIN b \ known |-> b[f]] = E
  BY <1>1, <1>7, <1>9 DEF IsMap
<1>13. QED
  BY <1>1, <1>3, <1>8, <1>10, <1>11, <1>12 DEF def

\* So are the lists of a record.
LEMMA TextsBack ==
  ASSUME NEW x, TypedList(x, TextList), x # NaN
  PROVE  /\ normal4(x, TextList) = x
         /\ Fits(x, TextList) /\ Typed(x, TextList) = x
<1>1. PICK items : IsMap(items) /\ x = Arr(items)
  BY DEF TypedList
<1>2. Tag(x) = "array" /\ Body(x) = items
  BY <1>1 DEF Tag, Body, Arr
<1>3. \A i \in DOMAIN items : normal3(items[i], TextList.items) = items[i]
  BY <1>2, ListNormal
<1>4. normal4(x, TextList) = Arr([i \in DOMAIN items |-> normal3(items[i], TextList.items)])
  BY <1>2, ListNormal
<1>5. [i \in DOMAIN items |-> normal3(items[i], TextList.items)] = items
  BY <1>1, <1>3 DEF IsMap
<1>6. TextList.type = {"array"}
  BY ListRules
<1>7. QED
  BY <1>1, <1>2, <1>4, <1>5, <1>6 DEF Fits, Typed

\* A list of structures that was written is read back.
LEMMA PartsBack ==
  ASSUME NEW items, IsMap(items),
         \A i \in DOMAIN items : /\ TypedPart(items[i], Defs["Endpoint"])
                                 /\ ~Reserved(items[i], Defs["Endpoint"]),
         check4(Arr([i \in DOMAIN items |-> WrittenPart(items[i], Defs["Endpoint"])]),
                EndpointList)
  PROVE  LET list == normal4(Arr([i \in DOMAIN items |->
                                    WrittenPart(items[i], Defs["Endpoint"])]), EndpointList)
         IN /\ Fits(list, EndpointList)
            /\ \A i \in DOMAIN Body(list) : Inside(Body(list)[i], Defs["Endpoint"]) # NoRecord
            /\ Arr([i \in DOMAIN Body(list) |-> Inside(Body(list)[i], Defs["Endpoint"])])
               = Arr(items)
<1> DEFINE texts == [i \in DOMAIN items |-> WrittenPart(items[i], Defs["Endpoint"])]
           read == [i \in DOMAIN texts |-> normal3(texts[i], EndpointList.items)]
           list == normal4(Arr(texts), EndpointList)
<1>1. Tag(Arr(texts)) = "array" /\ Body(Arr(texts)) = texts /\ DOMAIN texts = DOMAIN items
  BY DEF Tag, Body, Arr
<1>2. \A i \in DOMAIN items : check3(texts[i], EndpointList.items)
  BY <1>1, ListCheck
<1>3. list = Arr(read)
  BY <1>1, ListNormal
<1>4. Tag(list) = "array" /\ Body(list) = read /\ DOMAIN read = DOMAIN items
  BY <1>1, <1>3 DEF Tag, Body, Arr
<1>5. ASSUME NEW i \in DOMAIN items
      PROVE  /\ Inside(read[i], Defs["Endpoint"]) = items[i]
             /\ items[i] # NoRecord
  <2>1. check3(WrittenPart(items[i], Defs["Endpoint"]), EndpointList.items)
    BY <1>2
  <2>2. read[i] = normal3(WrittenPart(items[i], Defs["Endpoint"]), EndpointList.items)
    BY <1>1
  <2>3. Inside(read[i], Defs["Endpoint"]) = items[i]
    BY <2>1, <2>2, PartBack
  <2>4. items[i] = [fields |-> items[i].fields, extensions |-> items[i].extensions]
    BY DEF TypedPart
  <2>5. QED
    BY <2>3, <2>4 DEF NoRecord
<1> HIDE DEF read, list
<1>6. [i \in DOMAIN Body(list) |-> Inside(Body(list)[i], Defs["Endpoint"])] = items
  BY <1>4, <1>5 DEF IsMap
<1>7. EndpointList.type = {"array"}
  BY ListRules
<1>8. Fits(list, EndpointList)
  BY <1>4, <1>7 DEF Fits
<1>9. \A i \in DOMAIN Body(list) : Inside(Body(list)[i], Defs["Endpoint"]) # NoRecord
  BY <1>4, <1>5
<1>10. QED
  BY <1>6, <1>8, <1>9 DEF list

\* The discriminator is written as it is.
LEMMA WrittenKind ==
  ASSUME NEW kind \in RECORD_KINDS, NEW s, ~Collides(s, Defs[kind]),
         "kind" \in DOMAIN s.fields, s.fields["kind"] = Str(kind)
  PROVE  Field(Written(s, Defs[kind]), "kind") = Str(kind)
<1> DEFINE def == Defs[kind]
           F == s.fields
           G == [f \in DOMAIN F |->
                   CASE F[f] = NaN -> Null
                     [] IsNested(def, f) ->
                          Arr([i \in DOMAIN Body(F[f]) |->
                                 WrittenPart(Body(F[f])[i], Part(def, f))])
                     [] OTHER -> F[f]]
<1>1. "kind" \notin DOMAIN s.extensions
  BY Schema DEF Collides, Reserved, check_extensions
<1>2. Written(s, def) = Obj(s.extensions ++ G)
  BY DEF Written, WrittenOf
<1>3. ~IsNested(def, "kind") /\ Str(kind) # NaN
  <2>1. Kind(kind) \in Plains /\ "kind" \in DOMAIN def.properties
        /\ def.properties["kind"] = Kind(kind)
    BY Schema DEF Plains
  <2>2. ~IsNested(def, "kind")
    BY <2>1, PlainRules DEF IsNested
  <2>3. QED
    BY <2>2 DEF Str, NaN
<1>4. "kind" \in DOMAIN G /\ G["kind"] = Str(kind)
  BY <1>3
<1> HIDE DEF G
<1>5. (s.extensions ++ G)["kind"] = Str(kind)
  BY <1>1, <1>4 DEF ++
<1>6. QED
  BY <1>2, <1>5 DEF Field, Body, Obj

\* A record whose extensions take no field's name, at any depth, is read back
\* as it was once what is written of it is valid.
LEMMA RecordBack ==
  ASSUME NEW kind \in RECORD_KINDS, NEW s, TypedRecord(s, Defs[kind]),
         ~Collides(s, Defs[kind]), check(Written(s, Defs[kind]), Defs[kind])
  PROVE  Structure(normalize_integers(Written(s, Defs[kind]), Defs[kind]), Defs[kind]) = s
<1> DEFINE def == Defs[kind]
           P == def.properties
           F == s.fields
           E == s.extensions
           Shown(f) == CASE F[f] = NaN -> Null
                        [] P[f] = EndpointList ->
                             Arr([i \in DOMAIN Body(F[f]) |->
                                    WrittenPart(Body(F[f])[i], Defs["Endpoint"])])
                        [] OTHER -> F[f]
           G == [f \in DOMAIN F |-> Shown(f)]
           w == E ++ G
           b == [f \in DOMAIN w |-> IF f \in DOMAIN P THEN normal4(w[f], P[f]) ELSE w[f]]
           known == DOMAIN P \cap DOMAIN b
           Made(f) == IF P[f] = EndpointList
                      THEN Arr([i \in DOMAIN Body(b[f]) |->
                                  Inside(Body(b[f])[i], Defs["Endpoint"])])
                      ELSE Typed(b[f], P[f])
<1>1. /\ s = [fields |-> F, extensions |-> E] /\ IsMap(F) /\ IsMap(E)
      /\ DOMAIN F \subseteq DOMAIN P /\ DOMAIN E \cap DOMAIN P = {}
  BY DEF TypedRecord, Collides, Reserved, check_extensions
<1>2. ASSUME NEW f \in DOMAIN F
      PROVE  /\ P[f] \in Plains \cup {TextList, EndpointList}
             /\ IF P[f] \in {TextList, EndpointList} THEN TypedList(F[f], P[f])
                ELSE TypedPlain(F[f], P[f])
             /\ IsNested(def, f) <=> P[f] = EndpointList
             /\ IsNested(def, f) => Part(def, f) = Defs["Endpoint"]
             /\ P[f] = EndpointList =>
                  \A i \in DOMAIN Body(F[f]) : ~Reserved(Body(F[f])[i], Defs["Endpoint"])
  <2>1. f \in DOMAIN P
    BY <1>1
  <2>2. /\ IsNested(def, f) <=> P[f] = EndpointList
        /\ IsNested(def, f) => Part(def, f) = Defs["Endpoint"]
    BY <2>1, NestedFields
  <2>3. P[f] \in Plains \cup {TextList, EndpointList}
    BY <2>1, Schema DEF Structured
  <2>4. IF P[f] \in {TextList, EndpointList} THEN TypedList(F[f], P[f])
        ELSE TypedPlain(F[f], P[f])
    BY Zenon DEF TypedRecord
  <2>5. P[f] = EndpointList =>
          \A i \in DOMAIN Body(F[f]) : ~Reserved(Body(F[f])[i], Defs["Endpoint"])
    BY <2>2 DEF Collides
  <2>6. QED
    BY <2>2, <2>3, <2>4, <2>5
<1>3. Written(s, def) = Obj(w)
  <2>1. G = [f \in DOMAIN F |->
               CASE F[f] = NaN -> Null
                 [] IsNested(def, f) ->
                      Arr([i \in DOMAIN Body(F[f]) |->
                             WrittenPart(Body(F[f])[i], Part(def, f))])
                 [] OTHER -> F[f]]
    BY <1>2
  <2> HIDE DEF G
  <2>2. QED
    BY <2>1 DEF Written, WrittenOf
<1>4. /\ DOMAIN w = DOMAIN E \cup DOMAIN F
      /\ \A f \in DOMAIN F : w[f] = Shown(f)
      /\ \A f \in DOMAIN E : w[f] = E[f]
  BY <1>1 DEF ++
<1> HIDE DEF w
<1>5. Tag(Obj(w)) = "object" /\ Body(Obj(w)) = w /\ \A f : Field(Obj(w), f) = w[f]
  BY DEF Tag, Body, Obj, Field
<1>6. \A f \in DOMAIN F : check4(w[f], P[f])
  BY <1>1, <1>3, <1>4, <1>5, RecordCheck
<1>7. normalize_integers(Obj(w), def) = Obj(b)
  BY <1>5, RecordNormal
<1>8. ASSUME NEW f \in DOMAIN F
      PROVE  /\ Fits(b[f], P[f])
             /\ P[f] = EndpointList =>
                  \A i \in DOMAIN Body(b[f]) : Inside(Body(b[f])[i], Defs["Endpoint"]) # NoRecord
             /\ Made(f) = F[f]
  <2>1. f \in DOMAIN P /\ b[f] = normal4(w[f], P[f]) /\ w[f] = Shown(f)
    BY <1>1, <1>4
  <2> HIDE DEF b
  <2>2. CASE P[f] \in Plains
    <3>1. P[f] \notin {TextList, EndpointList} /\ TypedPlain(F[f], P[f])
      BY <1>2, <2>2, ListRules
    <3>2. w[f] = IF F[f] = NaN THEN Null ELSE F[f]
      BY <2>1, <3>1
    <3>3. MeetsPlain(w[f], P[f])
      BY <1>6, <2>2, PlainCheck
    <3>4. F[f] # NaN
      BY <2>2, <3>1, <3>2, <3>3, WrittenValue
    <3>5. normal4(F[f], P[f]) = F[f] /\ Fits(F[f], P[f]) /\ Typed(F[f], P[f]) = F[f]
      BY <2>2, <3>1, <3>4, PlainNormal, ReadBack
    <3>6. QED
      BY <2>1, <3>1, <3>2, <3>4, <3>5
  <2>3. CASE P[f] = TextList
    <3>1. P[f] # EndpointList /\ TypedList(F[f], TextList)
      BY <1>2, <2>3, ListRules
    <3>2. F[f] # NaN
      BY <3>1 DEF TypedList, Arr, NaN
    <3>3. w[f] = F[f]
      BY <2>1, <3>1, <3>2
    <3>4. QED
      BY <2>1, <2>3, <3>1, <3>2, <3>3, TextsBack
  <2>4. CASE P[f] = EndpointList
    <3>1. PICK items : /\ IsMap(items) /\ F[f] = Arr(items)
                       /\ \A i \in DOMAIN items : TypedPart(items[i], Defs["Endpoint"])
      BY <1>2, <2>4 DEF TypedList
    <3>2. Body(F[f]) = items /\ F[f] # NaN
      BY <3>1 DEF Body, Arr, NaN
    <3>3. w[f] = Arr([i \in DOMAIN items |-> WrittenPart(items[i], Defs["Endpoint"])])
      BY <2>1, <2>4, <3>2
    <3>4. \A i \in DOMAIN items : ~Reserved(items[i], Defs["Endpoint"])
      BY <1>2, <2>4, <3>2
    <3>5. check4(w[f], EndpointList)
      BY <1>6, <2>4
    <3>6. b[f] = normal4(Arr([i \in DOMAIN items |->
                                WrittenPart(items[i], Defs["Endpoint"])]), EndpointList)
      BY <2>1, <2>4, <3>3
    <3>7. check4(Arr([i \in DOMAIN items |-> WrittenPart(items[i], Defs["Endpoint"])]),
                 EndpointList)
      BY <3>3, <3>5
    <3>8. /\ Fits(b[f], EndpointList)
          /\ \A i \in DOMAIN Body(b[f]) : Inside(Body(b[f])[i], Defs["Endpoint"]) # NoRecord
          /\ Arr([i \in DOMAIN Body(b[f]) |-> Inside(Body(b[f])[i], Defs["Endpoint"])])
             = Arr(items)
      BY <3>1, <3>4, <3>6, <3>7, PartsBack
    <3>9. QED
      BY <2>4, <3>1, <3>8
  <2>5. QED
    BY <1>2, <2>2, <2>3, <2>4
<1>9. /\ known = DOMAIN F /\ DOMAIN b \ known = DOMAIN E
      /\ \A f \in DOMAIN E : b[f] = E[f]
  BY <1>1, <1>4
<1> HIDE DEF b
<1>10. Structure(Obj(b), def) = [fields |-> [f \in known |-> Made(f)],
                                 extensions |-> [f \in DOMAIN b \ known |-> b[f]]]
  <2>1. \A f \in known :
          /\ Fits(b[f], P[f])
          /\ P[f] = EndpointList =>
               \A i \in DOMAIN Body(b[f]) : Inside(Body(b[f])[i], Defs["Endpoint"]) # NoRecord
    <3> HIDE DEF known, Made
    <3>1. QED
      BY <1>8, <1>9
  <2>2. QED
    BY <2>1, RecordStructure
<1>11. [f \in known |-> Made(f)] = F
  <2> HIDE DEF Made, known
  <2>1. QED
    BY <1>1, <1>8, <1>9 DEF IsMap
<1>12. [f \in DOMAIN b \ known |-> b[f]] = E
  BY <1>1, <1>9 DEF IsMap
<1>13. QED
  BY <1>1, <1>3, <1>7, <1>10, <1>11, <1>12

(***************************************************************************)
(* What to_value writes of a typed record, whatever a caller put in its    *)
(* fields and extensions, is read back as that record: an edit that would  *)
(* not be is refused.                                                      *)
(***************************************************************************)
THEOREM WrittenIsReadBack ==
  ASSUME NEW kind \in RECORD_KINDS, NEW s, TypedRecord(s, Defs[kind]),
         "kind" \in DOMAIN s.fields, s.fields["kind"] = Str(kind),
         to_value(s) # Refused
  PROVE  decode(to_value(s)) = s
<1> DEFINE def == Defs[kind]
           v == Written(s, def)
<1>1. s = [fields |-> s.fields, extensions |-> s.extensions]
  BY DEF TypedRecord
<1>2. ~IsUnknown(s)
  <2>1. DOMAIN s = {"fields", "extensions"}
    BY <1>1
  <2>2. QED
    BY <2>1 DEF IsUnknown
<1>3. Body(s.fields.kind) = kind
  BY DEF Body, Str
<1>4. ~Collides(s, def) /\ validate_record(v) /\ to_value(s) = v
  BY <1>2, <1>3, Zenon DEF to_value, Checked
<1>5. Field(v, "kind") = Str(kind) /\ Body(Field(v, "kind")) = kind
  BY <1>4, WrittenKind DEF Body, Str
<1>6. check(v, def)
  BY <1>4, <1>5 DEF validate_record
<1>7. decode(v) = Structure(normalize_integers(v, def), def)
  BY <1>4, <1>5 DEF decode
<1>8. QED
  BY <1>4, <1>6, <1>7, RecordBack

-----------------------------------------------------------------------------
(***************************************************************************)
(* Decoding and serializing loses nothing a double can hold.               *)
(***************************************************************************)

\* What the typed field of a rule holds of a value, and of a list's structures.
HeldPlain(x, rule) == IF rule = Clock THEN Float(as_f64(x)) ELSE x

HeldField(x, rule) ==
  IF rule = EndpointList
  THEN Arr([i \in DOMAIN Body(x) |-> NumbersHeld(Body(x)[i], Defs["Endpoint"])])
  ELSE HeldPlain(x, rule)

\* A typed value meets the rule its JSON did, and says what the field holds.
LEMMA PlainKept ==
  ASSUME NEW x, JsonNumber(x), NEW rule \in Plains, MeetsPlain(x, rule), NEW Inner(_)
  PROVE  LET y == MadePlain(x, rule)
         IN /\ y # NaN /\ MeetsPlain(y, rule)
            /\ SaidOf(y, Inner) = SaidOf(HeldPlain(x, rule), Inner)
            /\ IsWord(rule) => y = x
<1> DEFINE y == MadePlain(x, rule)
<1>0. IsCount(rule) \/ rule = Clock \/ IsWord(rule)
  BY PlainRules
<1>t. Tag(NaN) = "nan"
  BY DEF Tag, NaN
<1>1. CASE IsCount(rule)
  <2>1. IsNumber(x) /\ IsInteger(x) /\ Body(x) \in Int
    BY <1>1 DEF MeetsPlain, Accepts, IsCount, JsonNumber, IsNumber
  <2>2. integer_value(x) \in Int /\ 2 * integer_value(x) = Halves(x)
    BY <2>1 DEF integer_value, Halves, IsNumber, IsInteger
  <2>3. rule.minimum <= integer_value(x) /\ integer_value(x) <= rule.maximum
    BY <1>1, <2>1 DEF MeetsPlain, InRange, IsCount
  <2>4. integer_value(x) <= I64
    BY <1>1, <2>2, <2>3, WidthAssumption DEF IsCount
  <2>5. y = Integer(integer_value(x))
    BY <1>1, <2>1, <2>4 DEF MadePlain, NormalPlain, Typed, IsCount
  <2>6. Tag(y) = "integer" /\ Body(y) = integer_value(x)
    BY <2>5 DEF Tag, Body, Integer
  <2> HIDE DEF y
  <2>7. IsNumber(y) /\ IsInteger(y) /\ Halves(y) = Halves(x)
    BY <2>2, <2>6 DEF IsNumber, IsInteger, Halves
  <2>8. integer_value(y) = integer_value(x)
    BY <2>7 DEF integer_value
  <2>9. MeetsPlain(y, rule)
    BY <1>1, <2>3, <2>7, <2>8 DEF MeetsPlain, InRange, IsCount, Accepts
  <2>10. SaidOf(y, Inner) = Float(Halves(y)) /\ SaidOf(x, Inner) = Float(Halves(x))
    BY <2>1, <2>7 DEF SaidOf, IsNumber
  <2>11. ~IsWord(rule) /\ rule # Clock
    BY <1>1 DEF IsCount, IsWord, Clock, Of
  <2>12. HeldPlain(x, rule) = x
    BY <2>11 DEF HeldPlain
  <2>13. QED
    BY <1>t, <2>6, <2>7, <2>9, <2>10, <2>11, <2>12 DEF y
<1>2. CASE rule = Clock
  <2>1. rule.type = {"number"} /\ ~Uses(rule, "const") /\ ~Uses(rule, "minimum")
        /\ ~Uses(rule, "maximum") /\ ~IsWord(rule)
    BY <1>2 DEF Clock, Of, Uses, IsWord
  <2>2. y = Float(as_f64(x)) /\ HeldPlain(x, rule) = y
    BY <1>2, <2>1 DEF MadePlain, NormalPlain, Typed, HeldPlain
  <2> HIDE DEF y
  <2>3. Tag(y) = "float"
    BY <2>2 DEF Tag, Float
  <2>4. MeetsPlain(y, rule)
    BY <2>1, <2>3 DEF MeetsPlain, InRange, Accepts, IsNumber
  <2>5. QED
    BY <1>t, <2>1, <2>2, <2>3, <2>4 DEF y
<1>3. CASE IsWord(rule)
  <2>1. y = x /\ HeldPlain(x, rule) = x
    BY <1>3 DEF MadePlain, NormalPlain, Typed, IsWord, HeldPlain, Clock, Of
  <2>2. Tag(x) \in rule.type
    <3>1. PICK type \in rule.type : Accepts(type, x)
      BY DEF MeetsPlain
    <3>2. type # "integer" /\ type # "number"
      BY <1>3, <3>1 DEF IsWord
    <3>3. QED
      BY <3>1, <3>2 DEF Accepts
  <2>3. x # NaN
    BY <1>3, <1>t, <2>2 DEF IsWord
  <2>4. QED
    BY <2>1, <2>3
<1>4. QED
  BY <1>0, <1>1, <1>2, <1>3

\* A structure's definition asks for types and required fields only.
LEMMA EndpointRules ==
  /\ Uses(Defs["Endpoint"], "required")
  /\ Defs["Endpoint"].required \subseteq DOMAIN Defs["Endpoint"].properties
  /\ ~Uses(Defs["Endpoint"], "allOf") /\ ~Uses(Defs["Endpoint"], "if")
  /\ ~Uses(Defs["Endpoint"], "not") /\ ~Uses(Defs["Endpoint"], "minimum")
  /\ ~Uses(Defs["Endpoint"], "maximum")
BY DEF Defs, Definition, Uses

\* So a value with the same fields of it, each of which meets its rule, meets it
\* too.
LEMMA PartMeets ==
  ASSUME NEW v, check3(v, EndpointList.items), NEW w, Tag(w) = "object",
         DOMAIN Defs["Endpoint"].properties \cap DOMAIN Body(w)
           = DOMAIN Defs["Endpoint"].properties \cap DOMAIN Body(v),
         \A f \in DOMAIN Defs["Endpoint"].properties \cap DOMAIN Body(v) :
           MeetsPlain(Field(w, f), Defs["Endpoint"].properties[f])
  PROVE  check3(w, EndpointList.items)
<1> DEFINE def == Defs["Endpoint"]
<1>1. check2(v, def)
  BY ListRules DEF check3, Meets
<1>2. /\ Uses(def, "type") /\ def.type = {"object"} /\ Uses(def, "properties")
      /\ ~Uses(def, "ref") /\ ~Uses(def, "items") /\ ~Uses(def, "const")
      /\ Uses(def, "required") /\ ~Uses(def, "allOf") /\ ~Uses(def, "if")
      /\ ~Uses(def, "not") /\ ~Uses(def, "minimum") /\ ~Uses(def, "maximum")
  BY EndpointSchema, EndpointRules DEF Structured
<1>3. \A f \in def.required : Has(v, f)
  <2>1. Tag(v) = "object"
    BY PartCheck
  <2>2. QED
    BY <1>1, <1>2, <2>1, Zenon DEF check2, Meets
<1>4. \A f \in DOMAIN def.properties \cap DOMAIN Body(w) :
        check1(Field(w, f), def.properties[f])
  BY EndpointSchema, PlainCheck DEF Structured
<1>5. \A f \in def.required : Has(w, f)
  BY <1>3, EndpointRules DEF Has
<1>6. \E type \in def.type : Accepts(type, w)
  BY <1>2 DEF Accepts
<1>7. InRange(w, def)
  BY <1>2 DEF InRange
<1> HIDE DEF def
<1>8. check2(w, def)
  BY <1>2, <1>4, <1>5, <1>6, <1>7, Zenon DEF check2, Meets
<1>9. QED
  BY <1>8, ListRules DEF check3, Meets, def

\* What is written where no extension takes a field's name.
LEMMA UnionFields ==
  ASSUME NEW E, NEW G, DOMAIN G \cap DOMAIN E = {}
  PROVE  LET w == Obj(E ++ G)
         IN /\ Tag(w) = "object" /\ DOMAIN Body(w) = DOMAIN G \cup DOMAIN E
            /\ \A f \in DOMAIN E : Field(w, f) = E[f]
            /\ \A f \in DOMAIN G : Field(w, f) = G[f]
<1> DEFINE b == E ++ G
<1>1. /\ DOMAIN b = DOMAIN G \cup DOMAIN E
      /\ \A f \in DOMAIN E : b[f] = E[f]
      /\ \A f \in DOMAIN G : b[f] = G[f]
  BY DEF ++
<1> HIDE DEF b
<1>2. Tag(Obj(b)) = "object" /\ Body(Obj(b)) = b /\ \A f : Field(Obj(b), f) = b[f]
  BY DEF Tag, Body, Obj, Field
<1>3. QED
  BY <1>1, <1>2 DEF b

\* Of a structure inside a record, and of a record.
LEMMA WrittenPartFields ==
  ASSUME NEW s, DOMAIN s.fields \cap DOMAIN s.extensions = {},
         DOMAIN s.fields \subseteq DOMAIN Defs["Endpoint"].properties
  PROVE  LET w == WrittenPart(s, Defs["Endpoint"])
         IN /\ Tag(w) = "object" /\ DOMAIN Body(w) = DOMAIN s.fields \cup DOMAIN s.extensions
            /\ \A f \in DOMAIN s.extensions : Field(w, f) = s.extensions[f]
            /\ \A f \in DOMAIN s.fields :
                 Field(w, f) = IF s.fields[f] = NaN THEN Null ELSE s.fields[f]
<1> DEFINE def == Defs["Endpoint"]
           F == s.fields
           G == [f \in DOMAIN F |-> IF F[f] = NaN THEN Null ELSE F[f]]
<1>1. \A f \in DOMAIN F : ~IsNested(def, f)
  BY EndpointSchema, PlainRules DEF Structured, IsNested
<1>2. G = [f \in DOMAIN F |->
             CASE F[f] = NaN -> Null
               [] IsNested(def, f) ->
                    Arr([i \in DOMAIN Body(F[f]) |-> NotWritten(Body(F[f])[i], Part(def, f))])
               [] OTHER -> F[f]]
  BY <1>1
<1>3. DOMAIN G = DOMAIN F /\ \A f \in DOMAIN F : G[f] = IF F[f] = NaN THEN Null ELSE F[f]
  OBVIOUS
<1> HIDE DEF G, def
<1>4. WrittenPart(s, def) = Obj(s.extensions ++ G)
  BY <1>2 DEF WrittenPart, WrittenOf
<1> DEFINE w == Obj(s.extensions ++ G)
<1>5. DOMAIN G \cap DOMAIN s.extensions = {}
  BY <1>3
<1>6. /\ Tag(w) = "object" /\ DOMAIN Body(w) = DOMAIN G \cup DOMAIN s.extensions
      /\ \A f \in DOMAIN s.extensions : Field(w, f) = s.extensions[f]
      /\ \A f \in DOMAIN G : Field(w, f) = G[f]
  BY <1>5, UnionFields
<1> HIDE DEF w
<1>7. WrittenPart(s, Defs["Endpoint"]) = w
  BY <1>4 DEF w, def
<1>8. QED
  BY <1>3, <1>6, <1>7

\* How a field is written.
ShownField(y, rule) ==
  IF rule = EndpointList
  THEN Arr([i \in DOMAIN Body(y) |-> WrittenPart(Body(y)[i], Defs["Endpoint"])])
  ELSE y

\* What is written of a record: its fields and its extensions.
LEMMA WrittenRecordFields ==
  ASSUME NEW kind \in RECORD_KINDS, NEW s, DOMAIN s.fields \cap DOMAIN s.extensions = {},
         DOMAIN s.fields \subseteq DOMAIN Defs[kind].properties
  PROVE  LET w == Written(s, Defs[kind])
         IN /\ Tag(w) = "object" /\ DOMAIN Body(w) = DOMAIN s.fields \cup DOMAIN s.extensions
            /\ \A f \in DOMAIN s.extensions : Field(w, f) = s.extensions[f]
            /\ \A f \in DOMAIN s.fields :
                 /\ s.fields[f] # NaN =>
                      Field(w, f) = ShownField(s.fields[f], Defs[kind].properties[f])
                 /\ s.fields[f] = NaN /\ Defs[kind].properties[f] # EndpointList =>
                      Field(w, f) = Null
<1> DEFINE def == Defs[kind]
           P == def.properties
           F == s.fields
           H == [f \in DOMAIN F |->
                   CASE F[f] = NaN -> Null
                     [] IsNested(def, f) ->
                          Arr([i \in DOMAIN Body(F[f]) |->
                                 WrittenPart(Body(F[f])[i], Part(def, f))])
                     [] OTHER -> F[f]]
<1>1. \A f \in DOMAIN F : /\ IsNested(def, f) <=> P[f] = EndpointList
                          /\ IsNested(def, f) => Part(def, f) = Defs["Endpoint"]
  BY NestedFields
<1>2. ASSUME NEW f \in DOMAIN F
      PROVE  /\ F[f] # NaN => H[f] = ShownField(F[f], P[f])
             /\ F[f] = NaN /\ P[f] # EndpointList => H[f] = Null
  BY <1>1 DEF ShownField
<1>3. DOMAIN H = DOMAIN F
  OBVIOUS
<1>4. Written(s, def) = Obj(s.extensions ++ H)
  BY DEF Written, WrittenOf
<1> HIDE DEF H
<1> DEFINE w == Obj(s.extensions ++ H)
<1>5. DOMAIN H \cap DOMAIN s.extensions = {}
  BY <1>3
<1>6. /\ Tag(w) = "object" /\ DOMAIN Body(w) = DOMAIN H \cup DOMAIN s.extensions
      /\ \A f \in DOMAIN s.extensions : Field(w, f) = s.extensions[f]
      /\ \A f \in DOMAIN H : Field(w, f) = H[f]
  BY <1>5, UnionFields
<1> HIDE DEF w
<1>7. QED
  <2>1. Written(s, Defs[kind]) = w
    BY <1>4 DEF w
  <2>2. QED
    BY <1>2, <1>3, <1>6, <2>1

\* The fields of a structure as its number fields hold them.
LEMMA HeldPartFields ==
  ASSUME NEW v
  PROVE  LET P == Defs["Endpoint"].properties
             u == NumbersHeld(v, Defs["Endpoint"])
         IN /\ Tag(u) = "object" /\ DOMAIN Body(u) = DOMAIN Body(v)
            /\ \A f \in DOMAIN Body(v) :
                 Field(u, f) = IF f \in DOMAIN P THEN HeldPlain(Field(v, f), P[f])
                               ELSE Field(v, f)
<1> DEFINE P == Defs["Endpoint"].properties
           b == [f \in DOMAIN Body(v) |->
                   IF f \in DOMAIN P /\ P[f] = Clock
                   THEN Float(as_f64(Field(v, f))) ELSE Field(v, f)]
<1>1. NumbersHeld(v, Defs["Endpoint"]) = Obj(b)
  BY DEF NumbersHeld
<1>2. DOMAIN b = DOMAIN Body(v)
      /\ \A f \in DOMAIN Body(v) :
           b[f] = IF f \in DOMAIN P THEN HeldPlain(Field(v, f), P[f]) ELSE Field(v, f)
  BY DEF HeldPlain
<1> HIDE DEF b
<1>3. QED
  BY <1>1, <1>2 DEF Tag, Body, Obj, Field

\* A structure inside a record.
LEMMA PartKept ==
  ASSUME NEW v, JsonPart(v), check3(v, EndpointList.items)
  PROVE  LET s == Inside(normal3(v, EndpointList.items), Defs["Endpoint"])
             w == WrittenPart(s, Defs["Endpoint"])
         IN /\ ~Reserved(s, Defs["Endpoint"])
            /\ check3(w, EndpointList.items)
            /\ Said2(w) = Said2(NumbersHeld(v, Defs["Endpoint"]))
<1> DEFINE def == Defs["Endpoint"]
           P == def.properties
           u == NumbersHeld(v, def)
           s == Inside(normal3(v, EndpointList.items), def)
           w == WrittenPart(s, def)
<1>1. MadeFrom(s, v, def, MadePlain)
  BY PartDecodes
<1>2. /\ DOMAIN s.fields = DOMAIN P \cap DOMAIN Body(v)
      /\ \A f \in DOMAIN s.fields : s.fields[f] = MadePlain(Field(v, f), P[f])
      /\ DOMAIN s.extensions = DOMAIN Body(v) \ DOMAIN P
      /\ \A f \in DOMAIN s.extensions : s.extensions[f] = Field(v, f)
  BY <1>1, Zenon DEF MadeFrom
<1> HIDE DEF s
<1>3. Tag(v) = "object" /\ \A f \in DOMAIN P \cap DOMAIN Body(v) : check1(Field(v, f), P[f])
  BY PartCheck
<1>4. \A f \in DOMAIN P : P[f] \in Plains /\ ~IsNested(def, f)
  BY EndpointSchema, PlainRules DEF Structured, IsNested
<1> HIDE DEF def
<1>5. ASSUME NEW f \in DOMAIN s.fields
      PROVE  /\ s.fields[f] # NaN /\ MeetsPlain(s.fields[f], P[f])
             /\ Said1(s.fields[f]) = Said1(HeldPlain(Field(v, f), P[f]))
  <2>1. f \in DOMAIN P /\ f \in DOMAIN Body(v) /\ P[f] \in Plains
    BY <1>2, <1>4
  <2>2. MeetsPlain(Field(v, f), P[f])
    BY <1>3, <2>1, PlainCheck
  <2>3. JsonNumber(Field(v, f))
    BY <1>3, <2>1 DEF JsonPart
  <2>4. /\ MadePlain(Field(v, f), P[f]) # NaN
        /\ MeetsPlain(MadePlain(Field(v, f), P[f]), P[f])
        /\ SaidOf(MadePlain(Field(v, f), P[f]), Verbatim)
             = SaidOf(HeldPlain(Field(v, f), P[f]), Verbatim)
    BY <2>1, <2>2, <2>3, PlainKept
  <2>5. QED
    BY <1>2, <2>4 DEF Said1
<1>6. ~Reserved(s, def)
  BY <1>2 DEF Reserved, check_extensions
<1>7. /\ Tag(w) = "object" /\ DOMAIN Body(w) = DOMAIN s.fields \cup DOMAIN s.extensions
      /\ \A f \in DOMAIN s.extensions : Field(w, f) = s.extensions[f]
      /\ \A f \in DOMAIN s.fields : s.fields[f] # NaN => Field(w, f) = s.fields[f]
  <2>1. /\ DOMAIN s.fields \cap DOMAIN s.extensions = {}
        /\ DOMAIN s.fields \subseteq DOMAIN P
    BY <1>2
  <2>2. QED
    BY <2>1, WrittenPartFields DEF def
<1> HIDE DEF w
<1>8. \A f \in DOMAIN s.fields : Field(w, f) = s.fields[f]
  BY <1>2, <1>4, <1>5, <1>7
<1>9. DOMAIN Body(w) = DOMAIN Body(v)
  BY <1>2, <1>7
<1>10. check3(w, EndpointList.items)
  <2>1. \A f \in DOMAIN P \cap DOMAIN Body(v) : MeetsPlain(Field(w, f), P[f])
    BY <1>2, <1>5, <1>8
  <2>2. QED
    BY <1>7, <1>9, <2>1, PartMeets DEF def
<1>11. /\ Tag(u) = "object" /\ DOMAIN Body(u) = DOMAIN Body(v)
       /\ \A f \in DOMAIN Body(v) :
            Field(u, f) = IF f \in DOMAIN P THEN HeldPlain(Field(v, f), P[f])
                          ELSE Field(v, f)
  BY HeldPartFields DEF def
<1> HIDE DEF u
<1>12. \A f \in DOMAIN Body(v) : Said1(Field(w, f)) = Said1(Field(u, f))
  BY <1>2, <1>5, <1>7, <1>8, <1>11
<1>13. /\ Said2(u) = Obj([f \in DOMAIN Body(u) |-> Said1(Field(u, f))])
       /\ Said2(w) = Obj([f \in DOMAIN Body(w) |-> Said1(Field(w, f))])
  BY <1>7, <1>11 DEF Said2, SaidOf, IsNumber
<1>14. Said2(w) = Said2(u)
  BY <1>9, <1>11, <1>12, <1>13
<1>15. QED
  BY <1>6, <1>10, <1>14 DEF s, w, u, def

\* A list is written as one that meets the rule when its items meet theirs.
LEMMA ListMeets ==
  ASSUME NEW rule \in {TextList, EndpointList}, NEW items,
         \A i \in DOMAIN items : check3(items[i], rule.items)
  PROVE  check4(Arr(items), rule)
<1>1. /\ ~Uses(rule, "ref") /\ ~Uses(rule, "properties") /\ ~Uses(rule, "const")
      /\ ~Uses(rule, "allOf") /\ ~Uses(rule, "if") /\ ~Uses(rule, "not")
      /\ ~Uses(rule, "required") /\ Uses(rule, "type") /\ rule.type = {"array"}
      /\ Uses(rule, "items") /\ ~Uses(rule, "minimum") /\ ~Uses(rule, "maximum")
  BY ListRules
<1>2. Tag(Arr(items)) = "array" /\ Body(Arr(items)) = items
  BY DEF Tag, Body, Arr
<1>3. (\E type \in rule.type : Accepts(type, Arr(items))) /\ InRange(Arr(items), rule)
  BY <1>1, <1>2 DEF Accepts, InRange
<1>4. Tag(Arr(items)) # "object"
  BY <1>2
<1>5. QED
  BY <1>1, <1>2, <1>3, <1>4, Zenon DEF check4, Meets

\* What a list says, its items say.
LEMMA SaidOfList ==
  ASSUME NEW x, Tag(x) = "array"
  PROVE  Said3(x) = Arr([i \in DOMAIN Body(x) |-> Said2(Body(x)[i])])
BY DEF Said3, SaidOf, IsNumber

\* A list of texts is kept.
LEMMA TextsKept ==
  ASSUME NEW x, check4(x, TextList)
  PROVE  LET y == MadeField(x, TextList)
         IN y # NaN /\ check4(y, TextList) /\ Said3(y) = Said3(x)
<1> DEFINE items == [i \in DOMAIN Body(x) |-> Body(x)[i]]
<1>1. Tag(x) = "array" /\ \A i \in DOMAIN Body(x) : check3(Body(x)[i], TextList.items)
  BY ListCheck
<1>2. /\ normal4(x, TextList) = Arr([i \in DOMAIN Body(x) |-> normal3(Body(x)[i], TextList.items)])
      /\ \A i \in DOMAIN Body(x) : normal3(Body(x)[i], TextList.items) = Body(x)[i]
  BY <1>1, ListNormal
<1>3. normal4(x, TextList) = Arr(items)
  BY <1>2
<1>4. TextList # EndpointList /\ TextList.type = {"array"}
  BY ListRules
<1>5. MadeField(x, TextList) = Arr(items)
  BY <1>3, <1>4 DEF MadeField, Typed
<1>6. DOMAIN items = DOMAIN Body(x) /\ \A i \in DOMAIN items : items[i] = Body(x)[i]
  OBVIOUS
<1> HIDE DEF items
<1>7. check4(Arr(items), TextList)
  BY <1>1, <1>6, ListMeets
<1>8. Tag(Arr(items)) = "array" /\ Body(Arr(items)) = items /\ Arr(items) # NaN
  BY DEF Tag, Body, Arr, NaN
<1>9. Said3(Arr(items)) = Said3(x)
  <2>1. Said3(Arr(items)) = Arr([i \in DOMAIN items |-> Said2(items[i])])
    <3>1. Said3(Arr(items)) =
            Arr([i \in DOMAIN Body(Arr(items)) |-> Said2(Body(Arr(items))[i])])
      BY <1>8, SaidOfList, Zenon
    <3>2. QED
      BY <1>8, <3>1, Zenon
  <2>2. Said3(x) = Arr([i \in DOMAIN Body(x) |-> Said2(Body(x)[i])])
    BY <1>1, SaidOfList, Zenon
  <2>3. [i \in DOMAIN items |-> Said2(items[i])]
          = [i \in DOMAIN Body(x) |-> Said2(Body(x)[i])]
    BY <1>6
  <2>4. QED
    BY <2>1, <2>2, <2>3, Zenon
<1>10. \A y : y = Arr(items) => y # NaN /\ check4(y, TextList) /\ Said3(y) = Said3(x)
  BY <1>7, <1>8, <1>9
<1>11. QED
  BY <1>5, <1>10, Zenon

\* A list of structures is kept.
LEMMA PartsKept ==
  ASSUME NEW x, check4(x, EndpointList), JsonField(x)
  PROVE  LET y == MadeField(x, EndpointList)
             z == ShownField(y, EndpointList)
         IN /\ y # NaN /\ check4(z, EndpointList)
            /\ Said3(z) = Said3(HeldField(x, EndpointList))
            /\ \A i \in DOMAIN Body(y) : ~Reserved(Body(y)[i], Defs["Endpoint"])
<1> DEFINE E == Defs["Endpoint"]
           Made(i) == Inside(normal3(Body(x)[i], EndpointList.items), E)
           parts == [i \in DOMAIN Body(x) |-> Made(i)]
           texts == [i \in DOMAIN parts |-> WrittenPart(parts[i], E)]
           y == MadeField(x, EndpointList)
           z == ShownField(y, EndpointList)
           u == HeldField(x, EndpointList)
<1>1. Tag(x) = "array" /\ \A i \in DOMAIN Body(x) : check3(Body(x)[i], EndpointList.items)
  BY ListCheck
<1>2. \A i \in DOMAIN Body(x) : /\ ~Reserved(Made(i), E)
                                /\ check3(WrittenPart(Made(i), E), EndpointList.items)
                                /\ Said2(WrittenPart(Made(i), E)) = Said2(NumbersHeld(Body(x)[i], E))
  BY <1>1, PartKept DEF JsonField
<1> HIDE DEF E
<1>3. y = Arr(parts)
  <2> DEFINE n == [i \in DOMAIN Body(x) |-> normal3(Body(x)[i], EndpointList.items)]
  <2>1. normal4(x, EndpointList) = Arr(n)
    BY <1>1, ListNormal
  <2>2. Body(Arr(n)) = n /\ DOMAIN n = DOMAIN Body(x)
    BY DEF Body, Arr
  <2>3. y = Arr([i \in DOMAIN n |-> Inside(n[i], E)])
    BY <2>1, <2>2 DEF MadeField, E
  <2>4. QED
    BY <2>3
<1> HIDE DEF Made
<1>4. DOMAIN parts = DOMAIN Body(x) /\ \A i \in DOMAIN parts : parts[i] = Made(i)
  OBVIOUS
<1> HIDE DEF parts
<1>5. Body(y) = parts /\ y # NaN
  BY <1>3 DEF Body, Arr, NaN
<1> HIDE DEF y
<1>6. z = Arr(texts)
  BY <1>5 DEF ShownField, E
<1>7. DOMAIN texts = DOMAIN Body(x) /\ \A i \in DOMAIN texts : texts[i] = WrittenPart(Made(i), E)
  BY <1>4
<1> HIDE DEF texts, z
<1>8. check4(z, EndpointList)
  BY <1>2, <1>6, <1>7, ListMeets
<1>9. Said3(z) = Said3(u)
  <2>1. Tag(z) = "array" /\ Body(z) = texts
    BY <1>6 DEF Tag, Body, Arr
  <2>2. /\ Tag(u) = "array" /\ DOMAIN Body(u) = DOMAIN Body(x)
        /\ \A i \in DOMAIN Body(x) : Body(u)[i] = NumbersHeld(Body(x)[i], E)
    <3> DEFINE held == [i \in DOMAIN Body(x) |-> NumbersHeld(Body(x)[i], E)]
    <3>1. u = Arr(held)
      BY DEF HeldField, E
    <3>2. DOMAIN held = DOMAIN Body(x)
          /\ \A i \in DOMAIN Body(x) : held[i] = NumbersHeld(Body(x)[i], E)
      OBVIOUS
    <3> HIDE DEF held, u
    <3>3. QED
      BY <3>1, <3>2 DEF Tag, Body, Arr
  <2> HIDE DEF u
  <2>3. QED
    BY <1>2, <1>7, <2>1, <2>2, SaidOfList
<1>10. \A i \in DOMAIN Body(y) : ~Reserved(Body(y)[i], E)
  BY <1>2, <1>4, <1>5
<1>11. QED
  BY <1>5, <1>8, <1>9, <1>10 DEF y, z, u, E

\* Any field.
LEMMA FieldKept ==
  ASSUME NEW rule \in Plains \cup {TextList, EndpointList}, NEW x,
         check4(x, rule), JsonField(x)
  PROVE  LET y == MadeField(x, rule)
             z == ShownField(y, rule)
         IN /\ y # NaN /\ check4(z, rule) /\ Said3(z) = Said3(HeldField(x, rule))
            /\ rule \in Plains /\ IsWord(rule) => z = x
            /\ rule = EndpointList =>
                 \A i \in DOMAIN Body(y) : ~Reserved(Body(y)[i], Defs["Endpoint"])
<1>1. TextList # EndpointList /\ TextList \notin Plains /\ EndpointList \notin Plains
  BY ListRules
<1>2. CASE rule \in Plains
  <2>1. MeetsPlain(x, rule) /\ JsonNumber(x)
    BY <1>2, PlainCheck DEF JsonField
  <2>2. MadeField(x, rule) = MadePlain(x, rule)
    BY <1>1, <1>2, PlainNormal DEF MadeField, MadePlain
  <2>3. ShownField(MadeField(x, rule), rule) = MadePlain(x, rule)
    BY <1>1, <1>2, <2>2 DEF ShownField
  <2>4. /\ MadePlain(x, rule) # NaN /\ MeetsPlain(MadePlain(x, rule), rule)
        /\ SaidOf(MadePlain(x, rule), Said2) = SaidOf(HeldPlain(x, rule), Said2)
        /\ IsWord(rule) => MadePlain(x, rule) = x
    BY <1>2, <2>1, PlainKept
  <2>5. check4(MadePlain(x, rule), rule)
    BY <1>2, <2>4, PlainCheck
  <2>6. QED
    BY <1>1, <1>2, <2>2, <2>3, <2>4, <2>5 DEF Said3, HeldField
<1>3. CASE rule = TextList
  <2>1. ShownField(MadeField(x, rule), rule) = MadeField(x, rule)
    BY <1>1, <1>3 DEF ShownField
  <2>2. TextList # Clock
    BY ListRules DEF Plains
  <2>3. HeldField(x, rule) = x
    BY <1>1, <1>3, <2>2 DEF HeldField, HeldPlain
  <2>4. QED
    BY <1>1, <1>3, <2>1, <2>3, TextsKept
<1>4. CASE rule = EndpointList
  BY <1>1, <1>4, PartsKept
<1>5. QED
  BY <1>2, <1>3, <1>4

\* The conditional rules of a definition: under a condition on a field that is
\* a word, one field is required or forbidden.
Condition(rule, P) ==
  \E field \in DOMAIN P : \E value, R :
    /\ P[field] \in Plains /\ IsWord(P[field])
    /\ rule \in {When(field, value, [required |-> R]),
                 When(field, value, [not |-> [required |-> R]])}

\* The conditional rules of a kind relate fields of it.
LEMMA Conditions ==
  ASSUME NEW kind \in RECORD_KINDS
  PROVE  /\ ~Uses(Defs[kind], "if") /\ ~Uses(Defs[kind], "not")
         /\ ~Uses(Defs[kind], "minimum") /\ ~Uses(Defs[kind], "maximum")
         /\ Uses(Defs[kind], "allOf") =>
              \A i \in DOMAIN Defs[kind].allOf :
                Condition(Defs[kind].allOf[i], Defs[kind].properties)
<1>1. /\ ~Uses(Defs[kind], "if") /\ ~Uses(Defs[kind], "not")
      /\ ~Uses(Defs[kind], "minimum") /\ ~Uses(Defs[kind], "maximum")
  <2> USE DEF Defs, Definition, Uses, ++
  <2>1. CASE kind = "store"
    BY <2>1
  <2>2. CASE kind = "evict"
    BY <2>2
  <2>3. CASE kind = "clear"
    BY <2>3
  <2>4. CASE kind = "holder_reset"
    BY <2>4
  <2>5. CASE kind = "agent_start"
    BY <2>5
  <2>6. CASE kind = "heartbeat"
    BY <2>6
  <2>7. CASE kind = "identity_refused"
    BY <2>7
  <2>8. CASE kind = "segments_dropped"
    BY <2>8
  <2> HIDE DEF Defs, Definition, Uses, ++
  <2>9. QED
    BY Kinds, <2>1, <2>2, <2>3, <2>4, <2>5, <2>6, <2>7, <2>8
<1>2. Uses(Defs[kind], "allOf") => kind \in {"store", "agent_start"}
  BY Kinds DEF Defs, Definition, Uses, ++
<1>3. CASE kind = "store"
  <2> DEFINE P == Defs["store"].properties
             rule == When("parent_unknown", Bool(TRUE), [not |-> [required |-> {"parent_id"}]])
  <2>1. Defs["store"].allOf = <<rule>>
    BY DEF Defs, Definition, ++
  <2>2. "parent_unknown" \in DOMAIN P /\ P["parent_unknown"] = Of("boolean")
    BY DEF Defs, Definition, ++
  <2>3. Of("boolean") \in Plains /\ IsWord(Of("boolean"))
    BY DEF Plains, IsWord, Of, Uses
  <2> HIDE DEF P
  <2>4. Condition(rule, P)
    BY <2>2, <2>3 DEF Condition
  <2> HIDE DEF rule
  <2>5. \A i \in DOMAIN Defs["store"].allOf : Condition(Defs["store"].allOf[i], P)
    BY <2>1, <2>4
  <2>6. QED
    BY <1>1, <1>3, <2>5 DEF P
<1>4. CASE kind = "agent_start"
  <2> DEFINE P == Defs["agent_start"].properties
             rule == When("egress", Str("pseudonymized"), [required |-> {"canary"}])
  <2>1. Defs["agent_start"].allOf = <<rule>>
    BY DEF Defs, Definition, ++
  <2>2. "egress" \in DOMAIN P /\ P["egress"] = Text
    BY DEF Defs, Definition, ++
  <2>3. Text \in Plains /\ IsWord(Text)
    BY DEF Plains, IsWord, Text, Of, Uses
  <2> HIDE DEF P
  <2>4. Condition(rule, P)
    BY <2>2, <2>3 DEF Condition
  <2> HIDE DEF rule
  <2>5. \A i \in DOMAIN Defs["agent_start"].allOf : Condition(Defs["agent_start"].allOf[i], P)
    BY <2>1, <2>4
  <2>6. QED
    BY <1>1, <1>4, <2>5 DEF P
<1>5. QED
  BY <1>1, <1>2, <1>3, <1>4, Zenon

\* A conditional rule does not tell apart two objects with the same names and
\* the same value in the field it asks about.
LEMMA ConditionKept ==
  ASSUME NEW v, NEW w, Tag(v) = "object", Tag(w) = "object", DOMAIN Body(w) = DOMAIN Body(v),
         NEW field, Has(v, field) => Field(w, field) = Field(v, field), NEW value, NEW R,
         NEW rule \in {When(field, value, [required |-> R]),
                       When(field, value, [not |-> [required |-> R]])}
  PROVE  check4(v, rule) => check4(w, rule)
<1> DEFINE If == [properties |-> Maplet(field, [const |-> value]), required |-> {field}]
           Then == rule.then
<1>1. /\ Uses(rule, "if") /\ Uses(rule, "then") /\ rule.if = If
      /\ \A k \in {"ref", "const", "type", "minimum", "maximum", "required", "properties",
                   "items", "allOf", "not"} : ~Uses(rule, k)
  BY DEF When, Uses
<1>2. \A x : ~IsNumber(x) => InRange(x, rule) /\ InRange(x, If)
  BY DEF InRange
<1>3. ~IsNumber(v) /\ ~IsNumber(w) /\ Tag(v) # "array" /\ Tag(w) # "array"
  BY DEF IsNumber
<1>4. \A x : Tag(x) = "object" =>
         (check4(x, rule) <=> (check3(x, If) => check3(x, Then)))
  <2> HIDE DEF If, Then
  <2> TAKE x
  <2> HAVE Tag(x) = "object"
  <2>1. ~IsNumber(x) /\ Tag(x) # "array"
    BY DEF IsNumber
  <2>2. InRange(x, rule)
    BY <2>1 DEF InRange
  <2>3. rule.then = Then
    BY DEF Then
  <2>4. /\ ~Uses(rule, "ref") /\ ~Uses(rule, "const") /\ ~Uses(rule, "type")
        /\ ~Uses(rule, "required") /\ ~Uses(rule, "properties") /\ ~Uses(rule, "items")
        /\ ~Uses(rule, "allOf") /\ ~Uses(rule, "not") /\ Uses(rule, "if") /\ rule.if = If
    BY <1>1
  <2>5. QED
    BY <2>1, <2>2, <2>3, <2>4, Zenon DEF check4, Meets
<1>5. /\ \A k \in {"ref", "const", "type", "items", "allOf", "if", "not"} : ~Uses(If, k)
      /\ Uses(If, "required") /\ Uses(If, "properties")
      /\ If.required = {field} /\ If.properties = Maplet(field, [const |-> value])
  BY DEF Uses
<1>6. \A x : Tag(x) = "object" =>
         (check3(x, If) <=> Has(x, field) /\ check2(Field(x, field), [const |-> value]))
  <2> HIDE DEF If
  <2> TAKE x
  <2> HAVE Tag(x) = "object"
  <2>1. Tag(x) # "array" /\ InRange(x, If)
    BY DEF InRange, IsNumber
  <2>2. /\ ~Uses(If, "ref") /\ ~Uses(If, "const") /\ ~Uses(If, "type") /\ ~Uses(If, "items")
        /\ ~Uses(If, "allOf") /\ ~Uses(If, "if") /\ ~Uses(If, "not")
    BY <1>5
  <2>3. check3(x, If) <=>
          /\ \A f \in If.required : Has(x, f)
          /\ \A f \in DOMAIN If.properties \cap DOMAIN Body(x) :
               check2(Field(x, f), If.properties[f])
    BY <1>5, <2>1, <2>2, Zenon DEF check3, Meets
  <2>4. DOMAIN If.properties = {field} /\ If.properties[field] = [const |-> value]
    BY <1>5 DEF Maplet
  <2>5. QED
    BY <1>5, <2>3, <2>4 DEF Has
<1>7. \A g : Has(w, g) <=> Has(v, g)
  BY DEF Has
<1>8. check3(w, If) => check3(v, If)
  BY <1>6, <1>7
<1> HIDE DEF If
<1>9. ASSUME NEW Q, Q = [required |-> R], NEW x, Tag(x) = "object"
      PROVE  /\ check3(x, Q) <=> \A g \in R : Has(x, g)
             /\ check2(x, Q) <=> \A g \in R : Has(x, g)
  <2>1. /\ ~Uses(Q, "ref") /\ ~Uses(Q, "const") /\ ~Uses(Q, "type") /\ ~Uses(Q, "items")
        /\ ~Uses(Q, "properties") /\ ~Uses(Q, "allOf") /\ ~Uses(Q, "if") /\ ~Uses(Q, "not")
        /\ Uses(Q, "required") /\ Q.required = R
    BY <1>9 DEF Uses
  <2>2. Tag(x) # "array" /\ InRange(x, Q)
    BY <1>9 DEF InRange, IsNumber
  <2>3. check3(x, Q) <=> \A g \in R : Has(x, g)
    BY <1>9, <2>1, <2>2, Zenon DEF check3, Meets
  <2>4. check2(x, Q) <=> \A g \in R : Has(x, g)
    BY <1>9, <2>1, <2>2, Zenon DEF check2, Meets
  <2>5. QED
    BY <2>3, <2>4
<1>10. check3(v, Then) => check3(w, Then)
  <2>1. CASE rule = When(field, value, [required |-> R])
    <3>1. Then = [required |-> R]
      BY <2>1 DEF When
    <3>2. QED
      BY <1>7, <1>9, <3>1
  <2>2. CASE rule = When(field, value, [not |-> [required |-> R]])
    <3>1. Then = [not |-> [required |-> R]]
      BY <2>2 DEF When
    <3>2. /\ ~Uses(Then, "ref") /\ ~Uses(Then, "const") /\ ~Uses(Then, "type")
          /\ ~Uses(Then, "items") /\ ~Uses(Then, "properties") /\ ~Uses(Then, "required")
          /\ ~Uses(Then, "allOf") /\ ~Uses(Then, "if")
          /\ Uses(Then, "not") /\ Then.not = [required |-> R]
      BY <3>1 DEF Uses
    <3> HIDE DEF Then
    <3>3. ASSUME NEW x, Tag(x) = "object"
          PROVE  check3(x, Then) <=> ~check2(x, [required |-> R])
      <4>1. Tag(x) # "array" /\ InRange(x, Then)
        BY <3>3 DEF InRange, IsNumber
      <4>2. QED
        BY <3>2, <3>3, <4>1, Zenon DEF check3, Meets
    <3>4. QED
      BY <1>7, <1>9, <3>3
  <2>3. QED
    BY <2>1, <2>2
<1>11. QED
  BY <1>4, <1>8, <1>10

\* A value with the names of a valid record, each field of which meets its rule
\* and the words of which are the same, is valid too.
LEMMA RecordMeets ==
  ASSUME NEW kind \in RECORD_KINDS, NEW v, check(v, Defs[kind]),
         NEW w, Tag(w) = "object", DOMAIN Body(w) = DOMAIN Body(v),
         \A f \in DOMAIN Defs[kind].properties \cap DOMAIN Body(v) :
           check4(Field(w, f), Defs[kind].properties[f]),
         \A f \in DOMAIN Defs[kind].properties \cap DOMAIN Body(v) :
           Defs[kind].properties[f] \in Plains /\ IsWord(Defs[kind].properties[f]) =>
             Field(w, f) = Field(v, f)
  PROVE  check(w, Defs[kind])
<1> DEFINE def == Defs[kind]
<1>1. /\ Uses(def, "type") /\ def.type = {"object"} /\ Uses(def, "properties")
      /\ ~Uses(def, "ref") /\ ~Uses(def, "items") /\ ~Uses(def, "const")
      /\ Uses(def, "required") /\ ~Uses(def, "if") /\ ~Uses(def, "not")
  BY Schema, Conditions DEF Structured
<1>2. /\ Tag(v) = "object" /\ \A f \in def.required : Has(v, f)
  BY RecordCheck
<1>3. Uses(def, "allOf") => \A i \in DOMAIN def.allOf : check4(v, def.allOf[i])
  BY <1>1, <1>2, Zenon DEF check, Meets
<1>4. ASSUME Uses(def, "allOf"), NEW i \in DOMAIN def.allOf
      PROVE  check4(w, def.allOf[i])
  <2>1. Condition(def.allOf[i], def.properties)
    BY <1>4, Conditions
  <2>2. PICK field \in DOMAIN def.properties : \E value, R :
          /\ def.properties[field] \in Plains /\ IsWord(def.properties[field])
          /\ def.allOf[i] \in {When(field, value, [required |-> R]),
                               When(field, value, [not |-> [required |-> R]])}
    BY <2>1, Zenon DEF Condition
  <2>3. PICK value, R :
          /\ def.properties[field] \in Plains /\ IsWord(def.properties[field])
          /\ def.allOf[i] \in {When(field, value, [required |-> R]),
                               When(field, value, [not |-> [required |-> R]])}
    BY <2>2, Zenon
  <2>4. (Has(v, field) => Field(w, field) = Field(v, field)) /\ check4(v, def.allOf[i])
    BY <1>3, <1>4, <2>3 DEF Has
  <2> DEFINE rule == def.allOf[i]
  <2>5. rule \in {When(field, value, [required |-> R]),
                  When(field, value, [not |-> [required |-> R]])}
    BY <2>3
  <2> HIDE DEF rule
  <2>6. check4(v, rule) => check4(w, rule)
    <3>1. Tag(v) = "object" /\ Tag(w) = "object" /\ DOMAIN Body(w) = DOMAIN Body(v)
      BY <1>2
    <3>2. Has(v, field) => Field(w, field) = Field(v, field)
      BY <2>4
    <3>3. QED
      BY <2>5, <3>1, <3>2, ConditionKept, ZenonT(60)
  <2>7. check4(v, rule)
    BY <2>4, Zenon DEF rule
  <2>8. check4(w, rule)
    BY <2>6, <2>7
  <2>9. QED
    BY <2>8, Zenon DEF rule
<1>5. \A f \in def.required : Has(w, f)
  BY <1>2 DEF Has
<1>6. \E type \in def.type : Accepts(type, w)
  BY <1>1 DEF Accepts
<1>7. InRange(w, def) /\ Tag(w) # "array"
  BY DEF InRange, IsNumber
<1>8. \A f \in DOMAIN def.properties \cap DOMAIN Body(w) :
        check4(Field(w, f), def.properties[f])
  OBVIOUS
<1> HIDE DEF def
<1>9. check(w, def)
  BY <1>1, <1>4, <1>5, <1>6, <1>7, <1>8, Zenon DEF check, Meets
<1>10. QED
  BY <1>9 DEF def

\* What a record whose fields have these rules holds of a field.
HeldIn(v, P, f) ==
  IF f \in DOMAIN P THEN HeldField(Field(v, f), P[f]) ELSE Field(v, f)

\* The fields of a record as its number fields hold them.
LEMMA HeldRecordFields ==
  ASSUME NEW kind \in RECORD_KINDS, NEW v, Body(Field(v, "kind")) = kind
  PROVE  LET u == Held(v)
         IN /\ Tag(u) = "object" /\ DOMAIN Body(u) = DOMAIN Body(v)
            /\ \A f \in DOMAIN Body(v) :
                 Field(u, f) = HeldIn(v, Defs[kind].properties, f)
<1> DEFINE def == Defs[kind]
           P == def.properties
           E == Defs["Endpoint"]
           b == [f \in DOMAIN Body(v) |->
                   IF f \in DOMAIN P /\ IsNested(def, f)
                   THEN Arr([i \in DOMAIN Body(Field(v, f)) |->
                               NumbersHeld(Body(Field(v, f))[i], Part(def, f))])
                   ELSE Field(v, f)]
           c == [f \in DOMAIN b |->
                   IF f \in DOMAIN P /\ P[f] = Clock THEN Float(as_f64(b[f])) ELSE b[f]]
<1>1. EndpointList # Clock
  BY ListRules DEF Plains
<1>2. \A f \in DOMAIN P : /\ IsNested(def, f) <=> P[f] = EndpointList
                          /\ IsNested(def, f) => Part(def, f) = E
  BY NestedFields
<1>3. Held(v) = Obj(c)
  <2>1. Held(v) = NumbersHeld(PartsHeld(v, def), def)
    BY DEF Held
  <2>2. PartsHeld(v, def) = Obj(b)
    BY DEF PartsHeld
  <2>3. Body(Obj(b)) = b /\ \A f : Field(Obj(b), f) = b[f]
    BY DEF Body, Obj, Field
  <2> HIDE DEF b
  <2>4. NumbersHeld(Obj(b), def) = Obj(c)
    BY <2>3 DEF NumbersHeld
  <2>5. QED
    BY <2>1, <2>2, <2>4
<1>4. DOMAIN b = DOMAIN Body(v)
      /\ \A f \in DOMAIN Body(v) :
           b[f] = IF f \in DOMAIN P /\ P[f] = EndpointList
                  THEN HeldField(Field(v, f), EndpointList) ELSE Field(v, f)
  <2>1. ASSUME NEW f \in DOMAIN Body(v), f \in DOMAIN P, P[f] = EndpointList
        PROVE  b[f] = HeldField(Field(v, f), EndpointList)
    BY <1>2, <2>1 DEF HeldField
  <2>2. ASSUME NEW f \in DOMAIN Body(v), ~(f \in DOMAIN P /\ P[f] = EndpointList)
        PROVE  b[f] = Field(v, f)
    BY <1>2, <2>2
  <2>3. DOMAIN b = DOMAIN Body(v)
    OBVIOUS
  <2> HIDE DEF b
  <2>4. QED
    BY <2>1, <2>2, <2>3
<1> HIDE DEF b
<1>5. DOMAIN c = DOMAIN Body(v)
      /\ \A f \in DOMAIN Body(v) : c[f] = HeldIn(v, P, f)
  BY <1>1, <1>4 DEF HeldIn, HeldField, HeldPlain
<1> HIDE DEF c
<1>6. Tag(Obj(c)) = "object" /\ Body(Obj(c)) = c /\ \A f : Field(Obj(c), f) = c[f]
  BY DEF Tag, Body, Obj, Field
<1>7. QED
  BY <1>3, <1>5, <1>6

\* What is written of what a valid record of a known kind decodes to.
LEMMA RecordKept ==
  ASSUME NEW v, Json(v), NEW kind \in RECORD_KINDS, check(v, Defs[kind]),
         Field(v, "kind") = Str(kind)
  PROVE  LET s == Structure(normalize_integers(v, Defs[kind]), Defs[kind])
             w == Written(s, Defs[kind])
         IN /\ ~Collides(s, Defs[kind])
            /\ check(w, Defs[kind]) /\ Field(w, "kind") = Str(kind)
            /\ Tag(w) = "object" /\ DOMAIN Body(w) = DOMAIN Body(v)
            /\ \A f \in DOMAIN Body(v) :
                 Said3(Field(w, f)) = Said3(HeldIn(v, Defs[kind].properties, f))
<1> DEFINE def == Defs[kind]
           P == def.properties
           s == Structure(normalize_integers(v, def), def)
           w == Written(s, def)
<1>1. MadeFrom(s, v, def, MadeField)
  BY KnownDecodes
<1>2. /\ DOMAIN s.fields = DOMAIN P \cap DOMAIN Body(v)
      /\ \A f \in DOMAIN s.fields : s.fields[f] = MadeField(Field(v, f), P[f])
      /\ DOMAIN s.extensions = DOMAIN Body(v) \ DOMAIN P
      /\ \A f \in DOMAIN s.extensions : s.extensions[f] = Field(v, f)
  BY <1>1, Zenon DEF MadeFrom
<1> HIDE DEF s
<1>3. Tag(v) = "object" /\ \A f \in DOMAIN P \cap DOMAIN Body(v) : check4(Field(v, f), P[f])
  BY RecordCheck
<1>4. \A f \in DOMAIN P : P[f] \in Plains \cup {TextList, EndpointList}
  BY Schema DEF Structured
<1>5. ASSUME NEW f \in DOMAIN s.fields
      PROVE  LET y == s.fields[f]
                 z == ShownField(y, P[f])
             IN /\ y # NaN /\ check4(z, P[f])
                /\ Said3(z) = Said3(HeldField(Field(v, f), P[f]))
                /\ P[f] \in Plains /\ IsWord(P[f]) => z = Field(v, f)
                /\ P[f] = EndpointList =>
                     \A i \in DOMAIN Body(y) : ~Reserved(Body(y)[i], Defs["Endpoint"])
  <2>1. f \in DOMAIN P /\ f \in DOMAIN Body(v)
    BY <1>2
  <2>2. JsonField(Field(v, f))
    BY <2>1 DEF Json, JsonField
  <2>3. P[f] \in Plains \cup {TextList, EndpointList} /\ check4(Field(v, f), P[f])
    BY <1>3, <1>4, <2>1
  <2>4. s.fields[f] = MadeField(Field(v, f), P[f])
    BY <1>2
  <2> HIDE DEF P
  <2>5. QED
    BY <2>2, <2>3, <2>4, FieldKept
<1>6. ~Collides(s, def)
  <2>1. ~Reserved(s, def)
    BY <1>2 DEF Reserved, check_extensions
  <2>2. ASSUME NEW f \in DOMAIN s.fields, IsNested(def, f), NEW i \in DOMAIN Body(s.fields[f])
        PROVE  ~Reserved(Body(s.fields[f])[i], Part(def, f))
    <3>1. P[f] = EndpointList /\ Part(def, f) = Defs["Endpoint"]
      BY <1>2, <2>2, NestedFields
    <3>2. QED
      BY <1>5, <2>2, <3>1
  <2>3. QED
    BY <2>1, <2>2, Zenon DEF Collides
<1>7. /\ Tag(w) = "object" /\ DOMAIN Body(w) = DOMAIN s.fields \cup DOMAIN s.extensions
      /\ \A f \in DOMAIN s.extensions : Field(w, f) = s.extensions[f]
      /\ \A f \in DOMAIN s.fields : s.fields[f] # NaN =>
           Field(w, f) = ShownField(s.fields[f], P[f])
  <2>1. /\ DOMAIN s.fields \cap DOMAIN s.extensions = {}
        /\ DOMAIN s.fields \subseteq DOMAIN P
    BY <1>2
  <2>2. QED
    BY <2>1, WrittenRecordFields
<1> HIDE DEF w
<1>8. \A f \in DOMAIN s.fields : Field(w, f) = ShownField(s.fields[f], P[f])
  BY <1>5, <1>7
<1>9. DOMAIN Body(w) = DOMAIN Body(v)
  BY <1>2, <1>7
<1>10. \A f \in DOMAIN Body(v) : Said3(Field(w, f)) = Said3(HeldIn(v, P, f))
  BY <1>2, <1>5, <1>7, <1>8 DEF HeldIn
<1>11. "kind" \in DOMAIN Body(v) /\ "kind" \in DOMAIN P /\ P["kind"] = Kind(kind)
       /\ Kind(kind) \in Plains
  BY Schema, RecordCheck DEF Has, Plains
<1>12. Field(w, "kind") = Str(kind)
  <2>1. IsWord(Kind(kind))
    BY DEF IsWord, Kind, Uses
  <2>2. QED
    BY <1>2, <1>5, <1>8, <1>11, <2>1
<1>13. check(w, def)
  <2>1. \A f \in DOMAIN P \cap DOMAIN Body(v) : check4(Field(w, f), P[f])
    BY <1>2, <1>5, <1>8
  <2>2. \A f \in DOMAIN P \cap DOMAIN Body(v) :
          P[f] \in Plains /\ IsWord(P[f]) => Field(w, f) = Field(v, f)
    BY <1>2, <1>5, <1>8
  <2>3. QED
    BY <1>7, <1>9, <2>1, <2>2, RecordMeets
<1>14. QED
  BY <1>6, <1>7, <1>9, <1>10, <1>12, <1>13 DEF s, w

\* The fields that must not be out of order are required, of one rule.
LEMMA OrderedFields ==
  /\ \A f \in {"window_start_ms", "window_end_ms"} :
       /\ f \in Defs["identity_refused"].required
       /\ f \in DOMAIN Defs["identity_refused"].properties
       /\ Defs["identity_refused"].properties[f] = Clock
  /\ \A f \in {"first_seq", "last_seq"} :
       /\ f \in Defs["segments_dropped"].required
       /\ f \in DOMAIN Defs["segments_dropped"].properties
       /\ Defs["segments_dropped"].properties[f] = Counter
BY DEF Defs, Definition

\* What says the same as a number is that number.
LEMMA SaidNumber ==
  ASSUME NEW x, NEW z, Said3(z) = Said3(x), IsNumber(x)
  PROVE  IsNumber(z) /\ Halves(z) = Halves(x)
<1>1. Said3(x) = Float(Halves(x))
  BY DEF Said3, SaidOf, IsNumber
<1>2. Tag(Said3(z)) = "float"
  BY <1>1 DEF Tag, Float
<1>3. IsNumber(z)
  <2> SUFFICES ASSUME ~IsNumber(z) PROVE FALSE
    OBVIOUS
  <2>1. CASE Tag(z) = "array"
    <3>1. Said3(z) = Arr([i \in DOMAIN Body(z) |-> Said2(Body(z)[i])])
      BY <2>1, SaidOfList
    <3>2. QED
      BY <1>2, <3>1 DEF Tag, Arr
  <2>2. CASE Tag(z) = "object"
    <3>1. Said3(z) = Obj([f \in DOMAIN Body(z) |-> Said2(Field(z, f))])
      BY <2>2 DEF Said3, SaidOf, IsNumber
    <3>2. QED
      BY <1>2, <3>1 DEF Tag, Obj
  <2>3. CASE Tag(z) \notin {"array", "object"}
    <3>1. Said3(z) = z
      BY <2>3 DEF Said3, SaidOf
    <3>2. QED
      BY <1>2, <3>1 DEF IsNumber
  <2>4. QED
    BY <2>1, <2>2, <2>3
<1>4. Said3(z) = Float(Halves(z))
  BY <1>3 DEF Said3, SaidOf, IsNumber
<1>5. QED
  BY <1>1, <1>3, <1>4 DEF Float

\* What says the same as a field holds of a number is what the field holds.
LEMMA SaidHeld ==
  ASSUME NEW rule \in Plains \cup {TextList, EndpointList}, NEW x, NEW z,
         check4(x, rule), JsonNumber(x), IsNumber(x), Said3(z) = Said3(HeldField(x, rule))
  PROVE  /\ IsNumber(z)
         /\ rule = Clock => as_f64(z) = as_f64(x)
         /\ rule # Clock => integer_value(z) = integer_value(x)
<1>1. rule # EndpointList
  <2> SUFFICES ASSUME rule = EndpointList PROVE FALSE
    OBVIOUS
  <2>1. Tag(x) = "array"
    BY ListCheck
  <2>2. QED
    BY <2>1 DEF IsNumber
<1>2. HeldField(x, rule) = HeldPlain(x, rule)
  BY <1>1 DEF HeldField
<1>3. CASE rule = Clock
  <2> DEFINE u == Float(as_f64(x))
  <2>1. HeldField(x, rule) = u
    BY <1>2, <1>3 DEF HeldPlain
  <2>2. IsNumber(u) /\ Halves(u) = as_f64(x)
    BY DEF IsNumber, Halves, Float, Tag, Body
  <2> HIDE DEF u
  <2>3. IsNumber(z) /\ Halves(z) = as_f64(x)
    BY <2>1, <2>2, SaidNumber
  <2>4. as_f64(u) = as_f64(x)
    BY ReadAsDouble DEF u
  <2>5. as_f64(z) = as_f64(x)
    BY <2>2, <2>3, <2>4 DEF as_f64
  <2>6. QED
    BY <1>3, <2>3, <2>5
<1>4. CASE rule # Clock
  <2>1. HeldField(x, rule) = x
    BY <1>2, <1>4 DEF HeldPlain
  <2>2. IsNumber(z) /\ Halves(z) = Halves(x)
    BY <2>1, SaidNumber
  <2>3. QED
    BY <1>4, <2>2 DEF integer_value
<1>5. QED
  BY <1>3, <1>4

(***************************************************************************)
(* Decoding and serializing a valid record is never refused and loses      *)
(* nothing of it: no field a version does not define, no record of a kind  *)
(* it does not, no null, and of a number only what a double cannot hold,   *)
(* where the field is one.                                                 *)
(***************************************************************************)
THEOREM DecodedIsKept ==
  ASSUME NEW v, Json(v), validate_record(v)
  PROVE  to_value(decode(v)) # Refused /\ Said(to_value(decode(v))) = Said(Held(v))
<1> DEFINE kind == Body(Field(v, "kind"))
<1>1. /\ Tag(v) = "object" /\ Has(v, "at_ms") /\ IsNumber(Field(v, "at_ms"))
      /\ Has(v, "kind")
  BY DEF validate_record
<1>2. v # Refused
  BY <1>1 DEF Tag, Refused
<1>3. CASE kind \notin RECORD_KINDS
  <2>1. decode(v) = [unknown |-> v]
    BY <1>3 DEF decode
  <2>2. to_value(decode(v)) = v
    BY <2>1 DEF to_value, IsUnknown, Checked
  <2>3. Held(v) = v
    BY <1>3 DEF Held
  <2>4. QED
    BY <1>2, <2>2, <2>3
<1>4. CASE kind \in RECORD_KINDS
  <2> DEFINE def == Defs[kind]
             P == def.properties
             s == Structure(normalize_integers(v, def), def)
             w == Written(s, def)
  <2>1. check(v, def) /\ Field(v, "kind") = Str(kind)
    BY <1>4, ValidKind
  <2>2. decode(v) = s
    BY <1>4 DEF decode
  <2> HIDE DEF kind
  <2>3. /\ TypedRecord(s, def) /\ "kind" \in DOMAIN s.fields /\ s.fields["kind"] = Str(kind)
    BY <1>4, <2>1, KnownDecodes
  <2>4. /\ ~Collides(s, def)
        /\ check(w, def) /\ Field(w, "kind") = Str(kind)
        /\ Tag(w) = "object" /\ DOMAIN Body(w) = DOMAIN Body(v)
        /\ \A f \in DOMAIN Body(v) : Said3(Field(w, f)) = Said3(HeldIn(v, P, f))
    BY <1>4, <2>1, RecordKept
  <2> HIDE DEF s, w
  <2>5. Body(Field(w, "kind")) = kind /\ Tag(Field(w, "kind")) = "string"
    BY <2>4 DEF Body, Tag, Str
  <2>6. \A f \in def.required : Has(v, f)
    BY <1>4, <2>1, RecordCheck
  <2>7. \A f \in DOMAIN P : P[f] \in Plains \cup {TextList, EndpointList}
    BY <1>4, Schema DEF Structured
  <2>8. ASSUME NEW f \in DOMAIN P, Has(v, f), IsNumber(Field(v, f))
        PROVE  /\ IsNumber(Field(w, f))
               /\ P[f] = Clock => as_f64(Field(w, f)) = as_f64(Field(v, f))
               /\ P[f] # Clock => integer_value(Field(w, f)) = integer_value(Field(v, f))
    <3>1. check4(Field(v, f), P[f])
      BY <1>4, <2>1, <2>8, RecordCheck DEF Has
    <3>2. Said3(Field(w, f)) = Said3(HeldField(Field(v, f), P[f]))
      BY <2>4, <2>8 DEF Has, HeldIn
    <3>3. JsonNumber(Field(v, f)) /\ P[f] \in Plains \cup {TextList, EndpointList}
      BY <2>7, <2>8 DEF Json, JsonField, Has
    <3> HIDE DEF P
    <3>4. QED
      BY <2>8, <3>1, <3>2, <3>3, SaidHeld
  <2>9. Has(w, "kind") /\ Has(w, "at_ms") /\ IsNumber(Field(w, "at_ms"))
    <3>1. CASE "at_ms" \in DOMAIN P
      BY <1>1, <2>4, <2>8, <3>1 DEF Has
    <3>2. CASE "at_ms" \notin DOMAIN P
      <4>1. Said3(Field(w, "at_ms")) = Said3(Field(v, "at_ms"))
        BY <1>1, <2>4, <3>2 DEF Has, HeldIn
      <4>2. QED
        BY <1>1, <2>4, <4>1, SaidNumber DEF Has
    <3>3. QED
      BY <3>1, <3>2
  <2>10. ASSUME kind = "identity_refused"
         PROVE  WindowIsOrdered(w)
    <3>1. WindowIsOrdered(v)
      BY <1>4, <2>10 DEF validate_record, kind
    <3>2. ASSUME NEW f \in {"window_start_ms", "window_end_ms"}
          PROVE  as_f64(Field(w, f)) = as_f64(Field(v, f))
      <4>1. Has(v, f) /\ f \in DOMAIN P /\ P[f] = Clock /\ Clock \in Plains
        BY <2>6, <2>10, OrderedFields DEF Plains
      <4>2. check4(Field(v, f), Clock)
        BY <1>4, <2>1, <4>1, RecordCheck DEF Has
      <4>3. IsNumber(Field(v, f))
        BY <4>1, <4>2, PlainCheck DEF MeetsPlain, Clock, Of, Accepts
      <4>4. QED
        BY <2>8, <4>1, <4>3
    <3>3. QED
      BY <3>1, <3>2 DEF WindowIsOrdered
  <2>11. ASSUME kind = "segments_dropped"
         PROVE  SequencesAreOrdered(w)
    <3>1. SequencesAreOrdered(v)
      BY <1>4, <2>11 DEF validate_record, kind
    <3>2. ASSUME NEW f \in {"first_seq", "last_seq"}
          PROVE  integer_value(Field(w, f)) = integer_value(Field(v, f))
      <4>1. Has(v, f) /\ f \in DOMAIN P /\ P[f] = Counter /\ Counter \in Plains
        BY <2>6, <2>11, OrderedFields DEF Plains
      <4>2. check4(Field(v, f), Counter)
        BY <1>4, <2>1, <4>1, RecordCheck DEF Has
      <4>3. IsNumber(Field(v, f))
        BY <4>1, <4>2, PlainCheck DEF MeetsPlain, Counter, Accepts
      <4>4. Counter # Clock
        BY DEF Counter, Clock, Of
      <4>5. QED
        BY <2>8, <4>1, <4>3, <4>4
    <3>3. QED
      BY <3>1, <3>2 DEF SequencesAreOrdered
  <2>12. validate_record(w)
    BY <2>4, <2>5, <2>9, <2>10, <2>11, Zenon DEF validate_record
  <2>13. to_value(s) = w
    <3>1. ~IsUnknown(s)
      <4>1. s = [fields |-> s.fields, extensions |-> s.extensions]
        BY <2>3 DEF TypedRecord
      <4>2. DOMAIN s = {"fields", "extensions"}
        BY <4>1
      <4>3. QED
        BY <4>2 DEF IsUnknown
    <3>2. Body(s.fields.kind) = kind
      BY <2>3 DEF Body, Str
    <3>3. QED
      BY <2>4, <2>12, <3>1, <3>2 DEF to_value, Checked, w
  <2>14. w # Refused
    BY <2>4 DEF Tag, Refused
  <2>15. Said(w) = Said(Held(v))
    <3> DEFINE u == Held(v)
    <3>1. /\ Tag(u) = "object" /\ DOMAIN Body(u) = DOMAIN Body(v)
          /\ \A f \in DOMAIN Body(v) : Field(u, f) = HeldIn(v, P, f)
      BY <1>4, HeldRecordFields DEF kind
    <3> HIDE DEF u
    <3>2. /\ Said(u) = Obj([f \in DOMAIN Body(u) |-> Said3(Field(u, f))])
          /\ Said(w) = Obj([f \in DOMAIN Body(w) |-> Said3(Field(w, f))])
      BY <2>4, <3>1 DEF Said, SaidOf, IsNumber
    <3>3. Said(w) = Said(u)
      BY <2>4, <3>1, <3>2
    <3>4. QED
      BY <3>3 DEF u
  <2>16. QED
    BY <2>2, <2>13, <2>14, <2>15
<1>5. QED
  BY <1>3, <1>4

-----------------------------------------------------------------------------
(***************************************************************************)
(* The columnar form of a record.                                          *)
(***************************************************************************)

\* A field a record may have is read on its own by the same rule.
LEMMA FieldMeets ==
  ASSUME NEW v, NEW rule \in Plains \cup {TextList, EndpointList}, check4(v, rule)
  PROVE  check(v, rule)
<1>1. ASSUME NEW x, NEW plain \in Plains
      PROVE  /\ check(x, plain) <=> MeetsPlain(x, plain)
             /\ check3(x, plain) <=> MeetsPlain(x, plain)
             /\ check2(x, plain) <=> MeetsPlain(x, plain)
  <2>1. /\ ~Uses(plain, "ref") /\ ~Uses(plain, "items") /\ ~Uses(plain, "properties")
        /\ ~Uses(plain, "allOf") /\ ~Uses(plain, "if") /\ ~Uses(plain, "not")
        /\ ~Uses(plain, "required") /\ Uses(plain, "type")
    BY PlainRules
  <2>2. check(x, plain) <=> MeetsPlain(x, plain)
    BY <2>1, Zenon DEF check, Meets, MeetsPlain
  <2>3. check3(x, plain) <=> MeetsPlain(x, plain)
    BY <2>1, Zenon DEF check3, Meets, MeetsPlain
  <2>4. check2(x, plain) <=> MeetsPlain(x, plain)
    BY <2>1, Zenon DEF check2, Meets, MeetsPlain
  <2>5. QED
    BY <2>2, <2>3, <2>4
<1>2. CASE rule \in Plains
  BY <1>1, <1>2, PlainCheck
<1>3. ASSUME rule \in {TextList, EndpointList},
             \A i \in DOMAIN Body(v) : check4(Body(v)[i], rule.items)
      PROVE  check(v, rule)
  <2>1. /\ ~Uses(rule, "ref") /\ ~Uses(rule, "properties") /\ ~Uses(rule, "const")
        /\ ~Uses(rule, "allOf") /\ ~Uses(rule, "if") /\ ~Uses(rule, "not")
        /\ ~Uses(rule, "required") /\ Uses(rule, "type") /\ rule.type = {"array"}
        /\ Uses(rule, "items")
    BY <1>3, ListRules
  <2>2. Tag(v) = "array"
    BY <1>3, ListCheck
  <2>3. InRange(v, rule) /\ \E type \in rule.type : Accepts(type, v)
    BY <2>1, <2>2 DEF InRange, IsNumber, Accepts
  <2>4. QED
    BY <1>3, <2>1, <2>2, <2>3, Zenon DEF check, Meets
<1>4. CASE rule = TextList
  <2>1. Text \in Plains /\ rule.items = Text
    BY <1>4, ListRules DEF Plains
  <2>2. \A i \in DOMAIN Body(v) : check3(Body(v)[i], Text)
    BY <1>4, <2>1, ListCheck
  <2>3. \A i \in DOMAIN Body(v) : check4(Body(v)[i], Text)
    BY <1>1, <2>1, <2>2, PlainCheck
  <2>4. QED
    BY <1>3, <1>4, <2>1, <2>3
<1>5. CASE rule = EndpointList
  <2> DEFINE E == Defs["Endpoint"]
  <2>1. ASSUME NEW i \in DOMAIN Body(v) PROVE check4(Body(v)[i], rule.items)
    <3> DEFINE x == Body(v)[i]
    <3>1. check3(x, EndpointList.items)
      BY <1>5, ListCheck
    <3>2. check2(x, E)
      BY <3>1, ListRules DEF check3, Meets
    <3>3. /\ Tag(x) = "object"
          /\ \A f \in DOMAIN E.properties \cap DOMAIN Body(x) :
               check1(Field(x, f), E.properties[f])
      BY <3>1, PartCheck
    <3>4. \A f \in DOMAIN E.properties \cap DOMAIN Body(x) :
            check2(Field(x, f), E.properties[f])
      BY <1>1, <3>3, EndpointSchema, PlainCheck DEF Structured
    <3>5. /\ Uses(E, "type") /\ E.type = {"object"} /\ Uses(E, "properties")
          /\ ~Uses(E, "ref") /\ ~Uses(E, "items") /\ ~Uses(E, "const")
          /\ Uses(E, "required") /\ ~Uses(E, "allOf") /\ ~Uses(E, "if") /\ ~Uses(E, "not")
      BY EndpointSchema, EndpointRules DEF Structured
    <3> HIDE DEF x, E
    <3>6. /\ \A f \in E.required : Has(x, f)
          /\ \E type \in E.type : Accepts(type, x)
          /\ InRange(x, E)
      BY <3>2, <3>3, <3>5, Zenon DEF check2, Meets
    <3>7. check3(x, E)
      BY <3>3, <3>4, <3>5, <3>6, Zenon DEF check3, Meets
    <3>8. QED
      BY <1>5, <3>7, ListRules DEF check4, Meets, x, E
  <2>2. QED
    BY <1>3, <1>5, <2>1
<1>6. QED
  BY <1>2, <1>4, <1>5

\* The column types of the rules.
LEMMA RuleColumns ==
  /\ ColumnType(Counter) = "int64" /\ ColumnType(Ordinal) = "int64"
  /\ ColumnType(Signed) = "int64" /\ ColumnType(Clock) = "float64"
  /\ ColumnType(Text) = "utf8" /\ ColumnType(Tier) = "utf8"
  /\ ColumnType(Of("boolean")) = "bool" /\ \A k : ColumnType(Kind(k)) = "utf8"
  /\ ColumnType(TextList) = "list<utf8>" /\ ColumnType(EndpointList) = "list<struct>"
<1>1. /\ {"string"} # {"integer"} /\ {"string"} # {"number"} /\ {"string"} # {"boolean"}
      /\ {"string"} # {"array"} /\ {"boolean"} # {"integer"} /\ {"boolean"} # {"number"}
      /\ {"number"} # {"integer"} /\ {"array"} # {"integer"} /\ {"array"} # {"number"}
      /\ {"array"} # {"boolean"}
  OBVIOUS
<1>2. /\ {"string", "null"} # {"integer"} /\ {"string", "null"} # {"number"}
      /\ {"string", "null"} # {"boolean"} /\ {"string", "null"} # {"array"}
  OBVIOUS
<1>3. Counter.type = {"integer"} /\ Ordinal.type = {"integer"} /\ Signed.type = {"integer"}
  BY DEF Counter, Ordinal, Signed
<1>4. /\ Clock.type = {"number"} /\ Text.type = {"string"} /\ Tier.type = {"string", "null"}
      /\ Of("boolean").type = {"boolean"} /\ \A k : Kind(k).type = {"string"}
  BY DEF Clock, Text, Tier, Of, Kind
<1>5. /\ TextList.type = {"array"} /\ ~Uses(TextList.items, "ref")
      /\ EndpointList.type = {"array"} /\ Uses(EndpointList.items, "ref")
  BY ListRules
<1>6. ColumnType(Counter) = "int64" /\ ColumnType(Ordinal) = "int64"
      /\ ColumnType(Signed) = "int64"
  BY <1>3 DEF ColumnType
<1>7. ColumnType(Clock) = "float64" /\ ColumnType(Of("boolean")) = "bool"
  BY <1>1, <1>4 DEF ColumnType
<1>8. ColumnType(Text) = "utf8" /\ ColumnType(Tier) = "utf8"
      /\ \A k : ColumnType(Kind(k)) = "utf8"
  BY <1>1, <1>2, <1>4 DEF ColumnType
<1>9. ColumnType(TextList) = "list<utf8>" /\ ColumnType(EndpointList) = "list<struct>"
  BY <1>1, <1>5 DEF ColumnType
<1>10. QED
  BY <1>6, <1>7, <1>8, <1>9

\* The type of a field's column, by its name.
TypeByName(f) ==
  CASE f \in {"at_ms", "boundary_ms", "window_start_ms", "window_end_ms"} -> "float64"
    [] f \in {"n_tokens", "dp_rank", "group_idx", "lora_id", "spec_sliding_window", "seq",
              "endpoint_count", "msgs_seen", "first_seq", "last_seq"} -> "int64"
    [] f = "parent_unknown" -> "bool"
    [] f = "extra_keys" -> "list<utf8>"
    [] f = "endpoints" -> "list<struct>"
    [] OTHER -> "utf8"

\* A field's column has the type of its rule, whichever kind types it.
LEMMA FieldColumn ==
  ASSUME NEW kind \in RECORD_KINDS, NEW f \in DOMAIN Defs[kind].properties
  PROVE  /\ Column(f) = ColumnType(Defs[kind].properties[f])
         /\ Column(f) = TypeByName(f)
<1> DEFINE Named(k) == \A g \in DOMAIN Defs[k].properties :
                         ColumnType(Defs[k].properties[g]) = TypeByName(g)
<1> USE RuleColumns DEF TypeByName, TextList, EndpointList
<1>1. Named("store")
  BY SMTT(60) DEF Defs, Definition, ++
<1>2. Named("evict")
  BY SMTT(60) DEF Defs, Definition, ++
<1>3. Named("clear")
  BY SMTT(60) DEF Defs, Definition, ++
<1>4. Named("holder_reset")
  BY SMTT(60) DEF Defs, Definition, ++
<1>5. Named("agent_start")
  BY SMTT(60) DEF Defs, Definition, ++
<1>6. Named("heartbeat")
  BY SMTT(60) DEF Defs, Definition, ++
<1>7. Named("identity_refused")
  BY SMTT(60) DEF Defs, Definition, ++
<1>8. Named("segments_dropped")
  BY SMTT(60) DEF Defs, Definition, ++
<1> HIDE DEF Named
<1>9. \A k \in RECORD_KINDS : Named(k)
  BY <1>1, <1>2, <1>3, <1>4, <1>5, <1>6, <1>7, <1>8, Kinds, Zenon
<1> DEFINE some == CHOOSE k \in RECORD_KINDS : f \in DOMAIN Defs[k].properties
<1>10. some \in RECORD_KINDS /\ f \in DOMAIN Defs[some].properties
  BY Zenon
<1>11. Column(f) = ColumnType(Defs[some].properties[f])
  BY Zenon DEF Column
<1> HIDE DEF some
<1>12. ColumnType(Defs[some].properties[f]) = TypeByName(f)
  BY <1>9, <1>10, Zenon DEF Named
<1>13. ColumnType(Defs[kind].properties[f]) = TypeByName(f)
  BY <1>9, Zenon DEF Named
<1>14. QED
  BY <1>11, <1>12, <1>13, Zenon

\* A typed value is JSON, but for the one value JSON has no text for.
LEMMA TypedIsJson ==
  ASSUME NEW x, NEW rule \in Plains, TypedPlain(x, rule)
  PROVE  JsonNumber(x)
<1>0. IsCount(rule) \/ rule = Clock \/ IsWord(rule)
  BY PlainRules
<1>1. CASE IsCount(rule)
  <2>1. PICK n \in Int : I64Min <= n /\ n <= I64 /\ x = Integer(n)
    BY <1>1 DEF TypedPlain, IsCount
  <2>2. Tag(x) = "integer" /\ Body(x) = n
    BY <2>1 DEF Tag, Body, Integer
  <2>3. n <= U64
    BY <2>1, WidthAssumption DEF U64
  <2>4. QED
    BY <2>1, <2>2, <2>3 DEF JsonNumber
<1>2. CASE rule = Clock
  <2>1. x = NaN \/ \E h \in Int : IsDouble(h) /\ x = Float(h)
    BY <1>2 DEF TypedPlain, Clock, Of
  <2>2. CASE x = NaN
    BY <2>2 DEF JsonNumber, NaN, Tag
  <2>3. ASSUME NEW h \in Int, IsDouble(h), x = Float(h) PROVE JsonNumber(x)
    BY <2>3 DEF JsonNumber, Float, Tag, Body
  <2>4. QED
    BY <2>1, <2>2, <2>3
<1>3. CASE IsWord(rule)
  <2>1. Tag(x) \in rule.type
    BY <1>3 DEF IsWord, TypedPlain
  <2>2. QED
    BY <1>3, <2>1 DEF IsWord, JsonNumber
<1>4. QED
  BY <1>0, <1>1, <1>2, <1>3

\* The cell of one value is what its typed field is made of, which is made of it
\* again.
LEMMA PlainCell ==
  ASSUME NEW x, JsonNumber(x), NEW rule \in Plains, MeetsPlain(x, rule)
  PROVE  LET c == CellOf(x, ColumnType(rule))
         IN /\ c = MadePlain(x, rule) /\ MeetsPlain(c, rule) /\ JsonNumber(c)
            /\ MadePlain(c, rule) = c
            /\ IsWord(rule) => c = x
            /\ c # NaN /\ ColumnType(rule) \notin {"list<struct>", "list<utf8>"}
<1> DEFINE y == MadePlain(x, rule)
<1>0. IsCount(rule) \/ rule = Clock \/ IsWord(rule)
  BY PlainRules
<1>1. /\ y # NaN /\ MeetsPlain(y, rule) /\ TypedPlain(y, rule)
      /\ IsWord(rule) => y = x
  BY PlainKept, PlainFits DEF MadePlain
<1>2. JsonNumber(y)
  BY <1>1, TypedIsJson
<1>3. MadePlain(y, rule) = y
  <2>1. NormalPlain(y, rule) = y /\ Typed(y, rule) = y
    BY <1>1, ReadBack
  <2>2. QED
    BY <2>1 DEF MadePlain
<1>4. CellOf(x, ColumnType(rule)) = y
  <2>1. CASE IsCount(rule)
    <3>1. ColumnType(rule) = "int64"
      BY <2>1 DEF ColumnType, IsCount
    <3>2. IsNumber(x) /\ IsInteger(x)
      BY <2>1 DEF MeetsPlain, Accepts, IsCount
    <3>3. integer_value(x) \in Int
      BY <3>2 DEF JsonNumber, integer_value, Halves, IsNumber
    <3>4. integer_value(x) <= I64
      BY <2>1, <3>2, <3>3, WidthAssumption DEF MeetsPlain, InRange, IsCount
    <3>5. y = Integer(integer_value(x))
      BY <2>1, <3>2, <3>4 DEF MadePlain, NormalPlain, Typed, IsCount
    <3>6. QED
      BY <3>1, <3>5 DEF CellOf
  <2>2. CASE rule = Clock
    <3>1. y = Float(as_f64(x))
      BY <2>2 DEF MadePlain, NormalPlain, Typed, Clock, Of
    <3>2. QED
      BY <2>2, <3>1, RuleColumns DEF CellOf
  <2>3. CASE IsWord(rule)
    <3>1. ColumnType(rule) # "int64" /\ ColumnType(rule) # "float64"
      BY <2>3 DEF ColumnType, IsWord
    <3>2. CellOf(x, ColumnType(rule)) = x
      BY <3>1 DEF CellOf
    <3>3. QED
      BY <1>1, <2>3, <3>2
  <2>4. QED
    BY <1>0, <2>1, <2>2, <2>3
<1>5. ColumnType(rule) \notin {"list<struct>", "list<utf8>"}
  <2>1. rule.type # {"array"}
    BY <1>0 DEF IsCount, Clock, Of, IsWord
  <2>2. QED
    BY <2>1 DEF ColumnType
<1>6. QED
  BY <1>1, <1>2, <1>3, <1>4, <1>5

\* The struct of a structure that meets its definition: the fields it names.
LEMMA StructFields ==
  ASSUME NEW v, JsonPart(v), check3(v, EndpointList.items)
  PROVE  LET P == Defs["Endpoint"].properties
             c == Struct(v)
         IN /\ Tag(c) = "object" /\ DOMAIN Body(c) = DOMAIN P \cap DOMAIN Body(v)
            /\ \A f \in DOMAIN Body(c) :
                 /\ Field(c, f) = MadePlain(Field(v, f), P[f])
                 /\ MeetsPlain(Field(c, f), P[f]) /\ JsonNumber(Field(c, f))
                 /\ MadePlain(Field(c, f), P[f]) = Field(c, f)
<1> DEFINE P == Defs["Endpoint"].properties
           known == DOMAIN P \cap DOMAIN Body(v)
           b == [f \in Slots(v) |-> CellOf(Field(v, f), ColumnType(P[f]))]
<1>1. Tag(v) = "object" /\ \A f \in known : check1(Field(v, f), P[f])
  BY PartCheck
<1>2. \A f \in DOMAIN P : P[f] \in Plains
  BY EndpointSchema DEF Structured
<1>3. \A f \in known : MeetsPlain(Field(v, f), P[f]) /\ JsonNumber(Field(v, f))
  BY <1>1, <1>2, PlainCheck DEF JsonPart
<1>4. ASSUME NEW f \in known
      PROVE  LET c == CellOf(Field(v, f), ColumnType(P[f]))
             IN /\ c = MadePlain(Field(v, f), P[f]) /\ MeetsPlain(c, P[f]) /\ JsonNumber(c)
                /\ MadePlain(c, P[f]) = c
  BY <1>2, <1>3, PlainCell
<1>5. Slots(v) = known
  <2>1. ASSUME NEW f \in known PROVE Field(v, f) # Null
    <3>1. P[f] \in {Counter, Text, Clock}
      BY DEF Defs, Definition
    <3>2. MeetsPlain(Field(v, f), P[f])
      BY <1>3
    <3>3. "null" \notin P[f].type /\ \A type \in P[f].type : type \in {"integer", "number", "string"}
      BY <3>1 DEF Counter, Text, Clock, Of
    <3>4. PICK type \in {"integer", "number", "string"} : Accepts(type, Field(v, f))
      BY <3>2, <3>3 DEF MeetsPlain
    <3>5. Tag(Null) = "null"
      BY DEF Tag, Null
    <3>6. QED
      BY <3>4, <3>5 DEF Accepts, IsNumber
  <2>2. QED
    BY <2>1 DEF Slots, Element
<1>6. Struct(v) = Obj(b)
  BY DEF Struct, Element
<1>7. DOMAIN b = known /\ \A f \in known : b[f] = CellOf(Field(v, f), ColumnType(P[f]))
  BY <1>5
<1> HIDE DEF b
<1>8. Tag(Obj(b)) = "object" /\ Body(Obj(b)) = b /\ \A f : Field(Obj(b), f) = b[f]
  BY DEF Tag, Body, Obj, Field
<1>9. QED
  BY <1>4, <1>6, <1>7, <1>8

\* What a structure is without the fields its definition does not name.
Cut(s) == [s EXCEPT !.extensions = Restrict(@, {})]

\* A struct is read back as the structure without them.
LEMMA StructBack ==
  ASSUME NEW v, JsonPart(v), check3(v, EndpointList.items)
  PROVE  /\ check3(Struct(v), EndpointList.items) /\ JsonPart(Struct(v))
         /\ Inside(normal3(Struct(v), EndpointList.items), Defs["Endpoint"])
              = Cut(Inside(normal3(v, EndpointList.items), Defs["Endpoint"]))
<1> DEFINE def == Defs["Endpoint"]
           P == def.properties
           c == Struct(v)
           s == Inside(normal3(v, EndpointList.items), def)
           t == Inside(normal3(c, EndpointList.items), def)
<1>1. /\ Tag(c) = "object" /\ DOMAIN Body(c) = DOMAIN P \cap DOMAIN Body(v)
      /\ \A f \in DOMAIN Body(c) :
           /\ Field(c, f) = MadePlain(Field(v, f), P[f])
           /\ MeetsPlain(Field(c, f), P[f]) /\ JsonNumber(Field(c, f))
           /\ MadePlain(Field(c, f), P[f]) = Field(c, f)
  BY StructFields
<1> HIDE DEF c
<1>2. check3(c, EndpointList.items)
  BY <1>1, PartMeets
<1>3. JsonPart(c)
  BY <1>1 DEF JsonPart
<1>4. TypedPart(s, def) /\ MadeFrom(s, v, def, MadePlain)
  BY PartDecodes
<1>5. TypedPart(t, def) /\ MadeFrom(t, c, def, MadePlain)
  BY <1>2, <1>3, PartDecodes
<1> HIDE DEF s, t
<1>6. /\ DOMAIN s.fields = DOMAIN P \cap DOMAIN Body(v)
      /\ \A f \in DOMAIN s.fields : s.fields[f] = MadePlain(Field(v, f), P[f])
  BY <1>4, Zenon DEF MadeFrom
<1>7. /\ DOMAIN t.fields = DOMAIN P \cap DOMAIN Body(c)
      /\ \A f \in DOMAIN t.fields : t.fields[f] = MadePlain(Field(c, f), P[f])
      /\ DOMAIN t.extensions = DOMAIN Body(c) \ DOMAIN P
  BY <1>5, Zenon DEF MadeFrom
<1>8. /\ s = [fields |-> s.fields, extensions |-> s.extensions] /\ IsMap(s.fields)
      /\ t = [fields |-> t.fields, extensions |-> t.extensions] /\ IsMap(t.fields)
      /\ IsMap(t.extensions)
  BY <1>4, <1>5 DEF TypedPart
<1>9. t.fields = s.fields
  <2>1. DOMAIN t.fields = DOMAIN s.fields
    BY <1>1, <1>6, <1>7
  <2>2. \A f \in DOMAIN s.fields : t.fields[f] = s.fields[f]
    BY <1>1, <1>6, <1>7
  <2>3. QED
    BY <1>8, <2>1, <2>2 DEF IsMap
<1>10. t.extensions = Restrict(s.extensions, {})
  <2>1. DOMAIN t.extensions = {}
    BY <1>1, <1>7
  <2>2. QED
    BY <1>8, <2>1 DEF IsMap, Restrict
<1>11. Cut(s) = [fields |-> s.fields, extensions |-> Restrict(s.extensions, {})]
  BY <1>8 DEF Cut
<1>12. t = Cut(s)
  BY <1>8, <1>9, <1>10, <1>11
<1>13. QED
  BY <1>2, <1>3, <1>12 DEF c, s, t

\* The typed field a catalogued one is left with.
CutField(y, rule) ==
  IF rule = EndpointList THEN Arr([i \in DOMAIN Body(y) |-> Cut(Body(y)[i])]) ELSE y

\* A cell meets the rule its value did, and its field is made of it again.
LEMMA CellKept ==
  ASSUME NEW rule \in Plains \cup {TextList, EndpointList}, NEW x,
         check4(x, rule), JsonField(x)
  PROVE  LET c == Cell(x, ColumnType(rule))
         IN /\ check4(c, rule)
            /\ MadeField(c, rule) = CutField(MadeField(x, rule), rule)
            /\ rule \in Plains /\ IsWord(rule) => c = x
<1> DEFINE c == Cell(x, ColumnType(rule))
<1>1. TextList # EndpointList /\ TextList \notin Plains /\ EndpointList \notin Plains
  BY ListRules
<1>2. CASE rule \in Plains
  <2>1. MeetsPlain(x, rule) /\ JsonNumber(x)
    BY <1>2, PlainCheck DEF JsonField
  <2>2. /\ CellOf(x, ColumnType(rule)) = MadePlain(x, rule)
        /\ MeetsPlain(MadePlain(x, rule), rule)
        /\ MadePlain(MadePlain(x, rule), rule) = MadePlain(x, rule)
        /\ IsWord(rule) => MadePlain(x, rule) = x
        /\ ColumnType(rule) \notin {"list<struct>", "list<utf8>"}
    BY <1>2, <2>1, PlainCell
  <2>3. c = MadePlain(x, rule)
    BY <2>2 DEF Cell
  <2>4. \A y : MadeField(y, rule) = MadePlain(y, rule)
    BY <1>1, <1>2, PlainNormal DEF MadeField, MadePlain
  <2>5. check4(MadePlain(x, rule), rule)
    BY <1>2, <2>2, PlainCheck
  <2>6. QED
    BY <1>1, <1>2, <2>2, <2>3, <2>4, <2>5 DEF CutField
<1>3. CASE rule = TextList
  <2>1. c = x
    BY <1>3, RuleColumns DEF Cell, CellOf
  <2>2. Tag(x) = "array"
    BY <1>3, ListCheck
  <2>3. QED
    BY <1>1, <1>3, <2>1, <2>2 DEF CutField, IsNumber
<1>4. CASE rule = EndpointList
  <2> DEFINE E == Defs["Endpoint"]
             items == [i \in DOMAIN Body(x) |-> Struct(Body(x)[i])]
             Made(v, i) == Inside(normal3(Body(v)[i], EndpointList.items), E)
  <2>1. Tag(x) = "array" /\ \A i \in DOMAIN Body(x) : check3(Body(x)[i], EndpointList.items)
    BY <1>4, ListCheck
  <2>2. c = Arr(items)
    BY <1>4, RuleColumns DEF Cell
  <2>3. Tag(c) = "array" /\ Body(c) = items
    BY <2>2 DEF Tag, Body, Arr
  <2>4. DOMAIN items = DOMAIN Body(x) /\ \A i \in DOMAIN items : items[i] = Struct(Body(x)[i])
    OBVIOUS
  <2> HIDE DEF items, c, E
  <2>5. ASSUME NEW i \in DOMAIN Body(x)
        PROVE  check3(items[i], EndpointList.items) /\ Made(c, i) = Cut(Made(x, i))
    BY <2>1, <2>3, <2>4, StructBack DEF JsonField, E
  <2>6. check4(c, rule)
    BY <1>4, <2>2, <2>4, <2>5, ListMeets
  <2>7. ASSUME NEW v, Tag(v) = "array"
        PROVE  MadeField(v, rule) = Arr([i \in DOMAIN Body(v) |-> Made(v, i)])
    <3> DEFINE n == [i \in DOMAIN Body(v) |-> normal3(Body(v)[i], EndpointList.items)]
    <3>1. normal4(v, EndpointList) = Arr(n)
      BY <2>7, ListNormal
    <3>2. Body(Arr(n)) = n /\ DOMAIN n = DOMAIN Body(v)
      BY DEF Body, Arr
    <3>3. MadeField(v, rule) = Arr([i \in DOMAIN n |-> Inside(n[i], E)])
      BY <1>4, <3>1, <3>2 DEF MadeField, E
    <3>4. QED
      BY <3>3
  <2>8. CutField(MadeField(x, rule), rule) = Arr([i \in DOMAIN Body(x) |-> Cut(Made(x, i))])
    <3> DEFINE parts == [i \in DOMAIN Body(x) |-> Made(x, i)]
    <3>1. MadeField(x, rule) = Arr(parts)
      BY <2>1, <2>7
    <3>2. Body(Arr(parts)) = parts
      BY DEF Body, Arr
    <3>3. CutField(MadeField(x, rule), rule) = Arr([i \in DOMAIN parts |-> Cut(parts[i])])
      BY <1>4, <3>1, <3>2 DEF CutField
    <3> HIDE DEF Made
    <3>4. QED
      BY <3>3
  <2>9. MadeField(c, rule) = CutField(MadeField(x, rule), rule)
    <3>1. MadeField(c, rule) = Arr([i \in DOMAIN Body(c) |-> Made(c, i)])
      BY <2>3, <2>7
    <3>2. DOMAIN Body(c) = DOMAIN Body(x)
      BY <2>3, <2>4
    <3> HIDE DEF Made
    <3>3. QED
      BY <2>5, <2>8, <3>1, <3>2
  <2>10. ~IsNumber(x)
    BY <2>1 DEF IsNumber
  <2>11. QED
    BY <1>1, <1>4, <2>6, <2>9, <2>10 DEF c
<1>5. QED
  BY <1>2, <1>3, <1>4

\* The types of columns.
ColumnTypes == {"int64", "float64", "bool", "list<struct>", "list<utf8>", "utf8"}

\* What PyArrow encodes of one value that fits is JSON.
LEMMA OneIsJson ==
  ASSUME NEW x, JsonNumber(x), NEW type \in ColumnTypes, FitsOne(x, type)
  PROVE  JsonNumber(CellOf(x, type))
<1>1. CASE type = "int64"
  <2>1. IsNumber(x) /\ IsInteger(x) /\ integer_value(x) <= I64
    BY <1>1 DEF FitsOne
  <2>2. I64 \in Nat /\ I64Min = -I64 - 1 /\ U64 = 2 * I64 + 1
    BY WidthAssumption DEF I64Min, U64
  <2>3. integer_value(x) \in Int /\ I64Min <= integer_value(x)
    BY <2>1, <2>2 DEF JsonNumber, integer_value, Halves, IsNumber, IsInteger
  <2>4. CellOf(x, type) = Integer(integer_value(x))
    BY <1>1 DEF CellOf
  <2>5. QED
    BY <2>1, <2>2, <2>3, <2>4 DEF JsonNumber, Integer, Tag, Body
<1>2. CASE type = "float64"
  <2>1. IsNumber(x)
    BY <1>2 DEF FitsOne
  <2>2. as_f64(x) \in Int /\ IsDouble(as_f64(x))
    BY <2>1, ReadAsDouble
  <2>3. CellOf(x, type) = Float(as_f64(x))
    BY <1>2 DEF CellOf
  <2>4. QED
    BY <2>2, <2>3 DEF JsonNumber, Float, Tag, Body
<1>3. CASE type \notin {"int64", "float64"}
  BY <1>3 DEF CellOf
<1>4. QED
  BY <1>1, <1>2, <1>3

\* And what it encodes of any that fits.
LEMMA CellIsJson ==
  ASSUME NEW x, JsonField(x), NEW type \in ColumnTypes, FitsColumn(x, type)
  PROVE  JsonField(Cell(x, type))
<1>1. CASE type = "list<struct>"
  <2> DEFINE items == [i \in DOMAIN Body(x) |-> Struct(Body(x)[i])]
  <2>1. Tag(x) = "array" /\ \A i \in DOMAIN Body(x) : FitsStruct(Body(x)[i])
    BY <1>1 DEF FitsColumn
  <2>2. Cell(x, type) = Arr(items)
    BY <1>1 DEF Cell
  <2>3. ASSUME NEW v, JsonPart(v), FitsStruct(v) PROVE JsonPart(Struct(v))
    <3> DEFINE b == [f \in Slots(v) |-> CellOf(Field(v, f), ColumnType(Element.properties[f]))]
    <3>1. Struct(v) = Obj(b)
      BY DEF Struct
    <3>2. ASSUME NEW f \in Slots(v) PROVE JsonNumber(b[f])
      <4>1. JsonNumber(Field(v, f)) /\ FitsOne(Field(v, f), ColumnType(Element.properties[f]))
        BY <2>3 DEF JsonPart, FitsStruct, Slots
      <4>2. ColumnType(Element.properties[f]) \in ColumnTypes
        BY DEF ColumnType, ColumnTypes
      <4>3. QED
        BY <4>1, <4>2, OneIsJson
    <3>3. DOMAIN b = Slots(v)
      OBVIOUS
    <3> HIDE DEF b
    <3>4. QED
      BY <3>1, <3>2, <3>3 DEF JsonPart, Obj, Tag, Body, Field
  <2>4. \A i \in DOMAIN items : JsonPart(items[i])
    BY <2>1, <2>3 DEF JsonField
  <2> HIDE DEF items
  <2>5. Tag(Arr(items)) = "array" /\ Body(Arr(items)) = items
    BY DEF Tag, Body, Arr
  <2>6. JsonNumber(Arr(items))
    BY <2>5 DEF JsonNumber
  <2>7. QED
    BY <2>2, <2>4, <2>5, <2>6 DEF JsonField
<1>2. CASE type = "list<utf8>"
  BY <1>2 DEF Cell, CellOf
<1>3. CASE type \notin {"list<struct>", "list<utf8>"}
  <2>1. FitsOne(x, type) /\ Cell(x, type) = CellOf(x, type)
    BY <1>3 DEF FitsColumn, Cell
  <2>2. JsonNumber(CellOf(x, type))
    BY <2>1, OneIsJson DEF JsonField
  <2>3. Tag(CellOf(x, type)) # "array"
    BY <1>3, <2>1 DEF FitsOne, CellOf, ColumnTypes, Tag, Integer, Float
  <2>4. QED
    BY <2>1, <2>2, <2>3 DEF JsonField
<1>4. QED
  BY <1>1, <1>2, <1>3

\* What a row of a record without nulls is read back as.
LEMMA RowBack ==
  ASSUME NEW v, \A f \in DOMAIN Body(v) : Field(v, f) # Null
  PROVE  LET u == FromRow(Row(v))
         IN /\ Row(v).cells = [f \in DOMAIN Body(v) \cap Columns |-> Cell(Field(v, f), Column(f))]
            /\ Tag(u) = "object" /\ DOMAIN Body(u) = DOMAIN Body(v)
            /\ \A f \in DOMAIN Body(v) :
                 Field(u, f) = IF f \in Columns THEN Cell(Field(v, f), Column(f))
                               ELSE Str(Rendered(Field(v, f)))
<1> DEFINE typed == DOMAIN Body(v) \cap Columns
           cells == [f \in typed |-> Cell(Field(v, f), Column(f))]
           extra == [f \in DOMAIN Body(v) \ typed |-> Rendered(Field(v, f))]
           b == cells ++ [f \in DOMAIN extra |-> Str(extra[f])]
<1>1. {f \in typed : Field(v, f) # Null} = typed
  OBVIOUS
<1>2. Row(v) = [cells |-> cells, extra |-> extra]
  BY <1>1 DEF Row
<1>3. Row(v).cells = cells /\ Row(v).extra = extra
  BY <1>2
<1>4. FromRow(Row(v)) = Obj(b)
  BY <1>3 DEF FromRow
<1>5. DOMAIN b = DOMAIN Body(v)
  BY DEF ++
<1>6. \A f \in DOMAIN Body(v) :
        b[f] = IF f \in Columns THEN Cell(Field(v, f), Column(f))
               ELSE Str(Rendered(Field(v, f)))
  BY DEF ++
<1> HIDE DEF b
<1>7. Tag(Obj(b)) = "object" /\ Body(Obj(b)) = b /\ \A f : Field(Obj(b), f) = b[f]
  BY DEF Tag, Body, Obj, Field
<1>8. QED
  BY <1>3, <1>4, <1>5, <1>6, <1>7

\* Every field of a kind has a column, and the clock of records one of doubles.
LEMMA KindColumns ==
  /\ \A kind \in RECORD_KINDS : DOMAIN Defs[kind].properties \subseteq Columns
  /\ "at_ms" \in Columns /\ Column("at_ms") = "float64"
<1>1. \A kind \in RECORD_KINDS : DOMAIN Defs[kind].properties \subseteq Columns
  <2> TAKE kind \in RECORD_KINDS
  <2>1. DOMAIN Defs[kind].properties \in {DOMAIN Defs[k].properties : k \in RECORD_KINDS}
    OBVIOUS
  <2>2. QED
    BY <2>1, Zenon DEF Columns
<1>2. /\ "store" \in RECORD_KINDS /\ "at_ms" \in DOMAIN Defs["store"].properties
      /\ Defs["store"].properties["at_ms"] = Clock
  BY Kinds DEF Defs, Definition, ++
<1>3. Column("at_ms") = "float64"
  BY <1>2, FieldColumn, RuleColumns
<1>4. QED
  BY <1>1, <1>2, <1>3

\* A record without nulls whose fields fit their columns is valid as its row has
\* it, and each cell of the row on its own.
LEMMA RowIsValid ==
  ASSUME NEW v, Json(v), Columnar(v)
  PROVE  LET kind == Body(Field(v, "kind"))
             u == FromRow(Row(v))
             cells == Row(v).cells
         IN /\ Json(u) /\ validate_record(u) /\ check(u, Defs[kind])
            /\ Field(u, "kind") = Str(kind) /\ cells.kind = Str(kind)
            /\ \A f \in DOMAIN cells : validate_field(kind, f, cells[f])
<1> DEFINE kind == Body(Field(v, "kind"))
           def == Defs[kind]
           P == def.properties
           u == FromRow(Row(v))
           cells == Row(v).cells
<1>1. /\ validate_record(v) /\ kind \in RECORD_KINDS
      /\ Has(v, "kind") /\ Has(v, "at_ms") /\ IsNumber(Field(v, "at_ms"))
      /\ \A f \in DOMAIN Body(v) : Field(v, f) # Null
      /\ \A f \in DOMAIN Body(v) \cap Columns : FitsColumn(Field(v, f), Column(f))
  BY DEF Columnar, validate_producer_record, validate_record
<1>2. check(v, def) /\ Field(v, "kind") = Str(kind)
  BY <1>1, ValidKind
<1>3. /\ Tag(v) = "object"
      /\ \A f \in def.required : Has(v, f)
      /\ \A f \in DOMAIN P \cap DOMAIN Body(v) : check4(Field(v, f), P[f])
  BY <1>1, <1>2, RecordCheck
<1>4. /\ cells = [f \in DOMAIN Body(v) \cap Columns |-> Cell(Field(v, f), Column(f))]
      /\ Tag(u) = "object" /\ DOMAIN Body(u) = DOMAIN Body(v)
      /\ \A f \in DOMAIN Body(v) :
           Field(u, f) = IF f \in Columns THEN Cell(Field(v, f), Column(f))
                         ELSE Str(Rendered(Field(v, f)))
  BY <1>1, RowBack
<1>5. /\ DOMAIN P \subseteq Columns /\ "at_ms" \in Columns /\ Column("at_ms") = "float64"
      /\ "kind" \in DOMAIN P /\ P["kind"] = Kind(kind)
      /\ \A f \in DOMAIN P : P[f] \in Plains \cup {TextList, EndpointList}
  BY <1>1, KindColumns, Schema DEF Structured
<1> HIDE DEF u, cells
<1>6. ASSUME NEW f \in DOMAIN P \cap DOMAIN Body(v)
      PROVE  LET c == Cell(Field(v, f), ColumnType(P[f]))
             IN /\ Field(u, f) = c /\ cells[f] = c /\ check4(c, P[f])
                /\ P[f] \in Plains /\ IsWord(P[f]) => c = Field(v, f)
  <2>1. Column(f) = ColumnType(P[f])
    BY <1>1, FieldColumn
  <2>2. check4(Field(v, f), P[f]) /\ JsonField(Field(v, f))
        /\ P[f] \in Plains \cup {TextList, EndpointList}
    BY <1>3, <1>5 DEF Json
  <2>3. f \in Columns /\ f \in DOMAIN Body(v)
    BY <1>5
  <2> HIDE DEF P
  <2>4. QED
    BY <1>4, <2>1, <2>2, <2>3, CellKept
<1>7. Has(u, "kind") /\ Has(u, "at_ms") /\ Field(u, "kind") = Str(kind)
      /\ cells["kind"] = Str(kind)
  <2>1. "kind" \in DOMAIN P \cap DOMAIN Body(v) /\ IsWord(Kind(kind)) /\ Kind(kind) \in Plains
    BY <1>1, <1>5 DEF Has, IsWord, Kind, Uses, Plains
  <2>2. QED
    BY <1>1, <1>2, <1>4, <1>5, <1>6, <2>1 DEF Has
<1>8. IsNumber(Field(u, "at_ms"))
  <2>1. Field(u, "at_ms") = Float(as_f64(Field(v, "at_ms")))
    BY <1>1, <1>4, <1>5 DEF Has, Cell, CellOf
  <2>2. QED
    BY <2>1 DEF IsNumber, Float, Tag
<1>9. Body(Field(u, "kind")) = kind /\ Tag(Field(u, "kind")) = "string"
  BY <1>7 DEF Body, Tag, Str
<1> HIDE DEF kind
<1>10. check(u, def)
  <2>1. \A f \in DOMAIN P \cap DOMAIN Body(v) : check4(Field(u, f), P[f])
    BY <1>6
  <2>2. \A f \in DOMAIN P \cap DOMAIN Body(v) :
          P[f] \in Plains /\ IsWord(P[f]) => Field(u, f) = Field(v, f)
    BY <1>6
  <2>3. QED
    BY <1>1, <1>2, <1>4, <2>1, <2>2, RecordMeets
<1>11. ASSUME kind = "identity_refused"
       PROVE  WindowIsOrdered(u)
  <2>1. WindowIsOrdered(v)
    BY <1>1, <1>11 DEF validate_record, kind
  <2>2. ASSUME NEW f \in {"window_start_ms", "window_end_ms"}
        PROVE  as_f64(Field(u, f)) = as_f64(Field(v, f))
    <3>1. f \in DOMAIN P \cap DOMAIN Body(v) /\ P[f] = Clock /\ Clock \in Plains
      BY <1>3, <1>11, OrderedFields DEF Has, Plains
    <3>2. IsNumber(Field(v, f)) /\ JsonNumber(Field(v, f))
      BY <1>3, <3>1, PlainCheck DEF MeetsPlain, Clock, Of, Accepts, Json, JsonField
    <3>3. Field(u, f) = Float(as_f64(Field(v, f)))
      BY <1>6, <3>1, RuleColumns DEF Cell, CellOf
    <3>4. QED
      BY <3>2, <3>3, ReadAsDouble
  <2>3. QED
    BY <2>1, <2>2 DEF WindowIsOrdered
<1>12. ASSUME kind = "segments_dropped"
       PROVE  SequencesAreOrdered(u)
  <2>1. SequencesAreOrdered(v)
    BY <1>1, <1>12 DEF validate_record, kind
  <2>2. ASSUME NEW f \in {"first_seq", "last_seq"}
        PROVE  integer_value(Field(u, f)) = integer_value(Field(v, f))
    <3>1. f \in DOMAIN P \cap DOMAIN Body(v) /\ P[f] = Counter /\ Counter \in Plains
      BY <1>3, <1>12, OrderedFields DEF Has, Plains
    <3>2. IsNumber(Field(v, f)) /\ JsonNumber(Field(v, f))
      BY <1>3, <3>1, PlainCheck DEF MeetsPlain, Counter, Accepts, Json, JsonField
    <3>3. Field(u, f) = Integer(integer_value(Field(v, f)))
      BY <1>6, <3>1, RuleColumns DEF Cell, CellOf
    <3>4. integer_value(Field(v, f)) \in Int
      BY <3>2 DEF JsonNumber, integer_value, Halves, IsNumber
    <3>5. Halves(Field(u, f)) = 2 * integer_value(Field(v, f))
      BY <3>3 DEF Halves, Integer, Tag, Body
    <3>6. QED
      BY <3>4, <3>5 DEF integer_value
  <2>3. QED
    BY <2>1, <2>2 DEF SequencesAreOrdered
<1>13. validate_record(u)
  BY <1>1, <1>4, <1>7, <1>8, <1>9, <1>10, <1>11, <1>12, Zenon DEF validate_record
<1>14. Json(u)
  <2>1. ASSUME NEW f \in DOMAIN Body(v) PROVE JsonField(Field(u, f))
    <3>1. CASE f \in Columns
      <4>1. Column(f) \in ColumnTypes
        <5>1. \A rule : ColumnType(rule) \in ColumnTypes
          BY DEF ColumnType, ColumnTypes
        <5>2. QED
          BY <5>1, Zenon DEF Column
      <4>2. JsonField(Field(v, f)) /\ FitsColumn(Field(v, f), Column(f))
        BY <1>1, <3>1 DEF Json
      <4>3. Field(u, f) = Cell(Field(v, f), Column(f))
        BY <1>4, <3>1
      <4>4. QED
        BY <4>1, <4>2, <4>3, CellIsJson
    <3>2. CASE f \notin Columns
      <4>1. Tag(Field(u, f)) = "string"
        BY <1>4, <3>2 DEF Tag, Str
      <4>2. QED
        BY <4>1 DEF JsonField, JsonNumber
    <3>3. QED
      BY <3>1, <3>2
  <2>2. QED
    BY <1>4, <2>1 DEF Json
<1>15. ASSUME NEW f \in DOMAIN cells PROVE validate_field(kind, f, cells[f])
  <2>1. CASE f \in DOMAIN P
    <3>1. f \in DOMAIN P \cap DOMAIN Body(v)
      BY <1>4, <2>1
    <3>2. check4(cells[f], P[f]) /\ P[f] \in Plains \cup {TextList, EndpointList}
      BY <1>5, <1>6, <3>1
    <3>3. check(cells[f], P[f])
      BY <3>2, FieldMeets
    <3>4. QED
      BY <3>3 DEF validate_field
  <2>2. CASE f \notin DOMAIN P
    BY <2>2 DEF validate_field
  <2>3. QED
    BY <2>1, <2>2
<1>16. QED
  BY <1>7, <1>10, <1>13, <1>14, <1>15 DEF u, cells, kind

(***************************************************************************)
(* A record the twin generator can encode, whose strings are, read back    *)
(* from its row: every cell is valid on its own, and the record has the    *)
(* same typed fields, but for what a structure's definition does not name, *)
(* the same names beside them, and the same string under each that has     *)
(* one.                                                                    *)
(***************************************************************************)
THEOREM RowsKeepTheRecord ==
  ASSUME NEW v, Json(v), Columnar(v),
         \A f \in DOMAIN Body(v) \ Columns : StringIsStr(Field(v, f))
  PROVE  LET back == decode(FromRow(Row(v)))
             there == decode(v)
             cells == Row(v).cells
             kind == Body(cells.kind)
         IN /\ \A f \in DOMAIN cells : validate_field(kind, f, cells[f])
            /\ back # NoRecord
            /\ back.fields = Catalogued(there, Defs[kind])
            /\ DOMAIN back.extensions = DOMAIN there.extensions
            /\ \A f \in DOMAIN there.extensions :
                 Tag(there.extensions[f]) = "string" =>
                   back.extensions[f] = there.extensions[f]
<1> DEFINE kind == Body(Field(v, "kind"))
           def == Defs[kind]
           P == def.properties
           u == FromRow(Row(v))
           cells == Row(v).cells
           there == Structure(normalize_integers(v, def), def)
           back == Structure(normalize_integers(u, def), def)
<1>1. /\ validate_record(v) /\ kind \in RECORD_KINDS
      /\ \A f \in DOMAIN Body(v) : Field(v, f) # Null
      /\ \A f \in DOMAIN Body(v) \cap Columns : FitsColumn(Field(v, f), Column(f))
  BY DEF Columnar, validate_producer_record
<1>2. check(v, def) /\ Field(v, "kind") = Str(kind)
  BY <1>1, ValidKind
<1>3. /\ Json(u) /\ validate_record(u) /\ check(u, def)
      /\ Field(u, "kind") = Str(kind) /\ cells.kind = Str(kind)
      /\ \A f \in DOMAIN cells : validate_field(kind, f, cells[f])
  BY RowIsValid
<1>4. /\ DOMAIN Body(u) = DOMAIN Body(v)
      /\ \A f \in DOMAIN Body(v) :
           Field(u, f) = IF f \in Columns THEN Cell(Field(v, f), Column(f))
                         ELSE Str(Rendered(Field(v, f)))
  BY <1>1, RowBack
<1> HIDE DEF u, cells
<1>5. Body(cells.kind) = kind /\ Body(Field(u, "kind")) = kind
  BY <1>3 DEF Body, Str
<1>6. decode(v) = there
  BY <1>1 DEF decode
<1>7. decode(u) = back
  BY <1>1, <1>3, <1>5 DEF decode
<1>8. /\ DOMAIN P \subseteq Columns
      /\ \A f \in DOMAIN P : P[f] \in Plains \cup {TextList, EndpointList}
  BY <1>1, KindColumns, Schema DEF Structured
<1> HIDE DEF kind
<1>9. there # NoRecord /\ TypedRecord(there, def) /\ MadeFrom(there, v, def, MadeField)
  BY <1>1, <1>2, KnownDecodes
<1>10. back # NoRecord /\ TypedRecord(back, def) /\ MadeFrom(back, u, def, MadeField)
  BY <1>1, <1>3, KnownDecodes
<1> HIDE DEF there, back
<1>11. /\ DOMAIN there.fields = DOMAIN P \cap DOMAIN Body(v)
       /\ \A f \in DOMAIN there.fields : there.fields[f] = MadeField(Field(v, f), P[f])
       /\ DOMAIN there.extensions = DOMAIN Body(v) \ DOMAIN P
       /\ \A f \in DOMAIN there.extensions : there.extensions[f] = Field(v, f)
  BY <1>9, Zenon DEF MadeFrom
<1>12. /\ DOMAIN back.fields = DOMAIN P \cap DOMAIN Body(u)
       /\ \A f \in DOMAIN back.fields : back.fields[f] = MadeField(Field(u, f), P[f])
       /\ DOMAIN back.extensions = DOMAIN Body(u) \ DOMAIN P
       /\ \A f \in DOMAIN back.extensions : back.extensions[f] = Field(u, f)
  BY <1>10, Zenon DEF MadeFrom
<1>13. ASSUME NEW f \in DOMAIN there.fields
       PROVE  back.fields[f] = CutField(there.fields[f], P[f])
  <2>1. f \in DOMAIN P /\ f \in DOMAIN Body(v) /\ f \in Columns
    BY <1>8, <1>11
  <2>2. Field(u, f) = Cell(Field(v, f), ColumnType(P[f]))
    BY <1>1, <1>4, <2>1, FieldColumn
  <2>3. check4(Field(v, f), P[f]) /\ JsonField(Field(v, f))
        /\ P[f] \in Plains \cup {TextList, EndpointList}
    BY <1>1, <1>2, <1>8, <2>1, RecordCheck DEF Json
  <2>4. back.fields[f] = MadeField(Field(u, f), P[f])
        /\ there.fields[f] = MadeField(Field(v, f), P[f])
    BY <1>4, <1>11, <1>12, <2>1
  <2> HIDE DEF P
  <2>5. QED
    BY <2>2, <2>3, <2>4, CellKept
<1>14. back.fields = Catalogued(there, def)
  <2> DEFINE C == Catalogued(there, def)
  <2>1. DOMAIN C = DOMAIN there.fields /\ IsMap(C)
    BY DEF Catalogued, IsMap
  <2>2. ASSUME NEW f \in DOMAIN there.fields PROVE C[f] = CutField(there.fields[f], P[f])
    <3>1. IsNested(def, f) <=> P[f] = EndpointList
      BY <1>1, <1>11, NestedFields
    <3>2. C[f] = IF IsNested(def, f)
                 THEN Arr([i \in DOMAIN Body(there.fields[f]) |->
                             Cut(Body(there.fields[f])[i])])
                 ELSE there.fields[f]
      BY DEF Catalogued, Cut
    <3> HIDE DEF C
    <3>3. QED
      BY <3>1, <3>2 DEF CutField
  <2> HIDE DEF C
  <2>3. IsMap(back.fields) /\ DOMAIN back.fields = DOMAIN there.fields
    BY <1>4, <1>10, <1>11, <1>12 DEF TypedRecord
  <2>4. back.fields = C
    BY <1>13, <2>1, <2>2, <2>3 DEF IsMap
  <2>5. QED
    BY <2>4 DEF C
<1>15. ASSUME NEW f \in DOMAIN there.extensions, Tag(there.extensions[f]) = "string"
       PROVE  back.extensions[f] = there.extensions[f]
  <2>1. /\ f \in DOMAIN Body(v) /\ there.extensions[f] = Field(v, f)
        /\ back.extensions[f] = Field(u, f)
    BY <1>4, <1>11, <1>12
  <2>2. CASE f \in Columns
    <3>1. FitsColumn(Field(v, f), Column(f)) /\ Tag(Field(v, f)) = "string"
      BY <1>1, <1>15, <2>1, <2>2
    <3>2. Cell(Field(v, f), Column(f)) = Field(v, f)
      BY <3>1 DEF FitsColumn, FitsOne, Cell, CellOf, IsNumber
    <3>3. QED
      BY <1>4, <2>1, <2>2, <3>2
  <2>3. CASE f \notin Columns
    <3>1. Field(u, f) = Str(Rendered(Field(v, f))) /\ StringIsStr(Field(v, f))
      BY <1>4, <2>1, <2>3
    <3>2. QED
      BY <1>15, <2>1, <3>1 DEF Rendered, StringIsStr
  <2>4. QED
    BY <2>2, <2>3
<1>16. DOMAIN back.extensions = DOMAIN there.extensions
  BY <1>4, <1>11, <1>12
<1>17. QED
  BY <1>3, <1>5, <1>6, <1>7, <1>10, <1>14, <1>15, <1>16 DEF u, cells

-----------------------------------------------------------------------------
(***************************************************************************)
(* The program: what it reads is JSON, and an edit of a typed record is a  *)
(* typed record.                                                           *)
(***************************************************************************)

\* A number no larger than the steps of a double is one.
LEMMA SmallDoubles ==
  ASSUME NEW h \in Int, -Mantissa <= h, h <= Mantissa
  PROVE  IsDouble(h)
<1>1. 1 \in Scales /\ Mantissa \in Nat
  BY ScaleAssumption, WidthAssumption
<1>2. -1 * Mantissa <= h /\ h <= 1 * Mantissa /\ h % 1 = 0
  BY <1>1
<1>3. QED
  BY <1>1, <1>2 DEF IsDouble, Reaches

\* The numbers tried are within 64 bits, and doubles.
LEMMA TriedNumbers ==
  /\ \A n \in Whole : n \in Int /\ I64Min <= n /\ n <= U64
  /\ \A h \in Floats : h \in Int /\ IsDouble(h)
<1> USE WidthAssumption
<1>1. ASSUME NEW n \in Whole PROVE n \in Int /\ I64Min <= n /\ n <= U64
  BY <1>1 DEF Whole, Ends, I64Min, U64
<1>2. ASSUME NEW h \in Floats PROVE h \in Int /\ IsDouble(h)
  <2>1. CASE \E n \in Whole : h = Rounded(2 * n)
    <3>1. PICK n \in Whole : h = Rounded(2 * n)
      BY <2>1
    <3>2. n \in Int /\ I64Min <= n /\ n <= U64
      BY <1>1
    <3> DEFINE v == Integer(n)
    <3>3. Tag(v) = "integer" /\ Body(v) = n
      BY DEF Tag, Body, Integer
    <3> HIDE DEF v
    <3>4. JsonNumber(v) /\ IsNumber(v)
      BY <3>2, <3>3 DEF JsonNumber, IsNumber
    <3>5. as_f64(v) = Rounded(2 * n)
      BY <3>3 DEF as_f64, Halves
    <3>6. QED
      BY <3>1, <3>4, <3>5, ReadAsDouble
  <2>2. CASE h \in {-1, 1, Mantissa}
    BY <2>2, SmallDoubles
  <2>3. CASE h \in {k \in {2 * n - scale : n \in {I64Min, I64 + 1}, scale \in Scales} :
                     IsDouble(k)}
    <3>1. PICK n \in {I64Min, I64 + 1}, scale \in Scales : h = 2 * n - scale
      BY <2>3
    <3>2. scale \in Int /\ n \in Int
      BY ScaleAssumption DEF I64Min
    <3>3. QED
      BY <2>3, <3>1, <3>2
  <2>4. QED
    BY <2>1, <2>2, <2>3 DEF Floats
<1>3. QED
  BY <1>1, <1>2

\* The values tried are JSON.
LEMMA TriedAreJson ==
  \A x \in Values \cup Relative : /\ JsonField(x) /\ StringIsStr(x)
                                  /\ Tag(x) = "array" => IsMap(Body(x)) /\ x = Arr(Body(x))
                                  /\ Tag(x) = "integer" => x = Integer(Body(x))
                                  /\ x # NaN
<1> DEFINE Plainly(x) == /\ JsonField(x) /\ StringIsStr(x)
                         /\ Tag(x) = "array" => IsMap(Body(x)) /\ x = Arr(Body(x))
                         /\ Tag(x) = "integer" => x = Integer(Body(x))
                         /\ x # NaN
<1>1. \A n \in Int : I64Min <= n /\ n <= U64 => Plainly(Integer(n))
  BY DEF JsonField, JsonNumber, StringIsStr, Tag, Body, Integer, NaN
<1>2. \A h \in Int : IsDouble(h) => Plainly(Float(h))
  BY DEF JsonField, JsonNumber, StringIsStr, Tag, Body, Float, NaN
<1>3. \A s : Plainly(Str(s))
  BY DEF JsonField, JsonNumber, StringIsStr, Tag, Body, Str, NaN
<1>4. \A b : Plainly(Bool(b))
  BY DEF JsonField, JsonNumber, StringIsStr, Tag, Body, Bool, NaN
<1>5. Plainly(Null)
  BY DEF JsonField, JsonNumber, StringIsStr, Tag, Null, NaN
<1>6. ASSUME NEW x \in {Arr(<<>>), Arr(<<Str("a")>>), Arr(<<Integer(1)>>)}
      PROVE  Plainly(x)
  <2>1. ASSUME NEW y \in {Str("a"), Integer(1)}
        PROVE  JsonPart(y)
    BY <2>1 DEF JsonPart, Tag, Str, Integer
  <2>2. PICK items : x = Arr(items) /\ IsMap(items) /\ \A i \in DOMAIN items : JsonPart(items[i])
    <3>1. \A y : IsMap(<<y>>) /\ DOMAIN <<y>> = {1} /\ <<y>>[1] = y
      BY DEF IsMap
    <3>2. IsMap(<<>>) /\ DOMAIN <<>> = {}
      BY DEF IsMap
    <3>3. CASE x = Arr(<<>>)
      BY <3>2, <3>3
    <3>4. ASSUME NEW y \in {Str("a"), Integer(1)}, x = Arr(<<y>>)
          PROVE  \E items : x = Arr(items) /\ IsMap(items)
                            /\ \A i \in DOMAIN items : JsonPart(items[i])
      <4> DEFINE one == <<y>>
      <4>1. x = Arr(one) /\ IsMap(one) /\ DOMAIN one = {1} /\ one[1] = y /\ JsonPart(y)
        BY <2>1, <3>1, <3>4
      <4> HIDE DEF one
      <4>2. QED
        BY <4>1
    <3>5. QED
      BY <1>6, <3>3, <3>4
  <2>3. Tag(x) = "array" /\ Body(x) = items
    BY <2>2 DEF Tag, Body, Arr
  <2>4. QED
    BY <2>2, <2>3 DEF JsonField, JsonNumber, StringIsStr, Tag, NaN
<1> HIDE DEF Plainly
<1>7. \A x \in Numbers : Plainly(x)
  BY <1>1, <1>2, TriedNumbers DEF Numbers
<1>8. \A x \in Values : Plainly(x)
  BY <1>3, <1>4, <1>5, <1>6, <1>7 DEF Values
<1>9. \A x \in Relative : Plainly(x)
  <2>1. \A n \in {0, 1, Mantissa, Mantissa + 1} : n \in Int /\ I64Min <= n /\ n <= U64
    BY WidthAssumption DEF I64Min, U64
  <2>2. IsDouble(0) /\ IsDouble(1)
    BY SmallDoubles, WidthAssumption
  <2>3. QED
    BY <1>1, <1>2, <1>3, <1>4, <2>1, <2>2 DEF Relative
<1>10. QED
  BY <1>8, <1>9 DEF Plainly

\* What a document may hold in a field is JSON in every one.
LEMMA VariationsAreJson ==
  ASSUME NEW fields, NEW def, NEW S, Values \cup Relative \subseteq S,
         \A f \in DOMAIN fields : fields[f] \in S,
         NEW x \in Variations(fields, def)
  PROVE  \A f \in DOMAIN x : x[f] \in S
<1> DEFINE names == DOMAIN def.properties \cup {"note", "canary"}
<1>1. ASSUME NEW f \in names, NEW y \in Values, x = fields ++ Maplet(f, y)
      PROVE  \A g \in DOMAIN x : x[g] \in S
  BY <1>1 DEF ++, Maplet
<1>2. ASSUME NEW f \in names, NEW y \in Values, x = Maplet(f, y) ++ fields
      PROVE  \A g \in DOMAIN x : x[g] \in S
  BY <1>2 DEF ++, Maplet
<1>3. ASSUME NEW f \in names, x = Restrict(fields, DOMAIN fields \ {f})
      PROVE  \A g \in DOMAIN x : x[g] \in S
  BY <1>3 DEF Restrict
<1>4. ASSUME NEW pair \in Related, NEW g \in [pair -> Relative], x = g ++ fields
      PROVE  \A f \in DOMAIN x : x[f] \in S
  BY <1>4 DEF ++
<1>5. \/ \E f \in names, y \in Values : x = fields ++ Maplet(f, y)
      \/ \E f \in names, y \in Values : x = Maplet(f, y) ++ fields
      \/ \E f \in names : x = Restrict(fields, DOMAIN fields \ {f})
      \/ \E pair \in Related : \E g \in [pair -> Relative] : x = g ++ fields
  <2> DEFINE One == {fields ++ Maplet(f, y) : f \in names, y \in Values}
             Two == {Maplet(f, y) ++ fields : f \in names, y \in Values}
             Less == {Restrict(fields, DOMAIN fields \ {f}) : f \in names}
             Some == {p \in Related : p \subseteq DOMAIN def.properties}
             Given(pair) == {g ++ fields : g \in [pair -> Relative]}
             Pairs == {Given(pair) : pair \in Some}
  <2>1. Variations(fields, def) = One \cup Two \cup Less \cup UNION Pairs
    BY DEF Variations
  <2>2. x \in One => \E f \in names, y \in Values : x = fields ++ Maplet(f, y)
    OBVIOUS
  <2>3. x \in Two => \E f \in names, y \in Values : x = Maplet(f, y) ++ fields
    OBVIOUS
  <2>4. x \in Less => \E f \in names : x = Restrict(fields, DOMAIN fields \ {f})
    BY Zenon
  <2>5. ASSUME NEW G \in Pairs, x \in G
        PROVE  \E pair \in Related : \E g \in [pair -> Relative] : x = g ++ fields
    <3>1. PICK pair \in Some : G = Given(pair)
      BY Zenon
    <3>2. pair \in Related /\ x \in Given(pair)
      BY <2>5, <3>1
    <3>3. QED
      BY <3>2
  <2> HIDE DEF One, Two, Less, Pairs
  <2>6. QED
    BY <2>1, <2>2, <2>3, <2>4, <2>5
<1>6. QED
  BY <1>1, <1>2, <1>3, <1>4, <1>5

\* Those of well-formed documents too.
LEMMA DefaultsAreJson ==
  ASSUME NEW kind, NEW f
  PROVE  JsonField(Default(kind, f)) /\ StringIsStr(Default(kind, f))
<1> DEFINE Plainly(x) == JsonField(x) /\ StringIsStr(x)
<1> USE DEF JsonField, JsonNumber, StringIsStr, Tag, Body
<1>0. I64Min <= 1 /\ 1 <= U64 /\ IsDouble(1)
  BY WidthAssumption, SmallDoubles DEF I64Min, U64
<1>1. \A s : Plainly(Str(s))
  BY DEF Str
<1>2. Plainly(Arr(<<Str("a")>>)) /\ Plainly(Bool(FALSE))
  BY DEF Arr, Str, Bool, JsonPart
<1>3. Plainly(Float(1)) /\ Plainly(Integer(1))
  BY <1>0 DEF Float, Integer
<1>4. Plainly(Arr(<<Obj(Plain)>>))
  <2>1. \A g \in DOMAIN Plain : JsonNumber(Plain[g])
    BY <1>0 DEF Plain, Integer, Str
  <2>2. JsonPart(Obj(Plain))
    BY <2>1 DEF JsonPart, Obj, Field
  <2>3. QED
    BY <2>2 DEF Arr
<1> HIDE DEF JsonField, StringIsStr
<1>5. QED
  BY <1>1, <1>2, <1>3, <1>4 DEF Default

\* An object of JSON fields is JSON.
LEMMA ObjectsAreJson ==
  ASSUME NEW b, \A f \in DOMAIN b : JsonField(b[f])
  PROVE  /\ Json(Obj(b)) /\ Tag(Obj(b)) = "object" /\ Body(Obj(b)) = b
         /\ JsonPart(Obj(b))
<1>1. Tag(Obj(b)) = "object" /\ Body(Obj(b)) = b /\ \A f : Field(Obj(b), f) = b[f]
  BY DEF Tag, Body, Obj, Field
<1>2. QED
  BY <1>1, Zenon DEF Json, JsonField, JsonPart

\* The documents tried are JSON, and what is in their fields.
LEMMA DocumentsAreJson ==
  ASSUME NEW v \in Candidates \cup WellFormed
  PROVE  Json(v) /\ Tag(v) = "object" /\ StringsAreStr(Body(v))
<1> DEFINE Plainly(x) == JsonField(x) /\ StringIsStr(x)
           Document(b) == Json(Obj(b)) /\ Tag(Obj(b)) = "object" /\ StringsAreStr(Body(Obj(b)))
<1>o. ASSUME NEW b, \A f \in DOMAIN b : Plainly(b[f]) PROVE Document(b)
  BY <1>o, ObjectsAreJson DEF StringsAreStr
<1>1. \A x \in Values \cup Relative : Plainly(x)
  BY TriedAreJson
<1>2. \A s : Plainly(Str(s))
  BY DEF JsonField, JsonNumber, StringIsStr, Tag, Body, Str
<1>d. \A k, f : Plainly(Default(k, f))
  BY DefaultsAreJson
<1> HIDE DEF Document
<1>3. ASSUME NEW kind, NEW x \in Variations(Base(kind), Defs[kind])
      PROVE  Document(x)
  <2> DEFINE S == Values \cup Relative \cup {Default(kind, f) : f \in DOMAIN Base(kind)}
  <2>1. \A f \in DOMAIN Base(kind) : Base(kind)[f] = Default(kind, f)
    BY DEF Base
  <2>2. \A f \in DOMAIN Base(kind) : Base(kind)[f] \in S
    BY <2>1
  <2>3. \A f \in DOMAIN x : x[f] \in S
    BY <1>3, <2>2, VariationsAreJson
  <2>4. \A y \in S : Plainly(y)
    BY <1>1, <1>d
  <2> HIDE DEF S
  <2>5. QED
    BY <1>o, <2>3, <2>4
<1>4. ASSUME NEW x \in Variations(Plain, Defs["Endpoint"])
      PROVE  Document(Maplet("endpoints", Arr(<<Obj(x)>>)) ++ Base("heartbeat"))
  <2> DEFINE S == Values \cup Relative \cup {Plain[f] : f \in DOMAIN Plain}
             b == Maplet("endpoints", Arr(<<Obj(x)>>)) ++ Base("heartbeat")
  <2>1. \A f \in DOMAIN Plain : JsonField(Plain[f])
    BY WidthAssumption DEF Plain, Integer, Str, JsonField, JsonNumber, Tag, Body, I64Min, U64
  <2>2. \A f \in DOMAIN x : x[f] \in S
    BY VariationsAreJson
  <2>3. \A y \in S : JsonField(y)
    BY <1>1, <2>1
  <2> HIDE DEF S
  <2>4. JsonPart(Obj(x))
    BY <2>2, <2>3, ObjectsAreJson
  <2>5. Plainly(Arr(<<Obj(x)>>))
    BY <2>4 DEF JsonField, JsonNumber, StringIsStr, Tag, Body, Arr
  <2>6. \A f \in DOMAIN b : b[f] = Arr(<<Obj(x)>>) \/ b[f] = Default("heartbeat", f)
    BY DEF ++, Maplet, Base
  <2> HIDE DEF b
  <2>7. \A f \in DOMAIN b : Plainly(b[f])
    BY <1>d, <2>5, <2>6
  <2>8. QED
    BY <1>o, <2>7 DEF b
<1>5. ASSUME NEW k, NEW x \in Values, NEW y \in Values
      PROVE  Document([kind |-> Str(k), at_ms |-> x, note |-> y])
  <2> DEFINE b == [kind |-> Str(k), at_ms |-> x, note |-> y]
  <2>1. \A f \in DOMAIN b : b[f] \in {Str(k), x, y}
    OBVIOUS
  <2> HIDE DEF b
  <2>2. \A f \in DOMAIN b : Plainly(b[f])
    BY <1>1, <1>2, <2>1
  <2>3. QED
    BY <1>o, <2>2 DEF b
<1>6. ASSUME NEW kind
      PROVE  Document(Base(kind)) /\ Document(Full(kind))
  <2>1. /\ \A f \in DOMAIN Base(kind) : Plainly(Base(kind)[f])
        /\ \A f \in DOMAIN Full(kind) : Plainly(Full(kind)[f])
    BY <1>d DEF Base, Full
  <2>2. QED
    BY <1>o, <2>1
<1>7. CASE v \in WellFormed
  <2>1. PICK kind \in RECORD_KINDS : v = Obj(Base(kind)) \/ v = Obj(Full(kind))
    BY <1>7 DEF WellFormed
  <2>2. QED
    BY <1>6, <2>1 DEF Document
<1>8. CASE v \in Candidates
  <2>1. \/ \E kind \in RECORD_KINDS : \E x \in Variations(Base(kind), Defs[kind]) : v = Obj(x)
        \/ \E x \in Variations(Plain, Defs["Endpoint"]) :
             v = Obj(Maplet("endpoints", Arr(<<Obj(x)>>)) ++ Base("heartbeat"))
        \/ \E k \in {"future", "Endpoint"}, x \in Values, y \in Values :
             v = Obj([kind |-> Str(k), at_ms |-> x, note |-> y])
    <3> DEFINE Group(kind) == {Obj(x) : x \in Variations(Base(kind), Defs[kind])}
               Groups == {Group(kind) : kind \in RECORD_KINDS}
               Nested == {Obj(Maplet("endpoints", Arr(<<Obj(x)>>)) ++ Base("heartbeat")) :
                            x \in Variations(Plain, Defs["Endpoint"])}
               Doc(k, x, y) == Obj([kind |-> Str(k), at_ms |-> x, note |-> y])
               Foreign == {Doc(k, x, y) :
                           k \in {"future", "Endpoint"}, x \in Values, y \in Values}
    <3>1. Candidates = Nested \cup Foreign \cup UNION Groups
      BY DEF Candidates
    <3>2. ASSUME NEW G \in Groups, v \in G
          PROVE  \E kind \in RECORD_KINDS :
                   \E x \in Variations(Base(kind), Defs[kind]) : v = Obj(x)
      <4>1. PICK kind \in RECORD_KINDS : G = Group(kind)
        BY Zenon
      <4>2. QED
        BY <3>2, <4>1
    <3>3. v \in Nested => \E x \in Variations(Plain, Defs["Endpoint"]) :
             v = Obj(Maplet("endpoints", Arr(<<Obj(x)>>)) ++ Base("heartbeat"))
      BY Zenon
    <3>4. v \in Foreign => \E k \in {"future", "Endpoint"}, x \in Values, y \in Values :
             v = Doc(k, x, y)
      <4> HIDE DEF Doc
      <4>1. QED
        OBVIOUS
    <3> HIDE DEF Groups, Nested, Foreign
    <3>5. (v \in UNION Groups) => \E kind \in RECORD_KINDS :
                              \E x \in Variations(Base(kind), Defs[kind]) : v = Obj(x)
      BY <3>2
    <3>6. v \in Nested \/ v \in Foreign \/ v \in UNION Groups
      BY <1>8, <3>1
    <3>7. QED
      BY <3>3, <3>4, <3>5, <3>6, ZenonT(30)
  <2>2. QED
    BY <1>3, <1>4, <1>5, <2>1 DEF Document
<1>9. QED
  BY <1>7, <1>8

\* Of the kinds, the heartbeat has a list of structures.
LEMMA EndpointsField ==
  ASSUME NEW kind \in RECORD_KINDS,
         "endpoints" \in DOMAIN Defs[kind].properties \cup Defs[kind].required
  PROVE  Defs[kind].properties["endpoints"] = EndpointList
<1> USE Kinds DEF Defs, Definition, ++, EndpointList
<1>1. CASE kind = "store"
  BY <1>1
<1>2. CASE kind = "evict"
  BY <1>2
<1>3. CASE kind = "clear"
  BY <1>3
<1>4. CASE kind = "holder_reset"
  BY <1>4
<1>5. CASE kind = "agent_start"
  BY <1>5
<1>6. CASE kind = "heartbeat"
  BY <1>6
<1>7. CASE kind = "identity_refused"
  BY <1>7
<1>8. CASE kind = "segments_dropped"
  BY <1>8
<1> HIDE DEF Defs, Definition, ++, EndpointList
<1>9. QED
  BY <1>1, <1>2, <1>3, <1>4, <1>5, <1>6, <1>7, <1>8, Kinds

\* A well-formed document is of a known kind; its list of structures, if its
\* kind has one, has one structure.
LEMMA WellFormedKind ==
  ASSUME NEW v \in WellFormed
  PROVE  /\ v # Null
         /\ \E kind \in RECORD_KINDS :
              /\ Field(v, "kind") = Str(kind)
              /\ Has(v, "endpoints") => DOMAIN Body(Field(v, "endpoints")) = {1}
<1>1. PICK kind \in RECORD_KINDS : v = Obj(Base(kind)) \/ v = Obj(Full(kind))
  BY DEF WellFormed
<1>2. /\ "kind" \in DOMAIN Base(kind) /\ "kind" \in DOMAIN Full(kind)
  BY Schema DEF Base, Full
<1>3. /\ \A f \in DOMAIN Base(kind) : Base(kind)[f] = Default(kind, f)
      /\ \A f \in DOMAIN Full(kind) : Full(kind)[f] = Default(kind, f)
  BY DEF Base, Full
<1>4. Default(kind, "kind") = Str(kind)
  <2>1. Defs[kind].properties["kind"].type = {"string"}
    <3>1. Kind(kind).type = {"string"}
      BY DEF Kind
    <3>2. QED
      BY <3>1, Schema
  <2>2. Defs[kind].properties["kind"] # Clock
    BY <2>1 DEF Clock, Of
  <2>3. QED
    BY <2>1, <2>2 DEF Default
<1>5. ASSUME "endpoints" \in DOMAIN Base(kind) \cup DOMAIN Full(kind)
      PROVE  Default(kind, "endpoints") = Arr(<<Obj(Plain)>>)
  <2>1. Defs[kind].properties["endpoints"].type = {"array"}
    BY <1>5, EndpointsField, ListRules DEF Base, Full
  <2>2. Defs[kind].properties["endpoints"] # Clock
    BY <2>1 DEF Clock, Of
  <2>3. QED
    BY <2>1, <2>2 DEF Default
<1>6. DOMAIN Body(Arr(<<Obj(Plain)>>)) = {1}
  BY DEF Body, Arr
<1>7. PICK b : v = Obj(b) /\ "kind" \in DOMAIN b /\ b \in {Base(kind), Full(kind)}
                /\ \A f \in DOMAIN b : b[f] = Default(kind, f)
  BY <1>1, <1>2, <1>3
<1>8. Body(v) = b /\ Tag(v) = "object" /\ \A f : Field(v, f) = b[f]
  BY <1>7 DEF Body, Tag, Obj, Field
<1>9. Field(v, "kind") = Str(kind)
  BY <1>4, <1>7, <1>8
<1>10. Has(v, "endpoints") => DOMAIN Body(Field(v, "endpoints")) = {1}
  BY <1>5, <1>6, <1>7, <1>8 DEF Has
<1>11. v # Null
  BY <1>8 DEF Tag, Null
<1>12. QED
  BY <1>9, <1>10, <1>11

\* What a caller may set a field to is a value of its type.
LEMMA SettableIsTyped ==
  ASSUME NEW rule \in Plains \cup {TextList}, NEW x \in Settable(rule)
  PROVE  IF rule = TextList THEN TypedList(x, rule) ELSE TypedPlain(x, rule)
<1>1. \/ x \in Values /\ Fits(x, rule) /\ x = Typed(x, rule)
      \/ x = NaN /\ rule = Clock
  BY DEF Settable
<1>2. /\ TextList \notin Plains /\ TextList.type = {"array"} /\ TextList # EndpointList
      /\ Clock.type = {"number"}
  BY ListRules DEF Clock, Of
<1>3. CASE rule = TextList
  <2>1. x \in Values /\ Tag(x) = "array"
    BY <1>1, <1>2, <1>3 DEF Fits
  <2>2. IsMap(Body(x)) /\ x = Arr(Body(x))
    BY <2>1, TriedAreJson
  <2>3. QED
    BY <1>2, <1>3, <2>2 DEF TypedList
<1>4. ASSUME rule \in Plains PROVE TypedPlain(x, rule)
  <2>0. IsCount(rule) \/ rule = Clock \/ IsWord(rule)
    BY <1>4, PlainRules
  <2>1. CASE IsCount(rule)
    <3>1. rule.type = {"integer"} /\ rule # Clock
      BY <1>2, <2>1 DEF IsCount
    <3>2. x \in Values /\ Tag(x) = "integer" /\ I64Min <= Body(x) /\ Body(x) <= I64
      BY <1>1, <3>1 DEF Fits
    <3>3. x = Integer(Body(x)) /\ Body(x) \in Int
      BY <3>2, TriedAreJson DEF JsonField, JsonNumber
    <3>4. QED
      BY <3>1, <3>2, <3>3 DEF TypedPlain
  <2>2. CASE rule = Clock
    <3>1. CASE x = NaN
      BY <1>2, <2>2, <3>1 DEF TypedPlain
    <3>2. CASE x # NaN
      <4>1. x \in Values /\ IsNumber(x) /\ x = Float(as_f64(x))
        BY <1>1, <1>2, <2>2, <3>2 DEF Fits, Typed
      <4>2. as_f64(x) \in Int /\ IsDouble(as_f64(x))
        <5>1. JsonNumber(x)
          BY <4>1, TriedAreJson DEF JsonField
        <5>2. QED
          BY <4>1, <5>1, ReadAsDouble
      <4>3. QED
        BY <1>2, <2>2, <4>1, <4>2 DEF TypedPlain
    <3>3. QED
      BY <3>1, <3>2
  <2>3. CASE IsWord(rule)
    <3>1. rule.type # {"integer"} /\ rule.type # {"number"}
      BY <2>3 DEF IsWord
    <3>2. QED
      BY <1>1, <1>2, <3>1 DEF Fits, TypedPlain
  <2>4. QED
    BY <2>0, <2>1, <2>2, <2>3
<1>5. QED
  BY <1>2, <1>3, <1>4

\* Of an edited record, a field or an extension is as it was, or is one tried.
Changed(s, t, def) ==
  /\ \A f \in DOMAIN t.fields :
       \/ f \in DOMAIN s.fields /\ t.fields[f] = s.fields[f]
       \/ def.properties[f] # EndpointList /\ t.fields[f] \in Values \cup {NaN}
  /\ \A f \in DOMAIN t.extensions :
       \/ f \in DOMAIN s.extensions /\ t.extensions[f] = s.extensions[f]
       \/ t.extensions[f] \in {Null, Str("a"), Integer(1)}

\* An edit of a record, or of a structure in one, is one too, of the same kind.
LEMMA EditsAreTyped ==
  ASSUME NEW def, Structured(def, Plains \cup {TextList, EndpointList}),
         \A f \in DOMAIN def.properties : IsNested(def, f) <=> def.properties[f] = EndpointList,
         NEW s, TypedRecord(s, def), NEW t \in EditsOf(s, def)
  PROVE  /\ TypedRecord(t, def)
         /\ "kind" \in DOMAIN s.fields /\ "kind" \in def.required =>
              "kind" \in DOMAIN t.fields /\ t.fields["kind"] = s.fields["kind"]
         /\ Changed(s, t, def)
<1> DEFINE P == def.properties
           editable == {f \in DOMAIN P : f # "kind" /\ ~IsNested(def, f)}
           Less == {[s EXCEPT !.fields = Restrict(s.fields, DOMAIN s.fields \ {f})] :
                      f \in editable \ def.required}
           More == {[s EXCEPT !.extensions = Maplet(f, x) ++ s.extensions] :
                      f \in DOMAIN P \cup {"note"}, x \in {Null, Str("a"), Integer(1)}}
           Put(f) == {[s EXCEPT !.fields = Maplet(f, x) ++ s.fields] : x \in Settable(P[f])}
           Puts == {Put(f) : f \in editable}
<1>1. EditsOf(s, def) = Less \cup More \cup UNION Puts
  BY DEF EditsOf
<1>2. /\ s = [fields |-> s.fields, extensions |-> s.extensions]
      /\ IsMap(s.fields) /\ IsMap(s.extensions)
      /\ DOMAIN s.fields \subseteq DOMAIN P
  BY DEF TypedRecord
<1>3. \A f \in DOMAIN s.fields :
        IF P[f] \in {TextList, EndpointList} THEN TypedList(s.fields[f], P[f])
        ELSE TypedPlain(s.fields[f], P[f])
  BY Zenon DEF TypedRecord
<1>4. ASSUME NEW f \in editable, NEW x \in Settable(P[f]),
             t = [s EXCEPT !.fields = Maplet(f, x) ++ s.fields]
      PROVE  TypedRecord(t, def)
             /\ ("kind" \in DOMAIN s.fields =>
                   "kind" \in DOMAIN t.fields /\ t.fields["kind"] = s.fields["kind"])
             /\ Changed(s, t, def)
  <2> DEFINE g == Maplet(f, x) ++ s.fields
  <2>1. P[f] \in Plains \cup {TextList}
    BY DEF Structured
  <2>2. /\ IF P[f] = TextList THEN TypedList(x, P[f]) ELSE TypedPlain(x, P[f])
        /\ x \in Values \cup {NaN}
    BY <2>1, SettableIsTyped DEF Settable
  <2>3. P[f] # EndpointList
    BY DEF Structured
  <2>4. /\ IsMap(g) /\ DOMAIN g = DOMAIN s.fields \cup {f} /\ g[f] = x
        /\ \A h \in DOMAIN s.fields \ {f} : g[h] = s.fields[h]
    BY DEF IsMap, Maplet, ++
  <2> HIDE DEF g
  <2>5. t = [fields |-> g, extensions |-> s.extensions]
    BY <1>2, <1>4 DEF g
  <2>6. \A h \in DOMAIN g : IF P[h] \in {TextList, EndpointList} THEN TypedList(g[h], P[h])
                            ELSE TypedPlain(g[h], P[h])
    BY <1>3, <2>2, <2>3, <2>4
  <2>7. DOMAIN g \subseteq DOMAIN P
    BY <1>2, <2>4
  <2>8. t.fields = g /\ t.extensions = s.extensions
    BY <2>5
  <2>9. TypedRecord(t, def)
    BY <1>2, <2>4, <2>5, <2>6, <2>7, <2>8, Zenon DEF TypedRecord
  <2>10. Changed(s, t, def)
    BY <2>2, <2>3, <2>4, <2>8 DEF Changed
  <2>11. QED
    BY <2>4, <2>8, <2>9, <2>10
<1>5. ASSUME NEW f \in editable \ def.required,
             t = [s EXCEPT !.fields = Restrict(s.fields, DOMAIN s.fields \ {f})]
      PROVE  TypedRecord(t, def)
             /\ ("kind" \in DOMAIN s.fields =>
                   "kind" \in DOMAIN t.fields /\ t.fields["kind"] = s.fields["kind"])
             /\ Changed(s, t, def)
  <2> DEFINE g == Restrict(s.fields, DOMAIN s.fields \ {f})
  <2>1. /\ IsMap(g) /\ DOMAIN g = DOMAIN s.fields \ {f}
        /\ \A h \in DOMAIN g : g[h] = s.fields[h]
    BY DEF IsMap, Restrict
  <2> HIDE DEF g
  <2>2. t = [fields |-> g, extensions |-> s.extensions]
    BY <1>2, <1>5 DEF g
  <2>3. \A h \in DOMAIN g : IF P[h] \in {TextList, EndpointList} THEN TypedList(g[h], P[h])
                            ELSE TypedPlain(g[h], P[h])
    BY <1>3, <2>1
  <2>4. DOMAIN g \subseteq DOMAIN P
    BY <1>2, <2>1
  <2>5. t.fields = g /\ t.extensions = s.extensions
    BY <2>2
  <2>6. TypedRecord(t, def)
    BY <1>2, <2>1, <2>2, <2>3, <2>4, <2>5, Zenon DEF TypedRecord
  <2>7. Changed(s, t, def)
    BY <2>1, <2>5 DEF Changed
  <2>8. QED
    BY <2>1, <2>5, <2>6, <2>7
<1>6. ASSUME NEW f, NEW x \in {Null, Str("a"), Integer(1)},
             t = [s EXCEPT !.extensions = Maplet(f, x) ++ s.extensions]
      PROVE  TypedRecord(t, def) /\ t.fields = s.fields /\ Changed(s, t, def)
  <2> DEFINE g == Maplet(f, x) ++ s.extensions
  <2>1. /\ IsMap(g) /\ DOMAIN g = DOMAIN s.extensions \cup {f} /\ g[f] = x
        /\ \A h \in DOMAIN s.extensions \ {f} : g[h] = s.extensions[h]
    BY DEF IsMap, Maplet, ++
  <2> HIDE DEF g
  <2>2. t = [fields |-> s.fields, extensions |-> g]
    BY <1>2, <1>6 DEF g
  <2>3. t.fields = s.fields /\ t.extensions = g
    BY <2>2
  <2>4. TypedRecord(t, def)
    BY <1>2, <1>3, <2>1, <2>2, <2>3, Zenon DEF TypedRecord
  <2>5. Changed(s, t, def)
    BY <2>1, <2>3 DEF Changed
  <2>6. QED
    BY <2>3, <2>4, <2>5
<1>7. CASE t \in Less
  BY <1>5, <1>7
<1>8. CASE t \in More
  <2>1. PICK f \in DOMAIN P \cup {"note"}, x \in {Null, Str("a"), Integer(1)} :
          t = [s EXCEPT !.extensions = Maplet(f, x) ++ s.extensions]
    BY <1>8
  <2>2. TypedRecord(t, def) /\ t.fields = s.fields /\ Changed(s, t, def)
    BY <1>6, <2>1, Zenon
  <2>3. QED
    BY <2>2
<1>9. CASE t \in UNION Puts
  <2>1. PICK f \in editable : t \in Put(f)
    BY <1>9
  <2>2. QED
    BY <1>4, <2>1
<1>10. QED
  <2> HIDE DEF Less, More, Puts
  <2>1. t \in Less \/ t \in More \/ t \in UNION Puts
    BY <1>1
  <2>2. QED
    BY <1>7, <1>8, <1>9, <2>1

\* A structure of a list is typed as a record is.
LEMMA PartIsRecord ==
  ASSUME NEW s
  PROVE  TypedPart(s, Defs["Endpoint"]) <=> TypedRecord(s, Defs["Endpoint"])
<1>1. \A f \in DOMAIN Defs["Endpoint"].properties :
        Defs["Endpoint"].properties[f] \notin {TextList, EndpointList}
  BY EndpointSchema, ListRules DEF Structured
<1>2. QED
  BY <1>1, Zenon DEF TypedPart, TypedRecord

\* What its type does not tell of a typed record: what is JSON beside its fields,
\* and in its lists.
ItemsAreJson(y, rule) ==
  /\ rule = TextList => JsonField(y)
  /\ rule = EndpointList =>
       \A i \in DOMAIN Body(y) :
         \A g \in DOMAIN Body(y)[i].extensions : JsonNumber(Body(y)[i].extensions[g])

InJson(s, def) ==
  /\ \A f \in DOMAIN s.extensions : JsonField(s.extensions[f])
  /\ \A f \in DOMAIN s.fields : ItemsAreJson(s.fields[f], def.properties[f])

\* An edit puts JSON in a record.
LEMMA ChangedIsJson ==
  ASSUME NEW s, NEW t, NEW def, Changed(s, t, def)
  PROVE  /\ InJson(s, def) => InJson(t, def)
         /\ StringsAreStr(s.extensions) => StringsAreStr(t.extensions)
         /\ (\A g \in DOMAIN s.extensions : JsonNumber(s.extensions[g])) =>
              \A g \in DOMAIN t.extensions : JsonNumber(t.extensions[g])
<1>1. \A x \in {Null, Str("a"), Integer(1)} : JsonField(x) /\ JsonNumber(x) /\ StringIsStr(x)
  BY WidthAssumption DEF JsonField, JsonNumber, StringIsStr, Null, Str, Integer, Tag, Body,
                         I64Min, U64
<1>2. \A x \in Values \cup {NaN} : JsonField(x)
  <2>1. JsonField(NaN)
    BY DEF JsonField, JsonNumber, NaN, Tag
  <2>2. QED
    BY <2>1, TriedAreJson
<1>3. InJson(s, def) => InJson(t, def)
  <2> SUFFICES ASSUME InJson(s, def) PROVE InJson(t, def)
    OBVIOUS
  <2>1. \A f \in DOMAIN t.extensions : JsonField(t.extensions[f])
    BY <1>1 DEF Changed, InJson
  <2>2. \A f \in DOMAIN t.fields : ItemsAreJson(t.fields[f], def.properties[f])
    <3> TAKE f \in DOMAIN t.fields
    <3>1. CASE f \in DOMAIN s.fields /\ t.fields[f] = s.fields[f]
      BY <3>1 DEF InJson
    <3>2. CASE def.properties[f] # EndpointList /\ t.fields[f] \in Values \cup {NaN}
      BY <1>2, <3>2 DEF ItemsAreJson
    <3>3. QED
      BY <3>1, <3>2 DEF Changed
  <2>3. QED
    BY <2>1, <2>2 DEF InJson
<1>4. QED
  BY <1>1, <1>3 DEF Changed, StringsAreStr

\* What decoding makes is.
LEMMA MadeIsJson ==
  ASSUME NEW v, Json(v), NEW kind \in RECORD_KINDS, check(v, Defs[kind]), NEW s,
         MadeFrom(s, v, Defs[kind], MadeField)
  PROVE  InJson(s, Defs[kind])
<1> DEFINE P == Defs[kind].properties
<1>1. \A f \in DOMAIN s.extensions : JsonField(s.extensions[f])
  BY DEF MadeFrom, Json
<1>2. ASSUME NEW f \in DOMAIN s.fields PROVE ItemsAreJson(s.fields[f], P[f])
  <2> DEFINE x == Field(v, f)
  <2>1. f \in DOMAIN P /\ f \in DOMAIN Body(v) /\ s.fields[f] = MadeField(x, P[f])
    BY DEF MadeFrom
  <2>2. JsonField(x) /\ check4(x, P[f])
    BY <2>1, RecordCheck DEF Json
  <2> HIDE DEF x
  <2>3. CASE P[f] = TextList
    <3> DEFINE items == [i \in DOMAIN Body(x) |-> Body(x)[i]]
    <3>1. Tag(x) = "array"
      BY <2>2, <2>3, ListCheck
    <3>2. normal4(x, TextList)
            = Arr([i \in DOMAIN Body(x) |-> normal3(Body(x)[i], TextList.items)])
      BY <3>1, ListNormal
    <3>3. TextList # EndpointList /\ TextList.type = {"array"}
      BY ListRules
    <3>4. \A i \in DOMAIN Body(x) : normal3(Body(x)[i], TextList.items) = Body(x)[i]
      BY <3>1, ListNormal
    <3>5. normal4(x, TextList) = Arr(items)
      BY <3>2, <3>4
    <3>6. \A i \in DOMAIN items : JsonPart(items[i])
      BY <2>2, <3>1 DEF JsonField
    <3> HIDE DEF items
    <3>7. {"array"} # {"number"}
      OBVIOUS
    <3>8. Typed(Arr(items), TextList) = Arr(items)
      BY <3>3, <3>7, Zenon DEF Typed
    <3>9. s.fields[f] = Arr(items)
      <4>1. s.fields[f] = MadeField(x, TextList)
        BY <2>1, <2>3
      <4>2. QED
        BY <3>3, <3>5, <3>8, <4>1, Zenon DEF MadeField
    <3>10. JsonField(Arr(items))
      BY <3>6 DEF JsonField, JsonNumber, Tag, Body, Arr
    <3>11. QED
      BY <2>3, <3>3, <3>9, <3>10 DEF ItemsAreJson
  <2>4. CASE P[f] = EndpointList
    <3> DEFINE items == [i \in DOMAIN Body(x) |-> normal3(Body(x)[i], EndpointList.items)]
               parts == [i \in DOMAIN items |-> Inside(items[i], Defs["Endpoint"])]
    <3>1. Tag(x) = "array" /\ \A i \in DOMAIN Body(x) : check3(Body(x)[i], EndpointList.items)
      BY <2>2, <2>4, ListCheck
    <3>2. normal4(x, EndpointList) = Arr(items)
      BY <3>1, ListNormal
    <3>3. s.fields[f] = Arr(parts)
      <4>1. s.fields[f] = MadeField(x, EndpointList)
        BY <2>1, <2>4
      <4>2. Body(Arr(items)) = items
        BY DEF Body, Arr
      <4> HIDE DEF items
      <4>3. QED
        BY <3>2, <4>1, <4>2, Zenon DEF MadeField
    <3>4. ASSUME NEW i \in DOMAIN parts, NEW g \in DOMAIN parts[i].extensions
          PROVE  JsonNumber(parts[i].extensions[g])
      <4>1. i \in DOMAIN Body(x) /\ parts[i] = Inside(normal3(Body(x)[i], EndpointList.items),
                                                    Defs["Endpoint"])
        OBVIOUS
      <4>2. JsonPart(Body(x)[i]) /\ check3(Body(x)[i], EndpointList.items)
        BY <2>2, <3>1, <4>1 DEF JsonField
      <4>3. MadeFrom(parts[i], Body(x)[i], Defs["Endpoint"], MadePlain)
        BY <4>1, <4>2, PartDecodes
      <4>4. Tag(Body(x)[i]) = "object"
        BY <4>2, PartCheck
      <4> HIDE DEF parts
      <4>5. QED
        BY <4>2, <4>3, <4>4 DEF MadeFrom, JsonPart
    <3> HIDE DEF parts
    <3>5. Body(s.fields[f]) = parts
      BY <3>3 DEF Body, Arr
    <3>6. TextList # EndpointList
      BY ListRules DEF TextList
    <3>7. QED
      BY <2>4, <3>4, <3>5, <3>6 DEF ItemsAreJson
  <2>5. QED
    BY <2>3, <2>4 DEF ItemsAreJson
<1>3. QED
  BY <1>1, <1>2 DEF InJson

\* And what is written of one that is, is JSON.
LEMMA WrittenIsJson ==
  ASSUME NEW kind \in RECORD_KINDS, NEW s, TypedRecord(s, Defs[kind]),
         InJson(s, Defs[kind]), ~Collides(s, Defs[kind])
  PROVE  Json(Written(s, Defs[kind]))
<1> DEFINE def == Defs[kind]
           P == def.properties
           w == Written(s, def)
<1>1. DOMAIN s.fields \subseteq DOMAIN P /\ DOMAIN s.fields \cap DOMAIN s.extensions = {}
  BY DEF TypedRecord, Collides, Reserved, check_extensions
<1>2. /\ DOMAIN Body(w) = DOMAIN s.fields \cup DOMAIN s.extensions
      /\ \A f \in DOMAIN s.extensions : Field(w, f) = s.extensions[f]
      /\ \A f \in DOMAIN s.fields :
           /\ s.fields[f] # NaN => Field(w, f) = ShownField(s.fields[f], P[f])
           /\ s.fields[f] = NaN /\ P[f] # EndpointList => Field(w, f) = Null
  BY <1>1, WrittenRecordFields
<1> HIDE DEF w
<1>3. ASSUME NEW f \in DOMAIN s.fields PROVE JsonField(Field(w, f))
  <2> DEFINE y == s.fields[f]
  <2>1. /\ P[f] \in Plains \cup {TextList, EndpointList}
        /\ IF P[f] \in {TextList, EndpointList} THEN TypedList(y, P[f]) ELSE TypedPlain(y, P[f])
        /\ ItemsAreJson(y, P[f])
    BY <1>1, Schema, Zenon DEF Structured, TypedRecord, InJson
  <2>2. TextList # EndpointList /\ TextList \notin Plains /\ EndpointList \notin Plains
        /\ TextList.type = {"array"}
    BY ListRules DEF TextList
  <2>3. JsonField(Null)
    BY DEF JsonField, JsonNumber, Null, Tag
  <2>4. CASE P[f] \in Plains
    <3>1. TypedPlain(y, P[f]) /\ P[f] # EndpointList
      BY <2>1, <2>2, <2>4
    <3>2. JsonNumber(y)
      BY <2>4, <3>1, TypedIsJson
    <3>3. Tag(y) # "array"
      <4>1. IsCount(P[f]) \/ P[f] = Clock \/ IsWord(P[f])
        BY <2>4, PlainRules
      <4>2. CASE IsCount(P[f])
        BY <3>1, <4>2 DEF IsCount, TypedPlain, Tag, Integer
      <4>3. CASE P[f] = Clock
        BY <3>1, <4>3 DEF Clock, Of, TypedPlain, Tag, Float, NaN
      <4>4. CASE IsWord(P[f])
        BY <3>1, <4>4 DEF IsWord, TypedPlain
      <4>5. QED
        BY <4>1, <4>2, <4>3, <4>4
    <3>4. JsonField(y)
      BY <3>2, <3>3 DEF JsonField
    <3>5. QED
      BY <1>2, <2>3, <3>1, <3>4 DEF ShownField
  <2>5. CASE P[f] = TextList
    BY <1>2, <2>1, <2>2, <2>3, <2>5 DEF ShownField, ItemsAreJson
  <2>6. CASE P[f] = EndpointList
    <3>1. PICK items : /\ IsMap(items) /\ y = Arr(items)
                       /\ \A i \in DOMAIN items : TypedPart(items[i], Defs["Endpoint"])
      BY <2>1, <2>6 DEF TypedList
    <3>2. Body(y) = items /\ y # NaN
      BY <3>1 DEF Body, Arr, NaN
    <3> DEFINE list == [i \in DOMAIN items |-> WrittenPart(items[i], Defs["Endpoint"])]
    <3>3. Field(w, f) = Arr(list)
      BY <1>2, <2>6, <3>2 DEF ShownField
    <3>4. ASSUME NEW i \in DOMAIN items PROVE JsonPart(list[i])
      <4> DEFINE part == items[i]
                 u == WrittenPart(part, Defs["Endpoint"])
      <4>1. ~Reserved(part, Defs["Endpoint"])
        BY <1>1, <2>6, <3>2, NestedFields DEF Collides
      <4>2. /\ DOMAIN part.fields \subseteq DOMAIN Defs["Endpoint"].properties
            /\ \A g \in DOMAIN part.fields :
                 TypedPlain(part.fields[g], Defs["Endpoint"].properties[g])
        BY <3>1 DEF TypedPart
      <4>3. DOMAIN part.fields \cap DOMAIN part.extensions = {}
        BY <4>1, <4>2 DEF Reserved, check_extensions
      <4> HIDE DEF part
      <4>4. /\ DOMAIN Body(u) = DOMAIN part.fields \cup DOMAIN part.extensions
            /\ \A g \in DOMAIN part.extensions : Field(u, g) = part.extensions[g]
            /\ \A g \in DOMAIN part.fields :
                 Field(u, g) = IF part.fields[g] = NaN THEN Null ELSE part.fields[g]
        BY <4>2, <4>3, WrittenPartFields
      <4>5. \A g \in DOMAIN part.extensions : JsonNumber(part.extensions[g])
        BY <2>1, <2>6, <3>2 DEF ItemsAreJson, part
      <4>6. ASSUME NEW g \in DOMAIN part.fields PROVE JsonNumber(part.fields[g])
        <5>1. Defs["Endpoint"].properties[g] \in Plains
          BY <4>2, EndpointSchema DEF Structured
        <5>2. QED
          BY <4>2, <5>1, TypedIsJson
      <4>7. JsonNumber(Null)
        BY <2>3 DEF JsonField
      <4> HIDE DEF u
      <4>8. JsonPart(u)
        BY <4>4, <4>5, <4>6, <4>7 DEF JsonPart
      <4>9. QED
        BY <4>8 DEF u, part
    <3>5. DOMAIN list = DOMAIN items
      OBVIOUS
    <3> HIDE DEF list
    <3>6. QED
      BY <3>3, <3>4, <3>5 DEF JsonField, JsonNumber, Tag, Body, Arr
  <2>7. QED
    BY <2>1, <2>4, <2>5, <2>6
<1>4. ASSUME NEW f \in DOMAIN s.extensions PROVE JsonField(Field(w, f))
  BY <1>2 DEF InJson
<1>5. QED
  BY <1>2, <1>3, <1>4 DEF Json, w

\* A typed record with an edited structure is typed.
LEMMA PartEditsAreTyped ==
  ASSUME NEW kind \in RECORD_KINDS, NEW s, TypedRecord(s, Defs[kind]),
         "endpoints" \in DOMAIN s.fields, DOMAIN Body(s.fields["endpoints"]) = {1},
         NEW t \in EndpointEdits(s)
  PROVE  /\ TypedRecord(t, Defs[kind])
         /\ "kind" \in DOMAIN s.fields =>
              "kind" \in DOMAIN t.fields /\ t.fields["kind"] = s.fields["kind"]
         /\ t.extensions = s.extensions
         /\ InJson(s, Defs[kind]) => InJson(t, Defs[kind])
<1> DEFINE P == Defs[kind].properties
           E == Defs["Endpoint"]
           part == Body(s.fields["endpoints"])[1]
<1>1. /\ s = [fields |-> s.fields, extensions |-> s.extensions]
      /\ IsMap(s.fields) /\ IsMap(s.extensions)
      /\ DOMAIN s.fields \subseteq DOMAIN P
  BY DEF TypedRecord
<1>2. \A f \in DOMAIN s.fields :
        IF P[f] \in {TextList, EndpointList} THEN TypedList(s.fields[f], P[f])
        ELSE TypedPlain(s.fields[f], P[f])
  BY Zenon DEF TypedRecord
<1>3. P["endpoints"] = EndpointList
  BY <1>1, EndpointsField
<1>4. TypedRecord(part, E)
  <2>1. PICK items : /\ s.fields["endpoints"] = Arr(items)
                     /\ \A i \in DOMAIN items : TypedPart(items[i], E)
    BY <1>2, <1>3 DEF TypedList
  <2>2. Body(s.fields["endpoints"]) = items
    BY <2>1 DEF Body, Arr
  <2>3. QED
    BY <2>1, <2>2, PartIsRecord
<1>5. PICK other \in EditsOf(part, E) : t = [s EXCEPT !.fields["endpoints"] = Arr(<<other>>)]
  BY DEF EndpointEdits
<1>6. TypedPart(other, E) /\ Changed(part, other, E)
  <2>1. Structured(E, Plains \cup {TextList, EndpointList})
    BY EndpointSchema DEF Structured
  <2>2. \A f \in DOMAIN E.properties : E.properties[f] \in Plains
    BY EndpointSchema DEF Structured
  <2>3. \A f \in DOMAIN E.properties : IsNested(E, f) <=> E.properties[f] = EndpointList
    BY <2>2, PlainRules, ListRules DEF IsNested
  <2> HIDE DEF E, part
  <2>4. TypedRecord(other, E) /\ Changed(part, other, E)
    BY <1>4, <2>1, <2>3, EditsAreTyped
  <2>5. QED
    BY <2>4, PartIsRecord DEF E
<1>7. TypedList(Arr(<<other>>), EndpointList)
  <2> DEFINE items == <<other>>
  <2>1. IsMap(items) /\ DOMAIN items = {1} /\ items[1] = other
    BY DEF IsMap
  <2> HIDE DEF items
  <2>2. TypedList(Arr(items), EndpointList)
    BY <1>6, <2>1 DEF TypedList
  <2>3. QED
    BY <2>2 DEF items
<1> DEFINE g == [s.fields EXCEPT !["endpoints"] = Arr(<<other>>)]
<1>8. /\ IsMap(g) /\ DOMAIN g = DOMAIN s.fields /\ g["endpoints"] = Arr(<<other>>)
      /\ \A f \in DOMAIN s.fields \ {"endpoints"} : g[f] = s.fields[f]
  BY DEF IsMap
<1>9. t = [fields |-> g, extensions |-> s.extensions]
  BY <1>1, <1>5
<1> HIDE DEF g
<1>10. t.fields = g /\ t.extensions = s.extensions
  BY <1>9
<1>11. \A f \in DOMAIN g : IF P[f] \in {TextList, EndpointList} THEN TypedList(g[f], P[f])
                            ELSE TypedPlain(g[f], P[f])
  BY <1>2, <1>3, <1>7, <1>8
<1>12. TypedRecord(t, Defs[kind])
  BY <1>1, <1>8, <1>9, <1>10, <1>11, Zenon DEF TypedRecord
<1>13. ASSUME InJson(s, Defs[kind]) PROVE InJson(t, Defs[kind])
  <2> DEFINE items == <<other>>
  <2>1. DOMAIN items = {1} /\ items[1] = other
    OBVIOUS
  <2> HIDE DEF items
  <2>2. Body(Arr(items)) = items
    BY DEF Body, Arr
  <2>3. ItemsAreJson(s.fields["endpoints"], EndpointList)
    BY <1>1, <1>3, <1>13 DEF InJson
  <2>4. \A h \in DOMAIN part.extensions : JsonNumber(part.extensions[h])
    BY <2>3 DEF ItemsAreJson
  <2> HIDE DEF part, E
  <2>5. \A h \in DOMAIN other.extensions : JsonNumber(other.extensions[h])
    BY <1>6, <2>4, ChangedIsJson
  <2>6. TextList # EndpointList
    BY ListRules DEF TextList
  <2>7. ItemsAreJson(Arr(items), EndpointList)
    BY <2>1, <2>2, <2>5, <2>6 DEF ItemsAreJson
  <2>8. \A f \in DOMAIN t.fields : ItemsAreJson(t.fields[f], P[f])
    BY <1>3, <1>8, <1>10, <1>13, <2>7 DEF InJson, items
  <2>9. QED
    BY <1>10, <1>13, <2>8 DEF InJson
<1>14. QED
  BY <1>8, <1>10, <1>12, <1>13

\* A typed record of a kind, its discriminator with it.
Holds(s, kind) ==
  /\ TypedRecord(s, Defs[kind]) /\ "kind" \in DOMAIN s.fields /\ s.fields["kind"] = Str(kind)
  /\ StringsAreStr(s.extensions) /\ InJson(s, Defs[kind])

(***************************************************************************)
(* The invariant of the program: what is accepted was decoded, what was    *)
(* written reads back, nothing is lost between the two nor in a row, and   *)
(* what may yet be edited or written is a typed record of a known kind.    *)
(***************************************************************************)
ProgramInv ==
  /\ AcceptedRecordsDecode
  /\ EditsAreCaught
  /\ DecodeKeepsTheRecord
  /\ TwinKeepsTheRecord
  /\ (document = Null \/ document \in WellFormed) /\ draft # NoRecord =>
       \E kind \in RECORD_KINDS : Holds(draft, kind)

\* Reading a document gives the invariant.
LEMMA ReadStep == Read => ProgramInv'
<1> SUFFICES ASSUME Read PROVE ProgramInv'
  OBVIOUS
<1>1. /\ document' \in Candidates \cup WellFormed /\ draft' = decode(document')
      /\ Json(document') /\ Tag(document') = "object" /\ StringsAreStr(Body(document'))
  BY DocumentsAreJson DEF Read
<1>2. (AcceptedRecordsDecode /\ EditsAreCaught)'
  BY <1>1, ValidRecordsDecode DEF AcceptedRecordsDecode, EditsAreCaught, Matched
<1>3. document' # Null /\ DecodeKeepsTheRecord'
  <2>1. document' # Null
    BY <1>1 DEF Tag, Null
  <2>2. ASSUME draft' # NoRecord PROVE Said(to_value(draft')) = Said(Held(document'))
    <3>1. validate_record(document')
      BY <1>1, <2>2 DEF decode
    <3>2. QED
      BY <1>1, <3>1, DecodedIsKept
  <2>3. QED
    BY <2>1, <2>2 DEF DecodeKeepsTheRecord, Matched
<1>4. ASSUME document' \in WellFormed, draft' # NoRecord
      PROVE  \E kind \in RECORD_KINDS : Holds(draft', kind)
  <2>1. PICK kind \in RECORD_KINDS : Field(document', "kind") = Str(kind)
    BY <1>4, WellFormedKind
  <2>2. Body(Field(document', "kind")) = kind
    BY <2>1 DEF Body, Str
  <2>3. validate_record(document')
    BY <1>1, <1>4 DEF decode
  <2>4. check(document', Defs[kind])
    BY <2>2, <2>3, ValidKind
  <2>5. draft' = Structure(normalize_integers(document', Defs[kind]), Defs[kind])
    BY <1>1, <2>2, <2>3 DEF decode
  <2>6. MadeFrom(draft', document', Defs[kind], MadeField)
    BY <1>1, <2>1, <2>4, <2>5, KnownDecodes
  <2>7. StringsAreStr(draft'.extensions)
    BY <1>1, <2>6 DEF MadeFrom, StringsAreStr, Field
  <2>8. InJson(draft', Defs[kind])
    BY <1>1, <2>4, <2>6, MadeIsJson
  <2>9. QED
    BY <1>1, <2>1, <2>4, <2>5, <2>7, <2>8, KnownDecodes DEF Holds
<1>5. TwinKeepsTheRecord'
  <2> SUFFICES ASSUME Columnar(document')
               PROVE  TwinKeepsTheRecord'
    BY DEF TwinKeepsTheRecord
  <2>1. \A f \in DOMAIN Body(document') \ Columns : StringIsStr(Field(document', f))
    BY <1>1 DEF StringsAreStr, Field
  <2>2. QED
    BY <1>1, <2>1, RowsKeepTheRecord DEF TwinKeepsTheRecord
<1>6. QED
  BY <1>2, <1>3, <1>4, <1>5 DEF ProgramInv

\* An edit keeps it.
LEMMA EditStep == ProgramInv /\ Edit => ProgramInv'
<1> SUFFICES ASSUME ProgramInv, Edit PROVE ProgramInv'
  OBVIOUS
<1>1. /\ document \in WellFormed /\ draft # NoRecord /\ draft' \in Edits(draft)
      /\ document' = Null
  BY DEF Edit
<1>2. PICK kind \in RECORD_KINDS : Holds(draft, kind)
  BY <1>1 DEF ProgramInv
<1>3. Body(draft.fields.kind) = kind
  BY <1>2 DEF Holds, Body, Str
<1>4. \/ draft' \in EditsOf(draft, Defs[kind])
      \/ "endpoints" \in DOMAIN draft.fields /\ draft' \in EndpointEdits(draft)
  <2> DEFINE more == IF "endpoints" \in DOMAIN draft.fields THEN EndpointEdits(draft) ELSE {}
  <2>1. Edits(draft) = EditsOf(draft, Defs[kind]) \cup more
    BY <1>3, Zenon DEF Edits
  <2>2. draft' \in more =>
          "endpoints" \in DOMAIN draft.fields /\ draft' \in EndpointEdits(draft)
    OBVIOUS
  <2> HIDE DEF more
  <2>3. QED
    BY <1>1, <2>1, <2>2
<1>5. ASSUME draft' \in EditsOf(draft, Defs[kind])
      PROVE  \E k \in RECORD_KINDS : Holds(draft', k)
  <2>1. /\ Structured(Defs[kind], Plains \cup {TextList, EndpointList})
        /\ "kind" \in Defs[kind].required
    BY Schema
  <2>2. \A f \in DOMAIN Defs[kind].properties :
          IsNested(Defs[kind], f) <=> Defs[kind].properties[f] = EndpointList
    BY NestedFields
  <2>3. Holds(draft', kind)
    BY <1>2, <1>5, <2>1, <2>2, EditsAreTyped, ChangedIsJson DEF Holds
  <2>4. QED
    BY <2>3
<1>6. ASSUME "endpoints" \in DOMAIN draft.fields, draft' \in EndpointEdits(draft)
      PROVE  \E k \in RECORD_KINDS : Holds(draft', k)
  <2>1. Tag(document) = "object" /\ Json(document)
    BY <1>1, DocumentsAreJson
  <2>2. decode(document) = draft /\ validate_record(document)
    BY <1>1, <2>1 DEF ProgramInv, EditsAreCaught, Matched, decode
  <2>3. PICK k \in RECORD_KINDS :
          /\ Field(document, "kind") = Str(k)
          /\ Has(document, "endpoints") => DOMAIN Body(Field(document, "endpoints")) = {1}
    BY <1>1, WellFormedKind
  <2>4. Body(Field(document, "kind")) = k
    BY <2>3 DEF Body, Str
  <2>5. check(document, Defs[k])
    BY <2>2, <2>4, ValidKind
  <2>6. draft = Structure(normalize_integers(document, Defs[k]), Defs[k])
    BY <2>2, <2>4 DEF decode
  <2>7. /\ TypedRecord(draft, Defs[k])
        /\ draft.fields["kind"] = Str(k)
        /\ \A f \in DOMAIN draft.fields :
             /\ f \in DOMAIN Body(document)
             /\ Defs[k].properties[f] = EndpointList =>
                  DOMAIN Body(draft.fields[f]) = DOMAIN Body(Field(document, f))
    BY <2>1, <2>3, <2>5, <2>6, KnownDecodes
  <2>8. Defs[k].properties["endpoints"] = EndpointList
    BY <1>6, <2>7, EndpointsField DEF TypedRecord
  <2>9. DOMAIN Body(draft.fields["endpoints"]) = {1}
    BY <1>6, <2>3, <2>7, <2>8 DEF Has
  <2>10. Holds(draft', kind)
    BY <1>2, <1>6, <2>9, PartEditsAreTyped DEF Holds
  <2>11. QED
    BY <2>10
<1>7. \E k \in RECORD_KINDS : Holds(draft', k)
  BY <1>4, <1>5, <1>6
<1>8. Tag(document') = "null"
  BY <1>1 DEF Tag, Null
<1>9. (AcceptedRecordsDecode /\ EditsAreCaught /\ DecodeKeepsTheRecord
         /\ TwinKeepsTheRecord)'
  BY <1>8 DEF AcceptedRecordsDecode, EditsAreCaught, DecodeKeepsTheRecord, Matched,
              validate_record, TwinKeepsTheRecord, Columnar, validate_producer_record
<1>10. QED
  BY <1>7, <1>9 DEF ProgramInv

\* Writing keeps it.
LEMMA WriteStep == ProgramInv /\ Write => ProgramInv'
<1> SUFFICES ASSUME ProgramInv, Write PROVE ProgramInv'
  OBVIOUS
<1>1. document = Null /\ draft # NoRecord /\ document' = to_value(draft) /\ draft' = draft
  BY DEF Write
<1>2. PICK kind \in RECORD_KINDS : Holds(draft, kind)
  BY <1>1 DEF ProgramInv
<1>3. document' = Refused \/ decode(document') = draft
  BY <1>1, <1>2, WrittenIsReadBack DEF Holds
<1>4. Tag(Refused) = "refused"
  BY DEF Tag, Refused
<1> DEFINE w == Written(draft, Defs[kind])
<1>5. ASSUME document' # Refused
      PROVE  ~Collides(draft, Defs[kind]) /\ document' = w /\ validate_record(w) /\ Json(w)
  <2>1. ~IsUnknown(draft)
    <3>1. draft = [fields |-> draft.fields, extensions |-> draft.extensions]
      BY <1>2 DEF Holds, TypedRecord
    <3>2. DOMAIN draft = {"fields", "extensions"}
      BY <3>1
    <3>3. QED
      BY <3>2 DEF IsUnknown
  <2>2. Body(draft.fields.kind) = kind
    BY <1>2 DEF Holds, Body, Str
  <2>3. ~Collides(draft, Defs[kind]) /\ document' = w /\ validate_record(w)
    BY <1>1, <1>5, <2>1, <2>2, Zenon DEF to_value, Checked
  <2>4. QED
    BY <1>2, <2>3, WrittenIsJson DEF Holds
<1> HIDE DEF w
<1>6. (AcceptedRecordsDecode /\ EditsAreCaught)'
  BY <1>1, <1>3, <1>4 DEF AcceptedRecordsDecode, EditsAreCaught, Matched
<1>7. DecodeKeepsTheRecord'
  <2> SUFFICES ASSUME Tag(document') = "object"
               PROVE  Said(to_value(draft')) = Said(Held(document'))
    BY DEF DecodeKeepsTheRecord, Matched
  <2>1. document' # Refused
    BY <1>4
  <2>2. decode(document') = draft'
    BY <1>1, <1>3, <2>1
  <2>3. Json(document') /\ validate_record(document')
    BY <1>5, <2>1
  <2>4. Said(to_value(decode(document'))) = Said(Held(document'))
    BY <2>3, DecodedIsKept
  <2>5. QED
    BY <2>2, <2>4
<1>8. TwinKeepsTheRecord'
  <2> SUFFICES ASSUME Columnar(document')
               PROVE  TwinKeepsTheRecord'
    BY DEF TwinKeepsTheRecord
  <2>1. Tag(document') = "object"
    BY DEF Columnar, validate_producer_record, validate_record
  <2>2. document' # Refused
    BY <1>4, <2>1
  <2>3. ~Collides(draft, Defs[kind]) /\ document' = w /\ Json(w)
    BY <1>5, <2>2
  <2>4. DOMAIN draft.fields \subseteq DOMAIN Defs[kind].properties
    BY <1>2 DEF Holds, TypedRecord
  <2>5. DOMAIN draft.fields \cap DOMAIN draft.extensions = {}
    BY <2>3, <2>4 DEF Collides, Reserved, check_extensions
  <2>6. /\ DOMAIN Body(w) = DOMAIN draft.fields \cup DOMAIN draft.extensions
        /\ \A f \in DOMAIN draft.extensions : Field(w, f) = draft.extensions[f]
    BY <2>4, <2>5, WrittenRecordFields DEF w
  <2>7. DOMAIN draft.fields \subseteq Columns
    BY <2>4, KindColumns
  <2>8. \A f \in DOMAIN Body(document') \ Columns : StringIsStr(Field(document', f))
    BY <1>2, <2>3, <2>6, <2>7 DEF Holds, StringsAreStr
  <2>9. QED
    BY <2>3, <2>8, RowsKeepTheRecord DEF TwinKeepsTheRecord
<1>9. QED
  BY <1>1, <1>2, <1>6, <1>7, <1>8 DEF ProgramInv

\* So does every step of the program.
LEMMA UseStep == ProgramInv /\ Use => ProgramInv'
BY ReadStep, EditStep, WriteStep DEF Use
=============================================================================
