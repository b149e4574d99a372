--------------------------- MODULE TransductionProofs ---------------------------
(***************************************************************************)
(* Theorems about the engines, the producer, and the program that uses the *)
(* record model, for every number of messages, losses and processes.       *)
(***************************************************************************)
EXTENDS Transduction, WireModelProofs, WellFoundedInduction, FiniteSetTheorems, SequenceTheorems

-----------------------------------------------------------------------------
(***************************************************************************)
(* The record of a derived event.                                          *)
(***************************************************************************)
LEMMA UnionMap ==
  ASSUME NEW m, NEW n
  PROVE  /\ DOMAIN (m ++ n) = DOMAIN m \cup DOMAIN n
         /\ \A f \in DOMAIN m : (m ++ n)[f] = m[f]
         /\ \A f \in DOMAIN n : f \notin DOMAIN m => (m ++ n)[f] = n[f]
BY DEF ++

\* The map of no entry and that of one.
LEMMA SmallMaps ==
  /\ DOMAIN <<>> = {}
  /\ \A f, x : DOMAIN Maplet(f, x) = {f} /\ Maplet(f, x)[f] = x
BY DEF Maplet

\* A value that is read, by a rule, as another; one that is read as it is, and
\* also with its integer written as a float, and that its column holds.
Reads(y, x, rule) == check4(y, rule) /\ JsonField(y) /\ MadeField(y, rule) = x
KeptField(x, rule) ==
  /\ Reads(x, x, rule) /\ Reads(AsFloat(x), x, rule)
  /\ x # Null => FitsColumn(x, ColumnType(rule))

\* Fields that a definition with these rules has so.
FieldsMeet(m, P) ==
  \A f \in DOMAIN m : f \in DOMAIN P /\ KeptField(m[f], P[f])

\* The fields of a union meet what those of both do.
LEMMA UnionMeets ==
  ASSUME NEW P, NEW m, FieldsMeet(m, P), NEW n, FieldsMeet(n, P)
  PROVE  FieldsMeet(m ++ n, P)
<1> SUFFICES ASSUME NEW f \in DOMAIN (m ++ n)
             PROVE  f \in DOMAIN P /\ KeptField((m ++ n)[f], P[f])
  BY Zenon DEF FieldsMeet
<1>1. CASE f \in DOMAIN m
  <2>1. (m ++ n)[f] = m[f]
    BY <1>1 DEF ++
  <2>2. QED
    BY <1>1, <2>1, Zenon DEF FieldsMeet
<1>2. CASE f \in DOMAIN n /\ f \notin DOMAIN m
  <2>1. (m ++ n)[f] = n[f] /\ f \in DOMAIN n
    BY <1>2 DEF ++
  <2>2. QED
    BY <2>1, Zenon DEF FieldsMeet
<1>3. QED
  BY <1>1, <1>2, UnionMap

\* No field meets anything, and one field its own rule.
LEMMA SmallMeet ==
  ASSUME NEW P
  PROVE  /\ FieldsMeet(<<>>, P)
         /\ \A f, x : f \in DOMAIN P /\ KeptField(x, P[f]) =>
              FieldsMeet(Maplet(f, x), P)
<1>1. FieldsMeet(<<>>, P)
  BY SmallMaps DEF FieldsMeet
<1>2. ASSUME NEW f \in DOMAIN P, NEW x, KeptField(x, P[f])
      PROVE  FieldsMeet(Maplet(f, x), P)
  <2>1. DOMAIN Maplet(f, x) = {f} /\ Maplet(f, x)[f] = x
    BY SmallMaps
  <2>2. \A g \in DOMAIN Maplet(f, x) : g = f
    BY <2>1
  <2>3. QED
    BY <1>2, <2>1, <2>2, Zenon DEF FieldsMeet
<1>3. QED
  BY <1>1, <1>2, Zenon

\* The clocks that are exact, in whole milliseconds.
Moments == 0 .. Mantissa

\* A double holds them.
LEMMA MomentsAreDoubles == \A n \in Moments : IsDouble(2 * n)
<1> TAKE n \in Moments
<1>1. 2 \in Scales /\ Mantissa \in Nat
  BY ScaleAssumption, WidthAssumption
<1>2. n \in Int /\ 0 <= n /\ n <= Mantissa
  BY <1>1 DEF Moments
<1>3. (2 * n) % 2 = 0 /\ -2 * Mantissa <= 2 * n /\ 2 * n <= 2 * Mantissa
  BY <1>1, <1>2
<1>4. QED
  BY <1>1, <1>3 DEF IsDouble, Reaches

\* The values a record is made of, and the rules they meet.
LEMMA ValuesAllowed ==
  /\ \A s : check4(Str(s), Text) /\ check4(Str(s), Tier) /\ JsonField(Str(s))
  /\ \A n \in 0 .. I64 : check4(Integer(n), Counter) /\ JsonField(Integer(n))
  /\ \A n \in 0 .. U32 : check4(Integer(n), Ordinal) /\ JsonField(Integer(n))
  /\ \A h \in Int : IsDouble(h) => check4(Float(h), Clock) /\ JsonField(Float(h))
  /\ check4(Null, Tier) /\ JsonField(Null)
  /\ check4(Bool(TRUE), Of("boolean")) /\ JsonField(Bool(TRUE))
  /\ \A list : check4(Strings(list), TextList) /\ JsonField(Strings(list))
  /\ \A k \in RECORD_KINDS : check4(Str(k), Kind(k))
<1>0. /\ {Counter, Ordinal, Clock, Text, Tier, Of("boolean")} \subseteq Plains
      /\ \A k \in RECORD_KINDS : Kind(k) \in Plains
  BY DEF Plains
<1>1. \A s : /\ Tag(Str(s)) = "string" /\ Body(Str(s)) = s
             /\ ~IsNumber(Str(s)) /\ JsonField(Str(s))
  BY DEF Tag, Body, Str, IsNumber, JsonField, JsonNumber
<1>2. \A n \in 0 .. I64 : /\ Tag(Integer(n)) = "integer" /\ IsNumber(Integer(n))
                          /\ IsInteger(Integer(n)) /\ integer_value(Integer(n)) = n
                          /\ JsonField(Integer(n))
  <2> TAKE n \in 0 .. I64
  <2>1. (2 * n) \div 2 = n
    OBVIOUS
  <2>2. n \in Int /\ I64Min <= n /\ n <= U64
    BY WidthAssumption DEF I64Min, U64
  <2>3. Tag(Integer(n)) = "integer" /\ Body(Integer(n)) = n
    BY DEF Tag, Body, Integer
  <2>4. QED
    BY <2>1, <2>2, <2>3 DEF IsNumber, IsInteger, integer_value, Halves, JsonField, JsonNumber
<1>3. \A h \in Int : IsNumber(Float(h)) /\ (IsDouble(h) => JsonField(Float(h)))
  <2> TAKE h \in Int
  <2>1. Tag(Float(h)) = "float" /\ Body(Float(h)) = h
    BY DEF Tag, Body, Float
  <2>2. QED
    BY <2>1 DEF IsNumber, JsonField, JsonNumber
<1>4. Tag(Null) = "null" /\ ~IsNumber(Null) /\ JsonField(Null)
  BY DEF Tag, Body, Null, IsNumber, JsonField, JsonNumber
<1>5. Tag(Bool(TRUE)) = "boolean" /\ ~IsNumber(Bool(TRUE)) /\ JsonField(Bool(TRUE))
  <2>1. Tag(Bool(TRUE)) = "boolean"
    BY Zenon DEF Tag, Bool
  <2>2. QED
    BY <2>1 DEF IsNumber, JsonField, JsonNumber
<1>6. ASSUME NEW s PROVE check4(Str(s), Text) /\ check4(Str(s), Tier)
  <2>1. MeetsPlain(Str(s), Text)
    BY <1>1 DEF MeetsPlain, Text, Of, Uses, Accepts, InRange
  <2>2. MeetsPlain(Str(s), Tier)
    BY <1>1 DEF MeetsPlain, Tier, Uses, Accepts, InRange
  <2>3. QED
    BY <1>0, <2>1, <2>2, PlainCheck
<1>7. ASSUME NEW n \in 0 .. I64 PROVE check4(Integer(n), Counter)
  <2>1. MeetsPlain(Integer(n), Counter)
    BY <1>2, WidthAssumption DEF MeetsPlain, Counter, Uses, Accepts, InRange
  <2>2. QED
    BY <1>0, <2>1, PlainCheck
<1>8. ASSUME NEW n \in 0 .. U32 PROVE check4(Integer(n), Ordinal)
  <2>1. n \in 0 .. I64
    BY WidthAssumption
  <2>2. MeetsPlain(Integer(n), Ordinal)
    BY <1>2, <2>1, WidthAssumption DEF MeetsPlain, Ordinal, Uses, Accepts, InRange
  <2>3. QED
    BY <1>0, <2>2, PlainCheck
<1>9. ASSUME NEW h \in Int PROVE check4(Float(h), Clock)
  <2>1. MeetsPlain(Float(h), Clock)
    BY <1>3 DEF MeetsPlain, Clock, Of, Uses, Accepts, InRange
  <2>2. QED
    BY <1>0, <2>1, PlainCheck
<1>10. check4(Null, Tier)
  <2>1. MeetsPlain(Null, Tier)
    BY <1>4 DEF MeetsPlain, Tier, Uses, Accepts, InRange
  <2>2. QED
    BY <1>0, <2>1, PlainCheck
<1>11. check4(Bool(TRUE), Of("boolean"))
  <2>1. MeetsPlain(Bool(TRUE), Of("boolean"))
    BY <1>5 DEF MeetsPlain, Of, Uses, Accepts, InRange
  <2>2. QED
    BY <1>0, <2>1, PlainCheck
<1>12. ASSUME NEW list PROVE check4(Strings(list), TextList) /\ JsonField(Strings(list))
  <2> DEFINE x == Strings(list)
  <2>1. Tag(x) = "array" /\ Body(x) = [i \in DOMAIN list |-> Str(list[i])]
    BY DEF Strings, Tag, Body, Arr
  <2>2. \A i \in DOMAIN Body(x) : Body(x)[i] = Str(list[i])
    BY <2>1
  <2> HIDE DEF x
  <2>3. \A i \in DOMAIN Body(x) : check3(Body(x)[i], Text) /\ JsonPart(Body(x)[i])
    <3>1. \A s : check3(Str(s), Text)
      <4>1. /\ ~Uses(Text, "ref") /\ ~Uses(Text, "items") /\ ~Uses(Text, "properties")
            /\ ~Uses(Text, "allOf") /\ ~Uses(Text, "if") /\ ~Uses(Text, "not")
            /\ ~Uses(Text, "required") /\ Uses(Text, "type") /\ Text.type = {"string"}
            /\ ~Uses(Text, "const")
        BY DEF Text, Of, Uses
      <4>2. \A s : InRange(Str(s), Text) /\ Accepts("string", Str(s))
                  /\ Tag(Str(s)) # "object" /\ Tag(Str(s)) # "array"
        BY <1>1 DEF InRange, Accepts
      <4>3. QED
        BY <4>1, <4>2, Zenon DEF check3, Meets
    <3>2. \A s : JsonPart(Str(s))
      BY <1>1 DEF JsonPart
    <3>3. QED
      BY <2>2, <3>1, <3>2
  <2>4. JsonField(x)
    BY <2>1, <2>3 DEF JsonField, JsonNumber, IsNumber
  <2>5. check4(x, TextList)
    <3>1. /\ ~Uses(TextList, "ref") /\ ~Uses(TextList, "properties")
          /\ ~Uses(TextList, "const") /\ ~Uses(TextList, "allOf") /\ ~Uses(TextList, "if")
          /\ ~Uses(TextList, "not") /\ ~Uses(TextList, "required")
          /\ Uses(TextList, "type") /\ TextList.type = {"array"}
          /\ Uses(TextList, "items") /\ TextList.items = Text
      BY ListRules
    <3>2. InRange(x, TextList) /\ Accepts("array", x) /\ Tag(x) # "object"
      BY <2>1 DEF InRange, IsNumber, Accepts
    <3>3. QED
      BY <2>1, <2>3, <3>1, <3>2, Zenon DEF check4, Meets
  <2>6. QED
    BY <2>4, <2>5 DEF x
<1>13. ASSUME NEW k \in RECORD_KINDS PROVE check4(Str(k), Kind(k))
  <2>1. MeetsPlain(Str(k), Kind(k))
    BY <1>1 DEF MeetsPlain, Kind, Uses, Accepts, InRange
  <2>2. QED
    BY <1>0, <2>1, PlainCheck
<1>14. U32 < I64 /\ U32 \in Nat /\ I64 \in Nat
  BY WidthAssumption
<1>15. QED
  <2>1. \A n \in 0 .. U32 : n \in 0 .. I64 /\ n \in Int
    BY <1>14
  <2>2. \A n \in 0 .. I64 : n \in Int
    OBVIOUS
  <2>3. \A s : check4(Str(s), Text) /\ check4(Str(s), Tier) /\ JsonField(Str(s))
    BY <1>1, <1>6, Zenon
  <2>4. /\ \A n \in 0 .. I64 : check4(Integer(n), Counter) /\ JsonField(Integer(n))
        /\ \A n \in 0 .. U32 : check4(Integer(n), Ordinal) /\ JsonField(Integer(n))
    BY <1>2, <1>7, <1>8, <2>1, Zenon
  <2>5. \A h \in Int : IsDouble(h) => check4(Float(h), Clock) /\ JsonField(Float(h))
    BY <1>3, <1>9, Zenon
  <2>6. QED
    BY <1>4, <1>5, <1>10, <1>11, <1>12, <1>13, <2>3, <2>4, <2>5, Zenon

\* One value has a column of one value.
LEMMA PlainColumn ==
  ASSUME NEW rule \in Plains
  PROVE  ColumnType(rule) \notin {"list<struct>", "list<utf8>"}
<1>1. CASE rule \in {Counter, Ordinal, Signed, Clock, Text, Tier, Of("boolean")}
  BY <1>1, RuleColumns
<1>2. CASE \E k \in RECORD_KINDS : rule = Kind(k)
  BY <1>2, RuleColumns
<1>3. QED
  BY <1>1, <1>2 DEF Plains

\* What a producer writes in a field is kept by the field's rule.
LEMMA ValuesMeet ==
  /\ \A s : KeptField(Str(s), Text) /\ KeptField(Str(s), Tier)
  /\ \A n \in 0 .. I64 : KeptField(Integer(n), Counter)
  /\ \A n \in 0 .. U32 : KeptField(Integer(n), Ordinal)
  /\ \A h \in Int : IsDouble(h) => KeptField(Float(h), Clock)
  /\ KeptField(Null, Tier)
  /\ KeptField(Bool(TRUE), Of("boolean"))
  /\ \A list : KeptField(Strings(list), TextList)
  /\ \A k \in RECORD_KINDS : KeptField(Str(k), Kind(k))
<1>0. /\ {Counter, Ordinal, Clock, Text, Tier, Of("boolean")} \subseteq Plains
      /\ \A k \in RECORD_KINDS : Kind(k) \in Plains
  BY DEF Plains
<1>1. ASSUME NEW rule \in Plains, NEW x
      PROVE  MadeField(x, rule) = Typed(NormalPlain(x, rule), rule)
  <2>1. rule # EndpointList
    BY ListRules
  <2>2. QED
    BY <2>1, PlainNormal, Zenon DEF MadeField
\* A word is read as it is, and so is all that is not a number.
<1>2. ASSUME NEW rule \in Plains, IsWord(rule), NEW x, Tag(x) # "integer",
             check4(x, rule), JsonField(x), x # Null => FitsOne(x, ColumnType(rule))
      PROVE  KeptField(x, rule)
  <2>1. NormalPlain(x, rule) = x
    BY <1>2 DEF NormalPlain, IsWord
  <2>2. rule.type # {"number"}
    BY <1>2 DEF IsWord
  <2>3. MadeField(x, rule) = x
    BY <1>1, <2>1, <2>2 DEF Typed
  <2>4. AsFloat(x) = x
    BY <1>2 DEF AsFloat
  <2>5. x # Null => FitsColumn(x, ColumnType(rule))
    BY <1>2, PlainColumn DEF FitsColumn
  <2>6. QED
    BY <1>2, <2>3, <2>4, <2>5, Zenon DEF KeptField, Reads
<1>3. /\ IsWord(Text) /\ IsWord(Tier) /\ IsWord(Of("boolean"))
      /\ \A k \in RECORD_KINDS : IsWord(Kind(k))
  BY DEF IsWord, Text, Tier, Of, Kind, Uses
<1>4. /\ \A s : Tag(Str(s)) # "integer"
      /\ Tag(Null) # "integer" /\ \A b : Tag(Arr(b)) # "integer" /\ \A h : Tag(Float(h)) # "integer"
  BY DEF Tag, Str, Null, Arr, Float
<1>5. Tag(Bool(TRUE)) # "integer"
  <2>1. Tag(Bool(TRUE)) = "boolean" /\ "boolean" # "integer"
    BY Zenon DEF Tag, Bool
  <2>2. QED
    BY <2>1, Zenon
\* An integer within its range, in either form.
<1>6. ASSUME NEW rule \in {Counter, Ordinal}, NEW n \in Int, 0 <= n, n <= rule.maximum
      PROVE  KeptField(Integer(n), rule)
  <2>1. /\ rule \in Plains /\ rule.type = {"integer"} /\ n <= I64
        /\ rule.minimum = 0 /\ rule.maximum \in Int /\ ~Uses(rule, "const")
        /\ ColumnType(rule) = "int64"
    BY <1>0, <1>6, WidthAssumption, RuleColumns DEF Counter, Ordinal, Uses
  <2>2. AsFloat(Integer(n)) = IF IsDouble(2 * n) THEN Float(2 * n) ELSE Integer(n)
    BY DEF AsFloat, Tag, Integer, Halves, Body
  <2>3. ASSUME NEW x, x = Integer(n) \/ (x = Float(2 * n) /\ IsDouble(2 * n))
        PROVE  Reads(x, Integer(n), rule) /\ FitsOne(x, "int64")
    <3>1. IsNumber(x) /\ IsInteger(x) /\ integer_value(x) = n
      <4>1. CASE x = Integer(n)
        <5>1. (2 * n) \div 2 = n
          OBVIOUS
        <5>2. QED
          BY <4>1, <5>1 DEF IsNumber, IsInteger, integer_value, Tag, Body, Halves, Integer
      <4>2. CASE x = Float(2 * n)
        <5>1. (2 * n) \div 2 = n /\ (2 * n) % 2 = 0
          OBVIOUS
        <5>2. 2 * I64Min <= 2 * n /\ 2 * n < 2 * (I64 + 1)
          BY <1>6, <2>1, WidthAssumption DEF I64Min
        <5>3. Tag(x) = "float" /\ Body(x) = 2 * n
          BY <4>2 DEF Tag, Body, Float
        <5>4. QED
          BY <5>1, <5>2, <5>3 DEF IsNumber, IsInteger, integer_value, Halves
      <4>3. QED
        BY <2>3, <4>1, <4>2
    <3>2. MeetsPlain(x, rule)
      BY <1>6, <2>1, <3>1 DEF MeetsPlain, Accepts, InRange
    <3>3. check4(x, rule)
      BY <2>1, <3>2, PlainCheck
    <3>4. JsonField(x)
      <4>1. n \in 0 .. I64
        BY <1>6, <2>1, WidthAssumption
      <4>2. 2 * n \in Int
        OBVIOUS
      <4>3. QED
        BY <2>3, <4>1, <4>2, ValuesAllowed, Zenon
    <3>5. NormalPlain(x, rule) = Integer(n)
      BY <2>1, <3>1 DEF NormalPlain
    <3>6. MadeField(x, rule) = Integer(n)
      BY <1>1, <2>1, <3>5 DEF Typed
    <3>7. FitsOne(x, "int64")
      BY <2>1, <3>1 DEF FitsOne
    <3>8. QED
      BY <3>3, <3>4, <3>6, <3>7, Zenon DEF Reads
  <2>4. /\ Reads(Integer(n), Integer(n), rule) /\ FitsOne(Integer(n), "int64")
        /\ Reads(AsFloat(Integer(n)), Integer(n), rule)
    BY <2>2, <2>3
  <2>5. FitsColumn(Integer(n), ColumnType(rule))
    BY <2>1, <2>4 DEF FitsColumn
  <2>6. QED
    BY <2>4, <2>5, Zenon DEF KeptField
<1>7. ASSUME NEW h \in Int, IsDouble(h) PROVE KeptField(Float(h), Clock)
  <2>1. check4(Float(h), Clock) /\ JsonField(Float(h))
    BY <1>7, ValuesAllowed
  <2>2. NormalPlain(Float(h), Clock) = Float(h)
    BY DEF NormalPlain, Clock, Of
  <2>3. Typed(Float(h), Clock) = Float(h)
    <3>1. Halves(Float(h)) = h
      BY DEF Halves, Tag, Body, Float
    <3>2. as_f64(Float(h)) = h
      BY <1>7, <3>1 DEF as_f64, Rounded
    <3>3. QED
      BY <3>2 DEF Typed, Clock, Of
  <2>4. MadeField(Float(h), Clock) = Float(h)
    BY <1>0, <1>1, <2>2, <2>3
  <2>5. AsFloat(Float(h)) = Float(h)
    BY <1>4 DEF AsFloat
  <2>6. FitsColumn(Float(h), ColumnType(Clock))
    <3>1. Tag(Float(h)) = "float"
      BY DEF Tag, Float
    <3>2. QED
      BY <3>1, RuleColumns DEF FitsColumn, FitsOne, IsNumber
  <2>7. QED
    BY <2>1, <2>4, <2>5, <2>6, Zenon DEF KeptField, Reads
<1>8. ASSUME NEW list PROVE KeptField(Strings(list), TextList)
  <2> DEFINE x == Strings(list)
             items == [i \in DOMAIN list |-> Str(list[i])]
  <2>1. x = Arr(items) /\ Tag(x) = "array" /\ Body(x) = items
    BY DEF Strings, Tag, Body, Arr
  <2>2. check4(x, TextList) /\ JsonField(x)
    BY ValuesAllowed
  <2>3. \A s : normal3(Str(s), Text) = Str(s)
    <3>1. /\ ~Uses(Text, "ref") /\ ~Uses(Text, "items") /\ ~Uses(Text, "properties")
          /\ "integer" \notin Text.type
      BY DEF Text, Of, Uses
    <3>2. QED
      BY <3>1 DEF normal3, Normal
  <2> HIDE DEF x
  <2>4. \A i \in DOMAIN items : normal3(items[i], Text) = items[i]
    BY <2>3
  <2>5. items = [i \in DOMAIN items |-> items[i]]
    OBVIOUS
  <2> HIDE DEF items
  <2>6. normal4(x, TextList) = Arr([i \in DOMAIN items |-> normal3(items[i], Text)])
    <3>1. normal4(x, TextList) =
            Arr([i \in DOMAIN Body(x) |-> normal3(Body(x)[i], TextList.items)])
      BY <2>1, ListNormal
    <3>2. TextList.items = Text
      BY ListRules
    <3>3. QED
      BY <2>1, <3>1, <3>2
  <2>7. normal4(x, TextList) = x
    BY <2>1, <2>6, <2>4, <2>5
  <2>8. TextList # EndpointList /\ TextList.type # {"number"}
    BY ListRules
  <2>9. MadeField(x, TextList) = x
    BY <2>7, <2>8, Zenon DEF MadeField, Typed
  <2>10. AsFloat(x) = x
    BY <2>1 DEF AsFloat
  <2>11. FitsColumn(x, ColumnType(TextList))
    <3>1. \A s : Tag(Str(s)) = "string"
      BY DEF Tag, Str
    <3>2. \A i \in DOMAIN items : FitsOne(items[i], "utf8")
      BY <3>1 DEF FitsOne, items
    <3>3. QED
      BY <2>1, <3>2, RuleColumns DEF FitsColumn
  <2>12. KeptField(x, TextList)
    BY <2>2, <2>9, <2>10, <2>11, Zenon DEF KeptField, Reads
  <2>13. QED
    BY <2>12 DEF x
<1>w. \A s : FitsOne(Str(s), "utf8")
  BY DEF FitsOne, Tag, Str
<1>9. \A s : KeptField(Str(s), Text) /\ KeptField(Str(s), Tier)
  <2> TAKE s
  <2>1. FitsOne(Str(s), ColumnType(Text)) /\ FitsOne(Str(s), ColumnType(Tier))
    BY <1>w, RuleColumns
  <2>2. check4(Str(s), Text) /\ check4(Str(s), Tier) /\ JsonField(Str(s))
    BY ValuesAllowed
  <2>3. QED
    BY <1>0, <1>2, <1>3, <1>4, <2>1, <2>2
<1>10. \A k \in RECORD_KINDS : KeptField(Str(k), Kind(k))
  <2> TAKE k \in RECORD_KINDS
  <2>1. JsonField(Str(k)) /\ check4(Str(k), Kind(k))
    BY ValuesAllowed
  <2>2. FitsOne(Str(k), ColumnType(Kind(k)))
    BY <1>w, RuleColumns
  <2>3. QED
    BY <1>0, <1>2, <1>3, <1>4, <2>1, <2>2
<1>11. KeptField(Null, Tier) /\ KeptField(Bool(TRUE), Of("boolean"))
  <2>1. KeptField(Null, Tier)
    BY <1>0, <1>2, <1>3, <1>4, ValuesAllowed
  <2>2. Of("boolean") \in Plains /\ IsWord(Of("boolean"))
    BY <1>0, <1>3
  <2>3. check4(Bool(TRUE), Of("boolean")) /\ JsonField(Bool(TRUE))
    BY ValuesAllowed, Zenon
  <2>4. FitsOne(Bool(TRUE), ColumnType(Of("boolean")))
    <3>1. Tag(Bool(TRUE)) = "boolean"
      BY Zenon DEF Tag, Bool
    <3>2. \A x : Tag(x) = "boolean" => FitsOne(x, "bool")
      BY DEF FitsOne
    <3>3. ColumnType(Of("boolean")) = "bool"
      BY RuleColumns
    <3>4. QED
      BY <3>1, <3>2, <3>3, Zenon
  <2>5. QED
    BY <1>2, <1>5, <2>1, <2>2, <2>3, <2>4, Zenon
<1>12. \A n \in 0 .. I64 : KeptField(Integer(n), Counter)
  <2>1. Counter.maximum = I64
    BY DEF Counter
  <2>2. QED
    BY <1>6, <2>1, WidthAssumption
<1>13. \A n \in 0 .. U32 : KeptField(Integer(n), Ordinal)
  <2>1. Ordinal.maximum = U32
    BY DEF Ordinal
  <2>2. QED
    BY <1>6, <2>1, WidthAssumption
<1>14. QED
  BY <1>7, <1>8, <1>9, <1>10, <1>11, <1>12, <1>13, Zenon

\* The rules of the fields a producer writes, which are the same in each kind
\* that has the field.
RulesOf(P) ==
  /\ P["at_ms"] = Clock /\ P["instance_id"] = Text
  /\ P["dp_rank"] = Ordinal /\ P["group_idx"] = Ordinal /\ P["seq"] = Counter
  /\ {"kind", "at_ms", "instance_id", "dp_rank", "group_idx", "seq"} \subseteq DOMAIN P

\* The rules of the fields a producer writes, kind by kind.
LEMMA ProducerRules ==
  /\ \A kind \in {"store", "evict", "clear", "holder_reset"} :
       RulesOf(Defs[kind].properties) /\ kind \in RECORD_KINDS
  /\ LET P == Defs["store"].properties
     IN /\ P["block_id"] = Text /\ P["n_tokens"] = Counter /\ P["tier"] = Tier
        /\ P["parent_id"] = Text /\ P["parent_unknown"] = Of("boolean")
        /\ P["extra_keys"] = TextList /\ P["lora_id"] = Counter
        /\ P["lora_name"] = Text /\ P["locality"] = Text /\ P["content_id"] = Text
        /\ {"block_id", "n_tokens", "tier", "parent_id", "parent_unknown", "extra_keys",
            "lora_id", "lora_name", "locality", "content_id"} \subseteq DOMAIN P
  /\ LET P == Defs["evict"].properties
     IN /\ P["block_id"] = Text /\ P["tier"] = Tier
        /\ P["locality"] = Text /\ P["content_id"] = Text
        /\ {"block_id", "tier", "locality", "content_id"} \subseteq DOMAIN P
  /\ LET P == Defs["clear"].properties
     IN P["scope"] = Text /\ P["tier"] = Text /\ {"scope", "tier"} \subseteq DOMAIN P
  /\ LET P == Defs["holder_reset"].properties
     IN P["boundary_ms"] = Clock /\ "boundary_ms" \in DOMAIN P
<1> USE DEF Defs, Definition, ++, TextList
<1>1. RulesOf(Defs["store"].properties)
  BY DEF RulesOf
<1>2. RulesOf(Defs["evict"].properties)
  BY DEF RulesOf
<1>3. RulesOf(Defs["clear"].properties)
  BY DEF RulesOf
<1>4. RulesOf(Defs["holder_reset"].properties)
  BY SMTT(30) DEF RulesOf
<1>5. LET P == Defs["store"].properties
      IN /\ P["block_id"] = Text /\ P["n_tokens"] = Counter /\ P["tier"] = Tier
         /\ P["parent_id"] = Text /\ P["parent_unknown"] = Of("boolean")
         /\ P["extra_keys"] = TextList /\ P["lora_id"] = Counter
         /\ P["lora_name"] = Text /\ P["locality"] = Text /\ P["content_id"] = Text
         /\ {"block_id", "n_tokens", "tier", "parent_id", "parent_unknown", "extra_keys",
             "lora_id", "lora_name", "locality", "content_id"} \subseteq DOMAIN P
  BY ZenonT(30)
<1>6. LET P == Defs["evict"].properties
      IN /\ P["block_id"] = Text /\ P["tier"] = Tier
         /\ P["locality"] = Text /\ P["content_id"] = Text
         /\ {"block_id", "tier", "locality", "content_id"} \subseteq DOMAIN P
  OBVIOUS
<1>7. LET P == Defs["clear"].properties
      IN P["scope"] = Text /\ P["tier"] = Text /\ {"scope", "tier"} \subseteq DOMAIN P
  OBVIOUS
<1>8. LET P == Defs["holder_reset"].properties
      IN P["boundary_ms"] = Clock /\ "boundary_ms" \in DOMAIN P
  OBVIOUS
<1> HIDE DEF Defs, Definition, ++, TextList
<1>9. \A kind \in {"store", "evict", "clear", "holder_reset"} :
        RulesOf(Defs[kind].properties) /\ kind \in RECORD_KINDS
  BY <1>1, <1>2, <1>3, <1>4, Kinds
<1>10. QED
  BY <1>5, <1>6, <1>7, <1>8, <1>9, Zenon

\* What record() is given: an event of the wire's decoder, numbered.
Event(ev) ==
  /\ ev.type \in {"Stored", "Removed", "Cleared", "HolderReset"}
  /\ ev.at_ms \in Moments
  /\ Carries(ev, "seq") => ev.seq \in 0 .. I64
  /\ Carries(ev, "dp_rank") => ev.dp_rank \in 0 .. U32
  /\ Carries(ev, "group_idx") => ev.group_idx \in 0 .. U32
  /\ ev.type = "Stored" =>
       /\ ev.block_size \in 0 .. I64
       /\ Carries(ev, "lora_id") => ev.lora_id \in 0 .. I64
  /\ ev.type = "HolderReset" => ev.boundary_ms \in Moments

\* The fields every record has, and those of its scope.
LEMMA CommonMeet ==
  ASSUME NEW source, NEW ev, Event(ev), NEW P, RulesOf(P)
  PROVE  FieldsMeet([instance_id |-> Str(source), at_ms |-> Millis(ev.at_ms)]
                    ++ ScopeOf(ev) ++ Same("seq", ev, Integer), P)
<1> DEFINE own == [instance_id |-> Str(source), at_ms |-> Millis(ev.at_ms)]
<1>1. FieldsMeet(own, P)
  <2>1. /\ DOMAIN own = {"instance_id", "at_ms"}
        /\ own["instance_id"] = Str(source) /\ own["at_ms"] = Millis(ev.at_ms)
    OBVIOUS
  <2>2. KeptField(Millis(ev.at_ms), Clock)
    <3>1. IsDouble(2 * ev.at_ms) /\ 2 * ev.at_ms \in Int
      BY MomentsAreDoubles DEF Event, Moments
    <3>2. QED
      BY <3>1, ValuesMeet, Zenon DEF Millis
  <2>3. KeptField(Str(source), Text)
    BY ValuesMeet
  <2> HIDE DEF own
  <2>4. \A f \in DOMAIN own : f = "instance_id" \/ f = "at_ms"
    BY <2>1
  <2>5. P["instance_id"] = Text /\ P["at_ms"] = Clock
        /\ "instance_id" \in DOMAIN P /\ "at_ms" \in DOMAIN P
    BY DEF RulesOf
  <2>6. QED
    BY <2>1, <2>2, <2>3, <2>4, <2>5, Zenon DEF FieldsMeet
<1>2. /\ "seq" \in DOMAIN P /\ "dp_rank" \in DOMAIN P /\ "group_idx" \in DOMAIN P
      /\ P["seq"] = Counter /\ P["dp_rank"] = Ordinal /\ P["group_idx"] = Ordinal
  BY DEF RulesOf
<1>3. FieldsMeet(Same("seq", ev, Integer), P)
  <2>1. CASE Carries(ev, "seq")
    <3>1. KeptField(Integer(ev.seq), Counter)
      BY <2>1, ValuesMeet DEF Event
    <3>2. Same("seq", ev, Integer) = Maplet("seq", Integer(ev.seq))
      BY <2>1 DEF Same, As
    <3>3. QED
      BY <1>2, <3>1, <3>2, SmallMeet
  <2>2. CASE ~Carries(ev, "seq")
    BY <2>2, SmallMeet DEF Same, As
  <2>3. QED
    BY <2>1, <2>2
<1>4. FieldsMeet(ScopeOf(ev), P)
  <2> DEFINE rank == Get(ev, "dp_rank", 0)
             group == Get(ev, "group_idx", 0)
             given == [dp_rank |-> Integer(rank), group_idx |-> Integer(group)]
  <2>1. rank \in 0 .. U32 /\ group \in 0 .. U32
    BY WidthAssumption DEF Event, Get, Carries
  <2>2. /\ KeptField(Integer(rank), Ordinal)
        /\ KeptField(Integer(group), Ordinal)
    BY <2>1, ValuesMeet
  <2>3. CASE ev.type \in {"Cleared", "HolderReset"}
    <3>1. FieldsMeet(Same("dp_rank", ev, Integer), P)
      BY <1>2, <2>2, SmallMeet DEF Same, As, Get, Carries
    <3>2. FieldsMeet(Same("group_idx", ev, Integer), P)
      BY <1>2, <2>2, SmallMeet DEF Same, As, Get, Carries
    <3>3. QED
      BY <2>3, <3>1, <3>2, UnionMeets DEF ScopeOf
  <2>4. CASE ev.type \notin {"Cleared", "HolderReset"}
    <3>1. ScopeOf(ev) = given
      BY <2>4 DEF ScopeOf
    <3> HIDE DEF rank, group
    <3>2. DOMAIN given = {"dp_rank", "group_idx"} /\ given["dp_rank"] = Integer(rank)
          /\ given["group_idx"] = Integer(group)
      OBVIOUS
    <3> HIDE DEF given
    <3>3. \A f \in DOMAIN given : f = "dp_rank" \/ f = "group_idx"
      BY <3>2
    <3>4. FieldsMeet(given, P)
      BY <1>2, <2>2, <3>2, <3>3, Zenon DEF FieldsMeet
    <3>5. QED
      BY <3>1, <3>4
  <2>5. QED
    BY <2>3, <2>4
<1> HIDE DEF own
<1>5. FieldsMeet(own ++ ScopeOf(ev), P)
  BY <1>1, <1>4, UnionMeets
<1>6. FieldsMeet(own ++ ScopeOf(ev) ++ Same("seq", ev, Integer), P)
  BY <1>3, <1>5, UnionMeets
<1>7. QED
  BY <1>6 DEF own

\* An optional field of text.
LEMMA TextMeets ==
  ASSUME NEW ev, NEW P, NEW f \in DOMAIN P, P[f] = Text
  PROVE  FieldsMeet(Same(f, ev, Str), P)
<1>1. CASE Carries(ev, f)
  <2>1. Same(f, ev, Str) = Maplet(f, Str(ev[f]))
    BY <1>1 DEF Same, As
  <2>2. KeptField(Str(ev[f]), P[f])
    BY ValuesMeet
  <2>3. QED
    BY <2>1, <2>2, SmallMeet
<1>2. CASE ~Carries(ev, f)
  BY <1>2, SmallMeet DEF Same, As
<1>3. QED
  BY <1>1, <1>2

\* The fields of a store meet the rules of its kind.
LEMMA StoreMeets ==
  ASSUME NEW ev, Event(ev), ev.type = "Stored"
  PROVE  FieldsMeet(StoreFields(ev), Defs["store"].properties)
<1> DEFINE P == Defs["store"].properties
           own == [kind |-> Str("store"), block_id |-> Str(ev.block_hash),
                   n_tokens |-> Integer(ev.block_size), tier |-> TierOf(ev)]
<1>1. /\ P["block_id"] = Text /\ P["n_tokens"] = Counter /\ P["tier"] = Tier
      /\ P["parent_id"] = Text /\ P["parent_unknown"] = Of("boolean")
      /\ P["extra_keys"] = TextList /\ P["lora_id"] = Counter
      /\ P["lora_name"] = Text /\ P["locality"] = Text /\ P["content_id"] = Text
      /\ {"block_id", "n_tokens", "tier", "parent_id", "parent_unknown", "extra_keys",
          "lora_id", "lora_name", "locality", "content_id"} \subseteq DOMAIN P
  BY ProducerRules, Zenon
<1>2. P["kind"] = Kind("store") /\ "kind" \in DOMAIN P /\ "store" \in RECORD_KINDS
  BY ProducerRules, Schema
<1> HIDE DEF P
<1>3. FieldsMeet(own, P)
  <2>1. /\ DOMAIN own = {"kind", "block_id", "n_tokens", "tier"}
        /\ own["kind"] = Str("store") /\ own["block_id"] = Str(ev.block_hash)
        /\ own["n_tokens"] = Integer(ev.block_size) /\ own["tier"] = TierOf(ev)
    OBVIOUS
  <2>2. KeptField(TierOf(ev), Tier)
    BY ValuesMeet DEF TierOf
  <2>3. KeptField(Integer(ev.block_size), Counter)
    BY ValuesMeet DEF Event
  <2>4. KeptField(Str("store"), Kind("store"))
        /\ KeptField(Str(ev.block_hash), Text)
    BY <1>2, ValuesMeet
  <2> HIDE DEF own
  <2>5. \A f \in DOMAIN own : f = "kind" \/ f = "block_id" \/ f = "n_tokens" \/ f = "tier"
    BY <2>1
  <2>6. "block_id" \in DOMAIN P /\ "n_tokens" \in DOMAIN P /\ "tier" \in DOMAIN P
    BY <1>1
  <2>7. QED
    BY <1>1, <1>2, <2>1, <2>2, <2>3, <2>4, <2>5, <2>6, Zenon DEF FieldsMeet
<1>4. FieldsMeet(ParentOf(ev), P)
  <2>1. FieldsMeet(Maplet("parent_unknown", Bool(TRUE)), P)
    BY <1>1, SmallMeet, ValuesMeet
  <2>2. Maplet("parent_unknown", Bool(TRUE)) = [parent_unknown |-> Bool(TRUE)]
    <3>1. \A x : Maplet("parent_unknown", x) = [parent_unknown |-> x]
      BY DEF Maplet
    <3>2. QED
      BY <3>1, Zenon
  <2>3. FieldsMeet(As("parent_hash", ev, "parent_id", Str), P)
    <3>1. FieldsMeet(Maplet("parent_id", Str(ev["parent_hash"])), P)
      BY <1>1, SmallMeet, ValuesMeet
    <3>2. QED
      BY <3>1, SmallMeet DEF As
  <2>4. QED
    BY <2>1, <2>2, <2>3 DEF ParentOf
<1>5. FieldsMeet(Same("extra_keys", ev, Strings), P)
  <2>1. FieldsMeet(Maplet("extra_keys", Strings(ev["extra_keys"])), P)
    BY <1>1, SmallMeet, ValuesMeet
  <2>2. QED
    BY <2>1, SmallMeet DEF Same, As
<1>6. FieldsMeet(Same("lora_id", ev, Integer), P)
  <2>1. CASE Carries(ev, "lora_id")
    <3>1. KeptField(Integer(ev["lora_id"]), Counter)
      BY <2>1, ValuesMeet DEF Event
    <3>2. FieldsMeet(Maplet("lora_id", Integer(ev["lora_id"])), P)
      BY <1>1, <3>1, SmallMeet
    <3>3. QED
      BY <2>1, <3>2 DEF Same, As
  <2>2. CASE ~Carries(ev, "lora_id")
    BY <2>2, SmallMeet DEF Same, As
  <2>3. QED
    BY <2>1, <2>2
<1>7. /\ FieldsMeet(Same("lora_name", ev, Str), P) /\ FieldsMeet(Same("locality", ev, Str), P)
      /\ FieldsMeet(Same("content_id", ev, Str), P)
  BY <1>1, TextMeets
<1> HIDE DEF own
<1>8. FieldsMeet(own ++ ParentOf(ev), P)
  BY <1>3, <1>4, UnionMeets
<1>9. FieldsMeet(own ++ ParentOf(ev) ++ Same("extra_keys", ev, Strings), P)
  BY <1>5, <1>8, UnionMeets
<1>10. FieldsMeet(own ++ ParentOf(ev) ++ Same("extra_keys", ev, Strings)
                  ++ Same("lora_id", ev, Integer), P)
  BY <1>6, <1>9, UnionMeets
<1>11. FieldsMeet(own ++ ParentOf(ev) ++ Same("extra_keys", ev, Strings)
                  ++ Same("lora_id", ev, Integer) ++ Same("lora_name", ev, Str), P)
  BY <1>7, <1>10, UnionMeets
<1>12. FieldsMeet(own ++ ParentOf(ev) ++ Same("extra_keys", ev, Strings)
                  ++ Same("lora_id", ev, Integer) ++ Same("lora_name", ev, Str)
                  ++ Same("locality", ev, Str), P)
  BY <1>7, <1>11, UnionMeets
<1>13. FieldsMeet(own ++ ParentOf(ev) ++ Same("extra_keys", ev, Strings)
                  ++ Same("lora_id", ev, Integer) ++ Same("lora_name", ev, Str)
                  ++ Same("locality", ev, Str) ++ Same("content_id", ev, Str), P)
  BY <1>7, <1>12, UnionMeets
<1>14. QED
  BY <1>13, Zenon DEF StoreFields, own, P

\* Those of an eviction theirs.
LEMMA EvictMeets ==
  ASSUME NEW ev, Event(ev)
  PROVE  FieldsMeet(EvictFields(ev), Defs["evict"].properties)
<1> DEFINE P == Defs["evict"].properties
           own == [kind |-> Str("evict"), block_id |-> Str(ev.block_hash), tier |-> TierOf(ev)]
<1>1. /\ P["block_id"] = Text /\ P["tier"] = Tier
      /\ P["locality"] = Text /\ P["content_id"] = Text
      /\ {"block_id", "tier", "locality", "content_id"} \subseteq DOMAIN P
  BY ProducerRules, Zenon
<1>2. P["kind"] = Kind("evict") /\ "kind" \in DOMAIN P /\ "evict" \in RECORD_KINDS
  BY ProducerRules, Schema
<1> HIDE DEF P
<1>3. FieldsMeet(own, P)
  <2>1. /\ DOMAIN own = {"kind", "block_id", "tier"}
        /\ own["kind"] = Str("evict") /\ own["block_id"] = Str(ev.block_hash)
        /\ own["tier"] = TierOf(ev)
    OBVIOUS
  <2>2. KeptField(TierOf(ev), Tier)
    BY ValuesMeet DEF TierOf
  <2>3. KeptField(Str("evict"), Kind("evict"))
        /\ KeptField(Str(ev.block_hash), Text)
    BY <1>2, ValuesMeet
  <2> HIDE DEF own
  <2>4. \A f \in DOMAIN own : f = "kind" \/ f = "block_id" \/ f = "tier"
    BY <2>1
  <2>5. "block_id" \in DOMAIN P /\ "tier" \in DOMAIN P
    BY <1>1
  <2>6. QED
    BY <1>1, <1>2, <2>1, <2>2, <2>3, <2>4, <2>5, Zenon DEF FieldsMeet
<1>4. FieldsMeet(Same("locality", ev, Str), P) /\ FieldsMeet(Same("content_id", ev, Str), P)
  BY <1>1, TextMeets
<1> HIDE DEF own
<1>5. FieldsMeet(own ++ Same("locality", ev, Str), P)
  BY <1>3, <1>4, UnionMeets
<1>6. FieldsMeet(own ++ Same("locality", ev, Str) ++ Same("content_id", ev, Str), P)
  BY <1>4, <1>5, UnionMeets
<1>7. QED
  BY <1>6, Zenon DEF EvictFields, own, P

\* Those of a clear and of a reset theirs.
LEMMA ScopeMeets ==
  ASSUME NEW ev, Event(ev)
  PROVE  /\ FieldsMeet(ClearFields(ev), Defs["clear"].properties)
         /\ ev.type = "HolderReset" =>
              FieldsMeet(ResetFields(ev), Defs["holder_reset"].properties)
<1>1. FieldsMeet(ClearFields(ev), Defs["clear"].properties)
  <2> DEFINE P == Defs["clear"].properties
             own == [kind |-> Str("clear"), scope |-> Str("all")]
  <2>1. P["scope"] = Text /\ P["tier"] = Text /\ {"scope", "tier"} \subseteq DOMAIN P
    BY ProducerRules, Zenon
  <2>2. P["kind"] = Kind("clear") /\ "kind" \in DOMAIN P /\ "clear" \in RECORD_KINDS
    BY ProducerRules, Schema
  <2> HIDE DEF P
  <2>3. FieldsMeet(own, P)
    <3>1. /\ DOMAIN own = {"kind", "scope"}
          /\ own["kind"] = Str("clear") /\ own["scope"] = Str("all")
      OBVIOUS
    <3>2. KeptField(Str("clear"), Kind("clear"))
          /\ KeptField(Str("all"), Text)
      BY <2>2, ValuesMeet
    <3> HIDE DEF own
    <3>3. \A f \in DOMAIN own : f = "kind" \/ f = "scope"
      BY <3>1
    <3>4. "scope" \in DOMAIN P
      BY <2>1
    <3>5. QED
      BY <2>1, <2>2, <3>1, <3>2, <3>3, <3>4, Zenon DEF FieldsMeet
  <2>4. FieldsMeet(As("medium", ev, "tier", Str), P)
    <3>1. FieldsMeet(Maplet("tier", Str(ev["medium"])), P)
      BY <2>1, SmallMeet, ValuesMeet
    <3>2. QED
      BY <3>1, SmallMeet DEF As
  <2> HIDE DEF own
  <2>5. FieldsMeet(own ++ As("medium", ev, "tier", Str), P)
    BY <2>3, <2>4, UnionMeets
  <2>6. QED
    BY <2>5, Zenon DEF ClearFields, own, P
<1>2. ASSUME ev.type = "HolderReset"
      PROVE  FieldsMeet(ResetFields(ev), Defs["holder_reset"].properties)
  <2> DEFINE P == Defs["holder_reset"].properties
             own == [kind |-> Str("holder_reset"), boundary_ms |-> Millis(ev.boundary_ms)]
  <2>1. P["boundary_ms"] = Clock /\ "boundary_ms" \in DOMAIN P
    BY ProducerRules, Zenon
  <2>2. P["kind"] = Kind("holder_reset") /\ "kind" \in DOMAIN P
        /\ "holder_reset" \in RECORD_KINDS
    BY ProducerRules, Schema
  <2> HIDE DEF P
  <2>3. /\ DOMAIN own = {"kind", "boundary_ms"} /\ own["kind"] = Str("holder_reset")
        /\ own["boundary_ms"] = Millis(ev.boundary_ms)
    OBVIOUS
  <2>4. KeptField(Str("holder_reset"), Kind("holder_reset"))
    BY <2>2, ValuesMeet
  <2>5. KeptField(Millis(ev.boundary_ms), Clock)
    <3>1. IsDouble(2 * ev.boundary_ms) /\ 2 * ev.boundary_ms \in Int
      BY <1>2, MomentsAreDoubles DEF Event, Moments
    <3>2. QED
      BY <3>1, ValuesMeet, Zenon DEF Millis
  <2> HIDE DEF own
  <2>6. \A f \in DOMAIN own : f = "kind" \/ f = "boundary_ms"
    BY <2>3
  <2>7. FieldsMeet(own, P)
    BY <2>1, <2>2, <2>3, <2>4, <2>5, <2>6, Zenon DEF FieldsMeet
  <2>8. QED
    BY <2>7, Zenon DEF ResetFields, own, P
<1>3. QED
  BY <1>1, <1>2

\* What each part of a record has in its fields.
CommonNames == {"instance_id", "at_ms", "dp_rank", "group_idx", "seq"}
Common(source, ev) ==
  [instance_id |-> Str(source), at_ms |-> Millis(ev.at_ms)]
  ++ ScopeOf(ev) ++ Same("seq", ev, Integer)

\* A field copied from the event, where the event has it.
LEMMA SameFields ==
  ASSUME NEW ev, NEW f
  PROVE  /\ DOMAIN Same(f, ev, Str) = {f} \cap DOMAIN ev
         /\ DOMAIN Same(f, ev, Integer) = {f} \cap DOMAIN ev
         /\ Carries(ev, f) => /\ Same(f, ev, Str)[f] = Str(ev[f])
                              /\ Same(f, ev, Integer)[f] = Integer(ev[f])
<1>1. CASE Carries(ev, f)
  <2>1. Same(f, ev, Str) = Maplet(f, Str(ev[f]))
    BY <1>1 DEF Same, As
  <2>2. Same(f, ev, Integer) = Maplet(f, Integer(ev[f]))
    BY <1>1 DEF Same, As
  <2> DEFINE a == Same(f, ev, Str)
             b == Same(f, ev, Integer)
  <2>3. a = Maplet(f, Str(ev[f])) /\ b = Maplet(f, Integer(ev[f]))
    BY <2>1, <2>2
  <2> HIDE DEF a, b
  <2>4. DOMAIN a = {f} /\ a[f] = Str(ev[f])
    BY <2>3 DEF Maplet
  <2>5. DOMAIN b = {f} /\ b[f] = Integer(ev[f])
    BY <2>3 DEF Maplet
  <2>6. {f} = {f} \cap DOMAIN ev
    BY <1>1 DEF Carries
  <2>7. QED
    BY <2>4, <2>5, <2>6 DEF a, b
<1>2. CASE ~Carries(ev, f)
  <2>1. Same(f, ev, Str) = <<>>
    BY <1>2 DEF Same, As
  <2>2. Same(f, ev, Integer) = <<>>
    BY <1>2 DEF Same, As
  <2>3. QED
    BY <1>2, <2>1, <2>2, SmallMaps DEF Carries
<1>3. QED
  BY <1>1, <1>2

\* What of an event the fields every record has say.
LEMMA CommonFields ==
  ASSUME NEW source, NEW ev
  PROVE  LET c == Common(source, ev)
         IN /\ {"instance_id", "at_ms"} \subseteq DOMAIN c /\ DOMAIN c \subseteq CommonNames
            /\ c["instance_id"] = Str(source) /\ c["at_ms"] = Millis(ev.at_ms)
            /\ ev.type \notin {"Cleared", "HolderReset"} =>
                 /\ "dp_rank" \in DOMAIN c /\ "group_idx" \in DOMAIN c
                 /\ c["dp_rank"] = Integer(Get(ev, "dp_rank", 0))
                 /\ c["group_idx"] = Integer(Get(ev, "group_idx", 0))
            /\ ev.type \in {"Cleared", "HolderReset"} =>
                 \A f \in {"dp_rank", "group_idx"} :
                   /\ f \in DOMAIN c <=> Carries(ev, f)
                   /\ Carries(ev, f) => c[f] = Integer(ev[f])
            /\ Carries(ev, "seq") => "seq" \in DOMAIN c /\ c["seq"] = Integer(ev.seq)
<1> DEFINE own == [instance_id |-> Str(source), at_ms |-> Millis(ev.at_ms)]
           scope == ScopeOf(ev)
           seq == Same("seq", ev, Integer)
           c == own ++ scope ++ seq
<1>1. /\ DOMAIN own = {"instance_id", "at_ms"}
      /\ own["instance_id"] = Str(source) /\ own["at_ms"] = Millis(ev.at_ms)
  OBVIOUS
<1>2. /\ DOMAIN seq = {"seq"} \cap DOMAIN ev
      /\ Carries(ev, "seq") => seq["seq"] = Integer(ev["seq"])
  BY SameFields
<1>3. ASSUME ev.type \notin {"Cleared", "HolderReset"}
      PROVE  /\ DOMAIN scope = {"dp_rank", "group_idx"}
             /\ scope["dp_rank"] = Integer(Get(ev, "dp_rank", 0))
             /\ scope["group_idx"] = Integer(Get(ev, "group_idx", 0))
  BY <1>3 DEF ScopeOf
<1>4. ASSUME ev.type \in {"Cleared", "HolderReset"}
      PROVE  /\ DOMAIN scope = {"dp_rank", "group_idx"} \cap DOMAIN ev
             /\ \A f \in {"dp_rank", "group_idx"} : Carries(ev, f) => scope[f] = Integer(ev[f])
  <2> DEFINE r == Same("dp_rank", ev, Integer)
             g == Same("group_idx", ev, Integer)
  <2>1. scope = r ++ g
    BY <1>4 DEF ScopeOf
  <2>2. /\ DOMAIN r = {"dp_rank"} \cap DOMAIN ev
        /\ DOMAIN g = {"group_idx"} \cap DOMAIN ev
        /\ Carries(ev, "dp_rank") => r["dp_rank"] = Integer(ev["dp_rank"])
        /\ Carries(ev, "group_idx") => g["group_idx"] = Integer(ev["group_idx"])
    BY SameFields
  <2> HIDE DEF r, g, scope
  <2>3. QED
    BY <2>1, <2>2 DEF ++, Carries
<1> HIDE DEF own, scope, seq
<1>5. DOMAIN c = DOMAIN own \cup DOMAIN scope \cup DOMAIN seq
  BY DEF ++
<1>6. DOMAIN scope \subseteq {"dp_rank", "group_idx"}
  BY <1>3, <1>4
<1>7. \A f \in DOMAIN own : c[f] = own[f]
  BY <1>5 DEF ++
<1>8. \A f \in DOMAIN scope : c[f] = scope[f]
  BY <1>1, <1>5, <1>6 DEF ++
<1>9. \A f \in DOMAIN seq : c[f] = seq[f]
  BY <1>1, <1>2, <1>5, <1>6 DEF ++
<1>10. c = Common(source, ev)
  BY DEF Common, own, scope, seq
<1> HIDE DEF c
<1>11. QED
  BY <1>1, <1>2, <1>3, <1>4, <1>5, <1>6, <1>7, <1>8, <1>9, <1>10 DEF CommonNames, Carries

\* What the fields of a store's own say.
LEMMA StoreParts ==
  ASSUME NEW ev
  PROVE  LET k == StoreFields(ev)
         IN /\ {"kind", "block_id", "n_tokens", "tier"} \subseteq DOMAIN k
            /\ DOMAIN k \cap CommonNames = {}
            /\ k["kind"] = Str("store") /\ k["block_id"] = Str(ev.block_hash)
            /\ k["tier"] = TierOf(ev)
            /\ Get(ev, "parent_unknown", FALSE) =>
                 "parent_unknown" \in DOMAIN k /\ "parent_id" \notin DOMAIN k
            /\ ~Get(ev, "parent_unknown", FALSE) =>
                 /\ "parent_unknown" \notin DOMAIN k
                 /\ "parent_id" \in DOMAIN k <=> Carries(ev, "parent_hash")
            /\ "parent_id" \in DOMAIN k => k["parent_id"] = Str(ev["parent_hash"])
            /\ "content_id" \in DOMAIN k <=> Carries(ev, "content_id")
            /\ Carries(ev, "content_id") => k["content_id"] = Str(ev["content_id"])
<1> DEFINE own == [kind |-> Str("store"), block_id |-> Str(ev.block_hash),
                   n_tokens |-> Integer(ev.block_size), tier |-> TierOf(ev)]
           par == ParentOf(ev)
           x == Same("extra_keys", ev, Strings)
           l == Same("lora_id", ev, Integer)
           n == Same("lora_name", ev, Str)
           y == Same("locality", ev, Str)
           i == Same("content_id", ev, Str)
           k == own ++ par ++ x ++ l ++ n ++ y ++ i
<1>1. /\ DOMAIN own = {"kind", "block_id", "n_tokens", "tier"}
      /\ own["kind"] = Str("store") /\ own["block_id"] = Str(ev.block_hash)
      /\ own["tier"] = TierOf(ev)
  OBVIOUS
<1>2. /\ Get(ev, "parent_unknown", FALSE) => DOMAIN par = {"parent_unknown"}
      /\ ~Get(ev, "parent_unknown", FALSE) =>
           /\ DOMAIN par = IF Carries(ev, "parent_hash") THEN {"parent_id"} ELSE {}
           /\ Carries(ev, "parent_hash") => par["parent_id"] = Str(ev["parent_hash"])
  <2>1. Get(ev, "parent_unknown", FALSE) => par = [parent_unknown |-> Bool(TRUE)]
    BY Zenon DEF ParentOf
  <2>2. ~Get(ev, "parent_unknown", FALSE) => par = As("parent_hash", ev, "parent_id", Str)
    BY Zenon DEF ParentOf
  <2>3. \A z : DOMAIN [parent_unknown |-> z] = {"parent_unknown"}
    OBVIOUS
  <2>4. As("parent_hash", ev, "parent_id", Str) =
          IF Carries(ev, "parent_hash") THEN Maplet("parent_id", Str(ev["parent_hash"]))
          ELSE <<>>
    BY DEF As
  <2> HIDE DEF par
  <2>5. QED
    BY <2>1, <2>2, <2>3, <2>4, SmallMaps
<1>3. /\ DOMAIN x \subseteq {"extra_keys"} /\ DOMAIN l \subseteq {"lora_id"}
      /\ DOMAIN n \subseteq {"lora_name"} /\ DOMAIN y \subseteq {"locality"}
      /\ DOMAIN i = {"content_id"} \cap DOMAIN ev
      /\ Carries(ev, "content_id") => i["content_id"] = Str(ev["content_id"])
  <2>1. DOMAIN x \subseteq {"extra_keys"}
    BY SmallMaps DEF Same, As
  <2>2. DOMAIN l = {"lora_id"} \cap DOMAIN ev
    BY SameFields
  <2>3. DOMAIN n = {"lora_name"} \cap DOMAIN ev
    BY SameFields
  <2>4. DOMAIN y = {"locality"} \cap DOMAIN ev
    BY SameFields
  <2>5. /\ DOMAIN i = {"content_id"} \cap DOMAIN ev
        /\ Carries(ev, "content_id") => i["content_id"] = Str(ev["content_id"])
    BY SameFields
  <2> HIDE DEF x, l, n, y, i
  <2>6. QED
    BY <2>1, <2>2, <2>3, <2>4, <2>5, ZenonT(30)
<1> HIDE DEF own, par, x, l, n, y, i
<1>4. DOMAIN k = DOMAIN own \cup DOMAIN par \cup DOMAIN x \cup DOMAIN l \cup DOMAIN n
                 \cup DOMAIN y \cup DOMAIN i
  BY DEF ++
<1>5. DOMAIN par \subseteq {"parent_unknown", "parent_id"}
  BY <1>2
<1>6. \A f \in DOMAIN own : k[f] = own[f]
  BY <1>4, ZenonT(30) DEF ++
<1>7. \A f \in DOMAIN par : k[f] = par[f]
  BY <1>1, <1>4, <1>5, ZenonT(30) DEF ++
<1>8. \A f \in DOMAIN i : k[f] = i[f]
  BY <1>1, <1>3, <1>4, <1>5, ZenonT(30) DEF ++
<1>9. k = StoreFields(ev)
  BY Zenon DEF StoreFields, own, par, x, l, n, y, i
<1> HIDE DEF k
<1>10. DOMAIN k \cap CommonNames = {}
  BY <1>1, <1>3, <1>4, <1>5 DEF CommonNames
<1>11. /\ "parent_unknown" \in DOMAIN k <=> "parent_unknown" \in DOMAIN par
       /\ "parent_id" \in DOMAIN k <=> "parent_id" \in DOMAIN par
       /\ "content_id" \in DOMAIN k <=> "content_id" \in DOMAIN i
  BY <1>1, <1>3, <1>4, <1>5
<1>12. /\ {"kind", "block_id", "n_tokens", "tier"} \subseteq DOMAIN k
       /\ k["kind"] = Str("store") /\ k["block_id"] = Str(ev.block_hash)
       /\ k["tier"] = TierOf(ev)
  BY <1>1, <1>4, <1>6
<1>13. /\ Get(ev, "parent_unknown", FALSE) =>
            "parent_unknown" \in DOMAIN par /\ "parent_id" \notin DOMAIN par
       /\ ~Get(ev, "parent_unknown", FALSE) =>
            /\ "parent_unknown" \notin DOMAIN par
            /\ "parent_id" \in DOMAIN par <=> Carries(ev, "parent_hash")
  <2>1. CASE Get(ev, "parent_unknown", FALSE)
    BY <1>2, <2>1
  <2>2. CASE ~Get(ev, "parent_unknown", FALSE)
    <3>1. CASE Carries(ev, "parent_hash")
      <4>1. DOMAIN par = {"parent_id"}
        BY <1>2, <2>2, <3>1, Zenon
      <4>2. QED
        BY <2>2, <3>1, <4>1
    <3>2. CASE ~Carries(ev, "parent_hash")
      <4>1. DOMAIN par = {}
        BY <1>2, <2>2, <3>2, Zenon
      <4>2. QED
        BY <2>2, <3>2, <4>1
    <3>3. QED
      BY <3>1, <3>2
  <2>3. QED
    BY <2>1, <2>2
<1>14. "parent_id" \in DOMAIN par => k["parent_id"] = Str(ev["parent_hash"])
  <2>1. CASE Get(ev, "parent_unknown", FALSE)
    BY <1>13, <2>1
  <2>2. CASE ~Get(ev, "parent_unknown", FALSE)
    BY <1>2, <1>7, <1>13, <2>2
  <2>3. QED
    BY <2>1, <2>2
<1>15. /\ "content_id" \in DOMAIN i <=> Carries(ev, "content_id")
       /\ Carries(ev, "content_id") => k["content_id"] = Str(ev["content_id"])
  BY <1>3, <1>8 DEF Carries
<1>16. QED
  BY <1>9, <1>10, <1>11, <1>12, <1>13, <1>14, <1>15, Zenon

\* What those of an eviction say.
LEMMA EvictParts ==
  ASSUME NEW ev
  PROVE  LET k == EvictFields(ev)
         IN /\ {"kind", "block_id", "tier"} \subseteq DOMAIN k
            /\ DOMAIN k \cap CommonNames = {}
            /\ k["kind"] = Str("evict") /\ k["block_id"] = Str(ev.block_hash)
            /\ k["tier"] = TierOf(ev)
<1> DEFINE own == [kind |-> Str("evict"), block_id |-> Str(ev.block_hash), tier |-> TierOf(ev)]
           y == Same("locality", ev, Str)
           i == Same("content_id", ev, Str)
           k == own ++ y ++ i
<1>1. /\ DOMAIN own = {"kind", "block_id", "tier"}
      /\ own["kind"] = Str("evict") /\ own["block_id"] = Str(ev.block_hash)
      /\ own["tier"] = TierOf(ev)
  OBVIOUS
<1>2. DOMAIN y = {"locality"} \cap DOMAIN ev /\ DOMAIN i = {"content_id"} \cap DOMAIN ev
  BY SameFields
<1> HIDE DEF own, y, i
<1>3. DOMAIN k = DOMAIN own \cup DOMAIN y \cup DOMAIN i /\ \A f \in DOMAIN own : k[f] = own[f]
  BY DEF ++
<1>4. k = EvictFields(ev)
  BY Zenon DEF EvictFields, own, y, i
<1> HIDE DEF k
<1>5. QED
  BY <1>1, <1>2, <1>3, <1>4 DEF CommonNames

\* What those of a clear say.
LEMMA ClearParts ==
  ASSUME NEW ev
  PROVE  LET k == ClearFields(ev)
         IN /\ {"kind", "scope"} \subseteq DOMAIN k /\ DOMAIN k \subseteq {"kind", "scope", "tier"}
            /\ k["kind"] = Str("clear")
            /\ "tier" \in DOMAIN k <=> Carries(ev, "medium")
            /\ Carries(ev, "medium") => k["tier"] = Str(ev["medium"])
<1> DEFINE own == [kind |-> Str("clear"), scope |-> Str("all")]
           y == As("medium", ev, "tier", Str)
           k == own ++ y
<1>1. DOMAIN own = {"kind", "scope"} /\ own["kind"] = Str("clear")
  OBVIOUS
<1>2. /\ Carries(ev, "medium") => DOMAIN y = {"tier"} /\ y["tier"] = Str(ev["medium"])
      /\ ~Carries(ev, "medium") => DOMAIN y = {}
  <2>1. ASSUME Carries(ev, "medium")
        PROVE  DOMAIN y = {"tier"} /\ y["tier"] = Str(ev["medium"])
    <3>1. y = Maplet("tier", Str(ev["medium"]))
      BY <2>1 DEF As
    <3> HIDE DEF y
    <3>2. QED
      BY <3>1 DEF Maplet
  <2>2. ASSUME ~Carries(ev, "medium") PROVE DOMAIN y = {}
    BY <2>2 DEF As
  <2>3. QED
    BY <2>1, <2>2
<1> HIDE DEF own, y
<1>3. /\ DOMAIN k = DOMAIN own \cup DOMAIN y /\ \A f \in DOMAIN own : k[f] = own[f]
      /\ \A f \in DOMAIN y : f \notin DOMAIN own => k[f] = y[f]
  BY DEF ++
<1>4. k = ClearFields(ev)
  BY Zenon DEF ClearFields, own, y
<1> HIDE DEF k
<1>5. QED
  BY <1>1, <1>2, <1>3, <1>4

\* What those of a reset say.
LEMMA ResetParts ==
  ASSUME NEW ev
  PROVE  LET k == ResetFields(ev)
         IN DOMAIN k = {"kind", "boundary_ms"} /\ k["kind"] = Str("holder_reset")
BY DEF ResetFields

\* The kind of a derived event's record, and the fields of that kind.
KindOf(ev) ==
  CASE ev.type = "Stored" -> "store" [] ev.type = "Removed" -> "evict"
    [] ev.type = "HolderReset" -> "holder_reset" [] ev.type = "Cleared" -> "clear"
OwnFields(ev) ==
  CASE ev.type = "Stored" -> StoreFields(ev) [] ev.type = "Removed" -> EvictFields(ev)
    [] ev.type = "HolderReset" -> ResetFields(ev) [] ev.type = "Cleared" -> ClearFields(ev)

\* The kind and own fields of each type of event.
LEMMA KindAndFields ==
  ASSUME NEW ev
  PROVE  /\ ev.type = "Stored" => KindOf(ev) = "store" /\ OwnFields(ev) = StoreFields(ev)
         /\ ev.type = "Removed" => KindOf(ev) = "evict" /\ OwnFields(ev) = EvictFields(ev)
         /\ ev.type = "Cleared" => KindOf(ev) = "clear" /\ OwnFields(ev) = ClearFields(ev)
         /\ ev.type = "HolderReset" =>
              KindOf(ev) = "holder_reset" /\ OwnFields(ev) = ResetFields(ev)
<1>1. /\ ev.type = "Stored" => KindOf(ev) = "store"
      /\ ev.type = "Removed" => KindOf(ev) = "evict"
      /\ ev.type = "Cleared" => KindOf(ev) = "clear"
      /\ ev.type = "HolderReset" => KindOf(ev) = "holder_reset"
  BY DEF KindOf
<1>2. /\ ev.type = "Stored" => OwnFields(ev) = StoreFields(ev)
      /\ ev.type = "Removed" => OwnFields(ev) = EvictFields(ev)
      /\ ev.type = "Cleared" => OwnFields(ev) = ClearFields(ev)
      /\ ev.type = "HolderReset" => OwnFields(ev) = ResetFields(ev)
  BY DEF OwnFields
<1>3. QED
  BY <1>1, <1>2

\* What each of the producer's kinds requires.
LEMMA OwnRequired ==
  /\ Defs["store"].required = {"kind", "at_ms", "instance_id", "block_id", "n_tokens", "tier"}
  /\ Defs["evict"].required = {"kind", "at_ms", "instance_id", "block_id"}
  /\ Defs["clear"].required = {"kind", "at_ms", "instance_id", "scope"}
  /\ Defs["holder_reset"].required = {"kind", "at_ms", "instance_id", "boundary_ms"}
  /\ \A kind \in {"evict", "clear", "holder_reset"} : ~Uses(Defs[kind], "allOf")
  /\ \A kind \in {"store", "evict", "clear", "holder_reset"} :
       "note" \notin DOMAIN Defs[kind].properties
<1>1. /\ Defs["store"].required =
           {"kind", "at_ms", "instance_id", "block_id", "n_tokens", "tier"}
      /\ "note" \notin DOMAIN Defs["store"].properties
  BY DEF Defs, Definition, ++
<1>2. /\ Defs["evict"].required = {"kind", "at_ms", "instance_id", "block_id"}
      /\ ~Uses(Defs["evict"], "allOf") /\ "note" \notin DOMAIN Defs["evict"].properties
  BY DEF Defs, Definition, ++, Uses
<1>3. /\ Defs["clear"].required = {"kind", "at_ms", "instance_id", "scope"}
      /\ ~Uses(Defs["clear"], "allOf") /\ "note" \notin DOMAIN Defs["clear"].properties
  BY DEF Defs, Definition, ++, Uses
<1>4. /\ Defs["holder_reset"].required = {"kind", "at_ms", "instance_id", "boundary_ms"}
      /\ ~Uses(Defs["holder_reset"], "allOf")
      /\ "note" \notin DOMAIN Defs["holder_reset"].properties
  BY DEF Defs, Definition, ++, Uses
<1>5. QED
  BY <1>1, <1>2, <1>3, <1>4

\* The own fields name the kind, meet its rules and complete what it requires.
LEMMA OwnParts ==
  ASSUME NEW ev, Event(ev)
  PROVE  /\ KindOf(ev) \in {"store", "evict", "clear", "holder_reset"}
         /\ "kind" \in DOMAIN OwnFields(ev) /\ OwnFields(ev)["kind"] = Str(KindOf(ev))
         /\ DOMAIN OwnFields(ev) \cap CommonNames = {}
         /\ FieldsMeet(OwnFields(ev), Defs[KindOf(ev)].properties)
         /\ Defs[KindOf(ev)].required \subseteq DOMAIN OwnFields(ev) \cup {"at_ms", "instance_id"}
<1>1. CASE ev.type = "Stored"
  <2>1. KindOf(ev) = "store" /\ OwnFields(ev) = StoreFields(ev)
    BY <1>1, KindAndFields
  <2>2. FieldsMeet(StoreFields(ev), Defs["store"].properties)
    BY <1>1, StoreMeets
  <2> DEFINE k == StoreFields(ev)
  <2>3. /\ {"kind", "block_id", "n_tokens", "tier"} \subseteq DOMAIN k
        /\ DOMAIN k \cap CommonNames = {} /\ k["kind"] = Str("store")
    BY StoreParts
  <2> HIDE DEF k
  <2>4. Defs["store"].required \subseteq DOMAIN k \cup {"at_ms", "instance_id"}
        /\ "kind" \in DOMAIN k
    BY OwnRequired, <2>3
  <2>5. OwnFields(ev) = k
    BY <2>1 DEF k
  <2>6. FieldsMeet(k, Defs["store"].properties)
    BY <2>2 DEF k
  <2>7. QED
    BY <2>1, <2>3, <2>4, <2>5, <2>6, Zenon
<1>2. CASE ev.type = "Removed"
  <2>1. KindOf(ev) = "evict" /\ OwnFields(ev) = EvictFields(ev)
    BY <1>2, KindAndFields
  <2> DEFINE k == EvictFields(ev)
  <2>2. FieldsMeet(k, Defs["evict"].properties)
    BY <1>2, EvictMeets
  <2>3. /\ {"kind", "block_id", "tier"} \subseteq DOMAIN k
        /\ DOMAIN k \cap CommonNames = {} /\ k["kind"] = Str("evict")
    BY EvictParts
  <2>5. OwnFields(ev) = k
    BY <2>1 DEF k
  <2> HIDE DEF k
  <2>4. Defs["evict"].required \subseteq DOMAIN k \cup {"at_ms", "instance_id"}
        /\ "kind" \in DOMAIN k
    BY OwnRequired, <2>3
  <2>7. QED
    BY <2>1, <2>2, <2>3, <2>4, <2>5, Zenon
<1>3. CASE ev.type = "Cleared"
  <2>1. KindOf(ev) = "clear" /\ OwnFields(ev) = ClearFields(ev)
    BY <1>3, KindAndFields
  <2> DEFINE k == ClearFields(ev)
  <2>2. FieldsMeet(k, Defs["clear"].properties)
    BY ScopeMeets
  <2>3. /\ {"kind", "scope"} \subseteq DOMAIN k /\ DOMAIN k \subseteq {"kind", "scope", "tier"}
        /\ k["kind"] = Str("clear")
    BY ClearParts
  <2>5. OwnFields(ev) = k
    BY <2>1 DEF k
  <2> HIDE DEF k
  <2>4. /\ Defs["clear"].required \subseteq DOMAIN k \cup {"at_ms", "instance_id"}
        /\ "kind" \in DOMAIN k /\ DOMAIN k \cap CommonNames = {}
    BY OwnRequired, <2>3 DEF CommonNames
  <2>7. QED
    BY <2>1, <2>2, <2>3, <2>4, <2>5, Zenon
<1>4. CASE ev.type = "HolderReset"
  <2>1. KindOf(ev) = "holder_reset" /\ OwnFields(ev) = ResetFields(ev)
    BY <1>4, KindAndFields
  <2> DEFINE k == ResetFields(ev)
  <2>2. FieldsMeet(k, Defs["holder_reset"].properties)
    BY <1>4, ScopeMeets
  <2>3. DOMAIN k = {"kind", "boundary_ms"} /\ k["kind"] = Str("holder_reset")
    BY ResetParts
  <2>5. OwnFields(ev) = k
    BY <2>1 DEF k
  <2> HIDE DEF k
  <2>4. /\ Defs["holder_reset"].required \subseteq DOMAIN k \cup {"at_ms", "instance_id"}
        /\ "kind" \in DOMAIN k /\ DOMAIN k \cap CommonNames = {}
    BY OwnRequired, <2>3 DEF CommonNames
  <2>7. QED
    BY <2>1, <2>2, <2>3, <2>4, <2>5, Zenon
<1>5. QED
  BY <1>1, <1>2, <1>3, <1>4 DEF Event

\* A record is the two parts, which share no field.
LEMMA RecordBody ==
  ASSUME NEW source, NEW ev, Event(ev)
  PROVE  LET b == Body(record(source, ev))
         IN /\ Tag(record(source, ev)) = "object" /\ record(source, ev) = Obj(b)
            /\ b = Common(source, ev) ++ OwnFields(ev)
            /\ DOMAIN b = DOMAIN Common(source, ev) \cup DOMAIN OwnFields(ev)
            /\ \A f \in DOMAIN Common(source, ev) : b[f] = Common(source, ev)[f]
            /\ \A f \in DOMAIN OwnFields(ev) : b[f] = OwnFields(ev)[f]
<1> DEFINE c == Common(source, ev)
           k == OwnFields(ev)
           b == c ++ k
<1>1. record(source, ev) = Obj(b)
  BY Zenon DEF record, Common, OwnFields
<1>2. DOMAIN c \subseteq CommonNames /\ DOMAIN k \cap CommonNames = {}
  BY CommonFields, OwnParts
<1> HIDE DEF c, k
<1>3. /\ DOMAIN b = DOMAIN c \cup DOMAIN k
      /\ \A f \in DOMAIN c : b[f] = c[f]
      /\ \A f \in DOMAIN k : b[f] = k[f]
  BY <1>2 DEF ++
<1> HIDE DEF b
<1>4. Tag(Obj(b)) = "object" /\ Body(Obj(b)) = b
  BY DEF Tag, Body, Obj
<1>5. QED
  BY <1>1, <1>3, <1>4, Zenon DEF b, c, k

\* The rule a store's parent keeps, of a record that does not have both fields.
LEMMA ParentRule ==
  ASSUME NEW v, Tag(v) = "object", ~(Has(v, "parent_unknown") /\ Has(v, "parent_id"))
  PROVE  \A i \in DOMAIN Defs["store"].allOf : check4(v, Defs["store"].allOf[i])
<1> DEFINE If == [properties |-> Maplet("parent_unknown", [const |-> Bool(TRUE)]),
                  required |-> {"parent_unknown"}]
           Named == [required |-> {"parent_id"}]
           Then == [not |-> Named]
           rule == When("parent_unknown", Bool(TRUE), Then)
<1>1. Defs["store"].allOf = <<rule>>
  BY DEF Defs, Definition, ++
<1>2. /\ \A k \in {"ref", "const", "type", "required", "properties", "items", "allOf", "not"} :
           ~Uses(rule, k)
      /\ Uses(rule, "if") /\ rule.if = If /\ rule.then = Then
  BY DEF When, Uses
<1>3. /\ ~Uses(If, "ref") /\ Uses(If, "required") /\ If.required = {"parent_unknown"}
      /\ \A k \in {"ref", "const", "type", "required", "properties", "items", "allOf", "if"} :
           ~Uses(Then, k)
      /\ Uses(Then, "not") /\ Then.not = Named
      /\ ~Uses(Named, "ref") /\ Uses(Named, "required") /\ Named.required = {"parent_id"}
  BY DEF Uses
<1>4. ~IsNumber(v) /\ Tag(v) # "array"
  BY DEF IsNumber
<1> HIDE DEF If, Named, Then
<1>5. ASSUME ~Has(v, "parent_unknown") PROVE ~check3(v, If)
  <2>1. check3(v, If) => \A f \in If.required : Has(v, f)
    BY <1>3, Zenon DEF check3, Meets
  <2>2. "parent_unknown" \in If.required
    BY <1>3
  <2>3. QED
    BY <1>5, <2>1, <2>2, Zenon
<1>6. ASSUME ~Has(v, "parent_id") PROVE check3(v, Then)
  <2>1. check2(v, Named) => \A f \in Named.required : Has(v, f)
    BY <1>3, Zenon DEF check2, Meets
  <2>2. ~check2(v, Named)
    <3>1. "parent_id" \in Named.required
      BY <1>3
    <3>2. QED
      BY <1>6, <2>1, <3>1, Zenon
  <2>3. InRange(v, Then)
    BY <1>4 DEF InRange
  <2>4. /\ ~Uses(Then, "ref") /\ ~Uses(Then, "const") /\ ~Uses(Then, "type")
        /\ ~Uses(Then, "items") /\ ~Uses(Then, "properties") /\ ~Uses(Then, "required")
        /\ ~Uses(Then, "allOf") /\ ~Uses(Then, "if")
    BY <1>3
  <2>5. QED
    BY <1>3, <1>4, <2>2, <2>3, <2>4, Zenon DEF check3, Meets
<1>7. check3(v, If) => check3(v, Then)
  BY <1>5, <1>6, Zenon
<1> HIDE DEF rule
<1>8. check4(v, rule)
  <2>1. InRange(v, rule)
    BY <1>4 DEF InRange
  <2>2. /\ ~Uses(rule, "ref") /\ ~Uses(rule, "const") /\ ~Uses(rule, "type")
        /\ ~Uses(rule, "required") /\ ~Uses(rule, "properties") /\ ~Uses(rule, "items")
        /\ ~Uses(rule, "allOf") /\ ~Uses(rule, "not")
    BY <1>2
  <2>3. QED
    BY <1>2, <1>4, <1>7, <2>1, <2>2, Zenon DEF check4, Meets
<1>9. QED
  BY <1>1, <1>8

\* An object with the fields a kind requires, each within its rule, is valid.
LEMMA FieldsAreEnough ==
  ASSUME NEW kind \in {"store", "evict", "clear", "holder_reset"},
         NEW v, Tag(v) = "object", Defs[kind].required \subseteq DOMAIN Body(v),
         \A f \in DOMAIN Defs[kind].properties \cap DOMAIN Body(v) :
           check4(Field(v, f), Defs[kind].properties[f]),
         kind = "store" => ~(Has(v, "parent_unknown") /\ Has(v, "parent_id"))
  PROVE  check(v, Defs[kind])
<1> DEFINE def == Defs[kind]
<1>1. kind \in RECORD_KINDS
  BY ProducerRules
<1>2. /\ Uses(def, "type") /\ def.type = {"object"} /\ Uses(def, "properties")
      /\ ~Uses(def, "ref") /\ ~Uses(def, "items") /\ ~Uses(def, "const")
      /\ Uses(def, "required") /\ ~Uses(def, "if") /\ ~Uses(def, "not")
  BY <1>1, Schema, Conditions DEF Structured
<1>3. Uses(def, "allOf") => kind = "store"
  BY OwnRequired
<1>4. ASSUME Uses(def, "allOf") PROVE \A i \in DOMAIN def.allOf : check4(v, def.allOf[i])
  BY <1>3, <1>4, ParentRule
<1>5. \A f \in def.required : Has(v, f)
  BY DEF Has
<1>6. \E type \in def.type : Accepts(type, v)
  BY <1>2 DEF Accepts
<1>7. InRange(v, def) /\ Tag(v) # "array"
  BY DEF InRange, IsNumber
<1>8. \A f \in DOMAIN def.properties \cap DOMAIN Body(v) :
        check4(Field(v, f), def.properties[f])
  OBVIOUS
<1> HIDE DEF def
<1>9. check(v, def)
  BY <1>2, <1>4, <1>5, <1>6, <1>7, <1>8, Zenon DEF check, Meets
<1>10. QED
  BY <1>9 DEF def

\* The fields of a producer's record of a kind.
Complete(kind, b) ==
  /\ kind \in {"store", "evict", "clear", "holder_reset"}
  /\ IsMap(b) /\ FieldsMeet(b, Defs[kind].properties)
  /\ Defs[kind].required \subseteq DOMAIN b /\ b["kind"] = Str(kind)
  /\ kind = "store" => ~("parent_unknown" \in DOMAIN b /\ "parent_id" \in DOMAIN b)

\* An object that has them, each in a form that is read as it, and others that
\* no version defines, decodes to them.
LEMMA FormIsRead ==
  ASSUME NEW kind, NEW b, Complete(kind, b),
         NEW w, Tag(w) = "object", DOMAIN Body(w) \cap DOMAIN Defs[kind].properties = DOMAIN b,
         \A f \in DOMAIN b : Reads(Field(w, f), b[f], Defs[kind].properties[f]),
         \A f \in DOMAIN Body(w) \ DOMAIN b : JsonField(Field(w, f))
  PROVE  /\ validate_producer_record(w) /\ Json(w) /\ Field(w, "kind") = Str(kind)
         /\ decode(w) # NoRecord /\ decode(w).fields = b
<1> DEFINE P == Defs[kind].properties
<1>1. kind \in {"store", "evict", "clear", "holder_reset"} /\ kind \in RECORD_KINDS
  BY ProducerRules DEF Complete
<1>2. IsMap(b) /\ DOMAIN b \subseteq DOMAIN P /\ Defs[kind].required \subseteq DOMAIN b
  BY DEF Complete, FieldsMeet
<1>3. \A f \in DOMAIN b : check4(Field(w, f), P[f]) /\ JsonField(Field(w, f))
                          /\ MadeField(Field(w, f), P[f]) = b[f]
  BY Zenon DEF Reads
<1>4. DOMAIN b \subseteq DOMAIN Body(w)
  BY <1>2
<1>5. check(w, Defs[kind])
  <2>1. Defs[kind].required \subseteq DOMAIN Body(w)
    BY <1>2, <1>4
  <2>2. \A f \in DOMAIN P \cap DOMAIN Body(w) : check4(Field(w, f), P[f])
    BY <1>3
  <2>3. ASSUME kind = "store"
        PROVE  ~("parent_unknown" \in DOMAIN Body(w) /\ "parent_id" \in DOMAIN Body(w))
    <3>1. {"parent_unknown", "parent_id"} \subseteq DOMAIN P
      BY <2>3, ProducerRules
    <3>2. ~("parent_unknown" \in DOMAIN b /\ "parent_id" \in DOMAIN b)
      BY <2>3 DEF Complete
    <3>3. QED
      BY <3>1, <3>2
  <2>4. kind = "store" => ~(Has(w, "parent_unknown") /\ Has(w, "parent_id"))
    BY <2>3 DEF Has
  <2> HIDE DEF P
  <2>5. QED
    BY <1>1, <2>1, <2>2, <2>4, FieldsAreEnough DEF P
<1>6. "kind" \in DOMAIN b /\ "at_ms" \in DOMAIN b /\ P["kind"] = Kind(kind) /\ P["at_ms"] = Clock
  BY <1>1, <1>2, Schema, ProducerRules, OwnRequired DEF RulesOf
<1>7. Field(w, "kind") = Str(kind)
  <2>1. check4(Field(w, "kind"), Kind(kind)) /\ Kind(kind) \in Plains
    BY <1>1, <1>3, <1>6 DEF Plains
  <2>2. Field(w, "kind") = Kind(kind).const /\ Uses(Kind(kind), "const")
    BY <2>1, PlainCheck DEF MeetsPlain, Kind, Uses
  <2>3. QED
    BY <2>2 DEF Kind
<1>8. IsNumber(Field(w, "at_ms"))
  <2>1. check4(Field(w, "at_ms"), Clock) /\ Clock \in Plains
    BY <1>3, <1>6 DEF Plains
  <2>2. QED
    BY <2>1, PlainCheck DEF MeetsPlain, Clock, Of, Accepts
<1>9. /\ Tag(Str(kind)) = "string" /\ Body(Str(kind)) = kind
      /\ Has(w, "kind") /\ Has(w, "at_ms")
  BY <1>4, <1>6 DEF Tag, Body, Str, Has
<1>10. kind # "identity_refused" /\ kind # "segments_dropped"
  BY <1>1
<1>11. validate_record(w)
  BY <1>5, <1>7, <1>8, <1>9, <1>10, Zenon DEF validate_record
<1>12. validate_producer_record(w)
  BY <1>1, <1>7, <1>9, <1>11, Zenon DEF validate_producer_record
<1>13. Json(w)
  BY <1>3 DEF Json
<1> DEFINE s == Structure(normalize_integers(w, Defs[kind]), Defs[kind])
<1>14. decode(w) = s
  BY <1>1, <1>7, <1>9, <1>11, Zenon DEF decode
<1>15. s # NoRecord /\ TypedRecord(s, Defs[kind]) /\ MadeFrom(s, w, Defs[kind], MadeField)
  BY <1>1, <1>5, <1>7, <1>13, KnownDecodes
<1> HIDE DEF s
<1>16. /\ DOMAIN s.fields = DOMAIN b /\ IsMap(s.fields)
       /\ \A f \in DOMAIN s.fields : s.fields[f] = MadeField(Field(w, f), P[f])
  BY <1>15, Zenon DEF MadeFrom, TypedRecord
<1>17. s.fields = b
  <2>1. \A f \in DOMAIN b : s.fields[f] = b[f]
    BY <1>3, <1>16
  <2>2. QED
    BY <1>2, <1>16, <2>1 DEF IsMap
<1>18. QED
  BY <1>7, <1>12, <1>13, <1>14, <1>15, <1>17

\* The record of an event has all its kind requires, and nothing it has no rule for.
LEMMA RecordIsComplete ==
  ASSUME NEW source, NEW ev, Event(ev)
  PROVE  Complete(KindOf(ev), Body(record(source, ev)))
<1> DEFINE v == record(source, ev)
           c == Common(source, ev)
           k == OwnFields(ev)
           kind == KindOf(ev)
           P == Defs[kind].properties
<1>1. /\ Tag(v) = "object" /\ Body(v) = c ++ k
      /\ DOMAIN Body(v) = DOMAIN c \cup DOMAIN k
      /\ \A f \in DOMAIN c : Body(v)[f] = c[f]
      /\ \A f \in DOMAIN k : Body(v)[f] = k[f]
  BY RecordBody, Zenon
<1>2. /\ kind \in {"store", "evict", "clear", "holder_reset"}
      /\ "kind" \in DOMAIN k /\ k["kind"] = Str(kind) /\ FieldsMeet(k, P)
      /\ Defs[kind].required \subseteq DOMAIN k \cup {"at_ms", "instance_id"}
  BY OwnParts, Zenon
<1>3. RulesOf(P) /\ kind \in RECORD_KINDS
  BY <1>2, ProducerRules
<1>4. FieldsMeet(c, P)
  BY <1>3, CommonMeet, Zenon DEF Common
<1>5. FieldsMeet(Body(v), P)
  <2>1. FieldsMeet(c ++ k, P)
    BY <1>2, <1>4, UnionMeets, Zenon
  <2>2. QED
    BY <1>1, <2>1, Zenon
<1>6. {"at_ms", "instance_id"} \subseteq DOMAIN c /\ DOMAIN c \subseteq CommonNames
  BY CommonFields
<1>7. kind = "store" => ~("parent_unknown" \in DOMAIN Body(v) /\ "parent_id" \in DOMAIN Body(v))
  <2> SUFFICES ASSUME kind = "store"
               PROVE  ~("parent_unknown" \in DOMAIN Body(v) /\ "parent_id" \in DOMAIN Body(v))
    OBVIOUS
  <2>1. ev.type = "Stored"
    BY KindAndFields DEF Event
  <2>2. k = StoreFields(ev)
    BY <2>1, KindAndFields
  <2>3. ~("parent_unknown" \in DOMAIN k /\ "parent_id" \in DOMAIN k)
    <3>1. CASE Get(ev, "parent_unknown", FALSE)
      BY <2>2, <3>1, StoreParts
    <3>2. CASE ~Get(ev, "parent_unknown", FALSE)
      BY <2>2, <3>2, StoreParts
    <3>3. QED
      BY <3>1, <3>2
  <2> HIDE DEF k, c, v
  <2>4. QED
    BY <1>1, <1>6, <2>3 DEF CommonNames
<1>8. IsMap(c ++ k)
  BY DEF IsMap, ++
<1> HIDE DEF v, c, k, kind
<1>9. Defs[kind].required \subseteq DOMAIN Body(v)
  BY <1>1, <1>2, <1>6
<1>10. Body(v)["kind"] = Str(kind)
  BY <1>1, <1>2
<1>11. IsMap(Body(v))
  BY <1>1, <1>8
<1>12. QED
  BY <1>2, <1>5, <1>7, <1>9, <1>10, <1>11, Zenon DEF Complete, v, kind

(***************************************************************************)
(* The record of any event a decoder derives is one a producer may write,  *)
(* and its typed form has exactly its fields: record() needs no check of   *)
(* its own, for any engine and any event.                                  *)
(***************************************************************************)
THEOREM RecordsAreValid ==
  ASSUME NEW source, NEW ev, Event(ev)
  PROVE  LET v == record(source, ev)
         IN /\ validate_producer_record(v) /\ Json(v) /\ Field(v, "kind") = Str(KindOf(ev))
            /\ decode(v) # NoRecord /\ decode(v).fields = Body(v)
<1> DEFINE v == record(source, ev)
           P == Defs[KindOf(ev)].properties
<1>1. Tag(v) = "object" /\ Complete(KindOf(ev), Body(v))
  BY RecordBody, RecordIsComplete
<1> HIDE DEF v
<1>2. \A f \in DOMAIN Body(v) : f \in DOMAIN P /\ Reads(Field(v, f), Body(v)[f], P[f])
  BY <1>1, Zenon DEF Complete, FieldsMeet, KeptField, Field
<1>3. QED
  BY <1>1, <1>2, FormIsRead DEF v

\* No field of a kind a producer writes is a list of structures.
LEMMA NoStructures ==
  ASSUME NEW kind \in {"store", "evict", "clear", "holder_reset"},
         NEW f \in DOMAIN Defs[kind].properties
  PROVE  Defs[kind].properties[f] # EndpointList
<1>1. kind \in RECORD_KINDS
  BY ProducerRules
<1>2. "endpoints" \notin DOMAIN Defs[kind].properties
  <2>1. "endpoints" \notin DOMAIN Defs["store"].properties
    BY DEF Defs, Definition, ++
  <2>2. "endpoints" \notin DOMAIN Defs["evict"].properties
    BY DEF Defs, Definition, ++
  <2>3. "endpoints" \notin DOMAIN Defs["clear"].properties
    BY DEF Defs, Definition, ++
  <2>4. "endpoints" \notin DOMAIN Defs["holder_reset"].properties
    BY DEF Defs, Definition, ++
  <2>5. QED
    BY <2>1, <2>2, <2>3, <2>4
<1>3. f # "endpoints"
  BY <1>2
<1>4. TypeByName(f) # "list<struct>"
  BY <1>3 DEF TypeByName
<1>5. ColumnType(Defs[kind].properties[f]) # "list<struct>"
  BY <1>1, <1>4, FieldColumn
<1>6. QED
  BY <1>5, RuleColumns

(***************************************************************************)
(* A record without a null is one the twin generator can encode, and reads *)
(* the same in every form it may take: with its integers written as floats *)
(* and a field of a later version, relayed by a program that decoded that, *)
(* and as a row.                                                           *)
(***************************************************************************)
THEOREM FormsAgree ==
  ASSUME NEW source, NEW ev, Event(ev),
         \A f \in DOMAIN Body(record(source, ev)) : Field(record(source, ev), f) # Null
  PROVE  /\ Columnar(record(source, ev))
         /\ \A form \in FormsOf(record(source, ev)) :
              /\ decode(form) # NoRecord
              /\ decode(form).fields = decode(record(source, ev)).fields
<1> DEFINE v == record(source, ev)
           kind == KindOf(ev)
           P == Defs[kind].properties
           w == Rewritten(v)
           s == decode(w)
<1>1. Complete(kind, Body(v))
  BY RecordIsComplete
<1>2. /\ validate_producer_record(v) /\ decode(v) # NoRecord /\ decode(v).fields = Body(v)
      /\ Json(v)
  BY RecordsAreValid
<1>3. \A f \in DOMAIN Body(v) : f \in DOMAIN P /\ KeptField(Body(v)[f], P[f])
  BY <1>1, Zenon DEF Complete, FieldsMeet
<1>4. kind \in RECORD_KINDS /\ "note" \notin DOMAIN P
  BY <1>1, ProducerRules, OwnRequired DEF Complete
<1> HIDE DEF v, P
<1>5. /\ Tag(w) = "object" /\ DOMAIN Body(w) = DOMAIN Body(v) \cup {"note"}
      /\ \A f \in DOMAIN Body(v) : Field(w, f) = AsFloat(Body(v)[f])
      /\ Field(w, "note") = Str("later")
  <2> DEFINE n == Maplet("note", Str("later"))
             a == [f \in DOMAIN Body(v) |-> AsFloat(Field(v, f))]
             m == n ++ a
  <2>1. w = Obj(m)
    BY DEF Rewritten
  <2>2. DOMAIN n = {"note"} /\ n["note"] = Str("later")
    BY DEF Maplet
  <2>3. DOMAIN a = DOMAIN Body(v) /\ \A f \in DOMAIN Body(v) : a[f] = AsFloat(Body(v)[f])
    BY DEF Field
  <2>4. "note" \notin DOMAIN Body(v)
    BY <1>3, <1>4
  <2> HIDE DEF n, a
  <2>5. /\ DOMAIN m = DOMAIN Body(v) \cup {"note"} /\ m["note"] = Str("later")
        /\ \A f \in DOMAIN Body(v) : m[f] = AsFloat(Body(v)[f])
    BY <2>2, <2>3, <2>4 DEF ++
  <2> HIDE DEF m
  <2>6. Tag(Obj(m)) = "object" /\ Body(Obj(m)) = m /\ \A f : Field(Obj(m), f) = m[f]
    BY DEF Tag, Body, Field, Obj
  <2> HIDE DEF w
  <2>7. QED
    BY <2>1, <2>5, <2>6
<1>6. JsonField(Str("later"))
  BY ValuesAllowed
<1>7. /\ validate_producer_record(w) /\ Json(w) /\ Field(w, "kind") = Str(kind)
      /\ s # NoRecord /\ s.fields = Body(v)
  <2> HIDE DEF w, kind
  <2>1. DOMAIN Body(w) \cap DOMAIN P = DOMAIN Body(v)
    BY <1>3, <1>4, <1>5
  <2>2. \A f \in DOMAIN Body(v) : Reads(Field(w, f), Body(v)[f], P[f])
    BY <1>3, <1>5, Zenon DEF KeptField
  <2>3. \A f \in DOMAIN Body(w) \ DOMAIN Body(v) : JsonField(Field(w, f))
    BY <1>5, <1>6
  <2>4. QED
    BY <1>1, <1>5, <2>1, <2>2, <2>3, FormIsRead DEF P
<1> HIDE DEF w, kind
<1>8. decode(to_value(s)) = s
  <2>1. validate_record(w) /\ Body(Field(w, "kind")) = kind
    BY <1>7 DEF validate_producer_record, Body, Str
  <2>2. check(w, Defs[kind])
    BY <1>4, <2>1 DEF validate_record
  <2>3. s = Structure(normalize_integers(w, Defs[kind]), Defs[kind])
    BY <1>4, <2>1, Zenon DEF decode
  <2> HIDE DEF s
  <2>4. /\ TypedRecord(s, Defs[kind]) /\ "kind" \in DOMAIN s.fields
        /\ s.fields["kind"] = Str(kind)
    BY <1>4, <1>7, <2>2, <2>3, KnownDecodes
  <2>5. to_value(s) # Refused
    BY <1>7, <2>1, DecodedIsKept DEF s
  <2>6. QED
    BY <1>4, <2>4, <2>5, WrittenIsReadBack
<1>c. Columnar(v)
  <2>1. \A f \in DOMAIN Body(v) : Field(v, f) # Null
    BY DEF v
  <2>2. ASSUME NEW f \in DOMAIN Body(v) PROVE FitsColumn(Field(v, f), Column(f))
    <3>1. f \in DOMAIN P /\ FitsColumn(Field(v, f), ColumnType(P[f]))
      BY <1>3, <2>1 DEF KeptField, Field
    <3>2. Column(f) = ColumnType(P[f])
      BY <1>4, <3>1, FieldColumn DEF P
    <3>3. QED
      BY <3>1, <3>2
  <2>3. QED
    BY <1>2, <2>1, <2>2, Zenon DEF Columnar
<1>9. decode(FromRow(Row(v))) # NoRecord /\ decode(FromRow(Row(v))).fields = Body(v)
  <2> DEFINE cells == Row(v).cells
             there == decode(v)
  <2>1. DOMAIN Body(v) \ Columns = {}
    BY <1>3, <1>4, KindColumns DEF P
  <2>2. /\ decode(FromRow(Row(v))) # NoRecord
        /\ decode(FromRow(Row(v))).fields = Catalogued(there, Defs[Body(cells.kind)])
    BY <1>2, <1>c, <2>1, RowsKeepTheRecord
  <2>3. Body(cells.kind) = kind
    <3>1. cells.kind = Str(Body(Field(v, "kind")))
      BY <1>2, <1>c, RowIsValid
    <3>2. Field(v, "kind") = Str(kind)
      BY RecordsAreValid DEF v, kind
    <3>3. QED
      BY <3>1, <3>2 DEF Body, Str
  <2>4. IsMap(Body(v)) /\ there.fields = Body(v)
    BY <1>1, <1>2 DEF Complete
  <2>5. ASSUME NEW f \in DOMAIN there.fields PROVE ~IsNested(Defs[kind], f)
    <3>1. f \in DOMAIN P
      BY <1>3, <2>4
    <3>2. P[f] # EndpointList
      BY <1>1, <3>1, NoStructures DEF P, Complete
    <3>3. QED
      BY <1>4, <3>1, <3>2, NestedFields DEF P
  <2> HIDE DEF there, cells
  <2>6. Catalogued(there, Defs[kind]) = [f \in DOMAIN there.fields |-> there.fields[f]]
    BY <2>5 DEF Catalogued
  <2>7. QED
    BY <2>2, <2>3, <2>4, <2>6 DEF IsMap
<1>10. FormsOf(v) = {w, to_value(s), FromRow(Row(v))}
  BY DEF FormsOf, w, s
<1>11. QED
  <2> SUFFICES ASSUME NEW form \in {w, to_value(s), FromRow(Row(v))}
               PROVE  decode(form) # NoRecord /\ decode(form).fields = Body(v)
    BY <1>2, <1>c, <1>10 DEF v
  <2>1. QED
    BY <1>7, <1>8, <1>9 DEF s

-----------------------------------------------------------------------------
(***************************************************************************)
(* The hashes of a process.                                                *)
(***************************************************************************)
LEMMA Remainder ==
  ASSUME NEW M \in Nat \ {0}, NEW h \in Int
  PROVE  h = M * (h \div M) + (h % M) /\ h \div M \in Int /\ h % M \in 0 .. M - 1
OBVIOUS

\* Different multiples are a multiple apart.
LEMMA Multiples ==
  ASSUME NEW M \in Nat \ {0}, NEW a \in Int, NEW b \in Int, a > b
  PROVE  M * a >= M * b + M
<1>1. PICK k \in Nat : a = b + 1 + k
  <2> WITNESS a - b - 1 \in Nat
  <2> QED
    OBVIOUS
<1>2. M * a = M * b + M + M * k
  BY <1>1
<1>3. M * k >= 0
  OBVIOUS
<1>4. QED
  BY <1>2, <1>3

\* A shift keeps remainders apart.
LEMMA SameRemainder ==
  ASSUME NEW M \in Nat \ {0}, NEW c \in Int, NEW i \in 0 .. M - 1, NEW j \in 0 .. M - 1,
         (i + c) % M = (j + c) % M
  PROVE  i = j
<1> DEFINE p == (i + c) \div M
           q == (j + c) \div M
<1>1. /\ p \in Int /\ q \in Int
      /\ i + c = M * p + ((i + c) % M) /\ j + c = M * q + ((j + c) % M)
      /\ (i + c) % M \in Int /\ (j + c) % M \in Int
  BY Remainder
<1> HIDE DEF p, q
<1>2. M * p \in Int /\ M * q \in Int
  BY <1>1
<1>3. i - j = M * p - M * q
  BY <1>1, <1>2
<1>4. ~(p > q) /\ ~(q > p)
  BY <1>1, <1>2, <1>3, Multiples
<1>5. p = q
  BY <1>1, <1>4
<1>6. M * p = M * q
  BY <1>5
<1>7. QED
  BY <1>2, <1>3, <1>6

\* What an engine may cache: its texts, and the prefixes of them.
Cached(e) == Texts(e) \cup {<<Salted>>}

\* A process tells the texts apart, and the bits of a signed name are the hash.
LEMMA Hashes ==
  ASSUME NEW e \in Engines, boot[e] \in Int
  PROVE  /\ \A text : Hash(e, text) \in 0 .. HashSpace - 1
         /\ \A text : unsigned(OnWire(e, text)) = Hash(e, text)
         /\ \A text : e = "vllm" => OnWire(e, text) = Hash(e, text)
         /\ \A a, b \in Cached(e) : Hash(e, a) = Hash(e, b) => a = b
<1>0. HashSpace \in Nat \ {0} /\ HashSpace >= 4
  BY HashAssumption
<1>1. \A text : Index(e, text) \in 0 .. 3
  BY DEF Index
<1>2. \A text : Hash(e, text) \in 0 .. HashSpace - 1
  <2> TAKE text
  <2>1. Index(e, text) + (HashSpace - 2) + boot[e] \in Int
    BY <1>0, <1>1
  <2>2. QED
    BY <1>0, <2>1, Remainder DEF Hash
<1>3. \A text : unsigned(OnWire(e, text)) = Hash(e, text)
  <2> TAKE text
  <2> DEFINE h == Hash(e, text)
  <2>1. h \in 0 .. HashSpace - 1
    BY <1>2
  <2>2. h % HashSpace = h /\ (h - HashSpace) % HashSpace = h
    <3> HIDE DEF h
    <3> QED
      BY <1>0, <2>1
  <2>3. OnWire(e, text) = h \/ OnWire(e, text) = h - HashSpace
    BY Zenon DEF OnWire
  <2>4. QED
    BY <2>2, <2>3 DEF unsigned
<1>4. \A text : e = "vllm" => OnWire(e, text) = Hash(e, text)
  BY DEF OnWire
<1>5. ASSUME NEW a \in Cached(e), NEW b \in Cached(e), Hash(e, a) = Hash(e, b)
      PROVE  a = b
  <2>1. Index(e, a) = Index(e, b)
    <3> DEFINE c == (HashSpace - 2) + boot[e]
               i == Index(e, a)
               j == Index(e, b)
    <3>1. /\ i \in 0 .. 3 /\ j \in 0 .. 3
          /\ i \in 0 .. HashSpace - 1 /\ j \in 0 .. HashSpace - 1
      BY <1>0, <1>1
    <3>2. (i + (HashSpace - 2) + boot[e]) % HashSpace = (j + (HashSpace - 2) + boot[e]) % HashSpace
      BY <1>5 DEF Hash
    <3> HIDE DEF i, j
    <3>3. c \in Int /\ i + (HashSpace - 2) + boot[e] = i + c /\ j + (HashSpace - 2) + boot[e] = j + c
      BY <1>0, <3>1
    <3> HIDE DEF c
    <3>4. (i + c) % HashSpace = (j + c) % HashSpace
      BY <3>2, <3>3
    <3>5. i = j
      BY <1>0, <3>1, <3>3, <3>4, SameRemainder
    <3>6. QED
      BY <3>5 DEF i, j
  <2>2. \A t \in Cached(e) : \/ t = <<A>> \/ t = <<Salted>> \/ t = <<Salted, B>>
                            \/ t = (IF e = "vllm" THEN <<A, Keyed>> ELSE <<Bigram>>)
    BY DEF Cached, Texts
  <2>3. \A t : /\ Index(e, t) = 0 => t = <<A>>
               /\ Index(e, t) = 1 => t = <<Salted>>
               /\ Index(e, t) = 2 => t = <<Salted, B>>
               /\ Index(e, t) = 3 => t # <<A>> /\ t # <<Salted>> /\ t # <<Salted, B>>
    <3> HIDE DEF A, Salted, B
    <3> QED
      BY DEF Index
  <2>4. QED
    <3> HIDE DEF A, Salted, B, Keyed, Bigram
    <3> QED
      BY <1>1, <2>1, <2>2, <2>3
<1>6. QED
  BY <1>2, <1>3, <1>4, <1>5

-----------------------------------------------------------------------------
(***************************************************************************)
(* The reader takes the records of a message one by one.                   *)
(***************************************************************************)

\* A fold from the left is a run through the sequence.
LEMMA MaxOf ==
  ASSUME NEW n \in Nat, NEW s \in SUBSET (1 .. n + 1), n + 1 \in s
  PROVE  Max(s) = n + 1
<1> DEFINE m == Max(s)
<1>1. \E x \in s : \A y \in s : x >= y
  OBVIOUS
<1>2. m \in s /\ \A y \in s : m >= y
  BY <1>1 DEF Max
<1> HIDE DEF m
<1>3. m = n + 1
  <2>1. m >= n + 1 /\ m \in 1 .. n + 1
    BY <1>2
  <2>2. QED
    BY <2>1
<1>4. QED
  BY <1>3 DEF m

\* The fold's own function, on every set of the first numbers.
Folds(it, base, seq, n) ==
  it = [s \in SUBSET (1 .. n) |->
          IF s = {} THEN base ELSE Ingest(it[s \ {Max(s)}], seq[Max(s)])]

\* A fold over some elements is extended by one more.
LEMMA FoldsAgain ==
  ASSUME NEW base, NEW seq, NEW n \in Nat, NEW it, Folds(it, base, seq, n)
  PROVE  \E jt : Folds(jt, base, seq, n + 1)
<1> DEFINE jt == [s \in SUBSET (1 .. n + 1) |->
                    IF n + 1 \in s THEN Ingest(it[s \ {n + 1}], seq[n + 1]) ELSE it[s]]
           Value(s) == IF s = {} THEN base ELSE Ingest(jt[s \ {Max(s)}], seq[Max(s)])
<1>1. ASSUME NEW s \in SUBSET (1 .. n + 1), n + 1 \in s PROVE jt[s] = Value(s)
  <2>1. Max(s) = n + 1 /\ s # {}
    BY <1>1, MaxOf
  <2>2. s \ {n + 1} \in SUBSET (1 .. n + 1) /\ n + 1 \notin s \ {n + 1}
    OBVIOUS
  <2>3. jt[s] = Ingest(it[s \ {n + 1}], seq[n + 1]) /\ jt[s \ {n + 1}] = it[s \ {n + 1}]
    BY <1>1, <2>2
  <2> HIDE DEF jt
  <2>4. QED
    BY <2>1, <2>3
<1>2. ASSUME NEW s \in SUBSET (1 .. n + 1), n + 1 \notin s PROVE jt[s] = Value(s)
  <2>1. s \in SUBSET (1 .. n)
    BY <1>2
  <2>2. it[s] = IF s = {} THEN base ELSE Ingest(it[s \ {Max(s)}], seq[Max(s)])
    BY <2>1, Zenon DEF Folds
  <2>3. s \ {Max(s)} \in SUBSET (1 .. n + 1) /\ n + 1 \notin s \ {Max(s)}
    BY <1>2
  <2>4. jt[s] = it[s] /\ jt[s \ {Max(s)}] = it[s \ {Max(s)}]
    BY <1>2, <2>3
  <2> HIDE DEF jt
  <2>5. QED
    BY <2>2, <2>4
<1>3. \A s \in SUBSET (1 .. n + 1) : jt[s] = Value(s)
  BY <1>1, <1>2
<1>4. jt = [s \in SUBSET (1 .. n + 1) |-> jt[s]]
  OBVIOUS
<1> HIDE DEF jt
<1>5. Folds(jt, base, seq, n + 1)
  BY <1>3, <1>4, Zenon DEF Folds
<1>6. QED
  BY <1>5

\* Induction over the naturals, in a form that takes no operator: what holds of
\* the first number and of the next after each it holds of, up to a limit, holds
\* of all up to there.  The fact is the set it holds on.
LEMMA UpTo ==
  ASSUME NEW lo \in Nat, NEW hi \in Nat, NEW Reached,
         lo \in Reached,
         \A k \in lo .. hi : k < hi /\ k \in Reached => k + 1 \in Reached
  PROVE  \A k \in lo .. hi : k \in Reached
<1> DEFINE Fails == {k \in Nat : k \in lo .. hi /\ k \notin Reached}
<1> SUFFICES ASSUME Fails # {} PROVE FALSE
  OBVIOUS
<1>1. PICK x \in Fails : \A y \in Fails : <<y, x>> \notin OpToRel(<, Nat)
  BY WFMin, NatLessThanWellFounded, Zenon
<1>2. /\ x \in lo .. hi /\ x \notin Reached /\ x # lo
      /\ x - 1 \in lo .. hi /\ x - 1 < hi /\ x - 1 \in Nat /\ (x - 1) + 1 = x /\ x \in Nat
  OBVIOUS
<1>3. x - 1 < x
  BY <1>2
<1>4. <<x - 1, x>> \in OpToRel(<, Nat)
  BY <1>2, <1>3, Zenon DEF OpToRel
<1>5. x - 1 \in Reached
  BY <1>1, <1>2, <1>4
<1>6. QED
  BY <1>2, <1>5

\* A fold over any number of elements exists.
LEMMA FoldExists ==
  ASSUME NEW base, NEW seq, NEW m \in Nat
  PROVE  \E it : Folds(it, base, seq, m)
<1> DEFINE Done == {k \in Nat : \E it : Folds(it, base, seq, k)}
<1>1. 0 \in Done
  <2> DEFINE it == [s \in SUBSET (1 .. 0) |-> base]
             jt == [s \in SUBSET (1 .. 0) |->
                      IF s = {} THEN base ELSE Ingest(it[s \ {Max(s)}], seq[Max(s)])]
  <2>1. \A s \in SUBSET (1 .. 0) : s = {}
    OBVIOUS
  <2>2. it = jt
    BY <2>1
  <2>3. Folds(it, base, seq, 0)
    BY <2>2, Zenon DEF Folds
  <2> HIDE DEF it
  <2>4. QED
    BY <2>3
<1>2. ASSUME NEW k \in Nat, k \in Done PROVE k + 1 \in Done
  BY <1>2, FoldsAgain
<1>3. \A k \in 0 .. m : k < m /\ k \in Done => k + 1 \in Done
  BY <1>2
<1> HIDE DEF Done
<1>4. \A k \in 0 .. m : k \in Done
  <2>1. 0 \in Nat
    OBVIOUS
  <2>2. QED
    BY <1>1, <1>3, <2>1, UpTo
<1>5. QED
  BY <1>4 DEF Done

\* What the reader holds after these records.
Taken(entries, typed) == FoldLeft(Ingest, entries, typed)

\* What it holds after each of them.
StepByStep(h, base, seq, m) ==
  h[0] = base /\ \A i \in 1 .. m : h[i] = Ingest(h[i - 1], seq[i])

\* What the reader takes in is a run of single steps.
LEMMA FoldRuns ==
  ASSUME NEW base, NEW seq, NEW m \in Nat, DOMAIN seq = 1 .. m
  PROVE  \E h : StepByStep(h, base, seq, m) /\ Taken(base, seq) = h[m]
<1> DEFINE it == CHOOSE it : Folds(it, base, seq, m)
           h == [i \in 0 .. m |-> it[1 .. i]]
<1>1. Folds(it, base, seq, m)
  BY FoldExists, Zenon
<1>2. Taken(base, seq) = it[1 .. m]
  BY Zenon DEF Taken, FoldLeft, MapThenFoldSet, Folds
<1> HIDE DEF it
<1>3. \A s \in SUBSET (1 .. m) :
        it[s] = IF s = {} THEN base ELSE Ingest(it[s \ {Max(s)}], seq[Max(s)])
  BY <1>1, Zenon DEF Folds
<1>4. h[0] = base
  <2>1. 1 .. 0 = {} /\ 1 .. 0 \in SUBSET (1 .. m) /\ 0 \in 0 .. m
    OBVIOUS
  <2>2. it[1 .. 0] = base
    BY <1>3, <2>1
  <2>3. QED
    BY <2>1, <2>2
<1>5. ASSUME NEW i \in 1 .. m PROVE h[i] = Ingest(h[i - 1], seq[i])
  <2>1. Max(1 .. i) = i
    <3>1. i - 1 \in Nat /\ (i - 1) + 1 = i /\ i \in 1 .. i
      OBVIOUS
    <3>2. QED
      BY <3>1, MaxOf
  <2>2. 1 .. i \in SUBSET (1 .. m) /\ 1 .. i # {} /\ (1 .. i) \ {i} = 1 .. (i - 1)
    <3>1. 1 .. i \in SUBSET (1 .. m) /\ i \in 1 .. i
      OBVIOUS
    <3>2. \A k \in Int : k \in (1 .. i) \ {i} <=> k \in 1 .. (i - 1)
      OBVIOUS
    <3>3. (1 .. i) \ {i} = 1 .. (i - 1)
      BY <3>2
    <3>4. QED
      BY <3>1, <3>3
  <2>3. it[1 .. i] = Ingest(it[1 .. (i - 1)], seq[i])
    BY <1>3, <2>1, <2>2
  <2>4. h[i] = it[1 .. i] /\ h[i - 1] = it[1 .. (i - 1)]
    OBVIOUS
  <2>5. QED
    BY <2>3, <2>4
<1>6. h[m] = it[1 .. m]
  OBVIOUS
<1> HIDE DEF h
<1>7. QED
  BY <1>2, <1>4, <1>5, <1>6 DEF StepByStep

\* What the reader keeps where a reset comes first, and where it does not.
Left(r, who, entries) == IF r = 1 THEN {x \in entries : x[1] # who} ELSE entries
IsReset(r, who, typed) ==
  r = 1 => \A s : Ingest(s, typed[1]) = {x \in s : x[1] # who}

\* A message is a reset or not, and then stores, evictions, or one clear.
Outcomes(from, after, typed, r, m, E) ==
  /\ (\A i \in r + 1 .. m : \A s : Ingest(s, typed[i]) = s \cup {E[i]}) =>
       after = from \cup {E[i] : i \in r + 1 .. m}
  /\ (\A i \in r + 1 .. m : \A s : Ingest(s, typed[i]) = s \ {E[i]}) =>
       after = from \ {E[i] : i \in r + 1 .. m}
  /\ m = r => after = from
  /\ m = r + 1 => after = Ingest(from, typed[m])

\* What a message's records leave of what the reader held.
LEMMA Batches ==
  ASSUME NEW base, NEW typed, NEW m \in Nat, DOMAIN typed = 1 .. m,
         NEW r \in 0 .. m, r \in {0, 1}, NEW who, IsReset(r, who, typed), NEW E
  PROVE  Outcomes(Left(r, who, base), Taken(base, typed), typed, r, m, E)
<1> DEFINE from == Left(r, who, base)
           after == Taken(base, typed)
<1>1. PICK h : StepByStep(h, base, typed, m) /\ Taken(base, typed) = h[m]
  BY FoldRuns, Zenon
<1>2. /\ h[0] = base /\ after = h[m]
      /\ \A i \in 1 .. m : h[i] = Ingest(h[i - 1], typed[i])
  BY <1>1 DEF StepByStep
<1>3. h[r] = from
  <2>1. CASE r = 1
    <3>1. r = 1 /\ 1 \in 1 .. m
      BY <2>1
    <3>2. h[1] = Ingest(h[1 - 1], typed[1])
      BY <1>2, <3>1
    <3>3. h[1] = Ingest(base, typed[1])
      BY <1>2, <3>2
    <3>4. \A s : Ingest(s, typed[1]) = {x \in s : x[1] # who}
      BY <2>1, Zenon DEF IsReset
    <3>5. h[1] = {x \in base : x[1] # who}
      BY <3>3, <3>4, Zenon
    <3>6. QED
      BY <2>1, <3>1, <3>5 DEF Left
  <2>2. CASE r # 1
    BY <1>2, <2>2 DEF Left
  <2>3. QED
    BY <2>1, <2>2
<1> HIDE DEF from, after
<1>4. ASSUME \A i \in r + 1 .. m : \A s : Ingest(s, typed[i]) = s \cup {E[i]}
      PROVE  after = from \cup {E[i] : i \in r + 1 .. m}
  <2> DEFINE Done == {k \in Nat : h[k] = from \cup {E[i] : i \in r + 1 .. k}}
  <2>1. r \in Done
    <3>1. {E[i] : i \in r + 1 .. r} = {}
      OBVIOUS
    <3>2. QED
      BY <1>3, <3>1
  <2>2. ASSUME NEW k \in r .. m, k < m, k \in Done PROVE k + 1 \in Done
    <3>1. k + 1 \in r + 1 .. m /\ k + 1 \in 1 .. m /\ (k + 1) - 1 = k
      BY <2>2
    <3>2. h[k + 1] = Ingest(h[k], typed[k + 1])
      BY <1>2, <3>1
    <3>3. h[k + 1] = h[k] \cup {E[k + 1]}
      BY <1>4, <3>1, <3>2
    <3>4. {E[i] : i \in r + 1 .. k + 1} = {E[i] : i \in r + 1 .. k} \cup {E[k + 1]}
      <4>1. \A i \in Int : i \in r + 1 .. k + 1 <=> i \in r + 1 .. k \/ i = k + 1
        BY <3>1
      <4>2. r + 1 .. k + 1 = (r + 1 .. k) \cup {k + 1}
        BY <4>1, <3>1
      <4>3. QED
        BY <4>2
    <3>5. QED
      BY <2>2, <3>3, <3>4
  <2> HIDE DEF Done
  <2>3. m \in Done
    <3>1. r \in Nat /\ m \in r .. m
      OBVIOUS
    <3>2. \A k \in r .. m : k < m /\ k \in Done => k + 1 \in Done
      BY <2>2
    <3>3. \A k \in r .. m : k \in Done
      BY <2>1, <3>1, <3>2, UpTo
    <3>4. QED
      BY <3>1, <3>3
  <2>4. QED
    BY <1>2, <2>3 DEF Done
<1>5. ASSUME \A i \in r + 1 .. m : \A s : Ingest(s, typed[i]) = s \ {E[i]}
      PROVE  after = from \ {E[i] : i \in r + 1 .. m}
  <2> DEFINE Done == {k \in Nat : h[k] = from \ {E[i] : i \in r + 1 .. k}}
  <2>1. r \in Done
    <3>1. {E[i] : i \in r + 1 .. r} = {}
      OBVIOUS
    <3>2. QED
      BY <1>3, <3>1
  <2>2. ASSUME NEW k \in r .. m, k < m, k \in Done PROVE k + 1 \in Done
    <3>1. k + 1 \in r + 1 .. m /\ k + 1 \in 1 .. m /\ (k + 1) - 1 = k
      BY <2>2
    <3>2. h[k + 1] = Ingest(h[k], typed[k + 1])
      BY <1>2, <3>1
    <3>3. h[k + 1] = h[k] \ {E[k + 1]}
      BY <1>5, <3>1, <3>2
    <3>4. {E[i] : i \in r + 1 .. k + 1} = {E[i] : i \in r + 1 .. k} \cup {E[k + 1]}
      <4>1. \A i \in Int : i \in r + 1 .. k + 1 <=> i \in r + 1 .. k \/ i = k + 1
        BY <3>1
      <4>2. r + 1 .. k + 1 = (r + 1 .. k) \cup {k + 1}
        BY <4>1, <3>1
      <4>3. QED
        BY <4>2
    <3>5. QED
      BY <2>2, <3>3, <3>4
  <2> HIDE DEF Done
  <2>3. m \in Done
    <3>1. r \in Nat /\ m \in r .. m
      OBVIOUS
    <3>2. \A k \in r .. m : k < m /\ k \in Done => k + 1 \in Done
      BY <2>2
    <3>3. \A k \in r .. m : k \in Done
      BY <2>1, <3>1, <3>2, UpTo
    <3>4. QED
      BY <3>1, <3>3
  <2>4. QED
    BY <1>2, <2>3 DEF Done
<1>6. m = r => after = from
  BY <1>2, <1>3
<1>7. ASSUME m = r + 1 PROVE after = Ingest(from, typed[m])
  <2>1. m \in 1 .. m /\ m - 1 = r
    BY <1>7
  <2>2. QED
    BY <1>2, <1>3, <2>1
<1>8. Outcomes(from, after, typed, r, m, E)
  BY <1>4, <1>5, <1>6, <1>7, Zenon DEF Outcomes
<1>9. QED
  BY <1>8 DEF from, after

-----------------------------------------------------------------------------
(***************************************************************************)
(* What the record of an event does to what the reader holds.              *)
(***************************************************************************)

\* The block of a store or an eviction.
Block(source, ev) ==
  <<Str(source), Integer(Get(ev, "dp_rank", 0)), Integer(Get(ev, "group_idx", 0)),
    Str(ev.block_hash), Str(ev.medium)>>

\* The record of a store adds its block, that of an eviction removes it.
LEMMA BlockTaken ==
  ASSUME NEW source, NEW ev, Event(ev), ev.type \in {"Stored", "Removed"},
         Carries(ev, "medium")
  PROVE  /\ ev.type = "Stored" =>
              \A s : Ingest(s, decode(record(source, ev))) = s \cup {Block(source, ev)}
         /\ ev.type = "Removed" =>
              \A s : Ingest(s, decode(record(source, ev))) = s \ {Block(source, ev)}
<1> DEFINE v == record(source, ev)
           t == decode(v)
           c == Common(source, ev)
           k == OwnFields(ev)
           b == Body(v)
<1>1. t # NoRecord /\ t.fields = b
  BY RecordsAreValid
<1>2. (\A f \in DOMAIN c : b[f] = c[f]) /\ (\A f \in DOMAIN k : b[f] = k[f])
  BY RecordBody, Zenon
<1>3. /\ {"instance_id", "dp_rank", "group_idx"} \subseteq DOMAIN c
      /\ c["instance_id"] = Str(source)
      /\ c["dp_rank"] = Integer(Get(ev, "dp_rank", 0))
      /\ c["group_idx"] = Integer(Get(ev, "group_idx", 0))
  BY CommonFields
<1>4. TierOf(ev) = Str(ev.medium)
  BY DEF TierOf
<1>5. /\ {"kind", "block_id", "tier"} \subseteq DOMAIN k
      /\ k["block_id"] = Str(ev.block_hash) /\ k["tier"] = Str(ev.medium)
      /\ ev.type = "Stored" => k["kind"] = Str("store")
      /\ ev.type = "Removed" => k["kind"] = Str("evict")
  <2>1. CASE ev.type = "Stored"
    <3>1. k = StoreFields(ev)
      BY <2>1, KindAndFields
    <3> HIDE DEF k
    <3>2. QED
      BY <1>4, <2>1, <3>1, StoreParts
  <2>2. CASE ev.type = "Removed"
    <3>1. k = EvictFields(ev)
      BY <2>2, KindAndFields
    <3> HIDE DEF k
    <3>2. QED
      BY <1>4, <2>2, <3>1, EvictParts
  <2>3. QED
    BY <2>1, <2>2
<1> HIDE DEF c, k, b, t, v
<1>6. EntryOf(b) = Block(source, ev)
  BY <1>2, <1>3, <1>5 DEF EntryOf, Block
<1>7. /\ ev.type = "Stored" => b.kind = Str("store")
      /\ ev.type = "Removed" => b.kind = Str("evict")
  BY <1>2, <1>5
<1>8. Str("store") # Str("evict")
  BY DEF Str
<1>9. ASSUME ev.type = "Stored", NEW s PROVE Ingest(s, t) = s \cup {Block(source, ev)}
  BY <1>1, <1>6, <1>7, <1>8, <1>9 DEF Ingest, Apply
<1>10. ASSUME ev.type = "Removed", NEW s PROVE Ingest(s, t) = s \ {Block(source, ev)}
  BY <1>1, <1>6, <1>7, <1>8, <1>10 DEF Ingest, Apply
<1>11. QED
  BY <1>9, <1>10 DEF t, v

\* What a clear or a reset covers.
Within(source, ev, entry) ==
  /\ entry[1] = Str(source)
  /\ Carries(ev, "dp_rank") => entry[2] = Integer(ev["dp_rank"])
  /\ Carries(ev, "group_idx") => entry[3] = Integer(ev["group_idx"])
  /\ ev.type = "Cleared" /\ Carries(ev, "medium") => entry[5] = Str(ev["medium"])

\* The record of a clear or a reset removes what it covers.
LEMMA ScopeTaken ==
  ASSUME NEW source, NEW ev, Event(ev), ev.type \in {"Cleared", "HolderReset"}
  PROVE  \A s : Ingest(s, decode(record(source, ev))) =
                  {entry \in s : ~Within(source, ev, entry)}
<1> DEFINE v == record(source, ev)
           t == decode(v)
           c == Common(source, ev)
           k == OwnFields(ev)
           b == Body(v)
<1>1. t # NoRecord /\ t.fields = b
  BY RecordsAreValid
<1>2. /\ DOMAIN b = DOMAIN c \cup DOMAIN k
      /\ (\A f \in DOMAIN c : b[f] = c[f]) /\ (\A f \in DOMAIN k : b[f] = k[f])
  BY RecordBody, Zenon
<1>3. /\ "instance_id" \in DOMAIN c /\ DOMAIN c \subseteq CommonNames
      /\ c["instance_id"] = Str(source)
      /\ \A f \in {"dp_rank", "group_idx"} :
           /\ f \in DOMAIN c <=> Carries(ev, f)
           /\ Carries(ev, f) => c[f] = Integer(ev[f])
  BY CommonFields
<1>4. /\ "kind" \in DOMAIN k /\ k["kind"] \notin {Str("store"), Str("evict")}
      /\ DOMAIN k \cap CommonNames = {}
      /\ "tier" \in DOMAIN k <=> ev.type = "Cleared" /\ Carries(ev, "medium")
      /\ ev.type = "Cleared" /\ Carries(ev, "medium") => k["tier"] = Str(ev["medium"])
  <2>0. \A x \in {"clear", "holder_reset"} : Str(x) \notin {Str("store"), Str("evict")}
    BY DEF Str
  <2>1. CASE ev.type = "Cleared"
    <3>1. k = ClearFields(ev)
      BY <2>1, KindAndFields
    <3> HIDE DEF k
    <3>2. k["kind"] = Str("clear")
      BY <3>1, ClearParts
    <3>3. k["kind"] \notin {Str("store"), Str("evict")}
      BY <2>0, <3>2
    <3>4. QED
      BY <2>1, <3>1, <3>3, ClearParts DEF CommonNames
  <2>2. CASE ev.type = "HolderReset"
    <3>1. k = ResetFields(ev)
      BY <2>2, KindAndFields
    <3> HIDE DEF k
    <3>2. k["kind"] = Str("holder_reset") /\ DOMAIN k = {"kind", "boundary_ms"}
      BY <3>1, ResetParts
    <3>3. k["kind"] \notin {Str("store"), Str("evict")}
      BY <2>0, <3>2
    <3>4. QED
      BY <2>2, <3>2, <3>3 DEF CommonNames
  <2>3. QED
    BY <2>1, <2>2
<1> HIDE DEF c, k, b, t, v
<1>5. /\ b.instance_id = Str(source) /\ b.kind # Str("store") /\ b.kind # Str("evict")
      /\ "dp_rank" \in DOMAIN b <=> Carries(ev, "dp_rank")
      /\ Carries(ev, "dp_rank") => b.dp_rank = Integer(ev["dp_rank"])
      /\ "group_idx" \in DOMAIN b <=> Carries(ev, "group_idx")
      /\ Carries(ev, "group_idx") => b.group_idx = Integer(ev["group_idx"])
      /\ "tier" \in DOMAIN b <=> ev.type = "Cleared" /\ Carries(ev, "medium")
      /\ ev.type = "Cleared" /\ Carries(ev, "medium") => b.tier = Str(ev["medium"])
  BY <1>2, <1>3, <1>4 DEF CommonNames
<1>6. \A entry : InScope(b, entry) <=> Within(source, ev, entry)
  BY <1>5 DEF InScope, Within
<1>7. ASSUME NEW s PROVE Ingest(s, t) = {entry \in s : ~Within(source, ev, entry)}
  <2>1. Ingest(s, t) = {entry \in s : ~InScope(b, entry)}
    BY <1>1, <1>5 DEF Ingest, Apply
  <2>2. QED
    BY <1>6, <2>1
<1>8. QED
  BY <1>7 DEF t, v

-----------------------------------------------------------------------------
\* No field of these is null.
NoNull(m) == \A f \in DOMAIN m : m[f] # Null

\* The values and unions of which no field is null.
LEMMA NotNull ==
  /\ \A x : /\ Str(x) # Null /\ Integer(x) # Null /\ Float(x) # Null
            /\ Bool(x) # Null /\ Arr(x) # Null
  /\ NoNull(<<>>)
  /\ \A m, n : NoNull(m) /\ NoNull(n) => NoNull(m ++ n)
  /\ \A f, x : x # Null => NoNull(Maplet(f, x))
<1>1. \A x : /\ Str(x) # Null /\ Integer(x) # Null /\ Float(x) # Null
             /\ Bool(x) # Null /\ Arr(x) # Null
  BY DEF Str, Integer, Float, Bool, Arr, Null
<1>2. NoNull(<<>>)
  BY SmallMaps DEF NoNull
<1>3. ASSUME NEW m, NEW n, NoNull(m), NoNull(n) PROVE NoNull(m ++ n)
  BY <1>3 DEF NoNull, ++
<1>4. ASSUME NEW f, NEW x, x # Null PROVE NoNull(Maplet(f, x))
  <2>1. DOMAIN Maplet(f, x) = {f} /\ Maplet(f, x)[f] = x
    BY SmallMaps
  <2>2. \A g \in DOMAIN Maplet(f, x) : g = f
    BY <2>1
  <2>3. QED
    BY <1>4, <2>1, <2>2, Zenon DEF NoNull
<1>5. QED
  BY <1>1, <1>2, <1>3, <1>4, Zenon

\* A field copied from the event is not null.
LEMMA SameNotNull ==
  ASSUME NEW ev, NEW f, NEW g
  PROVE  /\ NoNull(As(f, ev, g, Str)) /\ NoNull(As(f, ev, g, Integer))
         /\ NoNull(As(f, ev, g, Strings))
<1>1. Strings(ev[f]) # Null
  BY NotNull DEF Strings
<1>2. CASE Carries(ev, f)
  <2>1. /\ As(f, ev, g, Str) = Maplet(g, Str(ev[f]))
        /\ As(f, ev, g, Integer) = Maplet(g, Integer(ev[f]))
        /\ As(f, ev, g, Strings) = Maplet(g, Strings(ev[f]))
    BY <1>2 DEF As
  <2>2. QED
    BY <1>1, <2>1, NotNull
<1>3. CASE ~Carries(ev, f)
  <2>1. /\ As(f, ev, g, Str) = <<>> /\ As(f, ev, g, Integer) = <<>>
        /\ As(f, ev, g, Strings) = <<>>
    BY <1>3 DEF As
  <2>2. QED
    BY <2>1, NotNull
<1>4. QED
  BY <1>2, <1>3

\* A record of a block whose tier is known has no null.
LEMMA NoNulls ==
  ASSUME NEW source, NEW ev, Event(ev),
         ev.type \in {"Stored", "Removed"} => Carries(ev, "medium")
  PROVE  NoNull(Body(record(source, ev)))
<1>1. NoNull(Common(source, ev))
  <2> DEFINE own == [instance_id |-> Str(source), at_ms |-> Millis(ev.at_ms)]
             scope == ScopeOf(ev)
             r == As("dp_rank", ev, "dp_rank", Integer)
             g == As("group_idx", ev, "group_idx", Integer)
             q == As("seq", ev, "seq", Integer)
             dims == [dp_rank |-> Integer(Get(ev, "dp_rank", 0)),
                      group_idx |-> Integer(Get(ev, "group_idx", 0))]
  <2>1. NoNull(own)
    BY NotNull DEF NoNull, Millis
  <2>2. NoNull(dims)
    BY NotNull DEF NoNull
  <2>3. scope = r ++ g \/ scope = dims
    BY Zenon DEF ScopeOf, Same
  <2>4. NoNull(r) /\ NoNull(g) /\ NoNull(q)
    BY SameNotNull
  <2>5. Common(source, ev) = own ++ scope ++ q
    BY Zenon DEF Common, Same
  <2> HIDE DEF own, scope, r, g, q, dims
  <2>6. QED
    BY <2>1, <2>2, <2>3, <2>4, <2>5, NotNull
<1>2. NoNull(OwnFields(ev))
  <2>1. CASE ev.type = "Stored"
    <3> DEFINE own == [kind |-> Str("store"), block_id |-> Str(ev.block_hash),
                       n_tokens |-> Integer(ev.block_size), tier |-> TierOf(ev)]
               par == ParentOf(ev)
               x == As("extra_keys", ev, "extra_keys", Strings)
               l == As("lora_id", ev, "lora_id", Integer)
               n == As("lora_name", ev, "lora_name", Str)
               y == As("locality", ev, "locality", Str)
               i == As("content_id", ev, "content_id", Str)
    <3>1. TierOf(ev) # Null
      BY <2>1, NotNull DEF TierOf
    <3>2. NoNull(own)
      BY <3>1, NotNull DEF NoNull
    <3>3. NoNull(par)
      <4>1. NoNull(As("parent_hash", ev, "parent_id", Str))
        BY SameNotNull
      <4>2. NoNull([parent_unknown |-> Bool(TRUE)])
        <5> DEFINE z == Bool(TRUE)
        <5>1. z # Null
          BY NotNull
        <5> HIDE DEF z
        <5>2. NoNull([parent_unknown |-> z])
          BY <5>1 DEF NoNull
        <5>3. QED
          BY <5>2 DEF z
      <4>3. par = [parent_unknown |-> Bool(TRUE)] \/ par = As("parent_hash", ev, "parent_id", Str)
        BY Zenon DEF ParentOf
      <4> HIDE DEF par
      <4>4. QED
        BY <4>1, <4>2, <4>3, Zenon
    <3>4. NoNull(x) /\ NoNull(l) /\ NoNull(n) /\ NoNull(y) /\ NoNull(i)
      BY SameNotNull
    <3>5. OwnFields(ev) = own ++ par ++ x ++ l ++ n ++ y ++ i
      <4>1. OwnFields(ev) = StoreFields(ev)
        BY <2>1, KindAndFields
      <4>2. QED
        BY <4>1, Zenon DEF StoreFields, Same
    <3> HIDE DEF own, par, x, l, n, y, i
    <3>6. QED
      BY <3>2, <3>3, <3>4, <3>5, NotNull
  <2>2. CASE ev.type = "Removed"
    <3> DEFINE own == [kind |-> Str("evict"), block_id |-> Str(ev.block_hash),
                       tier |-> TierOf(ev)]
               y == As("locality", ev, "locality", Str)
               i == As("content_id", ev, "content_id", Str)
    <3>1. TierOf(ev) # Null
      BY <2>2, NotNull DEF TierOf
    <3>2. NoNull(own)
      BY <3>1, NotNull DEF NoNull
    <3>3. NoNull(y) /\ NoNull(i)
      BY SameNotNull
    <3>4. OwnFields(ev) = own ++ y ++ i
      <4>1. OwnFields(ev) = EvictFields(ev)
        BY <2>2, KindAndFields
      <4>2. QED
        BY <4>1, Zenon DEF EvictFields, Same
    <3> HIDE DEF own, y, i
    <3>5. QED
      BY <3>2, <3>3, <3>4, NotNull
  <2>3. CASE ev.type = "HolderReset"
    <3>1. OwnFields(ev) = ResetFields(ev)
      BY <2>3, KindAndFields
    <3>2. NoNull(ResetFields(ev))
      BY NotNull DEF NoNull, ResetFields, Millis
    <3>3. QED
      BY <3>1, <3>2
  <2>4. CASE ev.type = "Cleared"
    <3> DEFINE own == [kind |-> Str("clear"), scope |-> Str("all")]
               y == As("medium", ev, "tier", Str)
    <3>1. NoNull(own)
      BY NotNull DEF NoNull
    <3>2. NoNull(y)
      BY SameNotNull
    <3>3. OwnFields(ev) = own ++ y
      <4>1. OwnFields(ev) = ClearFields(ev)
        BY <2>4, KindAndFields
      <4>2. QED
        BY <4>1, Zenon DEF ClearFields
    <3> HIDE DEF own, y
    <3>4. QED
      BY <3>1, <3>2, <3>3, NotNull
  <2>5. QED
    BY <2>1, <2>2, <2>3, <2>4 DEF Event
<1>3. Body(record(source, ev)) = Common(source, ev) ++ OwnFields(ev)
  BY RecordBody, Zenon
<1>4. QED
  BY <1>1, <1>2, <1>3, NotNull

\* What a record says of a block's parent and content.
LEMMA RecordSays ==
  ASSUME NEW source, NEW ev, Event(ev)
  PROVE  LET v == record(source, ev)
         IN /\ Field(v, "instance_id") = Str(source)
            /\ Field(v, "kind") = Str("store") => ev.type = "Stored"
            /\ ~Carries(ev, "content_id") => ~Has(v, "content_id")
            /\ ev.type = "Stored" =>
                 /\ Has(v, "content_id") => Field(v, "content_id") = Str(ev["content_id"])
                 /\ Get(ev, "parent_unknown", FALSE) => Has(v, "parent_unknown") /\ ~Has(v, "parent_id")
                 /\ ~Get(ev, "parent_unknown", FALSE) =>
                      /\ ~Has(v, "parent_unknown")
                      /\ Has(v, "parent_id") <=> Carries(ev, "parent_hash")
                 /\ Has(v, "parent_id") => Field(v, "parent_id") = Str(ev["parent_hash"])
<1> DEFINE v == record(source, ev)
           c == Common(source, ev)
           k == OwnFields(ev)
           b == Body(v)
<1>1. /\ DOMAIN b = DOMAIN c \cup DOMAIN k
      /\ (\A f \in DOMAIN c : b[f] = c[f]) /\ (\A f \in DOMAIN k : b[f] = k[f])
  BY RecordBody, Zenon
<1>2. /\ "instance_id" \in DOMAIN c /\ c["instance_id"] = Str(source)
      /\ DOMAIN c \subseteq CommonNames
  BY CommonFields
<1>3. /\ KindOf(ev) = "store" <=> ev.type = "Stored"
      /\ "kind" \in DOMAIN k /\ k["kind"] = Str(KindOf(ev))
  BY OwnParts, KindAndFields DEF Event
<1>4. Str(KindOf(ev)) = Str("store") => KindOf(ev) = "store"
  BY DEF Str
<1>5. ~Carries(ev, "content_id") => "content_id" \notin DOMAIN k
  <2> SUFFICES ASSUME ~Carries(ev, "content_id") PROVE "content_id" \notin DOMAIN k
    OBVIOUS
  <2>1. CASE ev.type = "Stored"
    <3>1. k = StoreFields(ev)
      BY <2>1, KindAndFields
    <3> HIDE DEF k
    <3>2. QED
      BY <3>1, StoreParts
  <2>2. CASE ev.type = "Removed"
    <3>1. k = EvictFields(ev)
      BY <2>2, KindAndFields
    <3> DEFINE own == [kind |-> Str("evict"), block_id |-> Str(ev.block_hash),
                       tier |-> TierOf(ev)]
               y == Same("locality", ev, Str)
               i == Same("content_id", ev, Str)
    <3>2. DOMAIN y = {"locality"} \cap DOMAIN ev /\ DOMAIN i = {"content_id"} \cap DOMAIN ev
      BY SameFields
    <3>3. k = own ++ y ++ i
      BY <3>1, Zenon DEF EvictFields
    <3>4. DOMAIN own = {"kind", "block_id", "tier"}
      OBVIOUS
    <3> HIDE DEF k, own, y, i
    <3>5. DOMAIN k = DOMAIN own \cup DOMAIN y \cup DOMAIN i
      BY <3>3 DEF ++
    <3>6. QED
      BY <3>2, <3>4, <3>5 DEF Carries
  <2>3. CASE ev.type = "Cleared"
    <3>1. k = ClearFields(ev)
      BY <2>3, KindAndFields
    <3> HIDE DEF k
    <3>2. QED
      BY <3>1, ClearParts
  <2>4. CASE ev.type = "HolderReset"
    <3>1. k = ResetFields(ev)
      BY <2>4, KindAndFields
    <3> HIDE DEF k
    <3>2. QED
      BY <3>1, ResetParts
  <2>5. QED
    BY <2>1, <2>2, <2>3, <2>4 DEF Event
<1>6. ev.type = "Stored" =>
        /\ "content_id" \in DOMAIN k => k["content_id"] = Str(ev["content_id"])
        /\ Get(ev, "parent_unknown", FALSE) =>
             "parent_unknown" \in DOMAIN k /\ "parent_id" \notin DOMAIN k
        /\ ~Get(ev, "parent_unknown", FALSE) =>
             /\ "parent_unknown" \notin DOMAIN k
             /\ "parent_id" \in DOMAIN k <=> Carries(ev, "parent_hash")
        /\ "parent_id" \in DOMAIN k => k["parent_id"] = Str(ev["parent_hash"])
  <2> SUFFICES ASSUME ev.type = "Stored"
               PROVE
        /\ "content_id" \in DOMAIN k => k["content_id"] = Str(ev["content_id"])
        /\ Get(ev, "parent_unknown", FALSE) =>
             "parent_unknown" \in DOMAIN k /\ "parent_id" \notin DOMAIN k
        /\ ~Get(ev, "parent_unknown", FALSE) =>
             /\ "parent_unknown" \notin DOMAIN k
             /\ "parent_id" \in DOMAIN k <=> Carries(ev, "parent_hash")
        /\ "parent_id" \in DOMAIN k => k["parent_id"] = Str(ev["parent_hash"])
    BY Zenon
  <2>1. k = StoreFields(ev)
    BY KindAndFields
  <2> HIDE DEF k
  <2>2. QED
    BY <2>1, StoreParts, Zenon
<1> HIDE DEF c, k
<1>7. /\ \A f \in {"content_id", "parent_id", "parent_unknown"} : f \in DOMAIN b <=> f \in DOMAIN k
      /\ "instance_id" \in DOMAIN b /\ b["instance_id"] = Str(source) /\ b["kind"] = Str(KindOf(ev))
      /\ \A f \in DOMAIN k : b[f] = k[f]
  BY <1>1, <1>2, <1>3 DEF CommonNames
<1> HIDE DEF b
<1>8. \A f : (Has(v, f) <=> f \in DOMAIN b) /\ Field(v, f) = b[f]
  BY DEF Has, Field, b
<1> HIDE DEF v
<1>9. ev.type = "Stored" =>
        /\ Has(v, "content_id") => Field(v, "content_id") = Str(ev["content_id"])
        /\ Get(ev, "parent_unknown", FALSE) => Has(v, "parent_unknown") /\ ~Has(v, "parent_id")
        /\ ~Get(ev, "parent_unknown", FALSE) =>
             /\ ~Has(v, "parent_unknown")
             /\ Has(v, "parent_id") <=> Carries(ev, "parent_hash")
        /\ Has(v, "parent_id") => Field(v, "parent_id") = Str(ev["parent_hash"])
  <2>1. /\ (Has(v, "content_id") <=> "content_id" \in DOMAIN k)
        /\ (Has(v, "parent_id") <=> "parent_id" \in DOMAIN k)
        /\ (Has(v, "parent_unknown") <=> "parent_unknown" \in DOMAIN k)
        /\ Has(v, "content_id") => Field(v, "content_id") = k["content_id"]
        /\ Has(v, "parent_id") => Field(v, "parent_id") = k["parent_id"]
    BY <1>7, <1>8
  <2>2. QED
    BY <1>6, <2>1, Zenon
<1>10. /\ Field(v, "instance_id") = Str(source)
       /\ Field(v, "kind") = Str("store") => ev.type = "Stored"
       /\ ~Carries(ev, "content_id") => ~Has(v, "content_id")
  BY <1>3, <1>4, <1>5, <1>7, <1>8
<1>11. QED
  BY <1>9, <1>10, Zenon DEF v

-----------------------------------------------------------------------------
(***************************************************************************)
(* The events of a message.                                                *)
(***************************************************************************)
LEMMA Flatten ==
  ASSUME NEW seqs
  PROVE  /\ Len(seqs) = 1 => FlattenSeq(seqs) = seqs[1]
         /\ Len(seqs) = 2 => FlattenSeq(seqs) = seqs[1] \o seqs[2]
<1>1. ASSUME Len(seqs) = 1 PROVE FlattenSeq(seqs) = seqs[1]
  <2> DEFINE F(f) == [i \in 1 .. Len(seqs) |-> IF i = 1 THEN seqs[i] ELSE f[i - 1] \o seqs[i]]
             g == CHOOSE f : f = F(f)
  <2>1. \E f : f = F(f)
    <3> DEFINE h == [i \in 1 .. 1 |-> seqs[1]]
    <3>1. h = F(h)
      BY <1>1
    <3>2. QED
      BY <3>1
  <2>2. g = F(g)
    BY <2>1
  <2>0. Len(seqs) # 0
    BY <1>1
  <2>3. FlattenSeq(seqs) = g[1]
    BY <1>1, <2>0, Zenon DEF FlattenSeq
  <2> HIDE DEF g
  <2>4. QED
    BY <1>1, <2>2, <2>3
<1>2. ASSUME Len(seqs) = 2 PROVE FlattenSeq(seqs) = seqs[1] \o seqs[2]
  <2> DEFINE F(f) == [i \in 1 .. Len(seqs) |-> IF i = 1 THEN seqs[i] ELSE f[i - 1] \o seqs[i]]
             g == CHOOSE f : f = F(f)
  <2>1. \E f : f = F(f)
    <3> DEFINE h == [i \in 1 .. 2 |-> IF i = 1 THEN seqs[1] ELSE seqs[1] \o seqs[2]]
    <3>1. h = F(h)
      BY <1>2
    <3>2. QED
      BY <3>1
  <2>2. g = F(g)
    BY <2>1
  <2>0. Len(seqs) # 0
    BY <1>2
  <2>3. FlattenSeq(seqs) = g[2]
    BY <1>2, <2>0, Zenon DEF FlattenSeq
  <2> HIDE DEF g
  <2>4. QED
    BY <1>2, <2>2, <2>3
<1>3. QED
  BY <1>1, <1>2

\* A batch of one event.
LEMMA BatchOfOne ==
  ASSUME NEW e \in Engines, NEW ev, NEW declared, DOMAIN declared \subseteq {"dp_rank"}
  PROVE  LET batch1 == Batch(ev, declared)
         IN /\ at_ms(batch1) = (sent + 1) * 1000
            /\ Carries(batch1, "dp_rank") <=> Carries(declared, "dp_rank")
            /\ Carries(declared, "dp_rank") => batch1["dp_rank"] = declared["dp_rank"]
            /\ RankOf(batch1) = IF Carries(declared, "dp_rank") THEN declared["dp_rank"] ELSE 0
            /\ derive(e, batch1) = IF e = "vllm" THEN VllmEvents(batch1, ev)
                                   ELSE SglangEvents(batch1, ev)
<1> DEFINE own == [ts |-> sent + 1, events |-> <<ev>>]
           m == own ++ declared
<1>1. DOMAIN own = {"ts", "events"} /\ own["ts"] = sent + 1 /\ own["events"] = <<ev>>
  OBVIOUS
<1>2. m = Batch(ev, declared)
  BY DEF Batch
<1> HIDE DEF own
<1>3. /\ DOMAIN m = {"ts", "events"} \cup DOMAIN declared
      /\ m["ts"] = sent + 1 /\ m["events"] = <<ev>>
      /\ Carries(declared, "dp_rank") => m["dp_rank"] = declared["dp_rank"]
  BY <1>1 DEF ++, Carries
<1> HIDE DEF m
<1>4. Carries(m, "dp_rank") <=> Carries(declared, "dp_rank")
  BY <1>3 DEF Carries
<1>5. at_ms(m) = (sent + 1) * 1000
  BY <1>3 DEF at_ms
<1>6. RankOf(m) = IF Carries(declared, "dp_rank") THEN declared["dp_rank"] ELSE 0
  BY <1>3, <1>4 DEF RankOf, Get, Carries
<1>7. derive(e, m) = IF e = "vllm" THEN VllmEvents(m, ev) ELSE SglangEvents(m, ev)
  <2> DEFINE D(x) == IF e = "vllm" THEN VllmEvents(m, x) ELSE SglangEvents(m, x)
             seqs == [i \in DOMAIN m.events |-> D(m.events[i])]
  <2>1. derive(e, m) = FlattenSeq(seqs)
    BY Zenon DEF derive
  <2>2. DOMAIN m.events = 1 .. 1 /\ m.events[1] = ev
    BY <1>3
  <2>3. D(ev) = IF e = "vllm" THEN VllmEvents(m, ev) ELSE SglangEvents(m, ev)
    OBVIOUS
  <2> HIDE DEF D
  <2>4. seqs = <<D(ev)>>
    BY <2>2
  <2> HIDE DEF seqs
  <2>5. Len(seqs) = 1 /\ seqs[1] = D(ev)
    BY <2>4
  <2>6. QED
    BY <2>1, <2>3, <2>5, Flatten
<1>8. QED
  BY <1>2, <1>3, <1>4, <1>5, <1>6, <1>7

\* The blocks the texts are made of, and the runs of them that are cached.
Blocks == {A, Salted, B, Keyed, Bigram}

RunsOf(e, prefix, run) ==
  \E x, y \in Blocks :
    \/ prefix = <<>> /\ run = <<<<x>>>> /\ <<x>> \in Cached(e)
    \/ prefix = <<>> /\ run = <<<<x>>, <<x, y>>>> /\ <<x>> \in Cached(e) /\ <<x, y>> \in Cached(e)
    \/ prefix = <<x>> /\ run = <<<<x, y>>>> /\ <<x, y>> \in Cached(e)

\* A part of one element, and of two.
LEMMA Pieces ==
  ASSUME NEW s, NEW m \in Int
  PROVE  SubSeq(s, m, m) = <<s[m]>> /\ SubSeq(s, m, m + 1) = <<s[m], s[m + 1]>>
<1>1. SubSeq(s, m, m) = <<s[m]>>
  <2> DEFINE S == {s[m]}
             t == SubSeq(s, m, m)
  <2>1. \A i \in m .. m : s[i] \in S
    OBVIOUS
  <2> HIDE DEF S
  <2>2. /\ t \in Seq(S) /\ Len(t) = IF m <= m THEN m - m + 1 ELSE 0
        /\ \A i \in 1 .. m - m + 1 : t[i] = s[m + i - 1]
    BY <2>1, SubSeqProperties
  <2> HIDE DEF t
  <2>3. Len(t) = 1 /\ t[1] = s[m]
    BY <2>2
  <2>4. t = <<t[1]>>
    BY <2>2, <2>3
  <2>5. QED
    BY <2>3, <2>4 DEF t
<1>2. SubSeq(s, m, m + 1) = <<s[m], s[m + 1]>>
  <2> DEFINE S == {s[m], s[m + 1]}
             n == m + 1
             t == SubSeq(s, m, n)
  <2>1. n \in Int /\ \A i \in m .. n : s[i] \in S
    OBVIOUS
  <2> HIDE DEF S
  <2>2. /\ t \in Seq(S) /\ Len(t) = IF m <= n THEN n - m + 1 ELSE 0
        /\ \A i \in 1 .. n - m + 1 : t[i] = s[m + i - 1]
    <3> HIDE DEF n
    <3>1. QED
      BY <2>1, SubSeqProperties
  <2> HIDE DEF t
  <2>3. Len(t) = 2 /\ t[1] = s[m] /\ t[2] = s[m + 1]
    BY <2>2
  <2>4. t = <<t[1], t[2]>>
    BY <2>2, <2>3
  <2>5. QED
    BY <2>3, <2>4 DEF t
<1>3. QED
  BY <1>1, <1>2

\* The parts of a sequence of one element, and of two.
LEMMA ShortSequences ==
  /\ \A x : Len(<<x>>) = 1 /\ SubSeq(<<x>>, 1, 1) = <<x>>
  /\ \A x, y : /\ Len(<<x, y>>) = 2 /\ SubSeq(<<x, y>>, 1, 1) = <<x>>
               /\ SubSeq(<<x, y>>, 1, 2) = <<x, y>>
<1>1. \A s : SubSeq(s, 1, 1) = <<s[1]>> /\ SubSeq(s, 1, 1 + 1) = <<s[1], s[1 + 1]>>
  BY Pieces
<1>2. ASSUME NEW x PROVE Len(<<x>>) = 1 /\ SubSeq(<<x>>, 1, 1) = <<x>>
  <2> DEFINE s == <<x>>
  <2>1. Len(s) = 1 /\ s[1] = x
    OBVIOUS
  <2> HIDE DEF s
  <2>2. SubSeq(s, 1, 1) = <<x>>
    BY <1>1, <2>1
  <2>3. QED
    BY <2>1, <2>2 DEF s
<1>3. ASSUME NEW x, NEW y
      PROVE  /\ Len(<<x, y>>) = 2 /\ SubSeq(<<x, y>>, 1, 1) = <<x>>
             /\ SubSeq(<<x, y>>, 1, 2) = <<x, y>>
  <2> DEFINE s == <<x, y>>
  <2>1. Len(s) = 2 /\ s[1] = x /\ s[1 + 1] = y
    OBVIOUS
  <2> HIDE DEF s
  <2>2. SubSeq(s, 1, 1) = <<x>> /\ SubSeq(s, 1, 1 + 1) = <<x, y>>
    BY <1>1, <2>1
  <2>3. SubSeq(s, 1, 2) = <<x, y>>
    BY <2>2
  <2>4. QED
    BY <2>1, <2>2, <2>3 DEF s
<1>4. QED
  BY <1>2, <1>3, Zenon

\* The runs of a text of one block, and of two.
LEMMA RunsBelow ==
  ASSUME NEW x, NEW y, NEW prefix,
         \/ prefix = <<>>
         \/ \E a : prefix = <<a>>
         \/ \E a, b : prefix = <<a, b>>
  PROVE  /\ IsStrictPrefix(prefix, <<x>>) => prefix = <<>> /\ RunOf(prefix, <<x>>) = <<<<x>>>>
         /\ IsStrictPrefix(prefix, <<x, y>>) =>
              \/ prefix = <<>> /\ RunOf(prefix, <<x, y>>) = <<<<x>>, <<x, y>>>>
              \/ prefix = <<x>> /\ RunOf(prefix, <<x, y>>) = <<<<x, y>>>>
<1>1. CASE prefix = <<>>
  <2>1. Len(prefix) = 0
    BY <1>1
  <2>2. RunOf(prefix, <<x>>) = <<<<x>>>>
    <3>1. RunOf(prefix, <<x>>) = [i \in 1 .. 1 |-> SubSeq(<<x>>, 1, i)]
      BY <2>1 DEF RunOf
    <3>2. [i \in 1 .. 1 |-> SubSeq(<<x>>, 1, i)] = <<SubSeq(<<x>>, 1, 1)>>
      OBVIOUS
    <3>3. QED
      BY <3>1, <3>2, ShortSequences, Zenon
  <2>3. RunOf(prefix, <<x, y>>) = <<<<x>>, <<x, y>>>>
    <3>1. RunOf(prefix, <<x, y>>) = [i \in 1 .. 2 |-> SubSeq(<<x, y>>, 1, i)]
      BY <2>1 DEF RunOf
    <3>2. [i \in 1 .. 2 |-> SubSeq(<<x, y>>, 1, i)] =
            <<SubSeq(<<x, y>>, 1, 1), SubSeq(<<x, y>>, 1, 2)>>
      OBVIOUS
    <3>3. QED
      BY <3>1, <3>2, ShortSequences, Zenon
  <2>4. QED
    BY <1>1, <2>2, <2>3, Zenon
<1>2. CASE \E a : prefix = <<a>>
  <2>1. PICK a : prefix = <<a>>
    BY <1>2
  <2>2. Len(prefix) = 1 /\ SubSeq(prefix, 1, 1) = <<a>>
    BY <2>1, ShortSequences
  <2>3. ASSUME IsStrictPrefix(prefix, <<x>>) PROVE FALSE
    <3>1. SubSeq(prefix, 1, 1) = SubSeq(<<x>>, 1, 1) /\ prefix # <<x>>
      BY <2>2, <2>3 DEF IsStrictPrefix, IsPrefix
    <3>2. QED
      BY <2>1, <2>2, <3>1, ShortSequences, Zenon
  <2>4. ASSUME IsStrictPrefix(prefix, <<x, y>>)
        PROVE  prefix = <<x>> /\ RunOf(prefix, <<x, y>>) = <<<<x, y>>>>
    <3>1. SubSeq(prefix, 1, 1) = SubSeq(<<x, y>>, 1, 1)
      BY <2>2, <2>4 DEF IsStrictPrefix, IsPrefix
    <3>2. prefix = <<x>>
      BY <2>1, <2>2, <3>1, ShortSequences, Zenon
    <3>3. RunOf(prefix, <<x, y>>) = [i \in 1 .. 1 |-> SubSeq(<<x, y>>, 1, 1 + i)]
      BY <2>2 DEF RunOf
    <3>4. [i \in 1 .. 1 |-> SubSeq(<<x, y>>, 1, 1 + i)] = <<SubSeq(<<x, y>>, 1, 2)>>
      OBVIOUS
    <3>5. QED
      BY <3>2, <3>3, <3>4, ShortSequences, Zenon
  <2>5. QED
    BY <2>3, <2>4
<1>3. CASE \E a, b : prefix = <<a, b>>
  <2>1. PICK a, b : prefix = <<a, b>>
    BY <1>3
  <2>2. Len(prefix) = 2 /\ SubSeq(prefix, 1, 2) = prefix
    BY <2>1, ShortSequences
  <2>3. ~IsStrictPrefix(prefix, <<x>>)
    BY <2>2, ShortSequences DEF IsStrictPrefix, IsPrefix
  <2>4. ASSUME IsStrictPrefix(prefix, <<x, y>>) PROVE FALSE
    <3>1. SubSeq(prefix, 1, 2) = SubSeq(<<x, y>>, 1, 2) /\ prefix # <<x, y>>
      BY <2>2, <2>4 DEF IsStrictPrefix, IsPrefix
    <3>2. QED
      BY <2>2, <3>1, ShortSequences, Zenon
  <2>5. QED
    BY <2>3, <2>4
<1>4. QED
  BY <1>1, <1>2, <1>3

\* A cached text is of one block, or of two of which the first is cached alone.
LEMMA CachedTexts ==
  ASSUME NEW e
  PROVE  /\ \A text \in Cached(e) : \/ \E x \in Blocks : text = <<x>>
                                    \/ \E x, y \in Blocks : text = <<x, y>> /\ <<x>> \in Cached(e)
         /\ Texts(e) \subseteq Cached(e)
<1> HIDE DEF A, Salted, B, Keyed, Bigram
<1>1. QED
  BY DEF Cached, Texts, Blocks

\* What an engine stores is one of the three runs.
LEMMA Runs ==
  ASSUME NEW e, NEW text \in Texts(e), NEW prefix \in {<<>>} \cup Cached(e),
         IsStrictPrefix(prefix, text)
  PROVE  RunsOf(e, prefix, RunOf(prefix, text))
<1>1. \/ prefix = <<>>
      \/ \E a : prefix = <<a>>
      \/ \E a, b : prefix = <<a, b>>
  <2>1. CASE prefix = <<>>
    BY <2>1
  <2>2. CASE prefix \in Cached(e)
    <3>1. \/ \E x \in Blocks : prefix = <<x>>
          \/ \E x, y \in Blocks : prefix = <<x, y>> /\ <<x>> \in Cached(e)
      BY <2>2, CachedTexts
    <3>2. QED
      BY <3>1, Zenon
  <2>3. QED
    BY <2>1, <2>2
<1>2. text \in Cached(e)
  BY CachedTexts
<1>3. CASE \E x \in Blocks : text = <<x>>
  <2>1. PICK x \in Blocks : text = <<x>>
    BY <1>3
  <2>2. prefix = <<>> /\ RunOf(prefix, text) = <<<<x>>>>
    BY <1>1, <2>1, RunsBelow
  <2>3. QED
    BY <1>2, <2>1, <2>2, Zenon DEF RunsOf
<1>4. CASE \E x, y \in Blocks : text = <<x, y>> /\ <<x>> \in Cached(e)
  <2>1. PICK x, y \in Blocks : text = <<x, y>> /\ <<x>> \in Cached(e)
    BY <1>4
  <2>2. \/ prefix = <<>> /\ RunOf(prefix, text) = <<<<x>>, <<x, y>>>>
        \/ prefix = <<x>> /\ RunOf(prefix, text) = <<<<x, y>>>>
    BY <1>1, <2>1, RunsBelow
  <2>3. QED
    BY <1>2, <2>1, <2>2, Zenon DEF RunsOf
<1>5. QED
  BY <1>2, <1>3, <1>4, CachedTexts

\* A block of the model has two tokens.
LEMMA BlockTokens ==
  \A x \in Blocks : x[1] = <<x[1][1], x[1][2]>>
BY DEF Blocks, A, Salted, B, Keyed, Bigram

\* The tokens of a run, block by block, and the parents of its blocks.
LEMMA RunTokens ==
  ASSUME NEW e, NEW prefix, NEW run, RunsOf(e, prefix, run)
  PROVE  /\ Len(run) \in {1, 2} /\ run \in Seq(Cached(e))
         /\ Len(Tokens(run)) = 2 * Len(run)
         /\ \A i \in 1 .. Len(run) :
              /\ SubSeq(Tokens(run), (i - 1) * 2 + 1, i * 2) = Last(run[i])[1]
              /\ Last(run[i]) \in Blocks
         /\ prefix = <<>> => Len(run[1]) = 1 /\ run[1] = <<Last(run[1])>>
         /\ prefix # <<>> => Len(run[1]) > 1 /\ Parent(run[1]) = prefix
         /\ Len(run) = 2 => /\ prefix = <<>> /\ Len(run[2]) > 1 /\ Parent(run[2]) = run[1]
                            /\ run[2] = Append(run[1], Last(run[2]))
<1> DEFINE lasts == [i \in DOMAIN run |-> Last(run[i])[1]]
<1>1. Tokens(run) = FlattenSeq(lasts)
  BY DEF Tokens
<1>2. /\ \A x : Last(<<x>>) = x
      /\ \A x, y : Last(<<x, y>>) = y /\ Parent(<<x, y>>) = <<x>> /\ Append(<<x>>, y) = <<x, y>>
  <2>1. ASSUME NEW x PROVE Last(<<x>>) = x
    BY DEF Last
  <2>2. ASSUME NEW x, NEW y
        PROVE  Last(<<x, y>>) = y /\ Parent(<<x, y>>) = <<x>> /\ Append(<<x>>, y) = <<x, y>>
    <3>1. Last(<<x, y>>) = y
      BY DEF Last
    <3>2. Len(<<x, y>>) - 1 = 1
      OBVIOUS
    <3>3. Parent(<<x, y>>) = <<x>>
      BY <3>2, ShortSequences DEF Parent, Front
    <3>4. Append(<<x>>, y) = <<x, y>>
      <4> DEFINE S == {x, y}
                 a == <<x>>
                 t == Append(a, y)
      <4>1. a \in Seq(S) /\ y \in S /\ Len(a) = 1 /\ a[1] = x
        OBVIOUS
      <4> HIDE DEF S, a
      <4>0. /\ t \in Seq(S) /\ Len(t) = Len(a) + 1
            /\ \A i \in 1 .. Len(a) : t[i] = a[i]
            /\ t[Len(a) + 1] = y
        <5>1. a \in Seq(S) /\ y \in S
          BY <4>1
        <5>2. t \in Seq(S)
          BY <5>1, AppendProperties
        <5>3. Len(t) = Len(a) + 1
          BY <5>1, AppendProperties
        <5>4. \A i \in 1 .. Len(a) : t[i] = a[i]
          BY <5>1, AppendProperties
        <5>5. t[Len(a) + 1] = y
          BY <5>1, AppendProperties
        <5>6. QED
          BY <5>2, <5>3, <5>4, <5>5
      <4> HIDE DEF t
      <4>2. t \in Seq(S) /\ Len(t) = 2 /\ t[1] = x /\ t[2] = y
        BY <4>0, <4>1
      <4>3. t = <<t[1], t[2]>>
        BY <4>2
      <4>4. QED
        BY <4>2, <4>3 DEF t, a
    <3>5. QED
      BY <3>1, <3>3, <3>4, Zenon
  <2>3. QED
    BY <2>1, <2>2, Zenon
<1>4. ASSUME NEW text, NEW last \in Blocks, Last(text) = last, run = <<text>>
      PROVE  /\ Len(run) = 1 /\ run[1] = text /\ Len(Tokens(run)) = 2
             /\ SubSeq(Tokens(run), 1, 2) = last[1]
  <2>1. DOMAIN run = 1 .. 1 /\ Len(run) = 1 /\ run[1] = text
    BY <1>4
  <2>2. lasts = <<last[1]>>
    BY <1>4, <2>1
  <2> HIDE DEF lasts
  <2>3. Len(lasts) = 1 /\ lasts[1] = last[1]
    BY <2>2
  <2>4. Tokens(run) = last[1]
    BY <1>1, <2>3, Flatten
  <2>5. Tokens(run) = <<last[1][1], last[1][2]>>
    BY <2>4, BlockTokens
  <2>6. Len(Tokens(run)) = 2 /\ SubSeq(Tokens(run), 1, 2) = Tokens(run)
    BY <2>5, ShortSequences
  <2>7. QED
    BY <2>1, <2>4, <2>6
<1>5. ASSUME NEW x \in Blocks, NEW y \in Blocks, run = <<<<x>>, <<x, y>>>>
      PROVE  /\ Len(run) = 2 /\ run[1] = <<x>> /\ run[2] = <<x, y>>
             /\ Len(Tokens(run)) = 4
             /\ SubSeq(Tokens(run), 1, 2) = x[1] /\ SubSeq(Tokens(run), 3, 4) = y[1]
  <2>1. DOMAIN run = 1 .. 2 /\ Len(run) = 2 /\ run[1] = <<x>> /\ run[2] = <<x, y>>
    BY <1>5
  <2>2. lasts = <<x[1], y[1]>>
    BY <1>2, <2>1
  <2> HIDE DEF lasts
  <2>3. Len(lasts) = 2 /\ lasts[1] = x[1] /\ lasts[2] = y[1]
    BY <2>2
  <2>4. Tokens(run) = x[1] \o y[1]
    BY <1>1, <2>3, Flatten
  <2> DEFINE p == x[1][1]
             q == x[1][2]
             r == y[1][1]
             s == y[1][2]
             t == <<p, q, r, s>>
  <2>5. x[1] = <<p, q>> /\ y[1] = <<r, s>>
    BY BlockTokens
  <2> HIDE DEF p, q, r, s
  <2>6. Tokens(run) = t
    <3>1. <<p, q>> \o <<r, s>> = <<p, q, r, s>>
      <4> DEFINE S == {p, q, r, s}
                 a == <<p, q>>
                 b == <<r, s>>
                 u == a \o b
      <4>1. /\ a \in Seq(S) /\ b \in Seq(S) /\ Len(a) = 2 /\ Len(b) = 2
            /\ a[1] = p /\ a[2] = q /\ b[1] = r /\ b[2] = s
        OBVIOUS
      <4> HIDE DEF S, a, b
      <4>0. /\ u \in Seq(S) /\ Len(u) = Len(a) + Len(b)
            /\ \A i \in 1 .. Len(a) + Len(b) :
                 u[i] = IF i <= Len(a) THEN a[i] ELSE b[i - Len(a)]
        BY <4>1, ConcatProperties, Zenon
      <4> HIDE DEF u
      <4>2. /\ u \in Seq(S) /\ Len(u) = 4
            /\ \A i \in 1 .. 4 : u[i] = IF i <= 2 THEN a[i] ELSE b[i - 2]
        BY <4>0, <4>1
      <4>3. u[1] = p /\ u[2] = q /\ u[3] = r /\ u[4] = s
        BY <4>1, <4>2
      <4>4. u = <<u[1], u[2], u[3], u[4]>>
        BY <4>2
      <4>5. QED
        BY <4>3, <4>4 DEF u, a, b
    <3>2. QED
      BY <2>4, <2>5, <3>1
  <2>7. Len(t) = 4 /\ t[1] = p /\ t[1 + 1] = q /\ t[3] = r /\ t[3 + 1] = s
    OBVIOUS
  <2> HIDE DEF t
  <2>8. SubSeq(t, 1, 1 + 1) = <<p, q>> /\ SubSeq(t, 3, 3 + 1) = <<r, s>>
    BY <2>7, Pieces
  <2>9. SubSeq(t, 1, 2) = x[1] /\ SubSeq(t, 3, 4) = y[1]
    BY <2>5, <2>8
  <2>10. QED
    BY <2>1, <2>6, <2>7, <2>9
<1>6. PICK x \in Blocks, y \in Blocks :
        \/ prefix = <<>> /\ run = <<<<x>>>> /\ <<x>> \in Cached(e)
        \/ prefix = <<>> /\ run = <<<<x>>, <<x, y>>>> /\ <<x>> \in Cached(e)
             /\ <<x, y>> \in Cached(e)
        \/ prefix = <<x>> /\ run = <<<<x, y>>>> /\ <<x, y>> \in Cached(e)
  BY Zenon DEF RunsOf
<1> HIDE DEF lasts
<1>7. CASE prefix = <<>> /\ run = <<<<x>>>> /\ <<x>> \in Cached(e)
  <2>1. Last(<<x>>) = x /\ Len(<<x>>) = 1
    BY <1>2, ShortSequences
  <2>2. /\ Len(run) = 1 /\ run[1] = <<x>> /\ Len(Tokens(run)) = 2
        /\ SubSeq(Tokens(run), 1, 2) = x[1]
    BY <1>4, <1>7, <2>1
  <2>3. run \in Seq(Cached(e))
    BY <1>7
  <2>4. \A i \in 1 .. Len(run) : i = 1
    BY <2>2
  <2>5. \A i \in 1 .. Len(run) :
           /\ SubSeq(Tokens(run), (i - 1) * 2 + 1, i * 2) = Last(run[i])[1]
           /\ Last(run[i]) \in Blocks
    BY <2>1, <2>2, <2>4
  <2>6. QED
    BY <1>7, <2>1, <2>2, <2>3, <2>5
<1>8. CASE prefix = <<>> /\ run = <<<<x>>, <<x, y>>>> /\ <<x>> \in Cached(e)
           /\ <<x, y>> \in Cached(e)
  <2>1. /\ Last(<<x>>) = x /\ Len(<<x>>) = 1 /\ Last(<<x, y>>) = y /\ Len(<<x, y>>) = 2
        /\ Parent(<<x, y>>) = <<x>> /\ <<x, y>> = Append(<<x>>, y)
    BY <1>2, ShortSequences
  <2>2. /\ Len(run) = 2 /\ run[1] = <<x>> /\ run[2] = <<x, y>>
        /\ Len(Tokens(run)) = 4
        /\ SubSeq(Tokens(run), 1, 2) = x[1] /\ SubSeq(Tokens(run), 3, 4) = y[1]
    BY <1>5, <1>8
  <2>3. run \in Seq(Cached(e))
    BY <1>8
  <2>4. \A i \in 1 .. Len(run) : i = 1 \/ i = 2
    BY <2>2
  <2>5. \A i \in 1 .. Len(run) :
           /\ SubSeq(Tokens(run), (i - 1) * 2 + 1, i * 2) = Last(run[i])[1]
           /\ Last(run[i]) \in Blocks
    <3>1. /\ SubSeq(Tokens(run), (1 - 1) * 2 + 1, 1 * 2) = Last(run[1])[1]
          /\ SubSeq(Tokens(run), (2 - 1) * 2 + 1, 2 * 2) = Last(run[2])[1]
          /\ Last(run[1]) \in Blocks /\ Last(run[2]) \in Blocks
      BY <2>1, <2>2
    <3>2. QED
      BY <2>4, <3>1, Zenon
  <2>6. /\ Len(run[1]) = 1 /\ run[1] = <<Last(run[1])>>
        /\ Len(run[2]) > 1 /\ Parent(run[2]) = run[1] /\ run[2] = Append(run[1], Last(run[2]))
    <3> DEFINE z == <<x, y>>
    <3>1. /\ Last(z) = y /\ Len(z) = 2 /\ Parent(z) = <<x>> /\ z = Append(<<x>>, y)
          /\ run[2] = z
      BY <2>1, <2>2
    <3> HIDE DEF z
    <3>2. QED
      BY <2>1, <2>2, <3>1
  <2>7. Len(run) = 2 /\ Len(Tokens(run)) = 2 * Len(run) /\ prefix = <<>>
    BY <1>8, <2>2
  <2>8. QED
    BY <2>3, <2>5, <2>6, <2>7
<1>9. CASE prefix = <<x>> /\ run = <<<<x, y>>>> /\ <<x, y>> \in Cached(e)
  <2>1. /\ Last(<<x, y>>) = y /\ Len(<<x, y>>) = 2 /\ Parent(<<x, y>>) = <<x>>
        /\ <<x>> # <<>>
    BY <1>2, ShortSequences
  <2>2. /\ Len(run) = 1 /\ run[1] = <<x, y>> /\ Len(Tokens(run)) = 2
        /\ SubSeq(Tokens(run), 1, 2) = y[1]
    BY <1>4, <1>9, <2>1
  <2>3. run \in Seq(Cached(e))
    BY <1>9
  <2>4. \A i \in 1 .. Len(run) : i = 1
    BY <2>2
  <2>5. \A i \in 1 .. Len(run) :
           /\ SubSeq(Tokens(run), (i - 1) * 2 + 1, i * 2) = Last(run[i])[1]
           /\ Last(run[i]) \in Blocks
    BY <2>1, <2>2, <2>4
  <2>6. QED
    BY <1>9, <2>1, <2>2, <2>3, <2>5
<1>10. QED
  BY <1>6, <1>7, <1>8, <1>9

\* An event of blocks at a place.
AtPlace(ev, place) ==
  /\ {"type", "block_hashes", "medium"} \subseteq DOMAIN ev /\ ev["medium"] = place[3]
  /\ Get(ev, "group_idx", 0) = place[2]
  /\ DOMAIN ev \cap {"locality", "lora_id", "lora_name"} = {}

OnWires(e, blocks) == [i \in DOMAIN blocks |-> OnWire(e, blocks[i])]

\* The fields of a store as the engine publishes it.
LEMMA StoreEventFields ==
  ASSUME NEW e \in Engines, NEW place, NEW prefix, NEW run, NEW blocks
  PROVE  LET ev == StoreEvent(e, place, prefix, run, blocks)
         IN /\ AtPlace(ev, place) /\ ev["type"] = "BlockStored" /\ ev["block_size"] = 2
            /\ ev["token_ids"] = Tokens(run) /\ ev["block_hashes"] = OnWires(e, blocks)
            /\ {"block_size", "token_ids"} \subseteq DOMAIN ev
            /\ Carries(ev, "parent_block_hash") <=> prefix # <<>>
            /\ prefix # <<>> => ev["parent_block_hash"] = OnWire(e, prefix)
            /\ \A f \in {"extra_keys", "cache_salt"} :
                 /\ Carries(ev, f) <=> f \in DOMAIN KeysOf(e, blocks)
                 /\ Carries(ev, f) => ev[f] = KeysOf(e, blocks)[f]
<1> DEFINE own == [type |-> "BlockStored", block_size |-> BlockSize, token_ids |-> Tokens(run),
                   block_hashes |-> OnWires(e, blocks), medium |-> place[3]]
           keys == KeysOf(e, blocks)
           par == IF prefix = <<>> THEN <<>> ELSE [parent_block_hash |-> OnWire(e, prefix)]
           group == IF place[2] = 0 THEN <<>> ELSE [group_idx |-> place[2]]
           ev == own ++ keys ++ par ++ group
<1>1. /\ DOMAIN own = {"type", "block_size", "token_ids", "block_hashes", "medium"}
      /\ own["type"] = "BlockStored" /\ own["block_size"] = 2
      /\ own["token_ids"] = Tokens(run)
      /\ own["block_hashes"] = OnWires(e, blocks)
      /\ own["medium"] = place[3]
  BY DEF BlockSize
<1>2. DOMAIN keys \subseteq {"extra_keys", "cache_salt"}
  <2> DEFINE k == [i \in DOMAIN blocks |-> Last(blocks[i])[2]]
             s == IF Head(blocks[1])[2] = Absent THEN "" ELSE Head(blocks[1])[2][1][1]
  <2>1. keys = <<>> \/ keys = [extra_keys |-> k] \/ keys = [cache_salt |-> s]
    BY Zenon DEF KeysOf
  <2> HIDE DEF keys, k, s
  <2>2. DOMAIN [extra_keys |-> k] = {"extra_keys"} /\ DOMAIN [cache_salt |-> s] = {"cache_salt"}
    OBVIOUS
  <2>3. QED
    BY <2>1, <2>2, SmallMaps
<1>3. /\ DOMAIN par = IF prefix = <<>> THEN {} ELSE {"parent_block_hash"}
      /\ prefix # <<>> => par["parent_block_hash"] = OnWire(e, prefix)
  <2>1. CASE prefix = <<>>
    BY <2>1, SmallMaps
  <2>2. CASE prefix # <<>>
    BY <2>2
  <2>3. QED
    BY <2>1, <2>2
<1>4. /\ DOMAIN group = IF place[2] = 0 THEN {} ELSE {"group_idx"}
      /\ place[2] # 0 => group["group_idx"] = place[2]
  <2>1. CASE place[2] = 0
    BY <2>1, SmallMaps
  <2>2. CASE place[2] # 0
    BY <2>2
  <2>3. QED
    BY <2>1, <2>2
<1>5. ev = StoreEvent(e, place, prefix, run, blocks)
  BY Zenon DEF StoreEvent, OnWires
<1> HIDE DEF own, keys, par, group
<1>6. DOMAIN ev = DOMAIN own \cup DOMAIN keys \cup DOMAIN par \cup DOMAIN group
  BY DEF ++
<1>7. \A f \in DOMAIN own : ev[f] = own[f]
  BY <1>6 DEF ++
<1>8. \A f \in DOMAIN keys : ev[f] = keys[f]
  BY <1>1, <1>2, <1>6 DEF ++
<1>9. \A f \in DOMAIN par : ev[f] = par[f]
  BY <1>1, <1>2, <1>3, <1>6 DEF ++
<1>10. \A f \in DOMAIN group : ev[f] = group[f]
  BY <1>1, <1>2, <1>3, <1>4, <1>6 DEF ++
<1> HIDE DEF ev
<1>11. AtPlace(ev, place)
  <2>1. Get(ev, "group_idx", 0) = place[2]
    BY <1>1, <1>2, <1>3, <1>4, <1>6, <1>10 DEF Get
  <2>2. DOMAIN ev \cap {"locality", "lora_id", "lora_name"} = {}
    BY <1>1, <1>2, <1>3, <1>4, <1>6
  <2>3. QED
    BY <1>1, <1>6, <1>7, <2>1, <2>2 DEF AtPlace
<1>12. /\ ev["type"] = "BlockStored" /\ ev["block_size"] = 2
       /\ ev["token_ids"] = Tokens(run) /\ ev["block_hashes"] = OnWires(e, blocks)
       /\ {"block_size", "token_ids"} \subseteq DOMAIN ev
  BY <1>1, <1>6, <1>7
<1>13. /\ Carries(ev, "parent_block_hash") <=> prefix # <<>>
       /\ prefix # <<>> => ev["parent_block_hash"] = OnWire(e, prefix)
  BY <1>1, <1>2, <1>3, <1>4, <1>6, <1>9 DEF Carries
<1>14. \A f \in {"extra_keys", "cache_salt"} :
         /\ Carries(ev, f) <=> f \in DOMAIN keys
         /\ Carries(ev, f) => ev[f] = keys[f]
  BY <1>1, <1>3, <1>4, <1>6, <1>8 DEF Carries
<1>15. QED
  BY <1>5, <1>11, <1>12, <1>13, <1>14, Zenon DEF keys

\* The fields of an eviction as the engine publishes it.
LEMMA RemoveEventFields ==
  ASSUME NEW e \in Engines, NEW place, NEW blocks
  PROVE  LET ev == RemoveEvent(e, place, blocks)
         IN /\ AtPlace(ev, place) /\ ev["type"] = "BlockRemoved"
            /\ ev["block_hashes"] = OnWires(e, blocks)
<1> DEFINE own == [type |-> "BlockRemoved", block_hashes |-> OnWires(e, blocks), medium |-> place[3]]
           group == IF place[2] = 0 THEN <<>> ELSE [group_idx |-> place[2]]
           ev == own ++ group
<1>1. /\ DOMAIN own = {"type", "block_hashes", "medium"}
      /\ own["type"] = "BlockRemoved" /\ own["medium"] = place[3]
      /\ own["block_hashes"] = OnWires(e, blocks)
  OBVIOUS
<1>2. /\ DOMAIN group = IF place[2] = 0 THEN {} ELSE {"group_idx"}
      /\ place[2] # 0 => group["group_idx"] = place[2]
  <2>1. CASE place[2] = 0
    BY <2>1, SmallMaps
  <2>2. CASE place[2] # 0
    BY <2>2
  <2>3. QED
    BY <2>1, <2>2
<1>3. ev = RemoveEvent(e, place, blocks)
  BY Zenon DEF RemoveEvent, OnWires
<1> HIDE DEF own, group
<1>4. /\ DOMAIN ev = DOMAIN own \cup DOMAIN group
      /\ \A f \in DOMAIN own : ev[f] = own[f]
      /\ \A f \in DOMAIN group : f \notin DOMAIN own => ev[f] = group[f]
  BY DEF ++
<1> HIDE DEF ev
<1>5. AtPlace(ev, place)
  <2>1. Get(ev, "group_idx", 0) = place[2]
    BY <1>1, <1>2, <1>4 DEF Get
  <2>2. DOMAIN ev \cap {"locality", "lora_id", "lora_name"} = {}
    BY <1>1, <1>2, <1>4
  <2>3. QED
    BY <1>1, <1>4, <2>1, <2>2 DEF AtPlace
<1>6. QED
  BY <1>1, <1>3, <1>4, <1>5

\* The event with the block hashes its engine meant.
Meant(e, ev) == IF e = "vllm" THEN ev ELSE Unsigned(ev)
HashesOf(e, blocks) == [i \in DOMAIN blocks |-> Hash(e, blocks[i])]

\* The event with its hashes unsigned names the texts by their hashes.
LEMMA MeantFields ==
  ASSUME NEW e \in Engines, boot[e] \in Int, NEW ev, NEW blocks,
         "block_hashes" \in DOMAIN ev, ev["block_hashes"] = OnWires(e, blocks)
  PROVE  LET w == Meant(e, ev)
         IN /\ DOMAIN w = DOMAIN ev /\ w["block_hashes"] = HashesOf(e, blocks)
            /\ \A f \in DOMAIN ev : f \notin {"block_hashes", "parent_block_hash"} => w[f] = ev[f]
            /\ \A text : Carries(ev, "parent_block_hash")
                         /\ ev["parent_block_hash"] = OnWire(e, text) =>
                 w["parent_block_hash"] = Hash(e, text)
<1>1. /\ \A text : unsigned(OnWire(e, text)) = Hash(e, text)
      /\ \A text : e = "vllm" => OnWire(e, text) = Hash(e, text)
  BY Hashes
<1>2. CASE e = "vllm"
  <2>1. Meant(e, ev) = ev
    BY <1>2 DEF Meant
  <2>2. OnWires(e, blocks) = HashesOf(e, blocks)
    BY <1>1, <1>2 DEF OnWires, HashesOf
  <2>3. QED
    BY <1>1, <1>2, <2>1, <2>2
<1>3. CASE e # "vllm"
  <2> DEFINE w == Unsigned(ev)
  <2>1. Meant(e, ev) = w
    BY <1>3 DEF Meant
  <2>2. /\ DOMAIN w = DOMAIN ev
        /\ w["block_hashes"] = [i \in DOMAIN ev["block_hashes"] |-> unsigned(ev["block_hashes"][i])]
        /\ \A f \in DOMAIN ev : f \notin {"block_hashes", "parent_block_hash"} => w[f] = ev[f]
        /\ Carries(ev, "parent_block_hash") =>
             w["parent_block_hash"] = unsigned(ev["parent_block_hash"])
    BY DEF Unsigned, Carries
  <2> HIDE DEF w
  <2>3. w["block_hashes"] = HashesOf(e, blocks)
    BY <1>1, <2>2 DEF OnWires, HashesOf
  <2>4. QED
    BY <1>1, <2>1, <2>2, <2>3
<1>4. QED
  BY <1>2, <1>3

\* The fields that the events of one message share.
SharedAt(c, place) ==
  /\ DOMAIN c = {"at_ms", "dp_rank", "group_idx", "medium"} /\ c["at_ms"] = (sent + 1) * 1000
  /\ c["dp_rank"] = place[1] /\ c["group_idx"] = place[2] /\ c["medium"] = place[3]

\* What the derivation copies of an event is its tier.
LEMMA OnlySome ==
  ASSUME NEW ev, NEW place, AtPlace(ev, place)
  PROVE  /\ DOMAIN Only(ev, {"medium", "locality"}) = {"medium"}
         /\ Only(ev, {"medium", "locality"})["medium"] = place[3]
         /\ DOMAIN Only(ev, {"medium"}) = {"medium"}
         /\ Only(ev, {"medium"})["medium"] = place[3]
         /\ DOMAIN Only(ev, {"lora_id", "lora_name"}) = {}
         /\ DOMAIN Only(ev, {"lora_id"}) = {}
BY DEF AtPlace, Only, Restrict

\* The fields the derived events of one message share are the block's place.
LEMMA Shared ==
  ASSUME NEW e \in Engines, NEW place \in Places(e), NEW ev, AtPlace(ev, place), sent \in Int
  PROVE  LET batch1 == Batch(ev, Ranked(e, place[1]))
             own == [at_ms |-> at_ms(batch1), dp_rank |-> RankOf(batch1),
                     group_idx |-> Get(ev, "group_idx", 0)]
             sgl == [at_ms |-> at_ms(batch1), dp_rank |-> RankOf(batch1), group_idx |-> 0]
             v == own ++ Only(ev, {"medium", "locality"})
             s == sgl ++ Only(ev, {"medium"})
         IN /\ e = "vllm" => SharedAt(v, place) /\ SharedAt(v ++ Only(ev, {"lora_id", "lora_name"}), place)
            /\ e # "vllm" => SharedAt(s, place) /\ SharedAt(s ++ Only(ev, {"lora_id"}), place)
<1> DEFINE batch1 == Batch(ev, Ranked(e, place[1]))
           own == [at_ms |-> at_ms(batch1), dp_rank |-> RankOf(batch1),
                   group_idx |-> Get(ev, "group_idx", 0)]
           sgl == [at_ms |-> at_ms(batch1), dp_rank |-> RankOf(batch1), group_idx |-> 0]
           m == Only(ev, {"medium", "locality"})
           n == Only(ev, {"medium"})
           l == Only(ev, {"lora_id", "lora_name"})
           k == Only(ev, {"lora_id"})
<1>1. at_ms(batch1) = (sent + 1) * 1000 /\ RankOf(batch1) = place[1]
  <2> DEFINE declared == Ranked(e, place[1])
  <2>1. CASE e = "vllm"
    <3>1. declared = [dp_rank |-> place[1]]
      BY <2>1 DEF Ranked
    <3>2. DOMAIN declared = {"dp_rank"} /\ declared["dp_rank"] = place[1]
      BY <3>1
    <3> HIDE DEF declared
    <3>3. Carries(declared, "dp_rank") /\ DOMAIN declared \subseteq {"dp_rank"}
      BY <3>2 DEF Carries
    <3>4. at_ms(Batch(ev, declared)) = (sent + 1) * 1000 /\ RankOf(Batch(ev, declared)) = place[1]
      BY <3>2, <3>3, BatchOfOne
    <3>5. QED
      BY <3>4 DEF declared
  <2>2. CASE e # "vllm"
    <3>1. declared = <<>> /\ place[1] = 0
      BY <2>2 DEF Ranked, Places, Engines
    <3> HIDE DEF declared
    <3>2. DOMAIN declared = {}
      BY <3>1, SmallMaps
    <3>3. ~Carries(declared, "dp_rank") /\ DOMAIN declared \subseteq {"dp_rank"}
      BY <3>2 DEF Carries
    <3>4. at_ms(Batch(ev, declared)) = (sent + 1) * 1000 /\ RankOf(Batch(ev, declared)) = 0
      BY <3>3, BatchOfOne
    <3>5. QED
      BY <3>1, <3>4 DEF declared
  <2>3. QED
    BY <2>1, <2>2
<1>2. /\ DOMAIN own = {"at_ms", "dp_rank", "group_idx"} /\ own["at_ms"] = (sent + 1) * 1000
      /\ own["dp_rank"] = place[1] /\ own["group_idx"] = place[2]
  BY <1>1 DEF AtPlace
<1>3. /\ DOMAIN sgl = {"at_ms", "dp_rank", "group_idx"} /\ sgl["at_ms"] = (sent + 1) * 1000
      /\ sgl["dp_rank"] = place[1] /\ sgl["group_idx"] = 0
  BY <1>1
<1>4. e # "vllm" => place[2] = 0
  BY DEF Places, Engines
<1>5. /\ DOMAIN m = {"medium"} /\ m["medium"] = place[3]
      /\ DOMAIN n = {"medium"} /\ n["medium"] = place[3]
      /\ DOMAIN l = {} /\ DOMAIN k = {}
  BY OnlySome
<1> HIDE DEF batch1, own, sgl, m, n, l, k
<1>6. SharedAt(own ++ m, place) /\ SharedAt((own ++ m) ++ l, place)
  BY <1>2, <1>5 DEF ++, SharedAt
<1>7. e # "vllm" => SharedAt(sgl ++ n, place) /\ SharedAt((sgl ++ n) ++ k, place)
  BY <1>3, <1>4, <1>5 DEF ++, SharedAt
<1>8. QED
  BY <1>6, <1>7 DEF batch1, own, sgl, m, n, l, k

\* What is derived of an event of blocks.
Extra(e, w) == IF e = "vllm" THEN VllmExtra(w) ELSE SglangExtra(w)
Usable(e, w) == e = "vllm" \/ token_ids_usable(w.token_ids)

\* The derived events of a store or an eviction are its blocks, at their place.
LEMMA DerivedBlocks ==
  ASSUME NEW e \in Engines, NEW place \in Places(e), NEW ev, AtPlace(ev, place), sent \in Int
  PROVE  LET d == derive(e, Batch(ev, Ranked(e, place[1])))
             w == Meant(e, ev)
         IN /\ ev["type"] = "BlockStored" =>
                 \E c : SharedAt(c, place) /\ d = Under(c, StoredRun(w, Extra(e, w), Usable(e, w)))
            /\ ev["type"] = "BlockRemoved" =>
                 \E c : SharedAt(c, place) /\ d = Under(c, RemovedRun(w))
<1> DEFINE batch1 == Batch(ev, Ranked(e, place[1]))
           own == [at_ms |-> at_ms(batch1), dp_rank |-> RankOf(batch1),
                   group_idx |-> Get(ev, "group_idx", 0)]
           sgl == [at_ms |-> at_ms(batch1), dp_rank |-> RankOf(batch1), group_idx |-> 0]
           v == own ++ Only(ev, {"medium", "locality"})
           s == sgl ++ Only(ev, {"medium"})
           vl == v ++ Only(ev, {"lora_id", "lora_name"})
           sl == s ++ Only(ev, {"lora_id"})
           w == Meant(e, ev)
<1>1. /\ e = "vllm" => SharedAt(v, place) /\ SharedAt(vl, place)
      /\ e # "vllm" => SharedAt(s, place) /\ SharedAt(sl, place)
  BY Shared, Zenon
<1>2. derive(e, batch1) = IF e = "vllm" THEN VllmEvents(batch1, ev) ELSE SglangEvents(batch1, ev)
  <2>1. DOMAIN Ranked(e, place[1]) \subseteq {"dp_rank"}
    <3>1. CASE e = "sglang"
      BY <3>1, SmallMaps DEF Ranked
    <3>2. CASE e # "sglang"
      BY <3>2 DEF Ranked
    <3>3. QED
      BY <3>1, <3>2
  <2>2. QED
    BY <2>1, BatchOfOne
<1>3. CASE e = "vllm"
  <2>1. ev.type = "BlockStored" => VllmEvents(batch1, ev) = Under(vl, StoredRun(ev, VllmExtra(ev), TRUE))
    BY Zenon DEF VllmEvents
  <2>2. ev.type = "BlockRemoved" => VllmEvents(batch1, ev) = Under(v, RemovedRun(ev))
    <3>1. "BlockRemoved" # "BlockStored"
      OBVIOUS
    <3>2. QED
      BY <3>1, Zenon DEF VllmEvents
  <2>3. w = ev /\ Extra(e, w) = VllmExtra(ev) /\ Usable(e, w) = TRUE
    BY <1>3 DEF Meant, Extra, Usable
  <2> HIDE DEF v, vl, w, batch1
  <2>4. ev["type"] = "BlockStored" =>
          derive(e, batch1) = Under(vl, StoredRun(w, Extra(e, w), Usable(e, w)))
    BY <1>2, <1>3, <2>1, <2>3
  <2>5. ev["type"] = "BlockRemoved" => derive(e, batch1) = Under(v, RemovedRun(w))
    BY <1>2, <1>3, <2>2, <2>3
  <2>6. QED
    BY <1>1, <1>3, <2>4, <2>5 DEF w, batch1
<1>4. CASE e # "vllm"
  <2>1. ev.type = "BlockStored" =>
          SglangEvents(batch1, ev) =
            Under(sl, StoredRun(Unsigned(ev), SglangExtra(Unsigned(ev)),
                                token_ids_usable(Unsigned(ev).token_ids)))
    BY Zenon DEF SglangEvents
  <2>2. ev.type = "BlockRemoved" => SglangEvents(batch1, ev) = Under(s, RemovedRun(Unsigned(ev)))
    <3>1. "BlockRemoved" # "BlockStored"
      OBVIOUS
    <3>2. QED
      BY <3>1, Zenon DEF SglangEvents
  <2>3. w = Unsigned(ev) /\ Extra(e, w) = SglangExtra(w)
        /\ Usable(e, w) = token_ids_usable(w.token_ids)
    BY <1>4, Zenon DEF Meant, Extra, Usable, token_ids_usable
  <2> HIDE DEF s, sl, w, batch1
  <2>4. ev["type"] = "BlockStored" =>
          derive(e, batch1) = Under(sl, StoredRun(w, Extra(e, w), Usable(e, w)))
    BY <1>2, <1>4, <2>1, <2>3
  <2>5. ev["type"] = "BlockRemoved" => derive(e, batch1) = Under(s, RemovedRun(w))
    BY <1>2, <1>4, <2>2, <2>3
  <2>6. QED
    BY <1>1, <1>4, <2>4, <2>5 DEF w, batch1
<1>5. QED
  BY <1>3, <1>4

\* The event of one block of a stored run.
ItemOf(d, w, extra, usable, i) ==
  /\ {"type", "block_hash", "block_size"} \subseteq DOMAIN d
  /\ DOMAIN d \subseteq {"type", "block_hash", "block_size", "parent_unknown",
                         "parent_hash", "extra_keys", "content_id"}
  /\ d["type"] = "Stored" /\ d["block_hash"] = w["block_hashes"][i]
  /\ d["block_size"] = w["block_size"]
  /\ ~Contiguous(w) => "parent_unknown" \in DOMAIN d /\ d["parent_unknown"] = TRUE
  /\ Contiguous(w) =>
       /\ "parent_unknown" \notin DOMAIN d
       /\ "parent_hash" \in DOMAIN d <=> i > 1 \/ ~Rooted(w)
       /\ i > 1 => d["parent_hash"] = w["block_hashes"][i - 1]
       /\ i = 1 /\ ~Rooted(w) => d["parent_hash"] = w["parent_block_hash"]
  /\ "content_id" \in DOMAIN d =>
       usable /\ Contiguous(w) /\ Rooted(w) /\ d["content_id"] = Chain(w, extra)[i]

\* The derived event of one block of a store.
LEMMA StoredItem ==
  ASSUME NEW w, NEW extra, NEW usable \in BOOLEAN, NEW i \in DOMAIN w["block_hashes"],
         i \in Nat \ {0}
  PROVE  /\ DOMAIN StoredRun(w, extra, usable) = DOMAIN w["block_hashes"]
         /\ ItemOf(StoredRun(w, extra, usable)[i], w, extra, usable, i)
<1> DEFINE own == [type |-> "Stored", block_hash |-> w.block_hashes[i], block_size |-> w.block_size]
           link == Link(w, i)
           keys == Optional("extra_keys", extra[i])
           id == Chain(w, extra)[i]
           content == IF usable /\ Chained(w) THEN [content_id |-> id] ELSE <<>>
           d == own ++ link ++ keys ++ content
<1>1. /\ DOMAIN own = {"type", "block_hash", "block_size"}
      /\ own["type"] = "Stored" /\ own["block_hash"] = w["block_hashes"][i]
      /\ own["block_size"] = w["block_size"]
  OBVIOUS
<1>2. /\ ~Contiguous(w) => DOMAIN link = {"parent_unknown"} /\ link["parent_unknown"] = TRUE
      /\ Contiguous(w) =>
           /\ DOMAIN link = IF i > 1 \/ ~Rooted(w) THEN {"parent_hash"} ELSE {}
           /\ i > 1 => link["parent_hash"] = w["block_hashes"][i - 1]
           /\ i = 1 /\ ~Rooted(w) => link["parent_hash"] = w["parent_block_hash"]
  <2>1. CASE ~Contiguous(w)
    <3>1. link = [parent_unknown |-> TRUE]
      BY <2>1, Zenon DEF Link
    <3> HIDE DEF link
    <3>2. QED
      BY <2>1, <3>1
  <2>2. CASE Contiguous(w) /\ i > 1
    <3>1. link = [parent_hash |-> w.block_hashes[i - 1]]
      <4>1. ~(i = 1)
        BY <2>2
      <4>2. QED
        BY <2>2, <4>1, Zenon DEF Link
    <3> HIDE DEF link
    <3>2. DOMAIN link = {"parent_hash"} /\ link["parent_hash"] = w["block_hashes"][i - 1]
      BY <3>1
    <3>3. ~(i = 1)
      BY <2>2
    <3>4. QED
      BY <2>2, <3>2, <3>3, Zenon
  <2>3. CASE Contiguous(w) /\ i = 1 /\ ~Rooted(w)
    <3>1. ~(i > 1)
      BY <2>3
    <3>2. link = [parent_hash |-> w.parent_block_hash]
      BY <2>3, <3>1, Zenon DEF Link
    <3> HIDE DEF link
    <3>3. DOMAIN link = {"parent_hash"} /\ link["parent_hash"] = w["parent_block_hash"]
      BY <3>2
    <3>4. QED
      BY <2>3, <3>1, <3>3, Zenon
  <2>4. CASE Contiguous(w) /\ i = 1 /\ Rooted(w)
    <3>1. ~(i > 1)
      BY <2>4
    <3>2. link = <<>>
      BY <2>4, <3>1, Zenon DEF Link
    <3> HIDE DEF link
    <3>3. DOMAIN link = {}
      BY <3>2, SmallMaps
    <3>4. QED
      BY <2>4, <3>1, <3>3, Zenon
  <2>5. i > 1 \/ i = 1
    OBVIOUS
  <2>6. QED
    BY <2>1, <2>2, <2>3, <2>4, <2>5, Zenon
<1>3. DOMAIN keys \subseteq {"extra_keys"}
  BY SmallMaps DEF Optional
<1>4. /\ DOMAIN content \subseteq {"content_id"}
      /\ "content_id" \in DOMAIN content =>
           usable /\ Contiguous(w) /\ Rooted(w) /\ content["content_id"] = id
  <2>1. CASE usable /\ Chained(w)
    <3>1. content = [content_id |-> id]
      BY <2>1
    <3>2. Contiguous(w) /\ Rooted(w)
      BY <2>1 DEF Chained
    <3> HIDE DEF content, id
    <3>3. DOMAIN content = {"content_id"} /\ content["content_id"] = id
      BY <3>1
    <3>4. QED
      BY <2>1, <3>2, <3>3
  <2>2. CASE ~(usable /\ Chained(w))
    <3>1. content = <<>>
      BY <2>2
    <3> HIDE DEF content
    <3>2. QED
      BY <3>1, SmallMaps
  <2>3. QED
    BY <2>1, <2>2
<1>5. DOMAIN StoredRun(w, extra, usable) = DOMAIN w["block_hashes"] /\ StoredRun(w, extra, usable)[i] = d
  BY DEF StoredRun
<1> HIDE DEF own, link, keys, id, content
<1>6. DOMAIN d = DOMAIN own \cup DOMAIN link \cup DOMAIN keys \cup DOMAIN content
  BY DEF ++
<1>7. DOMAIN link \subseteq {"parent_unknown", "parent_hash"}
  BY <1>2
<1>8. \A f \in DOMAIN own : d[f] = own[f]
  BY <1>6 DEF ++
<1>9. \A f \in DOMAIN link : d[f] = link[f]
  BY <1>1, <1>6, <1>7 DEF ++
<1>10. \A f \in DOMAIN content : d[f] = content[f]
  BY <1>1, <1>3, <1>4, <1>6, <1>7 DEF ++
<1> HIDE DEF d
<1>11. /\ "parent_unknown" \in DOMAIN d <=> "parent_unknown" \in DOMAIN link
       /\ "parent_hash" \in DOMAIN d <=> "parent_hash" \in DOMAIN link
       /\ "content_id" \in DOMAIN d <=> "content_id" \in DOMAIN content
  BY <1>1, <1>3, <1>4, <1>6, <1>7
<1>12. ~Contiguous(w) => "parent_unknown" \in DOMAIN d /\ d["parent_unknown"] = TRUE
  BY <1>2, <1>9, <1>11
<1>13. Contiguous(w) =>
         /\ "parent_unknown" \notin DOMAIN d
         /\ "parent_hash" \in DOMAIN d <=> i > 1 \/ ~Rooted(w)
         /\ i > 1 => d["parent_hash"] = w["block_hashes"][i - 1]
         /\ i = 1 /\ ~Rooted(w) => d["parent_hash"] = w["parent_block_hash"]
  <2> SUFFICES ASSUME Contiguous(w)
               PROVE  /\ "parent_unknown" \notin DOMAIN d
                      /\ "parent_hash" \in DOMAIN d <=> i > 1 \/ ~Rooted(w)
                      /\ i > 1 => d["parent_hash"] = w["block_hashes"][i - 1]
                      /\ i = 1 /\ ~Rooted(w) => d["parent_hash"] = w["parent_block_hash"]
    BY Zenon
  <2>1. DOMAIN link = IF i > 1 \/ ~Rooted(w) THEN {"parent_hash"} ELSE {}
    BY <1>2
  <2>2. "parent_unknown" \notin DOMAIN d /\ ("parent_hash" \in DOMAIN d <=> i > 1 \/ ~Rooted(w))
    BY <1>11, <2>1
  <2>3. "parent_hash" \in DOMAIN link => d["parent_hash"] = link["parent_hash"]
    BY <1>9
  <2>4. QED
    BY <1>2, <1>11, <2>2, <2>3, Zenon
<1>14. "content_id" \in DOMAIN d =>
         usable /\ Contiguous(w) /\ Rooted(w) /\ d["content_id"] = id
  BY <1>4, <1>10, <1>11
<1>15. /\ {"type", "block_hash", "block_size"} \subseteq DOMAIN d
       /\ DOMAIN d \subseteq {"type", "block_hash", "block_size", "parent_unknown",
                              "parent_hash", "extra_keys", "content_id"}
       /\ d["type"] = "Stored" /\ d["block_hash"] = w["block_hashes"][i]
       /\ d["block_size"] = w["block_size"]
  BY <1>1, <1>3, <1>4, <1>6, <1>7, <1>8
<1>16. ItemOf(d, w, extra, usable, i)
  BY <1>12, <1>13, <1>14, <1>15, Zenon DEF id, ItemOf
<1>17. QED
  BY <1>5, <1>16, Zenon

\* The identities of a chain that begins a run are the texts of the run.
LEMMA ChainIsText ==
  ASSUME NEW e, NEW run, RunsOf(e, <<>>, run), NEW w, NEW extra,
         w["token_ids"] = Tokens(run), w["block_size"] = 2,
         Len(w["block_hashes"]) = Len(run),
         \A i \in 1 .. Len(run) : extra[i] = Last(run[i])[2]
  PROVE  \A i \in 1 .. Len(run) : Chain(w, extra)[i] = run[i]
<1> DEFINE n == Len(run)
           F(f) == [i \in 0 .. n |->
                      IF i = 0 THEN <<>> ELSE content_chain(f[i - 1], Page(w, i), extra[i])]
           id == CHOOSE f : f = F(f)
<1>1. /\ n \in {1, 2}
      /\ \A i \in 1 .. n : /\ SubSeq(Tokens(run), (i - 1) * 2 + 1, i * 2) = Last(run[i])[1]
                           /\ Last(run[i]) \in Blocks
      /\ run[1] = <<Last(run[1])>>
      /\ n = 2 => run[2] = Append(run[1], Last(run[2]))
  BY RunTokens
<1>2. ASSUME NEW i \in 1 .. n
      PROVE  <<Page(w, i), extra[i]>> = Last(run[i])
  <2>1. Page(w, i) = Last(run[i])[1]
    BY <1>1 DEF Page
  <2>2. \A x \in Blocks : <<x[1], x[2]>> = x
    BY DEF Blocks, A, Salted, B, Keyed, Bigram
  <2>3. Last(run[i]) \in Blocks /\ extra[i] = Last(run[i])[2]
    BY <1>1
  <2>4. QED
    BY <2>1, <2>2, <2>3, Zenon
<1>3. ASSUME NEW f, NEW i \in 1 .. n
      PROVE  F(f)[i] = Append(f[i - 1], Last(run[i]))
  <2>1. i \in 0 .. n /\ i # 0
    BY <1>1
  <2>2. F(f)[i] = Append(f[i - 1], <<Page(w, i), extra[i]>>)
    BY <2>1 DEF content_chain
  <2>3. QED
    BY <1>2, <2>2
<1>4. \A x : Append(<<>>, x) = <<x>>
  OBVIOUS
<1>5. \A f : DOMAIN F(f) = 0 .. n /\ F(f)[0] = <<>>
  BY <1>1
<1>6. \E f : f = F(f)
  <2> DEFINE g == [i \in 0 .. n |-> IF i = 0 THEN <<>> ELSE run[i]]
  <2>1. g[0] = <<>> /\ \A i \in 1 .. n : g[i] = run[i]
    BY <1>1
  <2>2. \A i \in 1 .. n : Append(g[i - 1], Last(run[i])) = run[i]
    <3>1. Append(g[0], Last(run[1])) = run[1]
      BY <1>1, <1>4, <2>1
    <3>2. n = 2 => Append(g[1], Last(run[2])) = run[2]
      BY <1>1, <2>1
    <3> HIDE DEF g
    <3>3. QED
      BY <1>1, <3>1, <3>2
  <2>3. \A i \in 0 .. n : F(g)[i] = g[i]
    <3> HIDE DEF g
    <3> DEFINE h == F(g)
    <3>1. h[0] = <<>>
      BY <1>5
    <3>2. \A i \in 1 .. n : h[i] = Append(g[i - 1], Last(run[i]))
      BY <1>3
    <3> HIDE DEF h, F
    <3>3. \A i \in 1 .. n : h[i] = g[i]
      BY <2>1, <2>2, <3>2
    <3>4. \A i \in 0 .. n : i = 0 \/ i \in 1 .. n
      BY <1>1
    <3>5. \A i \in 0 .. n : h[i] = g[i]
      BY <2>1, <3>1, <3>3, <3>4
    <3>6. QED
      BY <3>5 DEF h
  <2>4. g = [i \in 0 .. n |-> g[i]] /\ F(g) = [i \in 0 .. n |-> F(g)[i]]
    OBVIOUS
  <2>5. g = F(g)
    <3> DEFINE h == F(g)
    <3>1. \A i \in 0 .. n : h[i] = g[i]
      BY <2>3
    <3>2. h = [i \in 0 .. n |-> h[i]]
      BY <2>4
    <3> HIDE DEF h
    <3>3. g = h
      BY <2>4, <3>1, <3>2
    <3>4. QED
      BY <3>3 DEF h
  <2>6. QED
    BY <2>5
<1>7. id = F(id)
  BY <1>6
<1>8. Chain(w, extra) = id
  BY Zenon DEF Chain, CONTENT_ROOT
<1> HIDE DEF id
<1>9. id[0] = <<>> /\ \A i \in 1 .. n : id[i] = Append(id[i - 1], Last(run[i]))
  <2>1. \A i \in 1 .. n : F(id)[i] = Append(id[i - 1], Last(run[i]))
    BY <1>3
  <2>2. F(id)[0] = <<>>
    BY <1>5
  <2> HIDE DEF F
  <2>3. QED
    BY <1>7, <2>1, <2>2
<1>10. id[1] = run[1]
  <2>1. id[1] = Append(id[1 - 1], Last(run[1]))
    BY <1>1, <1>9
  <2>2. id[1 - 1] = <<>>
    BY <1>9
  <2>3. QED
    BY <1>1, <1>4, <2>1, <2>2, Zenon
<1>11. n = 2 => id[2] = run[2]
  <2> SUFFICES ASSUME n = 2 PROVE id[2] = run[2]
    OBVIOUS
  <2>1. id[2] = Append(id[2 - 1], Last(run[2]))
    BY <1>9
  <2>2. QED
    BY <1>1, <1>10, <2>1
<1>12. QED
  BY <1>1, <1>8, <1>10, <1>11

\* The extra keys of a run that begins a chain are those of its blocks.
LEMMA ExtraKeys ==
  ASSUME NEW e \in Engines, boot[e] \in Int, NEW place, NEW run, RunsOf(e, <<>>, run)
  PROVE  LET w == Meant(e, StoreEvent(e, place, <<>>, run, run))
         IN \A i \in 1 .. Len(run) : Extra(e, w)[i] = Last(run[i])[2]
<1> DEFINE ev == StoreEvent(e, place, <<>>, run, run)
           w == Meant(e, ev)
           keys == [i \in DOMAIN run |-> Last(run[i])[2]]
           right == \A i \in 1 .. Len(run) : Extra(e, w)[i] = Last(run[i])[2]
<1>1. /\ AtPlace(ev, place) /\ ev["block_hashes"] = OnWires(e, run)
      /\ ~Carries(ev, "parent_block_hash")
      /\ \A f \in {"extra_keys", "cache_salt"} :
           /\ Carries(ev, f) <=> f \in DOMAIN KeysOf(e, run)
           /\ Carries(ev, f) => ev[f] = KeysOf(e, run)[f]
  <2> DEFINE prefix == <<>>
             it == StoreEvent(e, place, prefix, run, run)
  <2>1. /\ AtPlace(it, place) /\ it["block_hashes"] = OnWires(e, run)
        /\ Carries(it, "parent_block_hash") <=> prefix # <<>>
        /\ \A f \in {"extra_keys", "cache_salt"} :
             /\ Carries(it, f) <=> f \in DOMAIN KeysOf(e, run)
             /\ Carries(it, f) => it[f] = KeysOf(e, run)[f]
    <3> HIDE DEF prefix
    <3>1. QED
      BY StoreEventFields, SMTT(20)
  <2>2. QED
    BY <2>1
<1>2. DOMAIN run = 1 .. Len(run)
  BY RunTokens
<1>3. "block_hashes" \in DOMAIN ev
  BY <1>1 DEF AtPlace
<1> HIDE DEF ev
<1>4. /\ DOMAIN w = DOMAIN ev /\ w["block_hashes"] = HashesOf(e, run)
      /\ \A f \in DOMAIN ev : f \notin {"block_hashes", "parent_block_hash"} => w[f] = ev[f]
  BY <1>1, <1>3, MeantFields
<1> HIDE DEF w
<1>5. DOMAIN w["block_hashes"] = DOMAIN run
  BY <1>4 DEF HashesOf
<1>6. ASSUME e = "vllm" PROVE right
  <2>1. Extra(e, w) = VllmExtra(w)
    BY <1>6 DEF Extra
  <2> DEFINE xk == Get(w, "extra_keys", <<>>)
  <2>2. \A i \in DOMAIN run : VllmExtra(w)[i] = IF i \in DOMAIN xk THEN xk[i] ELSE Absent
    BY <1>5 DEF VllmExtra
  <2>3. CASE \A i \in DOMAIN keys : keys[i] = Absent
    <3>1. KeysOf(e, run) = <<>>
      BY <1>6, <2>3, Zenon DEF KeysOf
    <3>2. ~Carries(ev, "extra_keys")
      BY <1>1, <3>1, SmallMaps
    <3>3. xk = <<>>
      BY <1>4, <3>2 DEF Get, Carries
    <3> HIDE DEF xk
    <3>4. \A i \in DOMAIN run : VllmExtra(w)[i] = Absent
      BY <2>2, <3>3, SmallMaps
    <3>5. QED
      BY <1>2, <2>1, <2>3, <3>4
  <2>4. CASE ~(\A i \in DOMAIN keys : keys[i] = Absent)
    <3> DEFINE k == KeysOf(e, run)
    <3>1. k = [extra_keys |-> keys]
      BY <1>6, <2>4, Zenon DEF KeysOf
    <3>2. DOMAIN keys = DOMAIN run /\ \A i \in DOMAIN run : keys[i] = Last(run[i])[2]
      OBVIOUS
    <3> HIDE DEF k, keys
    <3>3. "extra_keys" \in DOMAIN k /\ k["extra_keys"] = keys
      BY <3>1
    <3>4. Carries(ev, "extra_keys") /\ ev["extra_keys"] = keys
      BY <1>1, <3>3 DEF k
    <3>5. xk = keys
      BY <1>4, <3>4 DEF Get, Carries
    <3> HIDE DEF xk
    <3>6. QED
      BY <1>2, <2>1, <2>2, <3>2, <3>5
  <2>5. QED
    BY <2>3, <2>4
<1>7. ASSUME e = "sglang" PROVE right
  <2> DEFINE salt == Head(run[1])[2]
  <2>1. Extra(e, w) = SglangExtra(w)
    BY <1>7 DEF Extra
  <2>2. Rooted(w)
    BY <1>1, <1>4 DEF Rooted, Carries
  <2>3. \A i \in DOMAIN run : SglangExtra(w)[i] = IF i = 1 THEN salt_of(w) ELSE Absent
    BY <1>5, <2>2 DEF SglangExtra
  <2>4. /\ Get(w, "cache_salt", "") = IF salt = Absent THEN "" ELSE salt[1][1]
        /\ "cache_salt" \in DOMAIN w
    <3> DEFINE k == KeysOf(e, run)
               s == IF salt = Absent THEN "" ELSE salt[1][1]
    <3>1. k = [cache_salt |-> s]
      BY <1>7, Zenon DEF KeysOf
    <3> HIDE DEF k, s
    <3>2. "cache_salt" \in DOMAIN k /\ k["cache_salt"] = s
      BY <3>1
    <3>3. Carries(ev, "cache_salt") /\ ev["cache_salt"] = s
      BY <1>1, <3>2 DEF k
    <3>4. Get(w, "cache_salt", "") = s /\ "cache_salt" \in DOMAIN w
      BY <1>4, <3>3 DEF Get, Carries
    <3>5. QED
      BY <3>4 DEF s
  <2>5. PICK x \in Blocks, y \in Blocks :
          \/ run = <<<<x>>>> /\ <<x>> \in Cached(e)
          \/ run = <<<<x>>, <<x, y>>>> /\ <<x>> \in Cached(e) /\ <<x, y>> \in Cached(e)
    <3>1. \A x : <<x>> # <<>>
      OBVIOUS
    <3>2. QED
      BY <3>1, Zenon DEF RunsOf
  <2>6. salt = x[2]
    BY <2>5
  <2> HIDE DEF salt
  <2>7. Cached(e) = {<<A>>, <<Salted, B>>, <<Bigram>>, <<Salted>>}
    BY <1>7 DEF Cached, Texts
  <2>8. x = A \/ x = Bigram \/ x = Salted
    <3> HIDE DEF A, Salted, B, Bigram, Keyed
    <3>1. <<x>> \in Cached(e)
      BY <2>5
    <3>2. QED
      BY <2>7, <3>1
  <2>9. salt_of(w) = x[2]
    <3>1. CASE x = A \/ x = Bigram
      <4>1. x[2] = Absent
        BY <3>1 DEF A, Bigram
      <4>2. Get(w, "cache_salt", "") = ""
        BY <2>4, <2>6, <4>1
      <4>3. QED
        BY <4>1, <4>2 DEF salt_of
    <3>2. CASE x = Salted
      <4>1. x[2] = Present(<<"salt">>) /\ x[2] # Absent /\ x[2][1][1] = "salt"
        BY <3>2 DEF Salted, Present, Absent
      <4>2. Get(w, "cache_salt", "") = "salt" /\ w["cache_salt"] = "salt"
        BY <2>4, <2>6, <4>1 DEF Get
      <4>3. salt_of(w) = Present(<<"salt">>)
        BY <4>2 DEF salt_of
      <4>4. QED
        BY <4>1, <4>3
    <3>3. QED
      BY <2>8, <3>1, <3>2
  <2>10. \A u : Last(<<u>>) = u
    BY DEF Last
  <2>11. \A u, v : Last(<<u, v>>) = v
    BY DEF Last
  <2>12. CASE run = <<<<x>>>>
    <3>1. run[1] = <<x>> /\ Len(run) = 1
      BY <2>12
    <3>2. \A i \in DOMAIN run : i = 1
      BY <1>2, <3>1
    <3>3. Last(run[1]) = x
      BY <2>10, <3>1
    <3>4. QED
      BY <1>2, <2>1, <2>3, <2>9, <3>2, <3>3
  <2>13. CASE run = <<<<x>>, <<x, y>>>> /\ <<x, y>> \in Cached(e)
    <3>1. run[1] = <<x>> /\ Len(run) = 2
      BY <2>13
    <3>2. run[2] = <<x, y>>
      BY <2>13
    <3>3. Last(run[1]) = x
      BY <2>10, <3>1
    <3>4. Last(run[2]) = y
      BY <2>11, <3>2
    <3>5. y = B
      <4> HIDE DEF A, Salted, B, Bigram, Keyed
      <4>1. QED
        BY <2>7, <2>13
    <3>6. y[2] = Absent
      BY <3>5 DEF B
    <3>7. \A i \in DOMAIN run : i = 1 \/ i = 2
      BY <1>2, <3>1
    <3>8. QED
      BY <1>2, <2>1, <2>3, <2>9, <3>3, <3>4, <3>6, <3>7
  <2>14. QED
    BY <2>5, <2>12, <2>13
<1>8. right
  BY <1>6, <1>7 DEF Engines
<1>9. QED
  BY <1>8 DEF w, ev

\* One event of a block at a place, with the hash its engine meant.
BlockAt(e, x, place, text) ==
  /\ x["block_hash"] = Hash(e, text) /\ x["at_ms"] = (sent + 1) * 1000
  /\ {"type", "block_hash", "at_ms", "dp_rank", "group_idx", "medium"} \subseteq DOMAIN x
  /\ x["dp_rank"] = place[1] /\ x["group_idx"] = place[2] /\ x["medium"] = place[3]
  /\ DOMAIN x \cap {"seq", "lora_id"} = {}

TrueParent(e, x, text) ==
  IF "parent_unknown" \in DOMAIN x THEN x["parent_unknown"] = TRUE
  ELSE IF "parent_hash" \in DOMAIN x THEN Len(text) > 1 /\ x["parent_hash"] = Hash(e, Parent(text))
       ELSE Len(text) = 1

StoredOf(e, d, place, blocks) ==
  /\ DOMAIN d = DOMAIN blocks /\ d = [i \in DOMAIN d |-> d[i]]
  /\ \A i \in DOMAIN d :
       /\ BlockAt(e, d[i], place, blocks[i])
       /\ d[i]["type"] = "Stored" /\ d[i]["block_size"] = 2 /\ "block_size" \in DOMAIN d[i]
       /\ TrueParent(e, d[i], blocks[i])
       /\ "content_id" \in DOMAIN d[i] => d[i]["content_id"] = blocks[i]

RemovedOf(e, d, place, blocks) ==
  /\ DOMAIN d = DOMAIN blocks /\ d = [i \in DOMAIN d |-> d[i]]
  /\ \A i \in DOMAIN d :
       /\ BlockAt(e, d[i], place, blocks[i])
       /\ d[i]["type"] = "Removed" /\ "content_id" \notin DOMAIN d[i]

\* An event that names a block's hash, and that event with the shared fields.
Bare(x, hash) ==
  /\ {"type", "block_hash"} \subseteq DOMAIN x /\ x["block_hash"] = hash
  /\ DOMAIN x \subseteq {"type", "block_hash", "block_size", "parent_unknown",
                         "parent_hash", "extra_keys", "content_id"}
Joined(y, c, x) ==
  DOMAIN y = DOMAIN c \cup DOMAIN x /\ \A f \in DOMAIN x : y[f] = x[f]

\* A block's event under the shared fields is at the place and of the hash.
LEMMA UnderShared ==
  ASSUME NEW c, NEW place, SharedAt(c, place), NEW x, NEW e, NEW text, Bare(x, Hash(e, text))
  PROVE  BlockAt(e, c ++ x, place, text) /\ Joined(c ++ x, c, x)
<1> DEFINE m == c ++ x
<1>1. DOMAIN m = DOMAIN c \cup DOMAIN x
  BY DEF ++
<1>2. \A f \in DOMAIN c : m[f] = c[f]
  BY DEF ++
<1>3. \A f \in DOMAIN x : m[f] = x[f]
  BY DEF ++, SharedAt, Bare
<1> HIDE DEF m
<1>4. BlockAt(e, m, place, text)
  BY <1>1, <1>2, <1>3 DEF BlockAt, SharedAt, Bare
<1>5. QED
  BY <1>1, <1>3, <1>4 DEF m, Joined

\* The blocks an engine keeps of a run.
LEMMA KeptBlocks ==
  ASSUME NEW e, NEW prefix, NEW run, RunsOf(e, prefix, run), NEW place, NEW blocks \in Kept(place, run)
  PROVE  /\ Len(blocks) \in {1, 2} /\ DOMAIN blocks = 1 .. Len(blocks)
         /\ \A i \in 1 .. Len(blocks) : blocks[i] \in Cached(e)
         /\ Len(Tokens(run)) = Len(blocks) * 2 <=> blocks = run
<1>1. /\ Len(run) \in {1, 2} /\ run \in Seq(Cached(e)) /\ Len(Tokens(run)) = 2 * Len(run)
  BY RunTokens
<1>2. DOMAIN run = 1 .. Len(run) /\ \A i \in 1 .. Len(run) : run[i] \in Cached(e)
  BY <1>1
<1>3. CASE blocks = run
  BY <1>1, <1>2, <1>3
<1>4. CASE blocks # run
  <2>1. PICK j \in DOMAIN run : Len(run) > 1 /\ blocks = <<run[j]>>
    BY <1>4 DEF Kept
  <2>2. /\ DOMAIN <<run[j]>> = 1 .. 1 /\ Len(<<run[j]>>) = 1 /\ <<run[j]>>[1] = run[j]
    OBVIOUS
  <2>3. QED
    BY <1>1, <1>2, <1>4, <2>1, <2>2
<1>5. QED
  BY <1>3, <1>4

\* What a stored run's event is derived as.
LEMMA StoredMeans ==
  ASSUME NEW e \in Engines, boot[e] \in Int, sent \in Int, NEW place \in Places(e),
         NEW prefix, NEW run, RunsOf(e, prefix, run), NEW blocks \in Kept(place, run)
  PROVE  StoredOf(e, derive(e, Batch(StoreEvent(e, place, prefix, run, blocks), Ranked(e, place[1]))),
                  place, blocks)
<1> DEFINE ev == StoreEvent(e, place, prefix, run, blocks)
           w == Meant(e, ev)
           usable == Usable(e, w)
           s == StoredRun(w, Extra(e, w), usable)
           d == derive(e, Batch(ev, Ranked(e, place[1])))
<1>1. /\ AtPlace(ev, place) /\ ev["type"] = "BlockStored" /\ ev["block_size"] = 2
      /\ ev["token_ids"] = Tokens(run) /\ ev["block_hashes"] = OnWires(e, blocks)
      /\ {"block_size", "token_ids"} \subseteq DOMAIN ev
      /\ Carries(ev, "parent_block_hash") <=> prefix # <<>>
      /\ prefix # <<>> => ev["parent_block_hash"] = OnWire(e, prefix)
  BY StoreEventFields, SMTT(20)
<1>2. prefix = <<>> /\ blocks = run =>
        \A i \in 1 .. Len(run) : Extra(e, w)[i] = Last(run[i])[2]
  <2> SUFFICES ASSUME prefix = <<>>, blocks = run
               PROVE  \A i \in 1 .. Len(run) : Extra(e, w)[i] = Last(run[i])[2]
    OBVIOUS
  <2>1. RunsOf(e, <<>>, run)
    OBVIOUS
  <2>2. QED
    BY <2>1, ExtraKeys
<1>3. PICK c : SharedAt(c, place) /\ d = Under(c, s)
  <2> HIDE DEF ev
  <2>1. QED
    BY <1>1, DerivedBlocks
<1> HIDE DEF ev, d
<1>4. "block_hashes" \in DOMAIN ev
  BY <1>1 DEF AtPlace
<1>5. /\ DOMAIN w = DOMAIN ev /\ w["block_hashes"] = HashesOf(e, blocks)
      /\ \A f \in DOMAIN ev : f \notin {"block_hashes", "parent_block_hash"} => w[f] = ev[f]
      /\ Carries(ev, "parent_block_hash") /\ ev["parent_block_hash"] = OnWire(e, prefix) =>
           w["parent_block_hash"] = Hash(e, prefix)
  BY <1>1, <1>4, MeantFields
<1>6. usable \in BOOLEAN
  BY Zenon DEF Usable, token_ids_usable
<1> HIDE DEF w, usable
<1>7. /\ w["token_ids"] = Tokens(run) /\ w["block_size"] = 2
      /\ Rooted(w) <=> prefix = <<>>
      /\ prefix # <<>> => w["parent_block_hash"] = Hash(e, prefix)
  BY <1>1, <1>5 DEF Rooted, Carries
<1>8. /\ Len(blocks) \in {1, 2} /\ DOMAIN blocks = 1 .. Len(blocks)
      /\ Len(Tokens(run)) = Len(blocks) * 2 <=> blocks = run
  BY KeptBlocks
<1>9. /\ DOMAIN w["block_hashes"] = 1 .. Len(blocks) /\ Len(w["block_hashes"]) = Len(blocks)
      /\ \A i \in 1 .. Len(blocks) : w["block_hashes"][i] = Hash(e, blocks[i])
  <2>1. /\ DOMAIN HashesOf(e, blocks) = 1 .. Len(blocks)
        /\ \A i \in 1 .. Len(blocks) : HashesOf(e, blocks)[i] = Hash(e, blocks[i])
    BY <1>8 DEF HashesOf
  <2>2. Len(HashesOf(e, blocks)) = Len(blocks)
    BY <1>8, <2>1
  <2>3. QED
    BY <1>5, <2>1, <2>2
<1>10. Contiguous(w) <=> blocks = run
  BY <1>7, <1>8, <1>9 DEF Contiguous
<1>11. DOMAIN s = 1 .. Len(blocks)
  BY <1>9 DEF StoredRun
<1>12. /\ DOMAIN d = DOMAIN blocks /\ d = [i \in DOMAIN d |-> d[i]]
       /\ \A i \in 1 .. Len(blocks) : d[i] = c ++ s[i]
  BY <1>3, <1>8, <1>11 DEF Under
<1>13. ASSUME NEW i \in 1 .. Len(blocks)
       PROVE  /\ BlockAt(e, d[i], place, blocks[i])
              /\ d[i]["type"] = "Stored" /\ d[i]["block_size"] = 2 /\ "block_size" \in DOMAIN d[i]
              /\ TrueParent(e, d[i], blocks[i])
              /\ "content_id" \in DOMAIN d[i] => d[i]["content_id"] = blocks[i]
  <2> DEFINE x == s[i]
             extra == Extra(e, w)
  <2>1. i \in DOMAIN w["block_hashes"] /\ i \in Nat \ {0}
    BY <1>8, <1>9
  <2>2. /\ {"type", "block_hash", "block_size"} \subseteq DOMAIN x
        /\ DOMAIN x \subseteq {"type", "block_hash", "block_size", "parent_unknown",
                               "parent_hash", "extra_keys", "content_id"}
        /\ x["type"] = "Stored" /\ x["block_hash"] = w["block_hashes"][i]
        /\ x["block_size"] = w["block_size"]
        /\ ~Contiguous(w) => "parent_unknown" \in DOMAIN x /\ x["parent_unknown"] = TRUE
        /\ Contiguous(w) =>
             /\ "parent_unknown" \notin DOMAIN x
             /\ "parent_hash" \in DOMAIN x <=> i > 1 \/ ~Rooted(w)
             /\ i > 1 => x["parent_hash"] = w["block_hashes"][i - 1]
             /\ i = 1 /\ ~Rooted(w) => x["parent_hash"] = w["parent_block_hash"]
        /\ "content_id" \in DOMAIN x =>
             usable /\ Contiguous(w) /\ Rooted(w) /\ x["content_id"] = Chain(w, extra)[i]
    <3>1. ItemOf(x, w, extra, usable, i)
      BY <1>6, <2>1, StoredItem, Zenon
    <3>2. QED
      BY <3>1, Zenon DEF ItemOf
  <2>3. "content_id" \in DOMAIN x => x["content_id"] = blocks[i]
    <3> SUFFICES ASSUME "content_id" \in DOMAIN x PROVE x["content_id"] = blocks[i]
      OBVIOUS
    <3>1. Contiguous(w) /\ Rooted(w) /\ x["content_id"] = Chain(w, extra)[i]
      BY <2>2
    <3>2. blocks = run /\ prefix = <<>>
      BY <1>7, <1>10, <3>1
    <3>3. \A j \in 1 .. Len(run) : extra[j] = Last(run[j])[2]
      BY <1>2, <3>2
    <3>4. RunsOf(e, <<>>, run)
      BY <3>2
    <3> HIDE DEF extra
    <3>5. \A j \in 1 .. Len(run) : Chain(w, extra)[j] = run[j]
      BY <1>7, <1>9, <3>2, <3>3, <3>4, ChainIsText
    <3>6. QED
      BY <3>1, <3>2, <3>5
  <2> HIDE DEF x, extra
  <2>4. /\ prefix = <<>> => Len(run[1]) = 1
        /\ prefix # <<>> => Len(run[1]) > 1 /\ Parent(run[1]) = prefix
        /\ Len(run) = 2 => Len(run[2]) > 1 /\ Parent(run[2]) = run[1]
    BY RunTokens
  <2>5. Contiguous(w) =>
          /\ "parent_unknown" \notin DOMAIN x
          /\ "parent_hash" \in DOMAIN x =>
               Len(blocks[i]) > 1 /\ x["parent_hash"] = Hash(e, Parent(blocks[i]))
          /\ "parent_hash" \notin DOMAIN x => Len(blocks[i]) = 1
    <3> SUFFICES ASSUME Contiguous(w)
                 PROVE  /\ "parent_unknown" \notin DOMAIN x
                        /\ "parent_hash" \in DOMAIN x =>
                             Len(blocks[i]) > 1 /\ x["parent_hash"] = Hash(e, Parent(blocks[i]))
                        /\ "parent_hash" \notin DOMAIN x => Len(blocks[i]) = 1
      OBVIOUS
    <3>1. blocks = run
      BY <1>10
    <3>2. CASE i = 1 /\ prefix = <<>>
      BY <1>7, <2>2, <2>4, <3>1, <3>2
    <3>3. CASE i = 1 /\ prefix # <<>>
      BY <1>7, <2>2, <2>4, <3>1, <3>3
    <3>4. CASE i = 2
      <4>1. Len(run) = 2 /\ 1 \in 1 .. Len(blocks)
        BY <1>8, <3>1, <3>4
      <4>2. w["block_hashes"][1] = Hash(e, run[1])
        BY <1>9, <3>1, <4>1
      <4>3. i > 1 /\ i - 1 = 1
        BY <3>4
      <4>4. "parent_hash" \in DOMAIN x /\ x["parent_hash"] = w["block_hashes"][1]
        BY <2>2, <4>3
      <4>5. QED
        BY <2>2, <2>4, <3>1, <3>4, <4>1, <4>2, <4>4
    <3>5. QED
      BY <1>8, <3>2, <3>3, <3>4
  <2>6. BlockAt(e, c ++ x, place, blocks[i]) /\ Joined(c ++ x, c, x)
    <3>1. Bare(x, Hash(e, blocks[i]))
      BY <1>9, <2>2 DEF Bare
    <3>2. QED
      BY <1>3, <3>1, UnderShared, Zenon
  <2>7. d[i] = c ++ x
    BY <1>12 DEF x
  <2> DEFINE y == d[i]
  <2>8. /\ BlockAt(e, y, place, blocks[i]) /\ DOMAIN y = DOMAIN c \cup DOMAIN x
        /\ \A f \in DOMAIN x : y[f] = x[f]
    BY <2>6, <2>7 DEF Joined
  <2> HIDE DEF y
  <2>9. \A f \in {"parent_unknown", "parent_hash", "content_id"} : f \in DOMAIN y <=> f \in DOMAIN x
    BY <1>3, <2>8 DEF SharedAt
  <2>10. TrueParent(e, y, blocks[i])
    BY <2>2, <2>5, <2>8, <2>9 DEF TrueParent
  <2>11. y["type"] = "Stored" /\ y["block_size"] = 2 /\ "block_size" \in DOMAIN y
    BY <1>7, <2>2, <2>8
  <2>12. "content_id" \in DOMAIN y => y["content_id"] = blocks[i]
    BY <2>3, <2>8, <2>9
  <2>13. QED
    BY <2>8, <2>10, <2>11, <2>12 DEF y
<1>14. StoredOf(e, d, place, blocks)
  BY <1>8, <1>12, <1>13, Zenon DEF StoredOf
<1>15. QED
  BY <1>14 DEF d, ev

\* What a removal's event is derived as.
LEMMA RemovedMeans ==
  ASSUME NEW e \in Engines, boot[e] \in Int, sent \in Int, NEW place \in Places(e), NEW blocks
  PROVE  RemovedOf(e, derive(e, Batch(RemoveEvent(e, place, blocks), Ranked(e, place[1]))),
                   place, blocks)
<1> DEFINE ev == RemoveEvent(e, place, blocks)
           w == Meant(e, ev)
           s == RemovedRun(w)
           d == derive(e, Batch(ev, Ranked(e, place[1])))
<1>1. /\ AtPlace(ev, place) /\ ev["type"] = "BlockRemoved"
      /\ ev["block_hashes"] = OnWires(e, blocks)
  BY RemoveEventFields, Zenon
<1>2. PICK c : SharedAt(c, place) /\ d = Under(c, s)
  <2> HIDE DEF ev
  <2>1. QED
    BY <1>1, DerivedBlocks
<1> HIDE DEF ev, d
<1>3. "block_hashes" \in DOMAIN ev
  BY <1>1 DEF AtPlace
<1>4. w["block_hashes"] = HashesOf(e, blocks)
  BY <1>1, <1>3, MeantFields
<1> HIDE DEF w
<1>5. DOMAIN s = DOMAIN blocks
  BY <1>4 DEF RemovedRun, HashesOf
<1>6. /\ DOMAIN d = DOMAIN blocks /\ d = [i \in DOMAIN d |-> d[i]]
      /\ \A i \in DOMAIN blocks : d[i] = c ++ s[i]
  BY <1>2, <1>5 DEF Under
<1>7. ASSUME NEW i \in DOMAIN blocks
      PROVE  /\ BlockAt(e, d[i], place, blocks[i])
             /\ d[i]["type"] = "Removed" /\ "content_id" \notin DOMAIN d[i]
  <2> DEFINE x == s[i]
  <2>1. /\ DOMAIN x = {"type", "block_hash"} /\ x["type"] = "Removed"
        /\ x["block_hash"] = Hash(e, blocks[i])
    BY <1>4 DEF RemovedRun, HashesOf
  <2> HIDE DEF x
  <2>2. BlockAt(e, c ++ x, place, blocks[i]) /\ Joined(c ++ x, c, x)
    <3>1. Bare(x, Hash(e, blocks[i]))
      BY <2>1 DEF Bare
    <3>2. QED
      BY <1>2, <3>1, UnderShared, Zenon
  <2>3. d[i] = c ++ x
    BY <1>6 DEF x
  <2>4. DOMAIN c = {"at_ms", "dp_rank", "group_idx", "medium"}
    BY <1>2 DEF SharedAt
  <2> DEFINE y == d[i]
  <2>5. /\ BlockAt(e, y, place, blocks[i]) /\ DOMAIN y = DOMAIN c \cup DOMAIN x
        /\ \A f \in DOMAIN x : y[f] = x[f]
    BY <2>2, <2>3 DEF Joined
  <2> HIDE DEF y
  <2>6. QED
    BY <2>1, <2>4, <2>5 DEF y
<1>8. RemovedOf(e, d, place, blocks)
  BY <1>6, <1>7, Zenon DEF RemovedOf
<1>9. QED
  BY <1>8 DEF d, ev

-----------------------------------------------------------------------------
(***************************************************************************)
(* What a message tells the reader.                                        *)
(***************************************************************************)
Numbered(e, x) == [seq |-> next[e]] ++ x

\* The event as the producer records it: with the message's number.
LEMMA NumberedFields ==
  ASSUME NEW e, NEW x, "seq" \notin DOMAIN x
  PROVE  LET y == Numbered(e, x)
         IN /\ DOMAIN y = DOMAIN x \cup {"seq"} /\ y["seq"] = next[e]
            /\ \A f \in DOMAIN x : y[f] = x[f]
            /\ \A f : f # "seq" => (Carries(y, f) <=> Carries(x, f))
<1> DEFINE m == [seq |-> next[e]]
           y == m ++ x
<1>1. DOMAIN m = {"seq"} /\ m["seq"] = next[e]
  OBVIOUS
<1> HIDE DEF m
<1>2. /\ DOMAIN y = DOMAIN x \cup {"seq"} /\ y["seq"] = next[e]
      /\ \A f \in DOMAIN x : y[f] = x[f]
  BY <1>1 DEF ++
<1>3. y = Numbered(e, x)
  BY DEF m, Numbered
<1> HIDE DEF y
<1>4. \A f : f # "seq" => (Carries(y, f) <=> Carries(x, f))
  BY <1>2 DEF Carries
<1>5. QED
  BY <1>2, <1>3, <1>4

Listed(s, n) == s = [i \in 1 .. n |-> s[i]]

\* A sequence behind one more element.
LEMMA Joins ==
  ASSUME NEW x, NEW s, NEW n \in Nat, Listed(s, n)
  PROVE  /\ DOMAIN (<<x>> \o s) = 1 .. n + 1 /\ (<<x>> \o s)[1] = x
         /\ \A i \in 1 .. n : (<<x>> \o s)[1 + i] = s[i]
         /\ <<>> \o s = s
<1> DEFINE S == {s[i] : i \in 1 .. n} \cup {x}
           a == <<x>>
           u == a \o s
<1>1. s \in Seq(S) /\ Len(s) = n
  <2>1. \A i \in 1 .. n : s[i] \in S
    OBVIOUS
  <2> HIDE DEF S
  <2>2. s \in [1 .. n -> S]
    BY <2>1 DEF Listed
  <2>3. QED
    BY <2>2
<1>2. a \in Seq(S) /\ Len(a) = 1 /\ a[1] = x
  OBVIOUS
<1> HIDE DEF S, a
<1>3. /\ u \in Seq(S) /\ Len(u) = Len(a) + Len(s)
      /\ \A i \in 1 .. Len(a) + Len(s) : u[i] = IF i <= Len(a) THEN a[i] ELSE s[i - Len(a)]
  BY <1>1, <1>2, ConcatProperties, Zenon
<1> HIDE DEF u
<1>4. /\ Len(u) = n + 1 /\ DOMAIN u = 1 .. n + 1
      /\ \A i \in 1 .. n + 1 : u[i] = IF i <= 1 THEN a[i] ELSE s[i - 1]
  <2>1. Len(a) + Len(s) = n + 1 /\ Len(a) = 1
    BY <1>1, <1>2
  <2>2. Len(u) = n + 1
    BY <1>3, <2>1
  <2>3. DOMAIN u = 1 .. n + 1
    BY <1>3, <2>2
  <2>4. ASSUME NEW i \in 1 .. n + 1 PROVE u[i] = IF i <= 1 THEN a[i] ELSE s[i - 1]
    <3>1. i \in 1 .. Len(a) + Len(s)
      BY <2>1
    <3>2. u[i] = IF i <= Len(a) THEN a[i] ELSE s[i - Len(a)]
      BY <1>3, <3>1
    <3>3. QED
      BY <2>1, <3>2
  <2>5. QED
    BY <2>2, <2>3, <2>4
<1>5. u[1] = x
  <2>1. 1 \in 1 .. n + 1 /\ 1 <= 1
    OBVIOUS
  <2>2. u[1] = a[1]
    BY <1>4, <2>1
  <2>3. QED
    BY <1>2, <2>2
<1>6. ASSUME NEW i \in 1 .. n PROVE u[1 + i] = s[i]
  <2>1. 1 + i \in 1 .. n + 1 /\ ~(1 + i <= 1) /\ (1 + i) - 1 = i
    OBVIOUS
  <2>2. QED
    BY <1>4, <2>1
<1>7. <<>> \o s = s
  BY <1>1, ConcatEmptySeq, Zenon
<1>8. QED
  BY <1>4, <1>5, <1>6, <1>7 DEF u, a

\* The message's records, after the reset if one comes first, each with the
\* text of its block.
First(e) == IF Regressed(e) THEN 1 ELSE 0
TextOf(blocks, n, i) == IF Len(blocks) = n THEN blocks[i] ELSE <<>>
Shows(e, message, blocks, d, n, told) ==
  /\ DOMAIN told = 1 .. First(e) + n
  /\ Regressed(e) => told[1].record = record(e, Numbered(e, Reset(message)))
  /\ \A i \in 1 .. n : /\ told[First(e) + i].record = record(e, Numbered(e, d[i]))
                       /\ told[First(e) + i].text = TextOf(blocks, n, i)

\* The records of a message, after a reset or alone, with their blocks' texts.
LEMMA Telling ==
  ASSUME NEW e, NEW message, NEW n \in Nat, NEW d, Listed(d, n),
         derive(e, message) = d, NEW blocks, Len(blocks) \in {0, n}
  PROVE  Shows(e, message, blocks, d, n, Told(Transduced(e, message), blocks))
<1> DEFINE before == IF Regressed(e) THEN <<Reset(message)>> ELSE <<>>
           events == before \o d
           t == [i \in DOMAIN events |-> record(e, [seq |-> next[e]] ++ events[i])]
           told == Told(t, blocks)
           r == First(e)
<1>1. Transduced(e, message) = t
  BY Zenon DEF Transduced
<1>2. /\ DOMAIN events = 1 .. r + n /\ r \in {0, 1}
      /\ Regressed(e) => r = 1 /\ events[1] = Reset(message)
      /\ \A i \in 1 .. n : events[r + i] = d[i]
  <2>1. CASE Regressed(e)
    <3>1. before = <<Reset(message)>> /\ r = 1
      BY <2>1 DEF First
    <3> HIDE DEF r
    <3> DEFINE x == Reset(message)
               u == <<x>> \o d
    <3>2. DOMAIN u = 1 .. n + 1 /\ u[1] = x /\ \A i \in 1 .. n : u[1 + i] = d[i]
      <4> HIDE DEF x
      <4>1. n \in Nat /\ Listed(d, n)
        OBVIOUS
      <4>2. QED
        BY <4>1, Joins, SMTT(30)
    <3>3. /\ DOMAIN events = 1 .. n + 1 /\ events[1] = Reset(message)
          /\ \A i \in 1 .. n : events[1 + i] = d[i]
      <4>1. events = u
        BY <3>1
      <4> HIDE DEF events, u
      <4>2. QED
        BY <3>2, <4>1
    <3> HIDE DEF events
    <3>4. QED
      BY <3>1, <3>3
  <2>2. CASE ~Regressed(e)
    <3>1. before = <<>> /\ r = 0
      BY <2>2 DEF First
    <3> HIDE DEF r
    <3>2. events = d
      BY <3>1, Joins, Zenon
    <3>3. DOMAIN d = 1 .. n
      BY DEF Listed
    <3> HIDE DEF events
    <3>4. QED
      BY <2>2, <3>1, <3>2, <3>3
  <2>3. QED
    BY <2>1, <2>2
<1> HIDE DEF events, r
<1>3. /\ DOMAIN t = 1 .. r + n /\ Len(t) = r + n
      /\ \A i \in DOMAIN events : t[i] = record(e, Numbered(e, events[i]))
  BY <1>2 DEF Numbered
<1> HIDE DEF t
<1>4. /\ DOMAIN told = 1 .. r + n
      /\ \A i \in 1 .. r + n :
           /\ told[i].record = t[i]
           /\ told[i].text = IF i > r + n - Len(blocks) THEN blocks[i - (r + n - Len(blocks))]
                             ELSE <<>>
  <2> DEFINE own == Len(t) - Len(blocks)
  <2>1. told = [i \in DOMAIN t |->
                  [record |-> t[i], text |-> IF i > own THEN blocks[i - own] ELSE <<>>]]
    BY Zenon DEF Told
  <2>2. own = r + n - Len(blocks)
    <3>1. Len(t) = r + n
      BY <1>3
    <3>2. QED
      BY <1>2, <3>1
  <2> HIDE DEF told, own
  <2>3. QED
    BY <1>3, <2>1, <2>2
<1> HIDE DEF told
<1>5. Regressed(e) => told[1].record = record(e, Numbered(e, Reset(message)))
  BY <1>2, <1>3, <1>4
<1>6. ASSUME NEW i \in 1 .. n
      PROVE  /\ told[r + i].record = record(e, Numbered(e, d[i]))
             /\ told[r + i].text = TextOf(blocks, n, i)
  <2>1. r + i \in 1 .. r + n /\ events[r + i] = d[i]
    <3>1. r \in {0, 1} /\ n \in Nat
      BY <1>2
    <3>2. r + i \in 1 .. r + n
      BY <3>1
    <3>3. QED
      BY <1>2, <3>2
  <2>2. told[r + i].record = record(e, Numbered(e, d[i]))
    BY <1>2, <1>3, <1>4, <2>1
  <2>3. CASE Len(blocks) = n
    <3>1. r + i > r + n - Len(blocks) /\ r + i - (r + n - Len(blocks)) = i
      BY <1>2, <2>3
    <3>2. told[r + i].text = blocks[r + i - (r + n - Len(blocks))]
      BY <1>2, <1>4, <2>1, <3>1
    <3>3. told[r + i].text = blocks[i]
      BY <3>1, <3>2
    <3>4. QED
      BY <2>2, <2>3, <3>3 DEF TextOf
  <2>4. CASE Len(blocks) # n
    <3>1. Len(blocks) = 0 /\ ~(r + i > r + n - Len(blocks))
      BY <1>2, <2>4
    <3>2. told[r + i].text = <<>>
      BY <1>4, <2>1, <3>1
    <3>3. QED
      BY <2>2, <2>4, <3>2 DEF TextOf
  <2>5. QED
    BY <2>3, <2>4
<1>7. Shows(e, message, blocks, d, n, told)
  BY <1>4, <1>5, <1>6 DEF Shows, r
<1>8. QED
  BY <1>1, <1>7 DEF told

\* An event of which the record says what is so of the block of this text.
Truth(e, ev, text) ==
  /\ Event(ev)
  /\ ev["type"] \in {"Stored", "Removed"} => Carries(ev, "medium")
  /\ ev["type"] = "Stored" => TrueParent(e, ev, text)
  /\ Carries(ev, "content_id") => ev["type"] = "Stored" /\ ev["content_id"] = text

Counts(e) ==
  /\ sent \in Nat /\ (sent + 1) * 1000 + 60000 <= Mantissa
  /\ next[e] \in 0 .. I64

\* A message whose clock, and the reset's after it, are exact.
Timely(message) == at_ms(message) \in Nat /\ at_ms(message) + 60000 <= Mantissa

\* So is the next message, and so are its events.
LEMMA NextIsTimely ==
  ASSUME NEW e, Counts(e)
  PROVE  /\ sent \in Int /\ (sent + 1) * 1000 \in Moments
         /\ \A message : at_ms(message) = (sent + 1) * 1000 => Timely(message)
BY WidthAssumption DEF Counts, Moments, Timely

\* The numbers of a place are within the schema's bounds.
LEMMA PlaceNumbers ==
  ASSUME NEW e, NEW place \in Places(e)
  PROVE  place[1] \in 0 .. U32 /\ place[2] \in 0 .. U32
<1>1. 0 \in 0 .. U32 /\ 1 \in 0 .. U32
  BY WidthAssumption
<1>2. place[1] \in {0, 1} /\ place[2] \in {0, 1}
  BY DEF Places
<1>3. QED
  BY <1>1, <1>2

\* The event of a block, numbered.
LEMMA BlockEvent ==
  ASSUME NEW e, Counts(e), NEW place \in Places(e), NEW x, NEW text,
         BlockAt(e, x, place, text), x["type"] \in {"Stored", "Removed"},
         x["type"] = "Stored" => x["block_size"] = 2 /\ "block_size" \in DOMAIN x
  PROVE  LET y == Numbered(e, x)
         IN Event(y) /\ y["type"] = x["type"] /\ Block(e, y) = EntryFor(e, <<place, text>>)
<1> DEFINE y == Numbered(e, x)
<1>1. "seq" \notin DOMAIN x
  BY DEF BlockAt
<1>2. /\ DOMAIN y = DOMAIN x \cup {"seq"} /\ y["seq"] = next[e]
      /\ \A f \in DOMAIN x : y[f] = x[f]
      /\ \A f : f # "seq" => (Carries(y, f) <=> Carries(x, f))
  BY <1>1, NumberedFields, Zenon
<1> HIDE DEF y
<1>3. /\ place[1] \in 0 .. U32 /\ place[2] \in 0 .. U32 /\ 2 \in 0 .. I64
      /\ (sent + 1) * 1000 \in Moments
  BY PlaceNumbers, NextIsTimely, WidthAssumption
<1>4. /\ y["type"] = x["type"] /\ y["at_ms"] = (sent + 1) * 1000
      /\ y["block_hash"] = Hash(e, text) /\ y["medium"] = place[3]
      /\ Carries(y, "dp_rank") /\ y["dp_rank"] = place[1]
      /\ Carries(y, "group_idx") /\ y["group_idx"] = place[2]
      /\ ~Carries(y, "lora_id")
      /\ y["type"] = "Stored" => y["block_size"] = 2
  BY <1>2 DEF BlockAt, Carries
<1>5. Event(y)
  BY <1>2, <1>3, <1>4 DEF Event, Counts
<1>6. Get(y, "dp_rank", 0) = place[1] /\ Get(y, "group_idx", 0) = place[2]
  BY <1>4 DEF Get, Carries
<1>7. Block(e, y) = EntryFor(e, <<place, text>>)
  BY <1>4, <1>6 DEF Block, EntryFor
<1>8. QED
  BY <1>4, <1>5, <1>7 DEF y

\* The event of a block of the message, numbered.
BlockTruth(e, x, place, text, type) ==
  /\ Truth(e, Numbered(e, x), text) /\ Numbered(e, x)["type"] = type
  /\ Block(e, Numbered(e, x)) = EntryFor(e, <<place, text>>)

\* A derived store is true of its block.
LEMMA StoredTruth ==
  ASSUME NEW e, Counts(e), NEW place \in Places(e), NEW d, NEW blocks,
         StoredOf(e, d, place, blocks), NEW i \in DOMAIN d
  PROVE  BlockTruth(e, d[i], place, blocks[i], "Stored")
<1> DEFINE x == d[i]
           text == blocks[i]
           y == Numbered(e, x)
<1>1. /\ BlockAt(e, x, place, text)
      /\ x["type"] = "Stored" /\ x["block_size"] = 2 /\ "block_size" \in DOMAIN x
      /\ TrueParent(e, x, text)
      /\ "content_id" \in DOMAIN x => x["content_id"] = text
  BY Zenon DEF StoredOf
<1> HIDE DEF x, text
<1>2. Event(y) /\ y["type"] = x["type"] /\ Block(e, y) = EntryFor(e, <<place, text>>)
  BY <1>1, BlockEvent
<1>3. "seq" \notin DOMAIN x /\ "medium" \in DOMAIN x
  BY <1>1 DEF BlockAt
<1>4. /\ DOMAIN y = DOMAIN x \cup {"seq"}
      /\ \A f \in DOMAIN x : y[f] = x[f]
  BY <1>3, NumberedFields, Zenon
<1> HIDE DEF y
<1>5. TrueParent(e, y, text)
  BY <1>1, <1>4 DEF TrueParent
<1>6. Truth(e, y, text)
  BY <1>1, <1>2, <1>3, <1>4, <1>5 DEF Truth, Carries
<1>7. QED
  BY <1>1, <1>2, <1>6 DEF x, y, text, BlockTruth

\* A derived eviction is true of its block.
LEMMA RemovedTruth ==
  ASSUME NEW e, Counts(e), NEW place \in Places(e), NEW d, NEW blocks,
         RemovedOf(e, d, place, blocks), NEW i \in DOMAIN d
  PROVE  BlockTruth(e, d[i], place, blocks[i], "Removed")
<1> DEFINE x == d[i]
           text == blocks[i]
           y == Numbered(e, x)
<1>1. /\ BlockAt(e, x, place, text)
      /\ x["type"] = "Removed" /\ "content_id" \notin DOMAIN x
  BY Zenon DEF RemovedOf
<1> HIDE DEF x, text
<1>2. Event(y) /\ y["type"] = x["type"] /\ Block(e, y) = EntryFor(e, <<place, text>>)
  BY <1>1, BlockEvent
<1>3. "seq" \notin DOMAIN x /\ "medium" \in DOMAIN x
  BY <1>1 DEF BlockAt
<1>4. /\ DOMAIN y = DOMAIN x \cup {"seq"}
      /\ \A f \in DOMAIN x : y[f] = x[f]
  BY <1>3, NumberedFields, Zenon
<1> HIDE DEF y
<1>5. Truth(e, y, text)
  BY <1>1, <1>2, <1>3, <1>4 DEF Truth, Carries
<1>6. QED
  BY <1>1, <1>2, <1>5 DEF x, y, text, BlockTruth

\* A derived reset is one, and leaves nothing of its engine.
LEMMA ResetTruth ==
  ASSUME NEW e, Counts(e), NEW message, Timely(message), NEW text
  PROVE  LET y == Numbered(e, Reset(message))
         IN /\ Truth(e, y, text)
            /\ \A s : Ingest(s, decode(record(e, y))) = {x \in s : x[1] # Str(e)}
<1> DEFINE x == Reset(message)
           y == Numbered(e, x)
<1>1. /\ DOMAIN x = {"type", "at_ms", "boundary_ms"} /\ x["type"] = "HolderReset"
      /\ x["at_ms"] \in Moments /\ x["boundary_ms"] \in Moments
  BY WidthAssumption DEF Reset, Timely, Moments
<1> HIDE DEF x
<1>2. "seq" \notin DOMAIN x
  BY <1>1
<1>3. /\ DOMAIN y = DOMAIN x \cup {"seq"} /\ y["seq"] = next[e]
      /\ \A f \in DOMAIN x : y[f] = x[f]
  BY <1>2, NumberedFields, Zenon
<1> HIDE DEF y
<1>4. /\ y["type"] = "HolderReset" /\ y["at_ms"] \in Moments /\ y["boundary_ms"] \in Moments
      /\ \A f \in {"dp_rank", "group_idx", "medium", "content_id"} : ~Carries(y, f)
  BY <1>1, <1>3 DEF Carries
<1>5. Event(y)
  BY <1>3, <1>4 DEF Event, Counts
<1>6. Truth(e, y, text)
  BY <1>4, <1>5 DEF Truth
<1>7. \A s : Ingest(s, decode(record(e, y))) = {z \in s : ~Within(e, y, z)}
  BY <1>4, <1>5, ScopeTaken
<1>8. \A z : Within(e, y, z) <=> z[1] = Str(e)
  BY <1>4 DEF Within
<1>9. \A s : Ingest(s, decode(record(e, y))) = {z \in s : z[1] # Str(e)}
  BY <1>7, <1>8
<1>10. QED
  BY <1>6, <1>9 DEF y, x

\* The records of a message, and what the reader makes of them.
ReadOf(told) == Taken(held, [i \in DOMAIN told |-> decode(told[i].record)])
ReadAs(e, told, d, n) ==
  LET from == Left(First(e), Str(e), held)
      entries == {Block(e, Numbered(e, d[i])) : i \in 1 .. n}
  IN /\ \A m \in Range(told) : \E ev : m.record = record(e, ev) /\ Truth(e, ev, m.text)
     /\ (\A i \in 1 .. n : Numbered(e, d[i])["type"] = "Stored") => ReadOf(told) = from \cup entries
     /\ (\A i \in 1 .. n : Numbered(e, d[i])["type"] = "Removed") => ReadOf(told) = from \ entries
     /\ n = 0 => ReadOf(told) = from
     /\ n = 1 => ReadOf(told) = Ingest(from, decode(record(e, Numbered(e, d[1]))))

\* What the reader makes of a message whose derived events are true.
LEMMA Reading ==
  ASSUME NEW e, Counts(e), NEW message, Timely(message), NEW blocks, NEW d,
         NEW n \in Nat, NEW told, Shows(e, message, blocks, d, n, told),
         \A i \in 1 .. n : Truth(e, Numbered(e, d[i]), TextOf(blocks, n, i))
  PROVE  ReadAs(e, told, d, n)
<1> DEFINE r == First(e)
           m == r + n
           typed == [i \in DOMAIN told |-> decode(told[i].record)]
           from == Left(r, Str(e), held)
           took == Taken(held, typed)
           entries == {Block(e, Numbered(e, d[i])) : i \in 1 .. n}
           E == [i \in r + 1 .. m |-> Block(e, Numbered(e, d[i - r]))]
<1>1. r \in {0, 1} /\ r = (IF Regressed(e) THEN 1 ELSE 0)
  BY DEF First
<1>2. /\ DOMAIN told = 1 .. m
      /\ Regressed(e) => told[1].record = record(e, Numbered(e, Reset(message)))
      /\ \A i \in 1 .. n : /\ told[r + i].record = record(e, Numbered(e, d[i]))
                           /\ told[r + i].text = TextOf(blocks, n, i)
  BY Zenon DEF Shows
<1> HIDE DEF r
<1>3. m \in Nat /\ r \in 0 .. m
  BY <1>1
<1>4. ASSUME NEW x \in Range(told)
      PROVE  \E ev : x.record = record(e, ev) /\ Truth(e, ev, x.text)
  <2>1. PICK j \in 1 .. m : x = told[j]
    BY <1>2 DEF Range
  <2>2. CASE j > r
    <3>1. j - r \in 1 .. n /\ r + (j - r) = j
      BY <1>1, <2>2
    <3> DEFINE y == Numbered(e, d[j - r])
    <3>2. x.record = record(e, y) /\ x.text = TextOf(blocks, n, j - r)
      BY <1>2, <2>1, <3>1
    <3>3. Truth(e, y, TextOf(blocks, n, j - r))
      BY <3>1, Zenon
    <3> HIDE DEF y
    <3>4. QED
      BY <3>2, <3>3
  <2>3. CASE ~(j > r)
    <3>1. Regressed(e) /\ j = 1
      BY <1>1, <2>3
    <3> DEFINE y == Numbered(e, Reset(message))
    <3>2. x.record = record(e, y)
      BY <1>2, <2>1, <3>1
    <3>3. Truth(e, y, x.text)
      BY ResetTruth, Zenon
    <3> HIDE DEF y
    <3>4. QED
      BY <3>2, <3>3
  <2>4. QED
    BY <2>2, <2>3
<1>5. DOMAIN typed = 1 .. m /\ \A i \in 1 .. n : typed[r + i] = decode(record(e, Numbered(e, d[i])))
  <2>1. ASSUME NEW i \in 1 .. n PROVE typed[r + i] = decode(record(e, Numbered(e, d[i])))
    <3>1. r + i \in DOMAIN told
      BY <1>1, <1>2
    <3>2. typed[r + i] = decode(told[r + i].record)
      BY <3>1
    <3>3. QED
      BY <1>2, <3>2
  <2>2. QED
    BY <1>2, <2>1
<1>6. IsReset(r, Str(e), typed)
  <2>1. SUFFICES ASSUME r = 1
                 PROVE  \A s : Ingest(s, typed[1]) = {x \in s : x[1] # Str(e)}
    BY Zenon DEF IsReset
  <2>2. 1 \in DOMAIN told
    BY <1>1, <1>2, <2>1
  <2>3. typed[1] = decode(record(e, Numbered(e, Reset(message))))
    BY <1>1, <1>2, <2>1, <2>2
  <2>4. \A s : Ingest(s, decode(record(e, Numbered(e, Reset(message))))) = {x \in s : x[1] # Str(e)}
    BY ResetTruth, Zenon
  <2> HIDE DEF typed
  <2>5. QED
    BY <2>3, <2>4, Zenon
<1> HIDE DEF typed, m
<1> DEFINE stores == \A i \in r + 1 .. m : \A s : Ingest(s, typed[i]) = s \cup {E[i]}
           evicts == \A i \in r + 1 .. m : \A s : Ingest(s, typed[i]) = s \ {E[i]}
           all == {E[i] : i \in r + 1 .. m}
<1>7. /\ stores => took = from \cup all
      /\ evicts => took = from \ all
      /\ m = r => took = from
      /\ m = r + 1 => took = Ingest(from, typed[m])
  <2> HIDE DEF E
  <2>1. Outcomes(from, took, typed, r, m, E)
    BY <1>1, <1>3, <1>5, <1>6, Batches, Zenon
  <2>2. QED
    BY <2>1, Zenon DEF Outcomes
<1>8. ASSUME NEW i \in r + 1 .. m
      PROVE  /\ i - r \in 1 .. n /\ r + (i - r) = i /\ E[i] = Block(e, Numbered(e, d[i - r]))
             /\ typed[i] = decode(record(e, Numbered(e, d[i - r])))
             /\ Event(Numbered(e, d[i - r]))
             /\ Numbered(e, d[i - r])["type"] \in {"Stored", "Removed"} =>
                  Carries(Numbered(e, d[i - r]), "medium")
  <2>1. i - r \in 1 .. n /\ r + (i - r) = i
    BY <1>1 DEF m
  <2>2. E[i] = Block(e, Numbered(e, d[i - r]))
    OBVIOUS
  <2>3. typed[i] = decode(record(e, Numbered(e, d[i - r])))
    BY <1>5, <2>1
  <2>4. Truth(e, Numbered(e, d[i - r]), TextOf(blocks, n, i - r))
    BY <2>1, Zenon
  <2>5. QED
    BY <2>1, <2>2, <2>3, <2>4, Zenon DEF Truth
<1>9. all = entries
  <2>1. ASSUME NEW i \in 1 .. n PROVE r + i \in r + 1 .. m /\ (r + i) - r = i
    BY <1>1 DEF m
  <2>2. \A i \in 1 .. n : E[r + i] = Block(e, Numbered(e, d[i]))
    BY <2>1
  <2>3. entries \subseteq all
    <3> HIDE DEF E
    <3>1. QED
      BY <2>1, <2>2
  <2>4. all \subseteq entries
    <3> HIDE DEF E
    <3>1. QED
      BY <1>8
  <2>5. QED
    BY <2>3, <2>4
<1>10. ASSUME \A i \in 1 .. n : Numbered(e, d[i])["type"] = "Stored"
       PROVE  took = from \cup entries
  <2>1. stores
    <3> SUFFICES ASSUME NEW i \in r + 1 .. m
                 PROVE  \A s : Ingest(s, typed[i]) = s \cup {E[i]}
      OBVIOUS
    <3> DEFINE y == Numbered(e, d[i - r])
    <3>1. /\ y["type"] = "Stored" /\ Event(y) /\ Carries(y, "medium")
          /\ E[i] = Block(e, y) /\ typed[i] = decode(record(e, y))
      BY <1>8, <1>10
    <3> HIDE DEF y, E
    <3>2. \A s : Ingest(s, decode(record(e, y))) = s \cup {Block(e, y)}
      BY <3>1, BlockTaken
    <3>3. QED
      BY <3>1, <3>2, Zenon
  <2>2. QED
    BY <1>7, <1>9, <2>1
<1>11. ASSUME \A i \in 1 .. n : Numbered(e, d[i])["type"] = "Removed"
       PROVE  took = from \ entries
  <2>1. evicts
    <3> SUFFICES ASSUME NEW i \in r + 1 .. m
                 PROVE  \A s : Ingest(s, typed[i]) = s \ {E[i]}
      OBVIOUS
    <3> DEFINE y == Numbered(e, d[i - r])
    <3>1. /\ y["type"] = "Removed" /\ Event(y) /\ Carries(y, "medium")
          /\ E[i] = Block(e, y) /\ typed[i] = decode(record(e, y))
      BY <1>8, <1>11
    <3> HIDE DEF y, E
    <3>2. \A s : Ingest(s, decode(record(e, y))) = s \ {Block(e, y)}
      BY <3>1, BlockTaken
    <3>3. QED
      BY <3>1, <3>2, Zenon
  <2>2. QED
    BY <1>7, <1>9, <2>1
<1>12. n = 0 => took = from
  BY <1>1, <1>7 DEF m
<1>13. n = 1 => took = Ingest(from, decode(record(e, Numbered(e, d[1]))))
  <2> SUFFICES ASSUME n = 1 PROVE took = Ingest(from, decode(record(e, Numbered(e, d[1]))))
    OBVIOUS
  <2>1. m = r + 1 /\ 1 \in 1 .. n
    BY <1>1 DEF m
  <2>2. typed[r + 1] = decode(record(e, Numbered(e, d[1])))
    BY <1>5, <2>1
  <2> HIDE DEF took, from
  <2>3. QED
    BY <1>7, <2>1, <2>2
<1>14. took = ReadOf(told)
  BY Zenon DEF ReadOf, typed
<1>15. from = Left(First(e), Str(e), held)
  BY DEF r
<1> HIDE DEF took, from
<1>16. QED
  BY <1>4, <1>10, <1>11, <1>12, <1>13, <1>14, <1>15, Zenon DEF ReadAs

-----------------------------------------------------------------------------
(***************************************************************************)
(* What each kind of message does to what the reader holds of its engine.  *)
(***************************************************************************)
OwnPart(e, s) == {x \in s : x[1] = Str(e)}
Entries(e, c) == {EntryFor(e, b) : b \in c}
ToldBy(e, message, blocks) == Told(Transduced(e, message), blocks)

Delivers(e, message, blocks, after) ==
  LET told == ToldBy(e, message, blocks)
      took == ReadOf(told)
  IN /\ \A m \in Range(told) : \E ev : m.record = record(e, ev) /\ Truth(e, ev, m.text)
     /\ \A x : x[1] # Str(e) => (x \in took <=> x \in held)
     /\ \A x \in took : \/ x \in held
                        \/ \E place \in Places(e), text \in Cached(e) :
                             x = EntryFor(e, <<place, text>>)
     /\ OwnPart(e, Left(First(e), Str(e), held)) = Entries(e, cache[e]) =>
          OwnPart(e, took) = Entries(e, after)

\* A name of the wire is of one thing.
LEMMA Names ==
  /\ \A x, y : Str(x) = Str(y) => x = y
  /\ \A x, y : Integer(x) = Integer(y) => x = y
BY DEF Str, Integer

\* Two blocks of a process have two entries.
LEMMA EntryIsBlock ==
  ASSUME NEW e \in Engines, boot[e] \in Int, NEW b \in Places(e) \X Cached(e),
         NEW c \in Places(e) \X Cached(e), EntryFor(e, b) = EntryFor(e, c)
  PROVE  b = c
<1>1. /\ Integer(b[1][1]) = Integer(c[1][1]) /\ Integer(b[1][2]) = Integer(c[1][2])
      /\ Str(Hash(e, b[2])) = Str(Hash(e, c[2])) /\ Str(b[1][3]) = Str(c[1][3])
  BY DEF EntryFor
<1>2. /\ b[1][1] = c[1][1] /\ b[1][2] = c[1][2] /\ b[1][3] = c[1][3]
      /\ Hash(e, b[2]) = Hash(e, c[2])
  BY <1>1, Names
<1>3. b = <<b[1], b[2]>> /\ b[1] \in Places(e) /\ b[2] \in Cached(e)
  OBVIOUS
<1>4. c = <<c[1], c[2]>> /\ c[1] \in Places(e) /\ c[2] \in Cached(e)
  OBVIOUS
<1>5. b[2] = c[2]
  BY <1>2, <1>3, <1>4, Hashes
<1>6. \A p \in Places(e) : p = <<p[1], p[2], p[3]>>
  BY DEF Places
<1>7. b[1] = c[1]
  BY <1>2, <1>3, <1>4, <1>6
<1>8. QED
  BY <1>3, <1>4, <1>5, <1>7

\* What the reader keeps of the other engines, and of this one.
LEMMA Leaves ==
  ASSUME NEW e
  PROVE  LET from == Left(First(e), Str(e), held)
         IN from \subseteq held /\ \A x : x[1] # Str(e) => (x \in from <=> x \in held)
BY DEF Left

\* A message that stores blocks adds them.
LEMMA Adding ==
  ASSUME NEW e, Counts(e), NEW message, Timely(message), NEW blocks, NEW d,
         NEW n \in Nat, Listed(d, n), derive(e, message) = d,
         Len(blocks) = n, DOMAIN blocks = 1 .. n,
         NEW place \in Places(e),
         \A i \in 1 .. n : /\ BlockTruth(e, d[i], place, blocks[i], "Stored")
                           /\ blocks[i] \in Cached(e)
  PROVE  Delivers(e, message, blocks, cache[e] \cup {<<place, b>> : b \in Range(blocks)})
<1> DEFINE told == ToldBy(e, message, blocks)
           from == Left(First(e), Str(e), held)
           took == ReadOf(told)
           entries == {Block(e, Numbered(e, d[i])) : i \in 1 .. n}
           more == {<<place, b>> : b \in Range(blocks)}
<1>1. Shows(e, message, blocks, d, n, told)
  BY Telling DEF ToldBy
<1>2. \A i \in 1 .. n : Truth(e, Numbered(e, d[i]), TextOf(blocks, n, i))
  BY DEF TextOf, BlockTruth
<1>3. /\ \A m \in Range(told) : \E ev : m.record = record(e, ev) /\ Truth(e, ev, m.text)
      /\ took = from \cup entries
  <2> HIDE DEF told
  <2>1. ReadAs(e, told, d, n)
    BY <1>1, <1>2, Reading, Zenon
  <2>2. \A i \in 1 .. n : Numbered(e, d[i])["type"] = "Stored"
    BY DEF BlockTruth
  <2>3. QED
    BY <2>1, <2>2, Zenon DEF ReadAs
<1> HIDE DEF told, took, from
<1>4. from \subseteq held /\ \A x : x[1] # Str(e) => (x \in from <=> x \in held)
  BY Leaves DEF from
<1>5. \A b : EntryFor(e, b)[1] = Str(e)
  BY DEF EntryFor
<1>6. \A x \in entries : \E i \in 1 .. n : x = EntryFor(e, <<place, blocks[i]>>)
  BY DEF BlockTruth
<1>7. entries = Entries(e, more)
  <2>1. \A i \in 1 .. n : blocks[i] \in Range(blocks)
    BY DEF Range
  <2>2. \A b \in Range(blocks) : \E i \in 1 .. n : b = blocks[i]
    BY DEF Range
  <2>3. entries \subseteq Entries(e, more)
    BY <1>6, <2>1, ZenonT(30) DEF Entries
  <2>4. Entries(e, more) \subseteq entries
    BY <2>2 DEF Entries, BlockTruth
  <2>5. QED
    BY <2>3, <2>4
<1>8. Entries(e, cache[e] \cup more) = Entries(e, cache[e]) \cup Entries(e, more)
  BY DEF Entries
<1>9. \A x : x[1] # Str(e) => (x \in took <=> x \in held)
  <2> HIDE DEF entries
  <2>1. \A x \in entries : x[1] = Str(e)
    BY <1>5, <1>6
  <2>2. QED
    BY <1>3, <1>4, <2>1
<1>10. \A x \in took : \/ x \in held
                       \/ \E p \in Places(e), text \in Cached(e) : x = EntryFor(e, <<p, text>>)
  <2>1. \A x \in entries : \E p \in Places(e), text \in Cached(e) : x = EntryFor(e, <<p, text>>)
    BY <1>6
  <2> HIDE DEF entries
  <2>2. QED
    BY <1>3, <1>4, <2>1
<1>11. OwnPart(e, from) = Entries(e, cache[e]) =>
         OwnPart(e, took) = Entries(e, cache[e] \cup more)
  <2> HIDE DEF entries, more
  <2>1. \A x \in entries : x[1] = Str(e)
    BY <1>5, <1>6
  <2>2. OwnPart(e, took) = OwnPart(e, from) \cup entries
    BY <1>3, <2>1 DEF OwnPart
  <2>3. QED
    BY <1>7, <1>8, <2>2
<1>12. QED
  BY <1>3, <1>9, <1>10, <1>11, Zenon DEF Delivers, told, took, from

\* A message that evicts blocks removes them, and no other.
LEMMA Dropping ==
  ASSUME NEW e \in Engines, boot[e] \in Int, Counts(e), NEW message, Timely(message),
         NEW blocks, NEW d, NEW n \in Nat, Listed(d, n), derive(e, message) = d,
         Len(blocks) = n, DOMAIN blocks = 1 .. n,
         NEW place \in Places(e), cache[e] \subseteq Places(e) \X Cached(e),
         \A i \in 1 .. n : /\ BlockTruth(e, d[i], place, blocks[i], "Removed")
                           /\ blocks[i] \in Cached(e)
  PROVE  Delivers(e, message, blocks, cache[e] \ {<<place, b>> : b \in Range(blocks)})
<1> DEFINE told == ToldBy(e, message, blocks)
           from == Left(First(e), Str(e), held)
           took == ReadOf(told)
           entries == {Block(e, Numbered(e, d[i])) : i \in 1 .. n}
           less == {<<place, b>> : b \in Range(blocks)}
<1>1. Shows(e, message, blocks, d, n, told)
  BY Telling DEF ToldBy
<1>2. \A i \in 1 .. n : Truth(e, Numbered(e, d[i]), TextOf(blocks, n, i))
  BY DEF TextOf, BlockTruth
<1>3. /\ \A m \in Range(told) : \E ev : m.record = record(e, ev) /\ Truth(e, ev, m.text)
      /\ took = from \ entries
  <2> HIDE DEF told
  <2>1. ReadAs(e, told, d, n)
    BY <1>1, <1>2, Reading, Zenon
  <2>2. \A i \in 1 .. n : Numbered(e, d[i])["type"] = "Removed"
    BY DEF BlockTruth
  <2>3. QED
    BY <2>1, <2>2, Zenon DEF ReadAs
<1> HIDE DEF told, took, from
<1>4. from \subseteq held /\ \A x : x[1] # Str(e) => (x \in from <=> x \in held)
  BY Leaves DEF from
<1>5. \A b : EntryFor(e, b)[1] = Str(e)
  BY DEF EntryFor
<1>6. \A x \in entries : \E i \in 1 .. n : x = EntryFor(e, <<place, blocks[i]>>)
  BY DEF BlockTruth
<1>7. entries = Entries(e, less)
  <2>1. \A i \in 1 .. n : blocks[i] \in Range(blocks)
    BY DEF Range
  <2>2. \A b \in Range(blocks) : \E i \in 1 .. n : b = blocks[i]
    BY DEF Range
  <2>3. entries \subseteq Entries(e, less)
    BY <1>6, <2>1, ZenonT(30) DEF Entries
  <2>4. Entries(e, less) \subseteq entries
    BY <2>2 DEF Entries, BlockTruth
  <2>5. QED
    BY <2>3, <2>4
<1>8. Entries(e, cache[e] \ less) = Entries(e, cache[e]) \ Entries(e, less)
  <2>1. less \subseteq Places(e) \X Cached(e)
    BY DEF Range
  <2> HIDE DEF less
  <2>2. \A b \in cache[e], c \in less : EntryFor(e, b) = EntryFor(e, c) => b = c
    BY <2>1, EntryIsBlock
  <2>3. QED
    BY <2>2 DEF Entries
<1>9. \A x : x[1] # Str(e) => (x \in took <=> x \in held)
  <2> HIDE DEF entries
  <2>1. \A x \in entries : x[1] = Str(e)
    BY <1>5, <1>6
  <2>2. QED
    BY <1>3, <1>4, <2>1
<1>10. \A x \in took : x \in held
  BY <1>3, <1>4
<1>11. OwnPart(e, from) = Entries(e, cache[e]) =>
         OwnPart(e, took) = Entries(e, cache[e] \ less)
  <2> HIDE DEF entries, less
  <2>1. OwnPart(e, took) = OwnPart(e, from) \ entries
    BY <1>3 DEF OwnPart
  <2>2. QED
    BY <1>7, <1>8, <2>1
<1>12. QED
  BY <1>3, <1>9, <1>10, <1>11, Zenon DEF Delivers, told, took, from

\* A message is dated.
LEMMA RankedBatch ==
  ASSUME NEW e \in Engines, NEW ev, NEW rank, Counts(e)
  PROVE  Timely(Batch(ev, Ranked(e, rank)))
<1>1. DOMAIN Ranked(e, rank) \subseteq {"dp_rank"}
  <2>1. CASE e = "sglang"
    BY <2>1, SmallMaps DEF Ranked
  <2>2. CASE e # "sglang"
    BY <2>2 DEF Ranked
  <2>3. QED
    BY <2>1, <2>2
<1>2. at_ms(Batch(ev, Ranked(e, rank))) = (sent + 1) * 1000
  BY <1>1, NextIsTimely, BatchOfOne
<1>3. QED
  BY <1>2, NextIsTimely

\* A store, with skipped blocks or without, adds its blocks.
LEMMA StoredDelivers ==
  ASSUME NEW e \in Engines, boot[e] \in Int, Counts(e), NEW place \in Places(e),
         NEW prefix, NEW run, RunsOf(e, prefix, run), NEW blocks \in Kept(place, run)
  PROVE  Delivers(e, Batch(StoreEvent(e, place, prefix, run, blocks), Ranked(e, place[1])), blocks,
                  cache[e] \cup {<<place, b>> : b \in Range(blocks)})
<1> DEFINE message == Batch(StoreEvent(e, place, prefix, run, blocks), Ranked(e, place[1]))
           d == derive(e, message)
           n == Len(blocks)
<1>0. sent \in Int
  BY DEF Counts
<1>1. StoredOf(e, d, place, blocks)
  BY <1>0, StoredMeans
<1>2. /\ n \in Nat /\ DOMAIN blocks = 1 .. n
      /\ \A i \in 1 .. n : blocks[i] \in Cached(e)
  <2>1. /\ Len(blocks) \in {1, 2} /\ DOMAIN blocks = 1 .. Len(blocks)
        /\ \A i \in 1 .. Len(blocks) : blocks[i] \in Cached(e)
    BY KeptBlocks
  <2>2. QED
    BY <2>1
<1>3. Timely(message)
  BY RankedBatch
<1> HIDE DEF message, n
<1>4. DOMAIN d = 1 .. n /\ Listed(d, n)
  BY <1>1, <1>2 DEF StoredOf, Listed
<1>5. ASSUME NEW i \in 1 .. n
      PROVE  /\ BlockTruth(e, d[i], place, blocks[i], "Stored")
             /\ blocks[i] \in Cached(e)
  <2>1. i \in DOMAIN d /\ blocks[i] \in Cached(e)
    BY <1>2, <1>4
  <2> HIDE DEF d
  <2>2. QED
    BY <1>1, <2>1, StoredTruth, Zenon
<1>6. Len(blocks) = n /\ derive(e, message) = d
  BY DEF n
<1> HIDE DEF d
<1>7. Delivers(e, message, blocks, cache[e] \cup {<<place, b>> : b \in Range(blocks)})
  BY <1>2, <1>3, <1>4, <1>5, <1>6, Adding, SMTT(30)
<1>8. QED
  BY <1>7 DEF message

\* A set's elements, listed.
LEMMA Listing ==
  ASSUME NEW S, IsFiniteSet(S)
  PROVE  /\ Len(SetToSeq(S)) \in Nat /\ DOMAIN SetToSeq(S) = 1 .. Len(SetToSeq(S))
         /\ Range(SetToSeq(S)) = S
<1> DEFINE n == Cardinality(S)
           s == SetToSeq(S)
<1>1. n \in Nat /\ ExistsBijection(1 .. n, S)
  BY FS_CardinalityType
<1>2. PICK f \in Bijection(1 .. n, S) : TRUE
  BY <1>1 DEF ExistsBijection
<1>3. f \in [1 .. n -> S] /\ IsInjective(f)
  BY <1>2 DEF Bijection, Injection, IsInjective
<1>4. s \in [1 .. n -> S] /\ IsInjective(s)
  BY <1>3, Zenon DEF SetToSeq
<1> HIDE DEF s
<1>5. s \in Injection(1 .. n, S)
  BY <1>4 DEF Injection, IsInjective
<1>6. IsFiniteSet(1 .. n) /\ Cardinality(1 .. n) = n
  <2>1. 1 \in Int /\ n \in Int
    BY <1>1
  <2>2. IsFiniteSet(1 .. n) /\ Cardinality(1 .. n) = IF 1 > n THEN 0 ELSE n - 1 + 1
    BY <2>1, FS_Interval
  <2>3. QED
    BY <1>1, <2>2
<1>7. s \in Surjection(1 .. n, S)
  BY <1>5, <1>6, FS_Injection
<1>8. Range(s) = S
  BY <1>4, <1>7 DEF Surjection, Range
<1>9. Len(s) = n /\ DOMAIN s = 1 .. n
  <2> HIDE DEF n
  <2>1. QED
    BY <1>1, <1>4
<1>10. QED
  BY <1>1, <1>8, <1>9 DEF s

\* An eviction removes its blocks.
LEMMA RemovedDelivers ==
  ASSUME NEW e \in Engines, boot[e] \in Int, Counts(e), NEW place \in Places(e),
         cache[e] \subseteq Places(e) \X Cached(e), NEW gone \in SUBSET HeldAt(e, place)
  PROVE  LET blocks == SetToSeq(gone)
         IN Delivers(e, Batch(RemoveEvent(e, place, blocks), Ranked(e, place[1])), blocks,
                     cache[e] \ {<<place, b>> : b \in gone})
<1> DEFINE blocks == SetToSeq(gone)
           message == Batch(RemoveEvent(e, place, blocks), Ranked(e, place[1]))
           d == derive(e, message)
           n == Len(blocks)
<1>0. sent \in Int
  BY DEF Counts
<1>1. gone \subseteq Cached(e)
  BY DEF HeldAt
<1>2. IsFiniteSet(gone)
  <2>1. IsFiniteSet(Cached(e))
    <3> HIDE DEF A, Salted, B, Keyed, Bigram
    <3>1. Cached(e) \subseteq {<<A>>, <<Salted, B>>, <<A, Keyed>>, <<Bigram>>, <<Salted>>}
      BY DEF Cached, Texts
    <3>2. IsFiniteSet({<<A>>, <<Salted, B>>, <<A, Keyed>>, <<Bigram>>, <<Salted>>})
      <4>1. \A S, x : IsFiniteSet(S) => IsFiniteSet(S \cup {x})
        BY FS_AddElement
      <4>2. \A p : IsFiniteSet({p})
        BY FS_Singleton
      <4>3. ASSUME NEW p, NEW q, NEW r, NEW s, NEW t
            PROVE  IsFiniteSet({p, q, r, s, t})
        <5> DEFINE u == ((({p} \cup {q}) \cup {r}) \cup {s}) \cup {t}
        <5>1. IsFiniteSet(u)
          BY <4>1, <4>2, Zenon
        <5>2. {p, q, r, s, t} = u
          OBVIOUS
        <5> HIDE DEF u
        <5>3. QED
          BY <5>1, <5>2
      <4>4. QED
        BY <4>3
    <3>3. QED
      BY <3>1, <3>2, FS_Subset
  <2>2. QED
    BY <1>1, <2>1, FS_Subset
<1>3. n \in Nat /\ DOMAIN blocks = 1 .. n /\ Range(blocks) = gone
  BY <1>2, Listing, Zenon
<1>4. RemovedOf(e, d, place, blocks)
  BY <1>0, RemovedMeans, Zenon
<1>5. Timely(message)
  BY RankedBatch
<1> HIDE DEF message, n, blocks
<1>6. DOMAIN d = 1 .. n /\ Listed(d, n)
  BY <1>3, <1>4 DEF RemovedOf, Listed
<1>7. ASSUME NEW i \in 1 .. n
      PROVE  /\ BlockTruth(e, d[i], place, blocks[i], "Removed")
             /\ blocks[i] \in Cached(e)
  <2>1. i \in DOMAIN d
    BY <1>6
  <2>2. blocks[i] \in Cached(e)
    BY <1>1, <1>3 DEF Range
  <2> HIDE DEF d
  <2>3. QED
    BY <1>4, <2>1, <2>2, RemovedTruth, Zenon
<1>8. Len(blocks) = n /\ derive(e, message) = d
  BY DEF n
<1> HIDE DEF d
<1>9. Delivers(e, message, blocks, cache[e] \ {<<place, b>> : b \in Range(blocks)})
  BY <1>3, <1>5, <1>6, <1>7, <1>8, Dropping, SMTT(30)
<1>10. QED
  BY <1>3, <1>9, Zenon DEF message, blocks

\* What a clear covers of the places, by what it declares.
Covered(declared, scope, place) ==
  /\ Carries(declared, "dp_rank") => place[1] = declared.dp_rank
  /\ Carries(scope, "group_idx") => place[2] = scope.group_idx
  /\ Carries(scope, "medium") => place[3] = scope.medium

\* What a clear may declare.
LEMMA DeclaredFields ==
  ASSUME NEW e \in Engines, NEW declared \in {<<>>, [dp_rank |-> 0]}, NEW scope \in Scopes(e)
  PROVE  /\ DOMAIN declared \subseteq {"dp_rank"}
         /\ Carries(declared, "dp_rank") => declared["dp_rank"] = 0
         /\ DOMAIN scope \subseteq {"group_idx", "medium"}
         /\ Carries(scope, "group_idx") => scope["group_idx"] = 0
         /\ e # "vllm" => DOMAIN scope = {}
<1>1. /\ DOMAIN declared \subseteq {"dp_rank"}
      /\ Carries(declared, "dp_rank") => declared["dp_rank"] = 0
  <2>1. CASE declared = <<>>
    BY <2>1, SmallMaps DEF Carries
  <2>2. CASE declared = [dp_rank |-> 0]
    BY <2>2
  <2>3. QED
    BY <2>1, <2>2
<1>2. \/ scope = <<>>
      \/ e = "vllm" /\ scope = [group_idx |-> 0]
      \/ e = "vllm" /\ scope = [medium |-> "GPU"]
  BY DEF Scopes
<1>3. CASE scope = <<>>
  BY <1>1, <1>3, SmallMaps DEF Carries
<1>4. CASE e = "vllm" /\ scope = [group_idx |-> 0]
  BY <1>1, <1>4
<1>5. CASE e = "vllm" /\ scope = [medium |-> "GPU"]
  <2>1. DOMAIN scope = {"medium"}
    BY <1>5
  <2>2. QED
    BY <1>1, <1>5, <2>1 DEF Carries
<1>6. QED
  BY <1>2, <1>3, <1>4, <1>5

\* The event of a clear has the scope it was declared with.
ClearOf(x, declared, scope) ==
  /\ DOMAIN x = {"type", "at_ms"} \cup DOMAIN declared \cup DOMAIN scope
  /\ x["type"] = "Cleared" /\ x["at_ms"] \in Moments
  /\ \A f \in DOMAIN declared : x[f] = declared[f]
  /\ \A f \in DOMAIN scope : x[f] = scope[f]

\* A clear derives one event with the scope it declared.
LEMMA ClearedMeans ==
  ASSUME NEW e \in Engines, Counts(e), NEW declared \in {<<>>, [dp_rank |-> 0]},
         NEW scope \in Scopes(e)
  PROVE  \E x : /\ derive(e, Batch([type |-> "AllBlocksCleared"] ++ scope, declared)) = <<x>>
                /\ ClearOf(x, declared, scope)
<1> DEFINE ev == [type |-> "AllBlocksCleared"] ++ scope
           message == Batch(ev, declared)
           own == [type |-> "Cleared", at_ms |-> at_ms(message)]
           rank == Only(message, {"dp_rank"})
           dims == Only(ev, {"group_idx", "medium"})
           v == own ++ rank ++ dims
           s == own ++ rank
<1>1. /\ DOMAIN declared \subseteq {"dp_rank"}
      /\ Carries(declared, "dp_rank") => declared["dp_rank"] = 0
      /\ DOMAIN scope \subseteq {"group_idx", "medium"}
      /\ e # "vllm" => DOMAIN scope = {}
  BY DeclaredFields
<1>2. /\ DOMAIN ev = {"type"} \cup DOMAIN scope /\ ev["type"] = "AllBlocksCleared"
      /\ \A f \in DOMAIN scope : ev[f] = scope[f]
  <2> DEFINE k == [type |-> "AllBlocksCleared"]
  <2>1. DOMAIN k = {"type"} /\ k["type"] = "AllBlocksCleared"
    OBVIOUS
  <2>2. ev = k ++ scope
    OBVIOUS
  <2> HIDE DEF k, ev
  <2>3. QED
    BY <1>1, <2>1, <2>2 DEF ++
<1>3. derive(e, message) = IF e = "vllm" THEN <<v>> ELSE <<s>>
  <2>1. derive(e, message) = IF e = "vllm" THEN VllmEvents(message, ev) ELSE SglangEvents(message, ev)
    BY <1>1, NextIsTimely, BatchOfOne
  <2>2. ev.type = "AllBlocksCleared" /\ "AllBlocksCleared" # "BlockStored"
        /\ "AllBlocksCleared" # "BlockRemoved"
    BY <1>2
  <2> HIDE DEF ev
  <2>3. VllmEvents(message, ev) = <<VllmCleared(message, ev)>>
    BY <2>2, Zenon DEF VllmEvents
  <2>4. VllmCleared(message, ev) = v
    BY Zenon DEF VllmCleared
  <2>5. SglangEvents(message, ev) = <<s>>
    BY <2>2, Zenon DEF SglangEvents
  <2> HIDE DEF v, s, message
  <2>6. QED
    BY <2>1, <2>3, <2>4, <2>5
<1>4. /\ at_ms(message) = (sent + 1) * 1000
      /\ Carries(message, "dp_rank") <=> Carries(declared, "dp_rank")
      /\ Carries(declared, "dp_rank") => message["dp_rank"] = declared["dp_rank"]
  <2> HIDE DEF ev
  <2>1. QED
    BY <1>1, NextIsTimely, BatchOfOne
<1>5. DOMAIN own = {"type", "at_ms"} /\ own["type"] = "Cleared" /\ own["at_ms"] \in Moments
  BY <1>4, NextIsTimely
<1> HIDE DEF ev, message, own
<1>6. /\ DOMAIN rank = DOMAIN declared
      /\ \A f \in DOMAIN declared : rank[f] = declared[f]
  BY <1>1, <1>4 DEF Only, Restrict, Carries
<1>7. /\ DOMAIN dims = DOMAIN scope
      /\ \A f \in DOMAIN scope : dims[f] = scope[f]
  BY <1>1, <1>2 DEF Only, Restrict
<1> HIDE DEF rank, dims
<1>8. ClearOf(v, declared, scope)
  <2>1. /\ DOMAIN v = DOMAIN own \cup DOMAIN rank \cup DOMAIN dims
        /\ \A f \in DOMAIN own : v[f] = own[f]
        /\ \A f \in DOMAIN rank : f \notin DOMAIN own => v[f] = rank[f]
        /\ \A f \in DOMAIN dims : f \notin DOMAIN own \cup DOMAIN rank => v[f] = dims[f]
    BY DEF ++
  <2> HIDE DEF v
  <2>2. QED
    BY <1>1, <1>5, <1>6, <1>7, <2>1 DEF ClearOf
<1>9. e # "vllm" => ClearOf(s, declared, scope)
  <2>1. /\ DOMAIN s = DOMAIN own \cup DOMAIN rank
        /\ \A f \in DOMAIN own : s[f] = own[f]
        /\ \A f \in DOMAIN rank : f \notin DOMAIN own => s[f] = rank[f]
    BY DEF ++
  <2> HIDE DEF s
  <2>2. QED
    BY <1>1, <1>5, <1>6, <2>1 DEF ClearOf
<1> HIDE DEF v, s
<1>10. QED
  BY <1>3, <1>8, <1>9 DEF message, ev

\* Its record covers the entries of the blocks it covers, and of no other engine.
LEMMA ClearTruth ==
  ASSUME NEW e \in Engines, Counts(e), NEW declared \in {<<>>, [dp_rank |-> 0]},
         NEW scope \in Scopes(e), NEW x, ClearOf(x, declared, scope), NEW text
  PROVE  /\ Truth(e, Numbered(e, x), text)
         /\ \A s : Ingest(s, decode(record(e, Numbered(e, x)))) =
                     {z \in s : ~Within(e, Numbered(e, x), z)}
         /\ \A z : Within(e, Numbered(e, x), z) => z[1] = Str(e)
         /\ \A b : Within(e, Numbered(e, x), EntryFor(e, b)) <=> Covered(declared, scope, b[1])
<1> DEFINE y == Numbered(e, x)
<1>1. /\ DOMAIN declared \subseteq {"dp_rank"}
      /\ Carries(declared, "dp_rank") => declared["dp_rank"] = 0
      /\ DOMAIN scope \subseteq {"group_idx", "medium"}
      /\ Carries(scope, "group_idx") => scope["group_idx"] = 0
  BY DeclaredFields
<1>2. "seq" \notin DOMAIN x
  BY <1>1 DEF ClearOf
<1>3. /\ DOMAIN y = DOMAIN x \cup {"seq"} /\ y["seq"] = next[e]
      /\ \A f \in DOMAIN x : y[f] = x[f]
  BY <1>2, NumberedFields, Zenon
<1> HIDE DEF y
<1>4. /\ y["type"] = "Cleared" /\ y["at_ms"] \in Moments /\ y["seq"] \in 0 .. I64
      /\ Carries(y, "dp_rank") <=> Carries(declared, "dp_rank")
      /\ Carries(declared, "dp_rank") => y["dp_rank"] = declared["dp_rank"]
      /\ Carries(y, "group_idx") <=> Carries(scope, "group_idx")
      /\ Carries(scope, "group_idx") => y["group_idx"] = scope["group_idx"]
      /\ Carries(y, "medium") <=> Carries(scope, "medium")
      /\ Carries(scope, "medium") => y["medium"] = scope["medium"]
      /\ ~Carries(y, "content_id")
  BY <1>1, <1>3 DEF ClearOf, Carries, Counts
<1>5. 0 \in 0 .. U32
  BY WidthAssumption
<1>6. Event(y)
  BY <1>1, <1>4, <1>5 DEF Event
<1>7. Truth(e, y, text)
  BY <1>4, <1>6 DEF Truth
<1>8. \A s : Ingest(s, decode(record(e, y))) = {z \in s : ~Within(e, y, z)}
  BY <1>4, <1>6, ScopeTaken
<1>9. \A z : Within(e, y, z) => z[1] = Str(e)
  BY DEF Within
<1>10. ASSUME NEW b PROVE Within(e, y, EntryFor(e, b)) <=> Covered(declared, scope, b[1])
  <2> DEFINE z == EntryFor(e, b)
  <2>1. /\ z[1] = Str(e) /\ z[2] = Integer(b[1][1]) /\ z[3] = Integer(b[1][2])
        /\ z[5] = Str(b[1][3])
    BY DEF EntryFor
  <2> HIDE DEF z
  <2>2. Within(e, y, z) <=>
          /\ Carries(declared, "dp_rank") => Integer(b[1][1]) = Integer(declared["dp_rank"])
          /\ Carries(scope, "group_idx") => Integer(b[1][2]) = Integer(scope["group_idx"])
          /\ Carries(scope, "medium") => Str(b[1][3]) = Str(scope["medium"])
    BY <1>4, <2>1 DEF Within
  <2>3. QED
    BY <2>2, Names DEF Covered, z
<1>11. QED
  BY <1>7, <1>8, <1>9, <1>10 DEF y

\* A sequence of one element, and of none.
LEMMA OneListed ==
  ASSUME NEW x
  PROVE  Listed(<<x>>, 1) /\ <<x>>[1] = x /\ Listed(<<>>, 0) /\ Len(<<>>) = 0
BY DEF Listed

\* A clear removes what it covers, whichever dimensions it leaves out.
LEMMA ClearedDelivers ==
  ASSUME NEW e \in Engines, Counts(e), NEW declared \in {<<>>, [dp_rank |-> 0]},
         NEW scope \in Scopes(e)
  PROVE  Delivers(e, Batch([type |-> "AllBlocksCleared"] ++ scope, declared), <<>>,
                  {b \in cache[e] : ~Covered(declared, scope, b[1])})
<1> DEFINE ev == [type |-> "AllBlocksCleared"] ++ scope
           message == Batch(ev, declared)
           blocks == <<>>
           told == ToldBy(e, message, blocks)
           from == Left(First(e), Str(e), held)
           took == ReadOf(told)
           after == {b \in cache[e] : ~Covered(declared, scope, b[1])}
<1>0. sent \in Int
  BY DEF Counts
<1>1. PICK x : derive(e, message) = <<x>> /\ ClearOf(x, declared, scope)
  BY ClearedMeans
<1>2. Timely(message)
  <2>1. DOMAIN declared \subseteq {"dp_rank"}
    BY DeclaredFields
  <2> HIDE DEF ev
  <2>2. at_ms(message) = (sent + 1) * 1000
    BY <1>0, <2>1, BatchOfOne
  <2>3. QED
    BY <2>2, NextIsTimely
<1>3. /\ \A text : Truth(e, Numbered(e, x), text)
      /\ \A s : Ingest(s, decode(record(e, Numbered(e, x)))) =
                  {z \in s : ~Within(e, Numbered(e, x), z)}
      /\ \A z : Within(e, Numbered(e, x), z) => z[1] = Str(e)
      /\ \A b : Within(e, Numbered(e, x), EntryFor(e, b)) <=> Covered(declared, scope, b[1])
  BY <1>1, ClearTruth
<1> DEFINE d == <<x>>
           n == 1
<1>4. Listed(d, n) /\ d[1] = x /\ Len(blocks) \in {0, n} /\ n \in Nat
  BY OneListed
<1> HIDE DEF message, d, n, blocks
<1>5. derive(e, message) = d
  BY <1>1 DEF d
<1>6. Shows(e, message, blocks, d, n, told)
  BY <1>4, <1>5, Telling DEF ToldBy
<1>7. \A i \in 1 .. n : Truth(e, Numbered(e, d[i]), TextOf(blocks, n, i))
  <2>1. \A i \in 1 .. n : i = 1
    BY DEF n
  <2>2. QED
    BY <1>3, <1>4, <2>1
<1> HIDE DEF told
<1>8. ReadAs(e, told, d, n)
  BY <1>2, <1>4, <1>6, <1>7, Reading, Zenon
<1>9. /\ \A m \in Range(told) : \E it : m.record = record(e, it) /\ Truth(e, it, m.text)
      /\ took = Ingest(from, decode(record(e, Numbered(e, x))))
  BY <1>4, <1>8, Zenon DEF ReadAs, n
<1>10. took = {z \in from : ~Within(e, Numbered(e, x), z)}
  BY <1>3, <1>9
<1> HIDE DEF took, from
<1>11. from \subseteq held /\ \A z : z[1] # Str(e) => (z \in from <=> z \in held)
  BY Leaves DEF from
<1>12. \A z : z[1] # Str(e) => (z \in took <=> z \in held)
  BY <1>3, <1>10, <1>11
<1>13. \A z \in took : z \in held
  BY <1>10, <1>11
<1>14. OwnPart(e, from) = Entries(e, cache[e]) => OwnPart(e, took) = Entries(e, after)
  <2>1. OwnPart(e, took) = {z \in OwnPart(e, from) : ~Within(e, Numbered(e, x), z)}
    BY <1>10 DEF OwnPart
  <2>2. {z \in Entries(e, cache[e]) : ~Within(e, Numbered(e, x), z)} = Entries(e, after)
    BY <1>3 DEF Entries
  <2>3. QED
    BY <2>1, <2>2
<1>15. Delivers(e, message, blocks, after)
  BY <1>9, <1>12, <1>13, <1>14, Zenon DEF Delivers, told, took, from
<1>16. QED
  BY <1>15 DEF message, blocks

\* An event of an unknown kind changes nothing.
LEMMA UnknownDelivers ==
  ASSUME NEW e \in Engines, Counts(e)
  PROVE  Delivers(e, Batch([type |-> "BlocksMoved"], <<>>), <<>>, cache[e])
<1> DEFINE ev == [type |-> "BlocksMoved"]
           declared == <<>>
           message == Batch(ev, declared)
           blocks == <<>>
           told == ToldBy(e, message, blocks)
           from == Left(First(e), Str(e), held)
           took == ReadOf(told)
           d == <<>>
           n == 0
<1>1. DOMAIN declared \subseteq {"dp_rank"} /\ sent \in Int
  BY SmallMaps DEF Counts
<1>2. /\ ev.type # "BlockStored" /\ ev.type # "BlockRemoved" /\ ev.type # "AllBlocksCleared"
  OBVIOUS
<1> HIDE DEF ev, declared
<1>3. /\ at_ms(message) = (sent + 1) * 1000
      /\ derive(e, message) = IF e = "vllm" THEN VllmEvents(message, ev)
                              ELSE SglangEvents(message, ev)
  BY <1>1, BatchOfOne
<1>4. VllmEvents(message, ev) = d /\ SglangEvents(message, ev) = d
  BY <1>2, Zenon DEF VllmEvents, SglangEvents
<1>5. Timely(message) /\ derive(e, message) = d
  BY <1>3, <1>4, NextIsTimely
<1>6. Listed(d, n) /\ Len(blocks) \in {0, n} /\ n \in Nat
  BY OneListed
<1>7. \A i \in 1 .. n : Truth(e, Numbered(e, d[i]), TextOf(blocks, n, i))
  OBVIOUS
<1> HIDE DEF message, d, n, blocks
<1>8. Shows(e, message, blocks, d, n, told)
  BY <1>5, <1>6, Telling DEF ToldBy
<1> HIDE DEF told
<1>9. ReadAs(e, told, d, n)
  BY <1>5, <1>6, <1>7, <1>8, Reading, Zenon
<1>10. /\ \A m \in Range(told) : \E it : m.record = record(e, it) /\ Truth(e, it, m.text)
       /\ took = from
  BY <1>9, Zenon DEF ReadAs, n
<1> HIDE DEF took, from
<1>11. from \subseteq held /\ \A z : z[1] # Str(e) => (z \in from <=> z \in held)
  BY Leaves DEF from
<1>12. Delivers(e, message, blocks, cache[e])
  <2>1. \A z \in took : z \in held
    BY <1>10, <1>11
  <2>2. \A z : z[1] # Str(e) => (z \in took <=> z \in held)
    BY <1>10, <1>11
  <2>3. QED
    BY <1>10, <2>1, <2>2, Zenon DEF Delivers, told, took, from
<1>13. QED
  BY <1>12 DEF message, blocks, ev, declared

-----------------------------------------------------------------------------
(***************************************************************************)
(* The engines, the producer and the reader.                               *)
(***************************************************************************)

\* Of one engine.  Before the producer has heard a process of which nothing
\* was lost, the process has said nothing and so has cached nothing; after
\* that its sequence has no gap, and the reader holds what it holds.
EngineOK(e) ==
  /\ boot[e] \in 0 .. MaxBoots /\ heard[e] \in 0 .. boot[e]
  /\ cache[e] \subseteq Places(e) \X Cached(e)
  /\ next[e] \in 0 .. sent /\ seen[e] \in -1 .. sent
  /\ missed[e] \subseteq 0 .. next[e] - 1
  /\ next[e] = 0 => cache[e] = {}
  /\ missed[e] = {} /\ heard[e] < boot[e] => next[e] = 0
  /\ missed[e] = {} /\ heard[e] = boot[e] =>
       seen[e] = next[e] - 1 /\ OwnPart(e, held) = Entries(e, cache[e])
  /\ seen[e] = -1 => OwnPart(e, held) = {}

InHeld(x) ==
  \E e \in Engines : \E place \in Places(e), h \in 0 .. HashSpace - 1 :
    x = <<Str(e), Integer(place[1]), Integer(place[2]), Str(h), Str(place[3])>>

HeldOK(s) == \A x \in s : InHeld(x)

BatchOK(told) ==
  \A m \in Range(told) :
    \E e \in Engines : \E ev : m.record = record(e, ev) /\ Truth(e, ev, m.text)

NamedOK(s) == \A x \in s : x[1] = Str(x[2])

EngineInv ==
  /\ \A f \in {boot, cache, next, seen, missed, heard} : DOMAIN f = Engines
  /\ \A e \in Engines : EngineOK(e)
  /\ sent \in 0 .. MaxMessages
  /\ HeldOK(held) /\ BatchOK(batch) /\ NamedOK(named)

\* What a message finds: exactly the engine's blocks, but for a loss.
LEMMA Found ==
  ASSUME NEW e \in Engines, EngineOK(e), sent \in Nat, missed[e] = {}
  PROVE  OwnPart(e, Left(First(e), Str(e), held)) = Entries(e, cache[e])
<1> DEFINE from == Left(First(e), Str(e), held)
<1>0. /\ boot[e] \in Int /\ heard[e] \in Int /\ heard[e] <= boot[e]
      /\ next[e] \in Int /\ seen[e] \in Int /\ seen[e] >= -1
  BY DEF EngineOK
<1>1. CASE heard[e] = boot[e]
  <2>1. seen[e] = next[e] - 1 /\ OwnPart(e, held) = Entries(e, cache[e])
    BY <1>1, Zenon DEF EngineOK
  <2>2. First(e) = 0
    BY <1>0, <2>1 DEF First, Regressed
  <2>3. QED
    BY <2>1, <2>2 DEF Left
<1>2. CASE heard[e] < boot[e]
  <2>1. next[e] = 0 /\ cache[e] = {}
    BY <1>2 DEF EngineOK
  <2>2. OwnPart(e, from) = {}
    <3>1. CASE Regressed(e)
      BY <3>1 DEF First, Left, OwnPart
    <3>2. CASE ~Regressed(e)
      <4>1. seen[e] = -1 /\ First(e) = 0
        BY <1>0, <2>1, <3>2 DEF Regressed, First
      <4>2. OwnPart(e, held) = {}
        BY <4>1 DEF EngineOK
      <4>3. QED
        BY <4>1, <4>2 DEF Left
    <3>3. QED
      BY <3>1, <3>2
  <2>3. QED
    BY <2>1, <2>2 DEF Entries
<1>3. QED
  BY <1>0, <1>1, <1>2

\* The names of a process do not change while it runs.
LEMMA SameBoot ==
  ASSUME NEW e, boot[e]' = boot[e]
  PROVE  /\ \A b : EntryFor(e, b)' = EntryFor(e, b)
         /\ \A ev, text : Truth(e, ev, text) => Truth(e, ev, text)'
<1>1. \A text : Hash(e, text)' = Hash(e, text)
  BY DEF Hash
<1>2. \A b : EntryFor(e, b)' = EntryFor(e, b)
  BY <1>1 DEF EntryFor
<1>3. ASSUME NEW ev, NEW text, TrueParent(e, ev, text) PROVE TrueParent(e, ev, text)'
  BY <1>1, <1>3 DEF TrueParent
<1>4. \A ev, text : Truth(e, ev, text) => Truth(e, ev, text)'
  BY <1>3 DEF Truth
<1>5. QED
  BY <1>2, <1>4

\* A record that names its content names its block's text.
LEMMA Naming ==
  ASSUME NEW told, BatchOK(told)
  PROVE  NamedOK(NamedIn(told))
<1> SUFFICES ASSUME NEW m \in Range(told), Has(m.record, "content_id")
             PROVE  Field(m.record, "content_id") = Str(m.text)
  BY DEF NamedOK, NamedIn
<1>1. PICK e \in Engines : \E ev : m.record = record(e, ev) /\ Truth(e, ev, m.text)
  BY DEF BatchOK
<1>2. PICK ev : m.record = record(e, ev) /\ Truth(e, ev, m.text)
  BY <1>1
<1>3. Event(ev) /\ (Carries(ev, "content_id") => ev["type"] = "Stored" /\ ev["content_id"] = m.text)
  BY <1>2 DEF Truth
<1>4. /\ ~Carries(ev, "content_id") => ~Has(record(e, ev), "content_id")
      /\ ev["type"] = "Stored" /\ Has(record(e, ev), "content_id") =>
           Field(record(e, ev), "content_id") = Str(ev["content_id"])
  BY <1>3, RecordSays
<1>5. QED
  BY <1>2, <1>3, <1>4

\* What a message that arrives changes.
LEMMA Arriving ==
  ASSUME NEW e, NEW message, NEW blocks, Arrives(e, message, blocks)
  PROVE  LET told == ToldBy(e, message, blocks)
         IN /\ seen' = [seen EXCEPT ![e] = next[e]] /\ heard' = [heard EXCEPT ![e] = boot[e]]
            /\ batch' = told /\ held' = ReadOf(told)
            /\ named' = named \cup NamedIn(told) /\ missed' = missed
<1> DEFINE told == ToldBy(e, message, blocks)
           typed == [i \in DOMAIN told |-> decode(told[i].record)]
<1>1. /\ seen' = [seen EXCEPT ![e] = next[e]] /\ heard' = [heard EXCEPT ![e] = boot[e]]
      /\ batch' = told /\ named' = named \cup NamedIn(batch') /\ missed' = missed
  BY Zenon DEF Arrives, ToldBy
<1>2. \E t \in {[i \in DOMAIN batch' |-> decode(batch'[i].record)]} : held' = FoldLeft(Ingest, held, t)
  BY Zenon DEF Arrives
<1>3. \E t \in {[i \in DOMAIN batch' |-> decode(batch'[i].record)]} : held' = Taken(held, t)
  BY <1>2, Zenon DEF Taken
<1> HIDE DEF told
<1>4. [i \in DOMAIN batch' |-> decode(batch'[i].record)] = typed
  BY <1>1
<1> HIDE DEF typed
<1>5. held' = Taken(held, typed)
  BY <1>3, <1>4
<1>6. held' = ReadOf(told)
  BY <1>5 DEF ReadOf, typed
<1>7. QED
  BY <1>1, <1>6 DEF told

\* An engine that a step does not concern.
LEMMA Others ==
  ASSUME NEW f \in Engines, EngineOK(f), sent \in Nat, sent' \in {sent, sent + 1},
         boot'[f] = boot[f], heard'[f] = heard[f], cache'[f] = cache[f], next'[f] = next[f],
         seen'[f] = seen[f], missed'[f] = missed[f],
         \A x : x[1] = Str(f) => (x \in held' <=> x \in held)
  PROVE  EngineOK(f)'
<1>1. OwnPart(f, held)' = OwnPart(f, held)
  BY DEF OwnPart
<1>2. Entries(f, cache[f])' = Entries(f, cache[f])
  <2>1. \A b : EntryFor(f, b)' = EntryFor(f, b)
    BY SameBoot
  <2>2. QED
    BY <2>1 DEF Entries
<1>3. 0 .. sent \subseteq 0 .. sent' /\ -1 .. sent \subseteq -1 .. sent'
  OBVIOUS
<1>4. /\ boot[f]' \in 0 .. MaxBoots /\ heard[f]' \in 0 .. boot[f]'
      /\ cache[f]' \subseteq Places(f) \X Cached(f)
      /\ next[f]' \in 0 .. sent' /\ seen[f]' \in -1 .. sent'
      /\ missed[f]' \subseteq 0 .. next[f]' - 1
      /\ next[f]' = 0 => cache[f]' = {}
      /\ missed[f]' = {} /\ heard[f]' < boot[f]' => next[f]' = 0
  BY <1>3 DEF EngineOK
<1>5. /\ missed[f]' = {} /\ heard[f]' = boot[f]' =>
           seen[f]' = next[f]' - 1 /\ OwnPart(f, held)' = Entries(f, cache[f])'
      /\ seen[f]' = -1 => OwnPart(f, held)' = {}
  BY <1>1, <1>2 DEF EngineOK
<1>6. QED
  BY <1>4, <1>5 DEF EngineOK

\* The tags of the engines.
LEMMA Apart ==
  /\ \A e, f \in Engines : e # f => Str(e) # Str(f)
  /\ \A e, b : EntryFor(e, b)[1] = Str(e)
BY Names DEF EntryFor

\* A message that arrives.
LEMMA HeardStep ==
  ASSUME EngineInv, NEW e \in Engines, NEW message, NEW blocks,
         NEW after \in SUBSET (Places(e) \X Cached(e)),
         Delivers(e, message, blocks, after), Arrives(e, message, blocks),
         DOMAIN cache' = Engines, \A f \in Engines : cache'[f] = (IF f = e THEN after ELSE cache[f]),
         sent < MaxMessages, sent' = sent + 1,
         next' = [next EXCEPT ![e] = @ + 1], boot' = boot
  PROVE  EngineInv'
<1> DEFINE told == ToldBy(e, message, blocks)
           took == ReadOf(told)
           from == Left(First(e), Str(e), held)
<1>1. /\ \A m \in Range(told) : \E ev : m.record = record(e, ev) /\ Truth(e, ev, m.text)
      /\ \A x : x[1] # Str(e) => (x \in took <=> x \in held)
      /\ \A x \in took : \/ x \in held
                         \/ \E place \in Places(e), text \in Cached(e) :
                              x = EntryFor(e, <<place, text>>)
      /\ OwnPart(e, from) = Entries(e, cache[e]) => OwnPart(e, took) = Entries(e, after)
  BY Zenon DEF Delivers
<1>2. /\ seen' = [seen EXCEPT ![e] = next[e]] /\ heard' = [heard EXCEPT ![e] = boot[e]]
      /\ batch' = told /\ held' = took
      /\ named' = named \cup NamedIn(told) /\ missed' = missed
  BY Arriving, Zenon
<1> HIDE DEF told, took, from
<1>3. /\ DOMAIN boot = Engines /\ DOMAIN cache = Engines /\ DOMAIN next = Engines
      /\ DOMAIN seen = Engines /\ DOMAIN missed = Engines /\ DOMAIN heard = Engines
  BY DEF EngineInv
<1>4. sent \in Nat /\ sent' \in 0 .. MaxMessages /\ 0 .. sent \subseteq 0 .. sent'
  BY BoundAssumption DEF EngineInv
<1>5. /\ boot'[e] = boot[e] /\ heard'[e] = boot[e] /\ cache'[e] = after
      /\ next'[e] = next[e] + 1 /\ seen'[e] = next[e] /\ missed'[e] = missed[e]
  BY <1>2, <1>3
<1>6. EngineOK(e)
  BY DEF EngineInv
<1>7. EngineOK(e)'
  <2>1. /\ boot[e] \in 0 .. MaxBoots /\ boot[e] \in Int
        /\ next[e] \in 0 .. sent /\ missed[e] \subseteq 0 .. next[e] - 1
    BY <1>6 DEF EngineOK
  <2>2. /\ boot[e]' \in 0 .. MaxBoots /\ heard[e]' \in 0 .. boot[e]'
        /\ cache[e]' \subseteq Places(e) \X Cached(e)
        /\ next[e]' \in 0 .. sent' /\ seen[e]' \in -1 .. sent'
        /\ missed[e]' \subseteq 0 .. next[e]' - 1
    BY <1>4, <1>5, <2>1
  <2>3. ~(next[e]' = 0) /\ ~(heard[e]' < boot[e]') /\ seen[e]' = next[e]' - 1 /\ ~(seen[e]' = -1)
    BY <1>5, <2>1
  <2>4. missed[e]' = {} => OwnPart(e, held)' = Entries(e, cache[e])'
    <3>1. ASSUME missed[e]' = {} PROVE OwnPart(e, held)' = Entries(e, cache[e])'
      <4>1. missed[e] = {}
        BY <1>5, <3>1
      <4>2. OwnPart(e, from) = Entries(e, cache[e])
        BY <1>4, <1>6, <4>1, Found DEF from
      <4>3. OwnPart(e, took) = Entries(e, after)
        BY <1>1, <4>2
      <4>4. OwnPart(e, held)' = OwnPart(e, took)
        BY <1>2 DEF OwnPart
      <4>5. \A b : EntryFor(e, b)' = EntryFor(e, b)
        BY <1>5, SameBoot
      <4>6. Entries(e, cache[e])' = Entries(e, after)
        BY <1>5, <4>5 DEF Entries
      <4>7. QED
        BY <4>3, <4>4, <4>6
    <3>2. QED
      BY <3>1
  <2>5. QED
    BY <2>2, <2>3, <2>4 DEF EngineOK
<1>8. ASSUME NEW f \in Engines, f # e PROVE EngineOK(f)'
  <2>1. EngineOK(f)
    BY DEF EngineInv
  <2>2. /\ boot'[f] = boot[f] /\ heard'[f] = heard[f] /\ cache'[f] = cache[f]
        /\ next'[f] = next[f] /\ seen'[f] = seen[f] /\ missed'[f] = missed[f]
    BY <1>2, <1>3, <1>8
  <2>3. \A x : x[1] = Str(f) => (x \in held' <=> x \in held)
    BY <1>1, <1>2, <1>8, Apart
  <2>4. QED
    BY <1>4, <2>1, <2>2, <2>3, Others
<1>9. HeldOK(held')
  <2>1. HeldOK(held)
    BY DEF EngineInv
  <2>2. ASSUME NEW place \in Places(e), NEW text PROVE InHeld(EntryFor(e, <<place, text>>))
    <3>1. Hash(e, text) \in 0 .. HashSpace - 1
      BY <1>6, Hashes DEF EngineOK
    <3>2. EntryFor(e, <<place, text>>) =
            <<Str(e), Integer(place[1]), Integer(place[2]), Str(Hash(e, text)), Str(place[3])>>
      BY DEF EntryFor
    <3>3. QED
      BY <3>1, <3>2 DEF InHeld
  <2>3. ASSUME NEW x \in took PROVE InHeld(x)
    <3>1. CASE x \in held
      BY <2>1, <3>1 DEF HeldOK
    <3>2. CASE x \notin held
      <4>1. PICK place \in Places(e), text \in Cached(e) : x = EntryFor(e, <<place, text>>)
        BY <1>1, <3>2
      <4>2. QED
        BY <2>2, <4>1
    <3>3. QED
      BY <3>1, <3>2
  <2>4. QED
    BY <1>2, <2>3 DEF HeldOK
<1>10. BatchOK(told)
  BY <1>1, Zenon DEF BatchOK
<1>11. BatchOK(batch)'
  <2>1. \A ev, text : Truth(e, ev, text) => Truth(e, ev, text)'
    BY <1>5, SameBoot
  <2>2. \A m \in Range(batch') : \E ev : m.record = record(e, ev) /\ Truth(e, ev, m.text)'
    BY <1>1, <1>2, <2>1, Zenon
  <2>3. QED
    BY <2>2, Zenon DEF BatchOK
<1>12. NamedOK(named')
  <2>1. NamedOK(NamedIn(told)) /\ NamedOK(named)
    BY <1>10, Naming DEF EngineInv
  <2>2. QED
    BY <1>2, <2>1 DEF NamedOK
<1>13. /\ DOMAIN boot' = Engines /\ DOMAIN cache' = Engines /\ DOMAIN next' = Engines
       /\ DOMAIN seen' = Engines /\ DOMAIN missed' = Engines /\ DOMAIN heard' = Engines
  BY <1>2, <1>3
<1>14. QED
  BY <1>4, <1>7, <1>8, <1>9, <1>11, <1>12, <1>13 DEF EngineInv, HeldOK, NamedOK

\* A message that is lost.
LEMMA LostStep ==
  ASSUME EngineInv, NEW e \in Engines, NEW after \in SUBSET (Places(e) \X Cached(e)), IsLost(e),
         DOMAIN cache' = Engines, \A f \in Engines : cache'[f] = (IF f = e THEN after ELSE cache[f]),
         sent < MaxMessages, sent' = sent + 1,
         next' = [next EXCEPT ![e] = @ + 1], boot' = boot
  PROVE  EngineInv'
<1>1. /\ missed' = [missed EXCEPT ![e] = @ \cup {next[e]}] /\ batch' = <<>>
      /\ seen' = seen /\ held' = held /\ heard' = heard /\ named' = named
  BY DEF IsLost
<1>2. /\ DOMAIN boot = Engines /\ DOMAIN cache = Engines /\ DOMAIN next = Engines
      /\ DOMAIN seen = Engines /\ DOMAIN missed = Engines /\ DOMAIN heard = Engines
  BY DEF EngineInv
<1>3. sent \in Nat /\ sent' \in 0 .. MaxMessages
  BY BoundAssumption DEF EngineInv
<1>4. /\ boot'[e] = boot[e] /\ heard'[e] = heard[e] /\ cache'[e] = after
      /\ next'[e] = next[e] + 1 /\ seen'[e] = seen[e] /\ missed'[e] = missed[e] \cup {next[e]}
  BY <1>1, <1>2
<1>5. EngineOK(e)'
  <2>1. /\ boot[e] \in 0 .. MaxBoots /\ heard[e] \in 0 .. boot[e] /\ seen[e] \in -1 .. sent
        /\ next[e] \in 0 .. sent /\ missed[e] \subseteq 0 .. next[e] - 1
        /\ seen[e] = -1 => OwnPart(e, held) = {}
    BY DEF EngineInv, EngineOK
  <2>2. /\ boot[e]' \in 0 .. MaxBoots /\ heard[e]' \in 0 .. boot[e]'
        /\ cache[e]' \subseteq Places(e) \X Cached(e)
        /\ next[e]' \in 0 .. sent' /\ seen[e]' \in -1 .. sent'
        /\ missed[e]' \subseteq 0 .. next[e]' - 1
        /\ ~(next[e]' = 0) /\ ~(missed[e]' = {})
    BY <1>3, <1>4, <2>1
  <2>3. OwnPart(e, held)' = OwnPart(e, held)
    BY <1>1 DEF OwnPart
  <2>4. seen[e]' = -1 => OwnPart(e, held)' = {}
    BY <1>4, <2>1, <2>3
  <2>5. QED
    BY <2>2, <2>4 DEF EngineOK
<1>6. ASSUME NEW f \in Engines, f # e PROVE EngineOK(f)'
  <2>1. EngineOK(f)
    BY DEF EngineInv
  <2>2. /\ boot'[f] = boot[f] /\ heard'[f] = heard[f] /\ cache'[f] = cache[f]
        /\ next'[f] = next[f] /\ seen'[f] = seen[f] /\ missed'[f] = missed[f]
    BY <1>1, <1>2, <1>6
  <2>3. QED
    BY <1>1, <1>3, <2>1, <2>2, Others
<1>7. HeldOK(held') /\ NamedOK(named')
  BY <1>1 DEF EngineInv
<1>8. BatchOK(batch)'
  BY <1>1 DEF BatchOK, Range
<1>9. /\ DOMAIN boot' = Engines /\ DOMAIN cache' = Engines /\ DOMAIN next' = Engines
      /\ DOMAIN seen' = Engines /\ DOMAIN missed' = Engines /\ DOMAIN heard' = Engines
  BY <1>1, <1>2
<1>10. QED
  BY <1>3, <1>5, <1>6, <1>7, <1>8, <1>9 DEF EngineInv, HeldOK, NamedOK

\* A message, lost or not.
LEMMA PublishStep ==
  ASSUME EngineInv, NEW e \in Engines, NEW ev, NEW declared, NEW blocks, NEW after,
         Publish(e, ev, declared, blocks),
         DOMAIN cache' = Engines, \A f \in Engines : cache'[f] = (IF f = e THEN after ELSE cache[f]),
         after \subseteq Places(e) \X Cached(e),
         Delivers(e, Batch(ev, declared), blocks, after)
  PROVE  EngineInv'
<1> DEFINE message == Batch(ev, declared)
<1>1. /\ sent < MaxMessages /\ sent' = sent + 1 /\ boot' = boot
      /\ next' = [next EXCEPT ![e] = @ + 1]
      /\ Arrives(e, message, blocks) \/ IsLost(e)
  BY Zenon DEF Publish
<1>2. Delivers(e, message, blocks, after) /\ after \in SUBSET (Places(e) \X Cached(e))
  OBVIOUS
<1> HIDE DEF message
<1>3. CASE Arrives(e, message, blocks)
  BY <1>1, <1>2, <1>3, HeardStep
<1>4. CASE IsLost(e)
  BY <1>1, <1>2, <1>4, LostStep
<1>5. QED
  BY <1>1, <1>3, <1>4

\* What the steps of an engine find.
LEMMA Finds ==
  ASSUME EngineInv, NEW e \in Engines
  PROVE  /\ boot[e] \in Int /\ cache[e] \subseteq Places(e) \X Cached(e)
         /\ DOMAIN cache = Engines /\ (sent < MaxMessages => Counts(e))
         /\ \A place : HeldAt(e, place) \subseteq Cached(e)
<1>1. EngineOK(e) /\ sent \in 0 .. MaxMessages /\ DOMAIN cache = Engines
  BY DEF EngineInv
<1>2. sent < MaxMessages => Counts(e)
  <2>1. next[e] \in 0 .. sent
    BY <1>1 DEF EngineOK
  <2>2. /\ MaxMessages \in Nat /\ I64 \in Nat /\ Mantissa \in Nat /\ Mantissa < I64
        /\ MaxMessages * 1000 + 60000 <= Mantissa
    BY BoundAssumption, WidthAssumption
  <2>3. QED
    BY <1>1, <2>1, <2>2 DEF Counts
<1>3. cache[e] \subseteq Places(e) \X Cached(e) /\ boot[e] \in Int
  BY <1>1 DEF EngineOK
<1>4. \A place : HeldAt(e, place) \subseteq Cached(e)
  BY <1>3 DEF HeldAt
<1>5. QED
  BY <1>1, <1>2, <1>3, <1>4

\* One that publishes has a message left, whose clock is exact.
LEMMA Publishes ==
  ASSUME EngineInv, NEW e \in Engines, NEW ev, NEW declared, NEW blocks,
         Publish(e, ev, declared, blocks)
  PROVE  Counts(e)
BY Finds DEF Publish

\* An engine stores a run.
LEMMA StoredStep ==
  ASSUME EngineInv, NEW e \in Engines, NEW place \in Places(e), Stored(e, place)
  PROVE  EngineInv'
<1>1. PICK text \in Texts(e), prefix \in {<<>>} \cup HeldAt(e, place) :
        /\ IsStrictPrefix(prefix, text)
        /\ \E blocks \in Kept(place, RunOf(prefix, text)) :
             /\ cache' = [cache EXCEPT ![e] = @ \cup {<<place, b>> : b \in Range(blocks)}]
             /\ Publish(e, StoreEvent(e, place, prefix, RunOf(prefix, text), blocks),
                        Ranked(e, place[1]), blocks)
  BY Zenon DEF Stored
<1> DEFINE run == RunOf(prefix, text)
<1>2. PICK blocks \in Kept(place, run) :
        /\ cache' = [cache EXCEPT ![e] = @ \cup {<<place, b>> : b \in Range(blocks)}]
        /\ Publish(e, StoreEvent(e, place, prefix, run, blocks), Ranked(e, place[1]), blocks)
  BY <1>1
<1> DEFINE more == {<<place, b>> : b \in Range(blocks)}
           after == cache[e] \cup more
<1>3. RunsOf(e, prefix, run)
  <2>1. prefix \in {<<>>} \cup Cached(e)
    BY Finds
  <2>2. QED
    BY <1>1, <2>1, Runs
<1> HIDE DEF run
<1>4. Delivers(e, Batch(StoreEvent(e, place, prefix, run, blocks), Ranked(e, place[1])), blocks, after)
  <2>1. Counts(e)
    BY <1>2, Publishes
  <2>2. QED
    BY <1>2, <1>3, <2>1, Finds, StoredDelivers
<1>5. \A b \in Range(blocks) : b \in Cached(e)
  <2>1. DOMAIN blocks = 1 .. Len(blocks) /\ \A i \in 1 .. Len(blocks) : blocks[i] \in Cached(e)
    BY <1>3, KeptBlocks
  <2>2. QED
    BY <2>1 DEF Range
<1>6. after \subseteq Places(e) \X Cached(e)
  BY <1>5, Finds
<1>7. DOMAIN cache' = Engines /\ \A f \in Engines : cache'[f] = (IF f = e THEN after ELSE cache[f])
  BY <1>2, Finds
<1> HIDE DEF after
<1>8. QED
  BY <1>2, <1>4, <1>6, <1>7, PublishStep

\* An engine evicts.
LEMMA RemovedStep ==
  ASSUME EngineInv, NEW e \in Engines, NEW place \in Places(e), Removed(e, place)
  PROVE  EngineInv'
<1>1. PICK gone \in SUBSET HeldAt(e, place) :
        /\ cache' = [cache EXCEPT ![e] = @ \ {<<place, b>> : b \in gone}]
        /\ Publish(e, RemoveEvent(e, place, SetToSeq(gone)), Ranked(e, place[1]), SetToSeq(gone))
  BY Zenon DEF Removed
<1> DEFINE blocks == SetToSeq(gone)
           after == cache[e] \ {<<place, b>> : b \in gone}
<1>2. Delivers(e, Batch(RemoveEvent(e, place, blocks), Ranked(e, place[1])), blocks, after)
  <2>1. Counts(e)
    BY <1>1, Publishes
  <2>2. QED
    BY <2>1, Finds, RemovedDelivers
<1>3. after \subseteq Places(e) \X Cached(e) /\ DOMAIN cache' = Engines /\ \A f \in Engines : cache'[f] = (IF f = e THEN after ELSE cache[f])
  BY <1>1, Finds
<1>4. Publish(e, RemoveEvent(e, place, blocks), Ranked(e, place[1]), blocks)
  BY <1>1
<1> HIDE DEF after, blocks
<1>5. QED
  BY <1>2, <1>3, <1>4, PublishStep

\* An engine clears.
LEMMA ClearedStep ==
  ASSUME EngineInv, NEW e \in Engines, Cleared(e)
  PROVE  EngineInv'
<1>1. PICK declared \in {<<>>, [dp_rank |-> 0]}, scope \in Scopes(e) :
        /\ cache' = [cache EXCEPT ![e] = {b \in @ : ~Covered(declared, scope, b[1])}]
        /\ Publish(e, [type |-> "AllBlocksCleared"] ++ scope, declared, <<>>)
  BY Zenon DEF Cleared, Covered
<1> DEFINE after == {b \in cache[e] : ~Covered(declared, scope, b[1])}
           ev == [type |-> "AllBlocksCleared"] ++ scope
<1>2. Delivers(e, Batch(ev, declared), <<>>, after)
  <2>1. Counts(e)
    BY <1>1, Publishes
  <2>2. QED
    BY <2>1, ClearedDelivers
<1>3. after \subseteq Places(e) \X Cached(e)
  BY Finds
<1>4. DOMAIN cache' = Engines /\ \A f \in Engines : cache'[f] = (IF f = e THEN after ELSE cache[f])
  BY <1>1, Finds
<1> HIDE DEF after, ev
<1>5. Publish(e, ev, declared, <<>>)
  BY <1>1 DEF ev
<1>6. QED
  BY <1>2, <1>3, <1>4, <1>5, PublishStep

\* An engine sends an event no decoder knows.
LEMMA UnknownStep ==
  ASSUME EngineInv, NEW e \in Engines, Unknown(e)
  PROVE  EngineInv'
<1> DEFINE ev == [type |-> "BlocksMoved"]
           after == cache[e]
<1>1. Publish(e, ev, <<>>, <<>>) /\ cache' = cache
  BY DEF Unknown
<1>2. Delivers(e, Batch(ev, <<>>), <<>>, after)
  <2>1. Counts(e)
    BY <1>1, Publishes
  <2>2. QED
    BY <2>1, UnknownDelivers
<1>3. after \subseteq Places(e) \X Cached(e)
  BY Finds
<1>4. DOMAIN cache' = Engines /\ \A f \in Engines : cache'[f] = (IF f = e THEN after ELSE cache[f])
  BY <1>1, Finds
<1> HIDE DEF after, ev
<1>5. QED
  BY <1>1, <1>2, <1>3, <1>4, PublishStep

\* An engine starts again.
LEMMA RestartStep ==
  ASSUME EngineInv, NEW e \in Engines, Restart(e)
  PROVE  EngineInv'
<1>1. /\ boot[e] + 1 < MaxBoots /\ boot' = [boot EXCEPT ![e] = @ + 1]
      /\ cache' = [cache EXCEPT ![e] = {}] /\ next' = [next EXCEPT ![e] = 0]
      /\ missed' = [missed EXCEPT ![e] = {}] /\ batch' = <<>>
      /\ seen' = seen /\ held' = held /\ sent' = sent /\ heard' = heard /\ named' = named
  BY DEF Restart
<1>2. /\ DOMAIN boot = Engines /\ DOMAIN cache = Engines /\ DOMAIN next = Engines
      /\ DOMAIN seen = Engines /\ DOMAIN missed = Engines /\ DOMAIN heard = Engines
      /\ sent \in Nat /\ sent \in 0 .. MaxMessages
  BY DEF EngineInv
<1>3. /\ boot'[e] = boot[e] + 1 /\ heard'[e] = heard[e] /\ cache'[e] = {}
      /\ next'[e] = 0 /\ seen'[e] = seen[e] /\ missed'[e] = {}
  BY <1>1, <1>2
<1>4. EngineOK(e)'
  <2>1. /\ boot[e] \in 0 .. MaxBoots /\ heard[e] \in 0 .. boot[e] /\ seen[e] \in -1 .. sent
        /\ seen[e] = -1 => OwnPart(e, held) = {}
    BY DEF EngineInv, EngineOK
  <2>2. MaxBoots \in Nat
    BY BoundAssumption
  <2>3. /\ boot[e]' \in 0 .. MaxBoots /\ heard[e]' \in 0 .. boot[e]'
        /\ ~(heard[e]' = boot[e]')
    BY <1>1, <1>3, <2>1, <2>2
  <2>4. /\ cache[e]' \subseteq Places(e) \X Cached(e)
        /\ next[e]' \in 0 .. sent' /\ seen[e]' \in -1 .. sent'
        /\ missed[e]' \subseteq 0 .. next[e]' - 1
        /\ cache[e]' = {} /\ next[e]' = 0
    BY <1>1, <1>2, <1>3, <2>1
  <2>5. OwnPart(e, held)' = OwnPart(e, held)
    BY <1>1 DEF OwnPart
  <2>6. seen[e]' = -1 => OwnPart(e, held)' = {}
    BY <1>3, <2>1, <2>5
  <2>7. QED
    BY <2>3, <2>4, <2>6 DEF EngineOK
<1>5. ASSUME NEW f \in Engines, f # e PROVE EngineOK(f)'
  <2>1. EngineOK(f)
    BY DEF EngineInv
  <2>2. /\ boot'[f] = boot[f] /\ heard'[f] = heard[f] /\ cache'[f] = cache[f]
        /\ next'[f] = next[f] /\ seen'[f] = seen[f] /\ missed'[f] = missed[f]
    BY <1>1, <1>2, <1>5
  <2>3. QED
    BY <1>1, <1>2, <2>1, <2>2, Others
<1>6. HeldOK(held') /\ NamedOK(named')
  BY <1>1 DEF EngineInv
<1>7. BatchOK(batch)'
  BY <1>1 DEF BatchOK, Range
<1>8. /\ DOMAIN boot' = Engines /\ DOMAIN cache' = Engines /\ DOMAIN next' = Engines
      /\ DOMAIN seen' = Engines /\ DOMAIN missed' = Engines /\ DOMAIN heard' = Engines
  BY <1>1, <1>2
<1>9. QED
  BY <1>1, <1>2, <1>4, <1>5, <1>6, <1>7, <1>8 DEF EngineInv, HeldOK, NamedOK

\* Every step keeps the invariant.
LEMMA EngineInvStep == EngineInv /\ [Next]_<<vars, program>> => EngineInv'
<1> SUFFICES ASSUME EngineInv, [Next]_<<vars, program>> PROVE EngineInv'
  OBVIOUS
<1>1. CASE UNCHANGED vars
  <2>1. /\ boot' = boot /\ cache' = cache /\ next' = next /\ seen' = seen /\ held' = held
        /\ sent' = sent /\ missed' = missed /\ heard' = heard /\ batch' = batch /\ named' = named
    BY <1>1 DEF vars, engine, history
  <2>2. /\ sent \in Nat /\ sent \in 0 .. MaxMessages /\ HeldOK(held) /\ BatchOK(batch) /\ NamedOK(named)
        /\ DOMAIN boot = Engines /\ DOMAIN cache = Engines /\ DOMAIN next = Engines
        /\ DOMAIN seen = Engines /\ DOMAIN missed = Engines /\ DOMAIN heard = Engines
    BY DEF EngineInv
  <2>3. ASSUME NEW f \in Engines PROVE EngineOK(f)'
    <3>1. EngineOK(f)
      BY DEF EngineInv
    <3>2. QED
      BY <2>1, <2>2, <3>1, Others
  <2>4. BatchOK(batch)'
    <3>1. \A e \in Engines : \A ev, text : Truth(e, ev, text) => Truth(e, ev, text)'
      BY <2>1, SameBoot
    <3>2. \A m \in Range(batch) : \E e \in Engines : \E ev :
            m.record = record(e, ev) /\ Truth(e, ev, m.text)
      BY <2>2, Zenon DEF BatchOK
    <3>3. \A m \in Range(batch') : \E e \in Engines : \E ev :
            m.record = record(e, ev) /\ Truth(e, ev, m.text)'
      BY <2>1, <3>1, <3>2, Zenon
    <3>4. QED
      BY <3>3, Zenon DEF BatchOK
  <2>5. QED
    BY <2>1, <2>2, <2>3, <2>4 DEF EngineInv, HeldOK, NamedOK
<1>2. ASSUME NEW e \in Engines, EngineStep(e) PROVE EngineInv'
  <2>1. CASE \E place \in Places(e) : Stored(e, place) \/ Removed(e, place)
    BY <2>1, StoredStep, RemovedStep
  <2>2. CASE Cleared(e)
    BY <2>2, ClearedStep
  <2>3. CASE Unknown(e)
    BY <2>3, UnknownStep
  <2>4. CASE Restart(e)
    BY <2>4, RestartStep
  <2>5. QED
    BY <1>2, <2>1, <2>2, <2>3, <2>4 DEF EngineStep
<1>3. QED
  BY <1>1, <1>2 DEF Next, vars

\* The system starts in it.
LEMMA EngineInit == Init => EngineInv
<1> SUFFICES ASSUME Init PROVE EngineInv
  OBVIOUS
<1>1. /\ boot = [e \in Engines |-> 0] /\ cache = [e \in Engines |-> {}]
      /\ next = [e \in Engines |-> 0] /\ seen = [e \in Engines |-> -1]
      /\ missed = [e \in Engines |-> {}] /\ heard = [e \in Engines |-> 0]
      /\ held = {} /\ sent = 0 /\ batch = <<>> /\ named = {}
  BY DEF Init
<1>2. ASSUME NEW e \in Engines PROVE EngineOK(e)
  <2>1. MaxBoots \in Nat
    BY BoundAssumption
  <2>2. OwnPart(e, held) = {} /\ Entries(e, cache[e]) = {}
    BY <1>1 DEF OwnPart, Entries
  <2>3. /\ boot[e] = 0 /\ cache[e] = {} /\ next[e] = 0 /\ seen[e] = -1
        /\ missed[e] = {} /\ heard[e] = 0
    BY <1>1
  <2>4. 0 \in 0 .. MaxBoots /\ 0 \in 0 .. 0 /\ 0 \in 0 .. sent /\ -1 \in -1 .. sent /\ -1 = 0 - 1
    BY <1>1, <2>1
  <2>5. QED
    BY <2>2, <2>3, <2>4 DEF EngineOK
<1>3. sent \in 0 .. MaxMessages
  BY <1>1, BoundAssumption
<1>4. HeldOK(held) /\ BatchOK(batch) /\ NamedOK(named)
  BY <1>1 DEF HeldOK, BatchOK, NamedOK, Range
<1>5. \A f \in {boot, cache, next, seen, missed, heard} : DOMAIN f = Engines
  BY <1>1
<1>6. QED
  BY <1>2, <1>3, <1>4, <1>5 DEF EngineInv

\* The invariant holds of every behaviour.
THEOREM EngineCorrect == Spec => []EngineInv
BY EngineInit, EngineInvStep, PTL DEF Spec

(***************************************************************************)
(* The types of the engines, the producer and the reader.                  *)
(***************************************************************************)
THEOREM TypeCorrect == Spec => []TypeOK
<1>1. EngineInv => TypeOK
  BY DEF EngineInv, EngineOK, HeldOK, InHeld, TypeOK, Cached
<1>2. QED
  BY <1>1, EngineCorrect, PTL

(***************************************************************************)
(* Of an engine whose current process was heard and lost no message, the   *)
(* reader holds exactly what the engine holds.                             *)
(***************************************************************************)
THEOREM ResidencyExact == Spec => []ResidencyIsExact
<1>1. EngineInv => ResidencyIsExact
  BY DEF EngineInv, EngineOK, OwnPart, Entries, ResidencyIsExact
<1>2. QED
  BY <1>1, EngineCorrect, PTL

(***************************************************************************)
(* The parent a store names is its block's, and a store that names none    *)
(* and does not say it is unknown is of a block that begins a chain.       *)
(***************************************************************************)
THEOREM ParentsTrue == Spec => []ParentsAreTrue
<1>1. EngineInv => ParentsAreTrue
  <2> SUFFICES ASSUME EngineInv, NEW m \in Range(batch), Field(m.record, "kind") = Str("store")
               PROVE  ParentIsTrue(m.record, m.text)
    BY DEF ParentsAreTrue
  <2>1. PICK e \in Engines : \E ev : m.record = record(e, ev) /\ Truth(e, ev, m.text)
    BY DEF EngineInv, BatchOK
  <2>2. PICK ev : m.record = record(e, ev) /\ Truth(e, ev, m.text)
    BY <2>1
  <2> DEFINE v == record(e, ev)
  <2>3. Event(ev)
    BY <2>2 DEF Truth
  <2>4. /\ Field(v, "instance_id") = Str(e)
        /\ Field(v, "kind") = Str("store") => ev["type"] = "Stored"
        /\ ev["type"] = "Stored" =>
             /\ Get(ev, "parent_unknown", FALSE) => Has(v, "parent_unknown") /\ ~Has(v, "parent_id")
             /\ ~Get(ev, "parent_unknown", FALSE) =>
                  /\ ~Has(v, "parent_unknown")
                  /\ Has(v, "parent_id") <=> Carries(ev, "parent_hash")
             /\ Has(v, "parent_id") => Field(v, "parent_id") = Str(ev["parent_hash"])
    BY <2>3, RecordSays, Zenon
  <2> HIDE DEF v
  <2>5. ev["type"] = "Stored"
    BY <2>2, <2>4 DEF v
  <2>6. TrueParent(e, ev, m.text)
    BY <2>2, <2>5, Zenon DEF Truth
  <2>7. Body(Str(e)) = e
    BY DEF Body, Str
  <2>8. CASE Get(ev, "parent_unknown", FALSE)
    <3>1. Has(v, "parent_unknown") /\ ~Has(v, "parent_id")
      BY <2>4, <2>5, <2>8, Zenon
    <3>2. QED
      BY <2>2, <3>1, Zenon DEF ParentIsTrue, v
  <2>9. CASE ~Get(ev, "parent_unknown", FALSE)
    <3>1. "parent_unknown" \notin DOMAIN ev
      <4>1. ASSUME "parent_unknown" \in DOMAIN ev PROVE FALSE
        <5>1. ev["parent_unknown"] = TRUE
          BY <2>6, <4>1, Zenon DEF TrueParent
        <5>2. QED
          BY <2>9, <4>1, <5>1, Zenon DEF Get
      <4>2. QED
        BY <4>1
    <3>2. ~Has(v, "parent_unknown") /\ (Has(v, "parent_id") <=> Carries(ev, "parent_hash"))
      BY <2>4, <2>5, <2>9, Zenon
    <3>3. CASE "parent_hash" \in DOMAIN ev
      <4>1. Len(m.text) > 1 /\ ev["parent_hash"] = Hash(e, Parent(m.text))
        BY <2>6, <3>1, <3>3, Zenon DEF TrueParent
      <4>2. Has(v, "parent_id") /\ Field(v, "parent_id") = Str(ev["parent_hash"])
        BY <2>4, <2>5, <3>2, <3>3, Zenon DEF Carries
      <4>3. Body(Field(v, "instance_id")) = e
        BY <2>4, <2>7
      <4>4. QED
        BY <2>2, <4>1, <4>2, <4>3, Zenon DEF ParentIsTrue, v
    <3>4. CASE "parent_hash" \notin DOMAIN ev
      <4>1. Len(m.text) = 1 /\ ~Has(v, "parent_id")
        BY <2>6, <3>1, <3>2, <3>4, Zenon DEF TrueParent, Carries
      <4>2. QED
        BY <2>2, <4>1, Zenon DEF ParentIsTrue, v
    <3>5. QED
      BY <3>3, <3>4
  <2>10. QED
    BY <2>8, <2>9, Zenon
<1>2. QED
  BY <1>1, EngineCorrect, PTL

(***************************************************************************)
(* Two stores state the same content identity exactly when the texts of    *)
(* their blocks are the same.                                              *)
(***************************************************************************)
THEOREM IdentityContent == Spec => []IdentityIsContent
<1>1. EngineInv => IdentityIsContent
  BY Names DEF EngineInv, NamedOK, IdentityIsContent
<1>2. QED
  BY <1>1, EngineCorrect, PTL

(***************************************************************************)
(* Every record of a message is one a producer may write and the twin      *)
(* generator can encode, and reads the same in every form it may take.     *)
(***************************************************************************)
THEOREM EveryForm == Spec => []EveryFormIsTheRecord
<1>1. EngineInv => EveryFormIsTheRecord
  <2> SUFFICES ASSUME EngineInv, NEW m \in Range(batch)
               PROVE  /\ Columnar(m.record)
                      /\ \A form \in FormsOf(m.record) :
                           decode(form) # NoRecord /\ decode(form).fields = decode(m.record).fields
    BY Zenon DEF EveryFormIsTheRecord
  <2>1. PICK e \in Engines : \E ev : m.record = record(e, ev) /\ Truth(e, ev, m.text)
    BY DEF EngineInv, BatchOK
  <2>2. PICK ev : m.record = record(e, ev) /\ Truth(e, ev, m.text)
    BY <2>1
  <2>3. Event(ev) /\ (ev["type"] \in {"Stored", "Removed"} => Carries(ev, "medium"))
    BY <2>2 DEF Truth
  <2> DEFINE v == record(e, ev)
  <2>4. NoNull(Body(v))
    BY <2>3, NoNulls
  <2>5. \A f \in DOMAIN Body(v) : Field(v, f) # Null
    BY <2>4 DEF NoNull, Field
  <2>6. /\ Columnar(v)
        /\ \A form \in FormsOf(v) : decode(form) # NoRecord /\ decode(form).fields = decode(v).fields
    BY <2>3, <2>5, FormsAgree
  <2>7. QED
    BY <2>2, <2>6
<1>2. QED
  BY <1>1, EngineCorrect, PTL

-----------------------------------------------------------------------------
(***************************************************************************)
(* The program.                                                            *)
(***************************************************************************)
LEMMA ProgramStep == ProgramInv /\ [Next]_<<vars, program>> => ProgramInv'
<1> SUFFICES ASSUME ProgramInv, [Next]_<<vars, program>> PROVE ProgramInv'
  OBVIOUS
<1>1. CASE UNCHANGED program
  BY <1>1 DEF program, ProgramInv, AcceptedRecordsDecode, EditsAreCaught,
                DecodeKeepsTheRecord, Matched, TwinKeepsTheRecord
<1>2. CASE Use
  BY <1>2, UseStep
<1>3. QED
  BY <1>1, <1>2 DEF Next

\* The program's invariant holds of every behaviour, whatever the engines do.
THEOREM ProgramCorrect == Spec => []ProgramInv
<1>1. Init => ProgramInv
  <2> SUFFICES ASSUME Init PROVE ProgramInv
    OBVIOUS
  <2>1. document = Null /\ draft = NoRecord
    BY DEF Init, Idle
  <2>2. Tag(document) = "null"
    BY <2>1 DEF Tag, Null
  <2>3. QED
    BY <2>1, <2>2 DEF ProgramInv, AcceptedRecordsDecode, EditsAreCaught,
                      DecodeKeepsTheRecord, Matched, validate_record,
                      TwinKeepsTheRecord, Columnar, validate_producer_record
<1>2. QED
  BY <1>1, ProgramStep, PTL DEF Spec

(***************************************************************************)
(* Every document validation accepts was decoded.                          *)
(***************************************************************************)
THEOREM AcceptedDecode == Spec => []AcceptedRecordsDecode
BY ProgramCorrect, PTL DEF ProgramInv

(***************************************************************************)
(* What was written of an edited record reads back as that record.         *)
(***************************************************************************)
THEOREM EditsCaught == Spec => []EditsAreCaught
BY ProgramCorrect, PTL DEF ProgramInv

(***************************************************************************)
(* A record read and written again says what it said, but for what a       *)
(* double cannot hold of a number in a field that is one.                  *)
(***************************************************************************)
THEOREM DecodeKeeps == Spec => []DecodeKeepsTheRecord
BY ProgramCorrect, PTL DEF ProgramInv

(***************************************************************************)
(* A record read back from its row has the typed fields and the names of   *)
(* the record, and its strings; a structure in it, the fields its          *)
(* definition names.                                                       *)
(***************************************************************************)
THEOREM TwinKeeps == Spec => []TwinKeepsTheRecord
BY ProgramCorrect, PTL DEF ProgramInv
===============================================================================
