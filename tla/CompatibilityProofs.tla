------------------------ MODULE CompatibilityProofs ------------------------
(***************************************************************************)
(* Theorems about Compatibility, for all kinds, fields, values and         *)
(* versions and any number of edits and releases.                          *)
(***************************************************************************)
EXTENDS Compatibility, FiniteSetTheorems, TLAPS

-----------------------------------------------------------------------------
(***************************************************************************)
(* The inductive invariant, in the parts the proof needs.                  *)
(***************************************************************************)

\* A map from fields to what they admit, and a schema made of such maps.
IsMap(m) == m = [f \in DOMAIN m |-> m[f]]

IsDefinition(d) ==
  /\ d = [properties |-> d.properties, required |-> d.required,
          if |-> d.if, then |-> d.then]
  /\ IsMap(d.properties) /\ IsMap(d.if) /\ IsMap(d.then)
  /\ DOMAIN d.properties \subseteq Fields
  /\ d.required \subseteq DOMAIN d.properties

IsSchema(D) == /\ IsMap(D)
               /\ DOMAIN D \subseteq Kinds /\ DOMAIN D # {}
               /\ \A k \in DOMAIN D : IsDefinition(D[k])

WellFormed ==
  /\ IsSchema(defs)
  /\ \A r \in released : /\ r = [version |-> r.version, defs |-> r.defs]
                         /\ r.version \in Versions
                         /\ IsSchema(r.defs)
  /\ IsFiniteSet(released) /\ Cardinality(released) <= MaxReleases

\* Of any two releases the later one was checked against the earlier one.
Checked ==
  \A r, s \in released : \/ r = s
                         \/ CheckVersion(r, s.version, s.defs)
                         \/ CheckVersion(s, r.version, r.defs)

IInv == WellFormed /\ Checked

-----------------------------------------------------------------------------
\* A map stays one when a field is set and when a field is removed.
LEMMA EditedMap ==
  ASSUME NEW m, IsMap(m), NEW e \in MapEdits(m)
  PROVE  IsMap(e)
<1>1. CASE \E f \in Fields, rule \in Rules : e = Setting(m, f, rule)
  BY <1>1 DEF IsMap, Setting
<1>2. CASE \E f \in DOMAIN m : e = Restrict(m, DOMAIN m \ {f})
  BY <1>2 DEF IsMap, Restrict
<1>3. QED
  BY <1>1, <1>2 DEF MapEdits

\* The fields of an edited `properties` are fields.
LEMMA EditedFields ==
  ASSUME NEW m, DOMAIN m \subseteq Fields, NEW e \in MapEdits(m)
  PROVE  DOMAIN e \subseteq Fields
<1>1. CASE \E f \in Fields, rule \in Rules : e = Setting(m, f, rule)
  BY <1>1 DEF Setting
<1>2. CASE \E f \in DOMAIN m : e = Restrict(m, DOMAIN m \ {f})
  BY <1>2 DEF Restrict
<1>3. QED
  BY <1>1, <1>2 DEF MapEdits

\* An edited definition is one.
LEMMA EditedDefinition ==
  ASSUME NEW d, IsDefinition(d), NEW e \in DefEdits(d)
  PROVE  IsDefinition(e)
<1> USE DEF IsDefinition
<1>0. InProfile(e)
  BY DEF DefEdits
<1>1. CASE \E m \in MapEdits(d.properties) : e = [d EXCEPT !.properties = m]
  BY <1>0, <1>1, EditedMap, EditedFields DEF InProfile
<1>2. CASE \E r \in SUBSET Fields : e = [d EXCEPT !.required = r]
  BY <1>0, <1>2 DEF InProfile
<1>3. CASE \E m \in MapEdits(d.if) : e = [d EXCEPT !.if = m]
  BY <1>3, EditedMap
<1>4. CASE \E m \in MapEdits(d.then) : e = [d EXCEPT !.then = m]
  BY <1>4, EditedMap
<1>5. QED
  BY <1>1, <1>2, <1>3, <1>4 DEF DefEdits

\* A definition as a kind first has it.
LEMMA NewDefinition ==
  ASSUME NEW p, IsMap(p), DOMAIN p \subseteq Fields,
         NEW c, IsMap(c), NEW t, IsMap(t)
  PROVE  IsDefinition(Definition(p, c, t))
  BY DEF IsDefinition, Definition

\* Every edit leaves a schema.
LEMMA EditStep ==
  ASSUME IInv, Edit
  PROVE  IsSchema(defs')
<1> USE DEF IInv, WellFormed, IsSchema
<1>1. CASE \E k \in DOMAIN defs : \E d \in DefEdits(defs[k]) :
             defs' = [defs EXCEPT ![k] = d]
  <2>1. PICK k \in DOMAIN defs : \E d \in DefEdits(defs[k]) :
          defs' = [defs EXCEPT ![k] = d]
    BY <1>1
  <2>2. PICK d \in DefEdits(defs[k]) : defs' = [defs EXCEPT ![k] = d]
    BY <2>1
  <2>3. IsDefinition(defs[k])
    BY <2>1
  <2>4. IsDefinition(d)
    BY <2>2, <2>3, EditedDefinition
  <2>5. QED
    BY <2>1, <2>2, <2>4 DEF IsMap
<1>2. CASE \E k \in Kinds \ DOMAIN defs, p \in Properties :
             defs' = Setting(defs, k, Definition(p, NoRules, NoRules))
  <2>1. PICK k \in Kinds \ DOMAIN defs, p \in Properties :
          defs' = Setting(defs, k, Definition(p, NoRules, NoRules))
    BY <1>2
  <2>2. IsMap(p) /\ DOMAIN p \subseteq Fields /\ IsMap(NoRules)
    BY DEF Properties, IsMap, NoRules
  <2>3. IsDefinition(Definition(p, NoRules, NoRules))
    BY <2>2, NewDefinition
  <2>4. QED
    BY <2>1, <2>3 DEF IsMap, Setting
<1>3. CASE \E k \in DOMAIN defs : /\ DOMAIN defs # {k}
                                  /\ defs' = Restrict(defs, DOMAIN defs \ {k})
  BY <1>3 DEF IsMap, Restrict
<1>4. QED
  BY <1>1, <1>2, <1>3 DEF Edit

\* The invariant holds of the first draft, before anything is released.
LEMMA InitInvariant == Init => IInv
<1> SUFFICES ASSUME Init PROVE IInv
  OBVIOUS
<1>1. IsMap(AnyValue) /\ DOMAIN AnyValue \subseteq Fields /\ IsMap(NoRules)
  BY DEF IsMap, NoRules, AnyValue
<1>2. \A f, v : IsMap(Only(f, {v}))
  BY DEF IsMap, Only
<1>3. PICK k \in Kinds : \E d : defs = Only(k, d) /\ IsDefinition(d)
  <2>1. PICK k \in Kinds :
          \/ defs = Only(k, Definition(AnyValue, NoRules, NoRules))
          \/ \E f, g \in Fields, v, w \in Values :
               defs = Only(k, Definition(AnyValue, Only(f, {v}), Only(g, {w})))
    BY DEF Init
  <2>2. CASE defs = Only(k, Definition(AnyValue, NoRules, NoRules))
    BY <1>1, <2>2, NewDefinition
  <2>3. CASE \E f, g \in Fields, v, w \in Values :
               defs = Only(k, Definition(AnyValue, Only(f, {v}), Only(g, {w})))
    <3>1. PICK f \in Fields, g \in Fields, v \in Values, w \in Values :
            defs = Only(k, Definition(AnyValue, Only(f, {v}), Only(g, {w})))
      BY <2>3
    <3>2. IsDefinition(Definition(AnyValue, Only(f, {v}), Only(g, {w})))
      BY <1>1, <1>2, NewDefinition
    <3>3. QED
      BY <3>1, <3>2
  <2>4. QED
    BY <2>1, <2>2, <2>3
<1>4. IsSchema(defs)
  BY <1>3 DEF IsSchema, IsMap, Only
<1>5. released = {} /\ IsFiniteSet(released) /\ Cardinality(released) <= MaxReleases
  BY FS_EmptySet, CompatibilityAssumption DEF Init
<1>6. QED
  BY <1>4, <1>5 DEF IInv, WellFormed, Checked

\* Editing keeps the baselines, and a release was checked against each of them.
LEMMA StepInvariant == IInv /\ [Next]_vars => IInv'
<1> SUFFICES ASSUME IInv, [Next]_vars PROVE IInv'
  OBVIOUS
<1>1. CASE Edit
  BY <1>1, EditStep DEF Edit, IInv, WellFormed, Checked
<1>2. CASE Release
  <2>1. PICK version \in Versions :
          /\ \A old \in released : CheckVersion(old, version, defs)
          /\ released' = released \cup {[version |-> version, defs |-> defs]}
    BY <1>2 DEF Release
  <2>2. defs' = defs
    BY <1>2 DEF Release
  <2>3. IsFiniteSet(released') /\ Cardinality(released') <= MaxReleases
    <3> DEFINE new == [version |-> version, defs |-> defs]
    <3>1. /\ IsFiniteSet(released) /\ Cardinality(released) \in Nat
          /\ Cardinality(released) < MaxReleases /\ MaxReleases \in Nat
      BY <1>2, CompatibilityAssumption, FS_CardinalityType DEF Release, IInv, WellFormed
    <3>2. released' = released \cup {new}
      BY <2>1
    <3> HIDE DEF new
    <3>3. /\ IsFiniteSet(released \cup {new})
          /\ \/ Cardinality(released \cup {new}) = Cardinality(released)
             \/ Cardinality(released \cup {new}) = Cardinality(released) + 1
      BY <3>1, FS_AddElement
    <3>4. QED
      BY <3>1, <3>2, <3>3
  <2>4. WellFormed'
    BY <2>1, <2>2, <2>3 DEF IInv, WellFormed
  <2>5. Checked'
    BY <2>1 DEF IInv, Checked
  <2>6. QED
    BY <2>4, <2>5 DEF IInv
<1>3. CASE UNCHANGED vars
  BY <1>3 DEF vars, IInv, WellFormed, Checked
<1>4. QED
  BY <1>1, <1>2, <1>3 DEF Next

\* The invariant holds throughout every sequence of edits and releases.
THEOREM Invariant == Spec => []IInv
<1>1. QED
  BY InitInvariant, StepInvariant, PTL DEF Spec

-----------------------------------------------------------------------------
(***************************************************************************)
(* What the checker's classes mean, with the conditional in `allOf`.       *)
(***************************************************************************)

\* The two definitions say the same of every field that both name, require the
\* same fields and hold the same conditional.
SameRules(left, right) ==
  /\ left.required = right.required
  /\ left.if = right.if /\ left.then = right.then
  /\ \A f \in DOMAIN left.properties \cap DOMAIN right.properties :
       left.properties[f] = right.properties[f]

\* A change that does not break keeps every field and every rule.
LEMMA UnbrokenDefinition ==
  ASSUME Conditional = "allOf", NEW left, NEW right, ~DefBreaks(left, right)
  PROVE  /\ SameRules(left, right)
         /\ DOMAIN left.properties \subseteq DOMAIN right.properties
<1>1. /\ ~MapBreaks(left.properties, right.properties)
      /\ left.required = right.required
      /\ <<left.if, left.then>> = <<right.if, right.then>>
  BY DEF DefBreaks, RequiredBreaks, ConditionalBreaks
<1>2. QED
  BY <1>1 DEF SameRules, MapBreaks, Removed, Changed

\* Two releases of one major keep the rules of every kind, and the version that
\* is not the smaller has the fields and the kinds of the other.
LEMMA MinorKeepsRules ==
  ASSUME Conditional = "allOf", IInv,
         NEW r \in released, NEW s \in released, SameMajor(r, s),
         NEW k \in DOMAIN r.defs
  PROVE  /\ k \in DOMAIN s.defs
         /\ SameRules(r.defs[k], s.defs[k])
         /\ DOMAIN r.defs[k].properties \subseteq DOMAIN s.defs[k].properties
<1>1. r.version[1] = s.version[1] /\ ~Before(s.version, r.version)
  BY DEF SameMajor
<1>2. /\ r.version[1] \in Int /\ r.version[2] \in Int
      /\ s.version[1] \in Int /\ s.version[2] \in Int
  BY DEF IInv, WellFormed, Versions
<1>3. CASE r = s
  BY <1>3 DEF SameRules
<1>4. CASE CheckVersion(r, s.version, s.defs)
  <2>1. ~Breaking(r.defs, s.defs)
    BY <1>1, <1>2, <1>4 DEF CheckVersion
  <2>2. k \in DOMAIN s.defs
    BY <2>1 DEF Breaking, Removed
  <2>3. ~DefBreaks(r.defs[k], s.defs[k])
    BY <2>1, <2>2 DEF Breaking, Common
  <2>4. QED
    BY <2>2, <2>3, UnbrokenDefinition
<1>5. CASE CheckVersion(s, r.version, r.defs)
  <2>1. ~Breaking(s.defs, r.defs)
    BY <1>1, <1>2, <1>5 DEF CheckVersion
  <2>2. ~Additive(s.defs, r.defs)
    BY <1>1, <1>5 DEF CheckVersion
  <2>3. k \in DOMAIN s.defs
    BY <2>2 DEF Additive, Added
  <2>4. ~DefBreaks(s.defs[k], r.defs[k]) /\ ~DefAdds(s.defs[k], r.defs[k])
    BY <2>1, <2>2, <2>3 DEF Breaking, Additive, Common
  <2>5. SameRules(s.defs[k], r.defs[k])
    BY <2>4, UnbrokenDefinition
  <2>6. DOMAIN r.defs[k].properties \subseteq DOMAIN s.defs[k].properties
    BY <2>4 DEF DefAdds, MapAdds, Added
  <2>7. QED
    BY <2>3, <2>5, <2>6 DEF SameRules
<1>6. QED
  BY <1>3, <1>4, <1>5 DEF IInv, Checked

\* A document that one of them finds valid, the other finds valid too, provided
\* the document carries no field that only the other has a rule for.
LEMMA SameRulesSameDocuments ==
  ASSUME NEW left, NEW right, SameRules(left, right), NEW doc, Valid(doc, left),
         DOMAIN doc \cap DOMAIN right.properties \subseteq DOMAIN left.properties
  PROVE  Valid(doc, right)
  BY DEF SameRules, Valid, Meets

\* The draft is a schema of the profile, and every release has a version.
THEOREM TypeCorrect == Spec => []TypeOK
<1>1. IInv => TypeOK
  BY DEF IInv, WellFormed, IsSchema, IsDefinition, TypeOK
<1>2. QED
  BY <1>1, Invariant, PTL

\* A definition that was neither broken nor added to is the same definition.
LEMMA UnchangedDefinition ==
  ASSUME NEW left, IsDefinition(left), NEW right, IsDefinition(right),
         ~DefBreaks(left, right), ~DefAdds(left, right)
  PROVE  left = right
<1> DEFINE Same(l, r) == ~MapBreaks(l, r) /\ ~MapAdds(l, r)
<1>1. ASSUME NEW l, IsMap(l), NEW r, IsMap(r), Same(l, r) PROVE l = r
  BY <1>1 DEF IsMap, MapBreaks, MapAdds, Removed, Changed, Added
<1>2. left.properties = right.properties
  BY <1>1 DEF IsDefinition, DefBreaks, DefAdds
<1>3. left.if = right.if /\ left.then = right.then
  <2>1. CASE Conditional = "allOf"
    BY <2>1 DEF DefBreaks, ConditionalBreaks
  <2>2. CASE Conditional = "direct"
    <3>1. /\ ~BranchBreaks(left.if, right.if) /\ ~BranchAdds(left.if, right.if)
          /\ ~BranchBreaks(left.then, right.then) /\ ~BranchAdds(left.then, right.then)
      BY <2>2 DEF DefBreaks, DefAdds, ConditionalBreaks, ConditionalAdds
    <3>2. ASSUME NEW l, IsMap(l), NEW r, IsMap(r),
                 ~BranchBreaks(l, r), ~BranchAdds(l, r)
          PROVE  l = r
      BY <1>1, <3>2 DEF BranchBreaks, BranchAdds
    <3>3. QED
      BY <3>1, <3>2 DEF IsDefinition
  <2>3. QED
    BY <2>1, <2>2, CompatibilityAssumption
<1>4. QED
  BY <1>2, <1>3 DEF IsDefinition, DefBreaks, RequiredBreaks

\* The checker classifies every structural change: a schema that is neither
\* breaking nor additive against another is that schema.
LEMMA UnchangedSchema ==
  ASSUME NEW old, IsSchema(old), NEW new, IsSchema(new),
         ~Breaking(old, new), ~Additive(old, new)
  PROVE  old = new
<1>1. DOMAIN old = DOMAIN new
  BY DEF Breaking, Additive, Removed, Added
<1>2. ASSUME NEW k \in DOMAIN old PROVE old[k] = new[k]
  BY <1>1, UnchangedDefinition DEF Breaking, Additive, Common, IsSchema
<1>3. QED
  BY <1>1, <1>2 DEF IsSchema, IsMap

\* A version names one contract, wherever the conditional is written.
THEOREM VersionIsUnique == Spec => []VersionNamesOneContract
<1>1. ASSUME IInv PROVE VersionNamesOneContract
  <2> SUFFICES ASSUME NEW r \in released, NEW s \in released, r.version = s.version
               PROVE  r = s
    BY DEF VersionNamesOneContract
  <2>1. r.version[1] \in Int /\ r.version[2] \in Int
    BY <1>1 DEF IInv, WellFormed, Versions
  <2>2. IsSchema(r.defs) /\ IsSchema(s.defs)
    BY <1>1 DEF IInv, WellFormed
  <2>3. ~Before(r.version, s.version) /\ ~Before(s.version, r.version)
    BY <2>1 DEF Before
  <2>4. r.defs = s.defs
    <3>1. CASE CheckVersion(r, s.version, s.defs)
      BY <2>1, <2>2, <2>3, <3>1, UnchangedSchema DEF CheckVersion
    <3>2. CASE CheckVersion(s, r.version, r.defs)
      BY <2>1, <2>2, <2>3, <3>2, UnchangedSchema DEF CheckVersion
    <3>3. QED
      BY <1>1, <3>1, <3>2 DEF IInv, Checked
  <2>5. QED
    BY <1>1, <2>4 DEF IInv, WellFormed
<1>2. QED
  BY <1>1, Invariant, PTL

\* A minor release keeps old segments readable, however many releases lie
\* between: what a producer wrote under one is valid under every later one of
\* the same major.
THEOREM MinorReadsOldSegments ==
  ASSUME Conditional = "allOf"
  PROVE  Spec => []OldSegmentsStayValid
<1>1. ASSUME IInv PROVE OldSegmentsStayValid
  <2> SUFFICES ASSUME NEW r \in released, NEW s \in released, SameMajor(r, s),
                      NEW k \in DOMAIN r.defs
               PROVE  /\ k \in DOMAIN s.defs
                      /\ \A doc \in Written(r.defs[k]) : Valid(doc, s.defs[k])
    BY DEF OldSegmentsStayValid
  <2>1. k \in DOMAIN s.defs /\ SameRules(r.defs[k], s.defs[k])
    BY <1>1, MinorKeepsRules
  <2>2. QED
    BY <2>1, SameRulesSameDocuments DEF Written
<1>2. QED
  BY <1>1, Invariant, PTL

\* An old reader accepts what a newer producer of the same major writes.
THEOREM OldReadersReadNewSegments ==
  ASSUME Conditional = "allOf"
  PROVE  Spec => []OldReadersAccept
<1>1. ASSUME IInv PROVE OldReadersAccept
  <2> SUFFICES ASSUME NEW r \in released, NEW s \in released, SameMajor(r, s),
                      NEW k \in DOMAIN r.defs \cap DOMAIN s.defs,
                      NEW doc \in Written(s.defs[k])
               PROVE  Valid(doc, r.defs[k])
    BY DEF OldReadersAccept
  <2>1. /\ SameRules(r.defs[k], s.defs[k])
        /\ DOMAIN r.defs[k].properties \subseteq DOMAIN s.defs[k].properties
    BY <1>1, MinorKeepsRules
  <2>2. SameRules(s.defs[k], r.defs[k])
    BY <2>1 DEF SameRules
  <2>3. QED
    BY <2>1, <2>2, SameRulesSameDocuments DEF Written
<1>2. QED
  BY <1>1, Invariant, PTL
=============================================================================
