--------------------------- MODULE Compatibility ---------------------------
(***************************************************************************)
(* The release of contract versions: an author edits the schema, and       *)
(* scripts/preflight.sh lets it out only when tools/check-compatibility.py *)
(* accepts it against every released baseline.                             *)
(*                                                                         *)
(* A schema is abstracted to what the checker classifies and a document    *)
(* can tell apart: the record kinds, and for each the rule of each field   *)
(* (the set of values it admits), the required fields and one conditional  *)
(* rule.  tools/schema_profile.py permits the conditional in two places,   *)
(* inside `allOf` or directly in the definition; the checker compares the  *)
(* two differently.  Annotations are dropped before comparison and are not *)
(* modelled.                                                               *)
(***************************************************************************)
EXTENDS Integers, FiniteSets, Functions, TLC

CONSTANTS Kinds,         \* record kinds
          Fields,        \* field names
          Values,        \* values of a field
          Conditional,   \* where the conditional is: "allOf" or "direct"
          MaxMajor,      \* bound: major versions
          MaxMinor,      \* bound: minor versions
          MaxReleases,   \* bound: released schemas
          MaxEdits       \* bound: edits

ASSUME CompatibilityAssumption ==
  /\ Conditional \in {"allOf", "direct"}
  /\ {MaxMajor, MaxMinor, MaxReleases, MaxEdits} \subseteq Nat

VARIABLES defs,      \* the schema being edited: a definition for each kind
          released,  \* the baselines: [version, defs]
          edits      \* history: edits made

vars == <<defs, released, edits>>

Rules == (SUBSET Values) \ {{}}
Properties == UNION {[F -> Rules] : F \in SUBSET Fields}

\* A definition whose fields are all required.  Empty `if` and `then` stand for
\* a definition without a conditional.
Definition(properties, if, then) ==
  [properties |-> properties, required |-> DOMAIN properties,
   if |-> if, then |-> then]

NoRules == [f \in {} |-> {}]

\* A map of one name, and a map with a name set.
Only(name, value) == [x \in {name} |-> value]
Setting(m, name, value) ==
  [x \in DOMAIN m \cup {name} |-> IF x = name THEN value ELSE m[x]]

-----------------------------------------------------------------------------
\* check-compatibility.py: classify_changes.

Removed(left, right) == DOMAIN left \ DOMAIN right
Added(left, right) == DOMAIN right \ DOMAIN left
Changed(left, right) == {x \in DOMAIN left \cap DOMAIN right : left[x] # right[x]}

\* Under `properties` a new name is an addition, anything else breaks.
MapBreaks(left, right) == Removed(left, right) \cup Changed(left, right) # {}
MapAdds(left, right) == Added(left, right) # {}

\* Mutant: a required field may be relaxed.
RequiredBreaks_OnAddition(left, right) == ~(right.required \subseteq left.required)

RequiredBreaks(left, right) == left.required # right.required

\* `allOf` holds a list, and a list is compared whole; a conditional directly
\* in the definition is descended into, down to its `properties`.  Either key
\* appearing where there was none is an added constraint.
BranchBreaks(left, right) == MapBreaks(left, right) \/ (left = NoRules /\ right # NoRules)
BranchAdds(left, right) == MapAdds(left, right) /\ left # NoRules

ConditionalBreaks(left, right) ==
  \/ /\ Conditional = "allOf"
     /\ <<left.if, left.then>> # <<right.if, right.then>>
  \/ /\ Conditional = "direct"
     /\ BranchBreaks(left.if, right.if) \/ BranchBreaks(left.then, right.then)

ConditionalAdds(left, right) ==
  /\ Conditional = "direct"
  /\ BranchAdds(left.if, right.if) \/ BranchAdds(left.then, right.then)

DefBreaks(left, right) == \/ MapBreaks(left.properties, right.properties)
                          \/ RequiredBreaks(left, right)
                          \/ ConditionalBreaks(left, right)

DefAdds(left, right) == \/ MapAdds(left.properties, right.properties)
                        \/ ConditionalAdds(left, right)

Common(old, new) == DOMAIN old \cap DOMAIN new

Breaking(old, new) ==
  \/ Removed(old, new) # {}
  \/ \E k \in Common(old, new) : DefBreaks(old[k], new[k])

Additive(old, new) ==
  \/ Added(old, new) # {}
  \/ \E k \in Common(old, new) : DefAdds(old[k], new[k])

-----------------------------------------------------------------------------
\* check_version.

Versions == (1..MaxMajor) \X (0..MaxMinor)

Before(v, w) == v[1] < w[1] \/ (v[1] = w[1] /\ v[2] < w[2])

\* Mutant: an addition may keep the version.
CheckVersion_SameVersion(old, version, new) ==
  /\ ~Before(version, old.version)
  /\ Breaking(old.defs, new) => old.version[1] < version[1]

CheckVersion(old, version, new) ==
  /\ ~Before(version, old.version)
  /\ Breaking(old.defs, new) => old.version[1] < version[1]
  /\ Additive(old.defs, new) => Before(old.version, version)

-----------------------------------------------------------------------------
\* One kind; without a conditional, or with one on one field for another, as
\* the schema's own are.
AnyValue == [f \in Fields |-> Values]

Init ==
  /\ \E k \in Kinds :
       \/ defs = Only(k, Definition(AnyValue, NoRules, NoRules))
       \/ \E f, g \in Fields, v, w \in Values :
            defs = Only(k, Definition(AnyValue, Only(f, {v}), Only(g, {w})))
  /\ released = {} /\ edits = 0

MapEdits(m) == {Setting(m, f, rule) : f \in Fields, rule \in Rules}
               \cup {Restrict(m, DOMAIN m \ {f}) : f \in DOMAIN m}

\* Mutant: the profile does not look at `required`.
InProfile_AnyRequired(def) == def.if = NoRules => def.then = NoRules

\* schema_profile.py: a required field has a definition, and `then` an `if`.
InProfile(def) == /\ def.required \subseteq DOMAIN def.properties
                  /\ def.if = NoRules => def.then = NoRules

DefEdits(def) ==
  {d \in {[def EXCEPT !.properties = m] : m \in MapEdits(def.properties)}
         \cup {[def EXCEPT !.required = r] : r \in SUBSET Fields}
         \cup {[def EXCEPT !.if = m] : m \in MapEdits(def.if)}
         \cup {[def EXCEPT !.then = m] : m \in MapEdits(def.then)} : InProfile(d)}

\* One edit: to a definition, or a record kind added or removed.
Edit ==
  /\ edits < MaxEdits
  /\ edits' = edits + 1
  /\ \/ \E k \in DOMAIN defs : \E d \in DefEdits(defs[k]) :
          defs' = [defs EXCEPT ![k] = d]
     \/ \E k \in Kinds \ DOMAIN defs, p \in Properties :
          defs' = Setting(defs, k, Definition(p, NoRules, NoRules))
     \/ \E k \in DOMAIN defs :
          /\ DOMAIN defs # {k}
          /\ defs' = Restrict(defs, DOMAIN defs \ {k})
  /\ UNCHANGED released

\* Mutant: the comparison is with some baseline, not with every one.
Release_AnyBaseline ==
  /\ Cardinality(released) < MaxReleases
  /\ \E version \in Versions :
       /\ released = {} \/ \E old \in released : CheckVersion(old, version, defs)
       /\ released' = released \cup {[version |-> version, defs |-> defs]}
  /\ UNCHANGED <<defs, edits>>

Release ==
  /\ Cardinality(released) < MaxReleases
  /\ \E version \in Versions :
       /\ \A old \in released : CheckVersion(old, version, defs)
       /\ released' = released \cup {[version |-> version, defs |-> defs]}
  /\ UNCHANGED <<defs, edits>>

Next == Edit \/ Release

\* Kinds and fields are interchangeable.
Symmetry == Permutations(Kinds) \cup Permutations(Fields)

Spec == Init /\ [][Next]_vars

-----------------------------------------------------------------------------
\* What a schema says of a document: a kind and the fields it carries.

Documents == UNION {[F -> Values] : F \in SUBSET Fields}

Meets(doc, rules) ==
  \A f \in DOMAIN doc \cap DOMAIN rules : doc[f] \in rules[f]

Valid(doc, def) == /\ Meets(doc, def.properties)
                   /\ def.required \subseteq DOMAIN doc
                   /\ Meets(doc, def.if) => Meets(doc, def.then)

\* What a producer of this definition writes: its own fields, as it says.
Written(def) == {doc \in Documents : /\ DOMAIN doc \subseteq DOMAIN def.properties
                                     /\ Valid(doc, def)}

SameMajor(r, s) == r.version[1] = s.version[1] /\ ~Before(s.version, r.version)

TypeOK ==
  /\ DOMAIN defs \subseteq Kinds /\ DOMAIN defs # {}
  /\ \A k \in DOMAIN defs : /\ DOMAIN defs[k].properties \subseteq Fields
                              /\ defs[k].required \subseteq DOMAIN defs[k].properties
  /\ \A r \in released : r.version \in Versions
  /\ Cardinality(released) <= MaxReleases

(***************************************************************************)
(* A minor release keeps old segments readable: whatever a producer wrote  *)
(* under one release is valid under every later one of the same major,     *)
(* however many releases and detours lie between the two.                  *)
(***************************************************************************)
OldSegmentsStayValid ==
  \A r, s \in released :
    SameMajor(r, s) =>
      \A k \in DOMAIN r.defs :
        /\ k \in DOMAIN s.defs
        /\ \A doc \in Written(r.defs[k]) : Valid(doc, s.defs[k])

(***************************************************************************)
(* A fleet is upgraded gradually (spec 6.2): a record of a kind the older  *)
(* reader knows, written under a later minor release, is valid to it, the  *)
(* fields it does not know carried along.                                  *)
(***************************************************************************)
OldReadersAccept ==
  \A r, s \in released :
    SameMajor(r, s) =>
      \A k \in DOMAIN r.defs \cap DOMAIN s.defs :
        \A doc \in Written(s.defs[k]) : Valid(doc, r.defs[k])

(***************************************************************************)
(* A version names one contract: no two releases carry the same version    *)
(* and differ in structure.                                                *)
(***************************************************************************)
VersionNamesOneContract ==
  \A r, s \in released : r.version = s.version => r = s

(***************************************************************************)
(* docs/architecture.md: "Changes to existing constraints, layouts, or     *)
(* meaning require a wire major increase.  The compatibility checker       *)
(* compares all structural rules with the baseline".  So no minor release  *)
(* takes away what a producer of an earlier one could write.  The same     *)
(* formula as OldSegmentsStayValid, asked where the conditional is written *)
(* directly in the definition.                                             *)
(***************************************************************************)
ConstraintsNeedAMajor == OldSegmentsStayValid
=============================================================================
