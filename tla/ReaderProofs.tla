---------------------------- MODULE ReaderProofs ----------------------------
(***************************************************************************)
(* Theorems about the reader: that the way a stream arrived does not count *)
(* in any verdict, and, for every stream whatever it holds, how verdicts   *)
(* of the same stream and of a longer one hang together.                   *)
(***************************************************************************)
EXTENDS ReaderIngest, WellFoundedInduction, TLAPS

-----------------------------------------------------------------------------
(***************************************************************************)
(* Arrival.                                                                *)
(***************************************************************************)

\* The reader holds what has arrived of its fixture and nothing else.
THEOREM TypeCorrect == Spec => []TypeOK
<1>1. Init => TypeOK
  BY DEF Init, TypeOK
<1>2. TypeOK /\ [Next]_vars => TypeOK'
  BY DEF TypeOK, Next, Ingest, vars
<1>3. QED
  BY <1>1, <1>2, PTL DEF Spec

\* The stream meets every verdict the fixture pins.
Meets(S) == MeetsContinuity(S, fixture.expect) /\ MeetsResidency(S, fixture.expect)

\* One look at the segments of a fixture is enough: a reader that gives the
\* expected verdicts of them gives them at the end of every arrival, in any
\* order and with any segment any number of times.
THEOREM ArrivalDoesNotCount == Spec /\ Meets(fixture.segments) => []CorpusVerdicts
<1> DEFINE Met == Meets(fixture.segments)
<1>1. TypeOK /\ Met => CorpusVerdicts
  BY DEF TypeOK, Meets, CorpusVerdicts
<1>2. Met /\ [Next]_vars => Met'
  <2> SUFFICES ASSUME Met, [Next]_vars PROVE Met'
    OBVIOUS
  <2>1. fixture' = fixture
    BY DEF Next, Ingest, vars
  <2>2. QED
    BY <2>1 DEF Meets, MeetsContinuity, MeetsResidency, Pins
<1> HIDE DEF Met
<1>3. Spec /\ Met => []Met
  BY <1>2, PTL DEF Spec
<1>4. QED
  BY <1>1, <1>3, TypeCorrect, PTL DEF Met

-----------------------------------------------------------------------------
(***************************************************************************)
(* A stream and a longer one.                                              *)
(***************************************************************************)

\* The longer stream has every record, and every pair of neighbours.
LEMMA LongerHasMore ==
  ASSUME NEW S, NEW T, S \subseteq T, NEW r
  PROVE  /\ RecordsIn(S) \subseteq RecordsIn(T)
         /\ RecordsOf(S, r) \subseteq RecordsOf(T, r)
         /\ SeqsOf(S, r) \subseteq SeqsOf(T, r)
         /\ KnownRuns(S) \subseteq KnownRuns(T)
  BY DEF RecordsIn, RecordsOf, SegmentsOf, SeqsOf, KnownRuns, Incarnations, OfKind

\* What arrives later takes no gap back, but one that was a hole: and a hole
\* closes only by a segment of its own run.
THEOREM EvidenceStays ==
  ASSUME NEW S, NEW T, S \subseteq T
  PROVE  /\ GapDegraded(S) \ {"missing_segment_seq"} \subseteq GapDegraded(T)
         /\ \A r : HasHole(S, r) /\ ~HasHole(T, r) => \E t \in T \ S : t.incarnation = r
         /\ GapBrackets(S) \subseteq GapBrackets(T)
<1>1. ASSUME NEW r, HasDroppedDelta(S, r) PROVE HasDroppedDelta(T, r)
  BY <1>1, LongerHasMore DEF HasDroppedDelta, Envelopes, OfKind
<1>2. ASSUME NEW r, DeclaredDrops(S, r) # {} PROVE DeclaredDrops(T, r) # {}
  BY <1>2, LongerHasMore DEF DeclaredDrops, OfKind
<1>3. ASSUME NEW r PROVE RunGaps(S, r) \ {"missing_segment_seq"} \subseteq RunGaps(T, r)
  BY <1>1, <1>2 DEF RunGaps
<1>4. GapDegraded(S) \ {"missing_segment_seq"} \subseteq GapDegraded(T)
  <2>1. KnownRuns(S) \subseteq KnownRuns(T)
    BY LongerHasMore
  <2>2. QED
    BY <1>3, <2>1 DEF GapDegraded
<1>5. ASSUME NEW r, HasHole(S, r), ~HasHole(T, r) PROVE \E t \in T \ S : t.incarnation = r
  <2>1. PICK a \in SeqsOf(S, r), b \in SeqsOf(S, r) :
          a < b /\ \E q \in a..b : q \notin SeqsOf(S, r)
    BY <1>5 DEF HasHole
  <2>2. PICK q \in a..b : q \notin SeqsOf(S, r)
    BY <2>1
  <2>3. a \in SeqsOf(T, r) /\ b \in SeqsOf(T, r)
    BY LongerHasMore
  <2>4. q \in SeqsOf(T, r)
    BY <1>5, <2>1, <2>3 DEF HasHole
  <2>5. QED
    BY <2>2, <2>4 DEF SeqsOf, SegmentsOf
<1>6. EventInstances(S) \subseteq EventInstances(T)
  BY LongerHasMore DEF EventInstances
<1>7. UNION {Brackets(s, i) : s \in S, i \in EventInstances(S)}
        \subseteq UNION {Brackets(s, i) : s \in T, i \in EventInstances(T)}
  BY <1>6
<1>8. GapBrackets(S) \subseteq GapBrackets(T)
  BY <1>7 DEF GapBrackets
<1>9. QED
  BY <1>4, <1>5, <1>8

\* So what a counter or a declared drop makes indeterminate stays so.
THEOREM IndeterminateStays ==
  ASSUME NEW S, NEW T, S \subseteq T, NEW i, NEW rank, NEW group, NEW from, NEW to,
         NEW r \in RunsCovering(S, i), HasDroppedDelta(S, r) \/ DeclaredDrops(S, r) # {}
  PROVE  HolderRegister(T, i, rank, group, from, to) = "indeterminate"
<1>1. r \in RunsCovering(T, i)
  <2>1. RecordsOf(S, r) \subseteq RecordsOf(T, r)
    BY LongerHasMore
  <2>2. InstancesOf(S, r) \subseteq InstancesOf(T, r)
    BY <2>1 DEF InstancesOf, Envelopes, OfKind
  <2>3. QED
    BY <2>2 DEF RunsCovering, Incarnations
<1>2. HasDroppedDelta(T, r) \/ DeclaredDrops(T, r) # {}
  BY LongerHasMore DEF HasDroppedDelta, DeclaredDrops, Envelopes, OfKind
<1>3. RunGaps(T, r) # {}
  BY <1>2 DEF RunGaps
<1>4. QED
  BY <1>1, <1>3 DEF HolderRegister

-----------------------------------------------------------------------------
(***************************************************************************)
(* Residency.                                                              *)
(***************************************************************************)

\* The times of the stream's places are known, and none is beyond the bound.
Dated(S, bound) ==
  bound \in Int /\ \A p \in Places(S) : At(p).at_ms \in Int /\ At(p).at_ms <= bound

\* Among some places of a dated stream one is the latest.
LEMMA LatestIsLatest ==
  ASSUME NEW S, NEW bound, Dated(S, bound), NEW P \in SUBSET Places(S), P # {}
  PROVE  Latest(P) \in P /\ \A q \in P : At(q).at_ms <= At(Latest(P)).at_ms
<1> DEFINE Ages == {bound - At(p).at_ms : p \in P}
<1>1. Ages \in SUBSET Nat /\ Ages # {}
  BY DEF Dated
<1>2. PICK a \in Ages : \A b \in Ages : <<b, a>> \notin OpToRel(<, Nat)
  BY <1>1, WFMin, NatLessThanWellFounded, Zenon
<1>3. ASSUME NEW b \in Ages PROVE ~(b < a)
  <2> SUFFICES ASSUME b < a PROVE FALSE
    OBVIOUS
  <2>1. b \in Nat /\ a \in Nat
    BY <1>1
  <2>2. <<b, a>> \in OpToRel(<, Nat)
    BY <2>1, Zenon DEF OpToRel
  <2>3. QED
    BY <1>2, <2>2
<1>4. PICK p \in P : a = bound - At(p).at_ms
  OBVIOUS
<1>5. \A q \in P : bound - At(q).at_ms \in Ages
  OBVIOUS
<1> HIDE DEF Ages
<1>6. \A q \in P : At(q).at_ms <= At(p).at_ms
  BY <1>3, <1>4, <1>5 DEF Dated
<1>7. QED
  BY <1>6, Zenon DEF Latest

\* Two verdict families tell one story: where recompute says that a store
\* reopens a residency, residual_zero takes no earlier store of the block to
\* be resident still, unless it bears the time of its own eviction.
THEOREM ReopenedWasClosed ==
  ASSUME NEW S, NEW bound, Dated(S, bound),
         NEW p \in Recomputed(S), NEW q \in Earlier(S, p), At(q).kind = "store",
         \A e \in PlacesOf(S, "evict") : Entry(At(e)) = Entry(At(q)) => At(e).at_ms # At(q).at_ms
  PROVE  ~ResidentAt(S, q, At(p).at_ms)
<1> DEFINE e == Latest(Earlier(S, p))
<1>1. Earlier(S, p) \subseteq Places(S) /\ p \in Places(S)
  BY DEF Earlier, Recomputed, Stores, PlacesOf
<1>2. e \in Earlier(S, p) /\ At(q).at_ms <= At(e).at_ms
  BY <1>1, LatestIsLatest
<1>3. At(e).kind = "evict"
  BY DEF Recomputed
<1> HIDE DEF e
<1>4. /\ e \in PlacesOf(S, "evict") /\ Entry(At(e)) = Entry(At(q))
      /\ At(e).at_ms < At(p).at_ms
  BY <1>2, <1>3 DEF Earlier, PlacesOf
<1>5. /\ At(e).at_ms \in Int /\ At(q).at_ms \in Int /\ At(p).at_ms \in Int
  BY <1>1, <1>2 DEF Dated
<1>6. At(e).at_ms > At(q).at_ms
  BY <1>2, <1>4, <1>5
<1>7. At(e).at_ms \in Closings(S, q)
  BY <1>4, <1>6 DEF Closings
<1>8. QED
  BY <1>4, <1>5, <1>7 DEF ResidentAt

-----------------------------------------------------------------------------
(***************************************************************************)
(* Tags.                                                                   *)
(***************************************************************************)

\* No store is surely inside an interval and surely outside it, whatever the
\* skew allowance: no slice takes what its own interval excludes.
THEOREM TagsAreDecided ==
  ASSUME NEW S, NEW d, d.from_ms \in Int, Until(S, d) \in Int, NEW t \in Int
  PROVE  ~(Inside(S, d, t) /\ Outside(S, d, t))
<1>1. Allowance \in Nat
  BY AllowanceAssumption
<1>2. QED
  BY <1>1 DEF Inside, Outside
=============================================================================
