---------------------------- MODULE ReaderIngest ----------------------------
(***************************************************************************)
(* A reader working through one fixture of the reader corpus.  Delivery    *)
(* promises neither an order nor a single copy (spec 4.1, 4.4), so the     *)
(* segments of the fixture arrive in any order and a segment the reader    *)
(* already holds may arrive again.  Ingestion is all or nothing (spec 5.5).*)
(***************************************************************************)
EXTENDS ResidencyFixtures

VARIABLES fixture,   \* the fixture being read
          pending,   \* its segments that have not arrived
          held       \* the stream: what the reader has ingested

vars == <<fixture, pending, held>>

FIXTURES == ContinuityFixtureSet \cup ResidencyFixtureSet

Init == /\ fixture \in FIXTURES
        /\ pending = fixture.segments
        /\ held = {}

\* Mutant: a reader that keeps only the latest segment of a run.
Ingest_Replaces(s) == /\ pending' = pending \ {s}
                      /\ held' = {t \in held : t.incarnation # s.incarnation} \cup {s}
                      /\ UNCHANGED fixture

Ingest(s) == /\ pending' = pending \ {s}
             /\ held' = held \cup {s}
             /\ UNCHANGED fixture

Next == \E s \in fixture.segments : Ingest(s)

Spec == Init /\ [][Next]_vars

-----------------------------------------------------------------------------
TypeOK == /\ fixture \in FIXTURES
          /\ pending \cup held = fixture.segments
          /\ pending \cap held = {}

Pins(family) == family \in DOMAIN fixture.expect

\* The stream meets every continuity verdict the fixture pins.
MeetsContinuity(S, e) ==
  /\ Pins("gap_degraded") => GapDegraded(S) = e.gap_degraded
  /\ Pins("gap_span") => GapBrackets(S) = e.gap_span
  /\ Pins("staleness") =>
       /\ Incarnations(S) = DOMAIN e.staleness
       /\ \A r \in Incarnations(S) : Staleness(S, r) = e.staleness[r]
  /\ Pins("coverage") =>
       CoverageVerdict(S, e.coverage.span[1], e.coverage.span[2])
         = e.coverage.verdict
  /\ Pins("absence") =>
       AbsenceRegister(S, e.absence.span[1], e.absence.span[2])
         = e.absence.register
  /\ Pins("uncovered") =>
       \A i \in DOMAIN e.uncovered : Uncovered(S, i) = e.uncovered[i]
  /\ Pins("holder_register") =>
       \A q \in e.holder_register :
         HolderRegister(S, q.instance, q.dp_rank, q.group_idx,
                        q.span[1], q.span[2]) = q.register

AuditClasses ==
  {"agreed", "mismatched", "underresolved", "indeterminate", "unjoined"}

\* A figure is presented exactly where it is countable, and is then this one.
MeetsFigure(S, figure, P) ==
  /\ figure.countable = CountableInsertions(S)
  /\ figure.countable => figure.records = Cardinality(P)

\* The stream meets every cache verdict the fixture pins.
MeetsResidency(S, e) ==
  /\ Pins("insertions") => MeetsFigure(S, e.insertions, Fresh(S))
  /\ Pins("first_insertion") => MeetsFigure(S, e.first_insertion, FirstInserted(S))
  /\ Pins("recompute") => Cardinality(Recomputed(S)) = e.recompute
  /\ Pins("audit") =>
       \A i \in DOMAIN e.audit, class \in AuditClasses :
         Audit(S, i, class) =
           IF class \in DOMAIN e.audit[i] THEN e.audit[i][class] ELSE 0
  /\ Pins("residual_zero") => ResidualZero(S) = e.residual_zero
  /\ Pins("parent_conflicts") =>
       Cardinality(ParentConflicts(S)) = e.parent_conflicts
  /\ Pins("tag_slices") =>
       \A tag \in DOMAIN e.tag_slices :
         /\ Cardinality(Slice(S, tag)) = e.tag_slices[tag].stores
         /\ Cardinality(Ambiguous(S, tag)) = e.tag_slices[tag].ambiguous
  /\ Pins("attribution") =>
       \A s \in S : Attribution(s) = e.attribution[s.incarnation]

(***************************************************************************)
(* The conformance corpus is satisfiable by one set of rules: whichever    *)
(* way a fixture's segments arrived, a reader that holds them all gives    *)
(* every verdict gen-reader-corpus.py expects of it.                       *)
(***************************************************************************)
CorpusVerdicts ==
  pending = {} => /\ MeetsContinuity(held, fixture.expect)
                  /\ MeetsResidency(held, fixture.expect)

(***************************************************************************)
(* gen-reader-corpus.py, attributed(): a header's provenance keys are      *)
(* "everything on segment_open that is not a field this contract names".   *)
(* The liveness bounds are fields the contract names on every header       *)
(* (spec 5.8), so no segment's expected provenance holds one.              *)
(***************************************************************************)
ProvenanceIsNotTheContracts ==
  \A s \in held :
    DOMAIN Attribution(s).provenance \cap {"heartbeat_secs", "max_segment_secs"} = {}
=============================================================================
