-------------------------- MODULE ReaderContinuity --------------------------
(***************************************************************************)
(* What a conforming reader says of a stream's continuity: the verdict     *)
(* families gap_degraded, gap_span, uncovered, absence, coverage,          *)
(* staleness and holder_register.  The reader is not in this repository;   *)
(* its rules are modelled from the expected verdicts of                    *)
(* tools/gen-reader-corpus.py and the reasons stated beside them.          *)
(*                                                                         *)
(* A stream is the set of segments the reader holds.  A set, because       *)
(* delivery promises no order and a segment ingested twice is held once.   *)
(***************************************************************************)
EXTENDS ReaderRecords, FiniteSetsExt, Functions

-----------------------------------------------------------------------------
\* The stream by run.

Incarnations(S) == {s.incarnation : s \in S}
SegmentsOf(S, r) == {s \in S : s.incarnation = r}
RecordsIn(S) == UNION {Range(s.records) : s \in S}
RecordsOf(S, r) == RecordsIn(SegmentsOf(S, r))
SeqsOf(S, r) == {s.segment_seq : s \in SegmentsOf(S, r)}

OfKind(R, kind) == {x \in R : x.kind = kind}
Envelopes(R) == OfKind(R, "heartbeat") \cup OfKind(R, "agent_stop")

\* Mutant: a recovery trailer counts as an observation of the recovered run.
LifecycleKinds_WithRecovery ==
  {"agent_start", "heartbeat", "agent_stop", "identity_refused",
   "segments_dropped", "holder_reset", "segment_recovered"}

(***************************************************************************)
(* The records by which a run proves that it was observing at a            *)
(* producer-clock time.  A cache record is stamped by the engine.  A       *)
(* segment_recovered is a declaration and nothing more: it is not written  *)
(* while observing, and the attributed one is written by another run.      *)
(***************************************************************************)
LifecycleKinds == {"agent_start", "heartbeat", "agent_stop",
                   "identity_refused", "segments_dropped", "holder_reset"}
Observations(S, r) == {x \in RecordsOf(S, r) : x.kind \in LifecycleKinds}
ObservedTimes(S, r) == {x.at_ms : x \in Observations(S, r)}

\* The instances a run covered: endpoints[].source on its envelopes.
InstancesOf(S, r) == UNION {x.sources : x \in Envelopes(RecordsOf(S, r))}
RunsCovering(S, i) == {r \in Incarnations(S) : i \in InstancesOf(S, r)}

-----------------------------------------------------------------------------
\* Detected gaps (spec 5.4).

\* A hole between two observed positions.  A sequence that begins above zero
\* is absence outside observation and one that begins at zero a restart.
HasHole(S, r) ==
  \E a, b \in SeqsOf(S, r) :
    /\ a < b
    /\ \E q \in a..b : q \notin SeqsOf(S, r)

\* The counters are cumulative from zero within a run, so some delta is
\* nonzero exactly when some counter is.
HasDroppedDelta(S, r) ==
  \E x \in Envelopes(RecordsOf(S, r)) : x.dropped # 0

DeclaredDrops(S, r) ==
  {x \in OfKind(RecordsIn(S), "segments_dropped") : x.incarnation = r}

RunGaps(S, r) ==
  {g \in {"missing_segment_seq", "dropped_delta", "segments_dropped"} :
     \/ g = "missing_segment_seq" /\ HasHole(S, r)
     \/ g = "dropped_delta" /\ HasDroppedDelta(S, r)
     \/ g = "segments_dropped" /\ DeclaredDrops(S, r) # {}}

\* Every run a record speaks of: a declared drop may name a run of which no
\* segment arrived.
KnownRuns(S) ==
  Incarnations(S) \cup
  {x.incarnation : x \in OfKind(RecordsIn(S), "segments_dropped")}

GapDegraded(S) == UNION {RunGaps(S, r) : r \in KnownRuns(S)}

(***************************************************************************)
(* gap_span.  Two neighbouring records of one instance in one segment      *)
(* bracket a discontinuity when both carry a seq and the second number     *)
(* does not continue the first.  Neither an incarnation boundary nor a     *)
(* holder_reset may lie between them.                                      *)
(***************************************************************************)
EventKinds == {"store", "evict", "holder_reset"}

Events(s, i) ==
  SelectSeq(s.records,
            LAMBDA x : x.kind \in EventKinds /\ x.instance_id = i)

Brackets(s, i) ==
  LET ev == Events(s, i)
  IN {<<ev[k], ev[k + 1]>> : k \in 1..(Len(ev) - 1)}

Discontinuous(p) ==
  /\ "seq" \in DOMAIN p[1] /\ "seq" \in DOMAIN p[2]
  /\ p[1].kind # "holder_reset" /\ p[2].kind # "holder_reset"
  /\ p[2].seq \notin {p[1].seq, p[1].seq + 1}

EventInstances(S) ==
  {x.instance_id : x \in {y \in RecordsIn(S) : y.kind \in EventKinds}}

GapBrackets(S) ==
  {<<p[1].at_ms, p[2].at_ms>> :
     p \in {b \in UNION {Brackets(s, i) : s \in S, i \in EventInstances(S)} :
              Discontinuous(b)}}

-----------------------------------------------------------------------------
\* The uncovered windows (spec 5.3).

StartTimes(S, r) == {x.at_ms : x \in OfKind(RecordsOf(S, r), "agent_start")}
StopTimes(S, r) == {x.at_ms : x \in OfKind(RecordsOf(S, r), "agent_stop")}

\* From the start record, or the first observation where it was lost, to the
\* stop record, or the last observation where none was received.
Opens(S, r) == IF StartTimes(S, r) # {} THEN Min(StartTimes(S, r))
               ELSE Min(ObservedTimes(S, r))
Closes(S, r) == IF StopTimes(S, r) # {} THEN Max(StopTimes(S, r))
                ELSE Max(ObservedTimes(S, r))

\* A window runs from where one run closes to where another opens, provided
\* that nobody was watching anywhere inside it.
Uncovered(S, i) ==
  LET runs == RunsCovering(S, i)
      Quiet(from, to) ==
        \A r \in runs : ~(Opens(S, r) < to /\ Closes(S, r) > from)
  IN {w \in {<<Closes(S, p), Opens(S, q)>> : p, q \in runs} :
        w[1] < w[2] /\ Quiet(w[1], w[2])}

-----------------------------------------------------------------------------
\* The lower-bound rule and coverage (spec 5.6, 5.7).

\* An observed start through an observed stop with nothing lost between.
CountedBracket(S, r) ==
  /\ StartTimes(S, r) # {}
  /\ StopTimes(S, r) # {}
  /\ RunGaps(S, r) = {}

Counted(S, from, to) ==
  \E r \in Incarnations(S) :
    /\ CountedBracket(S, r)
    /\ Opens(S, r) <= from
    /\ to <= Closes(S, r)

AbsenceRegister(S, from, to) ==
  IF Counted(S, from, to) THEN "exact" ELSE "lower_bound"

CoverageVerdict(S, from, to) ==
  IF Counted(S, from, to) THEN "complete" ELSE "reduced"

-----------------------------------------------------------------------------
\* Staleness (spec 2.4, 5.8).

\* The horizon is the latest producer-clock record anywhere in the stream, a
\* declaration included.
ProducerKinds == LifecycleKinds \cup {"segment_recovered", "tag_interval"}
ProducerTimes(S) == {x.at_ms : x \in {y \in RecordsIn(S) : y.kind \in ProducerKinds}}
Horizon(S) == Max(ProducerTimes(S))

DeclaringBounds(S, r) == {s \in SegmentsOf(S, r) : "heartbeat_secs" \in DOMAIN s}

\* The larger of the two declared bounds.
Threshold(S, r) ==
  Second * Max(UNION {{s.heartbeat_secs, s.max_segment_secs} :
                          s \in DeclaringBounds(S, r)})

Staleness(S, r) ==
  IF StopTimes(S, r) # {} THEN "departed"
  ELSE IF DeclaringBounds(S, r) = {} THEN "no_basis"
  ELSE IF Horizon(S) - Max(ObservedTimes(S, r)) > Threshold(S, r)
       THEN "unexplained"
  ELSE "live"

-----------------------------------------------------------------------------
\* The register of one holder's figures over an engine-clock span
\* (spec 5.1, 2.4).

RefusedIn(S, i, rank, group, from, to) ==
  \E x \in OfKind(RecordsIn(S), "identity_refused") :
    /\ x.instance_id = i /\ x.dp_rank = rank /\ x.group_idx = group
    /\ x.window_start_ms < to /\ from < x.window_end_ms

HolderRegister(S, i, rank, group, from, to) ==
  IF \E r \in RunsCovering(S, i) : RunGaps(S, r) # {} THEN "indeterminate"
  ELSE IF RefusedIn(S, i, rank, group, from, to) THEN "lower_bound"
  ELSE "none"
=============================================================================
