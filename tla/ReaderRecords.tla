--------------------------- MODULE ReaderRecords ---------------------------
(***************************************************************************)
(* The records and segments that tools/gen-reader-corpus.py builds, with   *)
(* the data abstracted to what a verdict tells apart: payload fields that  *)
(* no verdict reads (endpoints' addresses, message counts, file names)     *)
(* are left out, and an optional field a record does not carry is absent   *)
(* from the domain of the TLA+ record, as it is from the JSON object.      *)
(*                                                                         *)
(* Times are integers, and the fixtures' origin T0 is time 0.              *)
(***************************************************************************)
EXTENDS Integers, Sequences, TLC

CONSTANT Second   \* time units in one second

ASSUME SecondAssumption == Second \in Nat \ {0}

(***************************************************************************)
(* A sealed segment.  `at_ms` is the header's own stamp; the header states *)
(* the incarnation, the position in its sequence and the two liveness      *)
(* bounds (spec 5.8).  A 1.1 header has no bounds, so those fields are     *)
(* absent from it.                                                         *)
(***************************************************************************)
\* Every header a fixture writes is stamped one second before T0.
HeaderAt == -Second

Segment11(incarnation, seq, records) ==
  [ at_ms |-> HeaderAt, incarnation |-> incarnation, segment_seq |-> seq,
    records |-> records ]

\* Mutant: the header declares the defaults, not the bounds of its run's start.
Segment_DefaultBounds(incarnation, seq, heartbeatSecs, maxSegmentSecs, records) ==
  [ at_ms |-> HeaderAt, incarnation |-> incarnation, segment_seq |-> seq,
    heartbeat_secs |-> 60, max_segment_secs |-> 300, records |-> records ]

Segment(incarnation, seq, heartbeatSecs, maxSegmentSecs, records) ==
  [ at_ms |-> HeaderAt, incarnation |-> incarnation, segment_seq |-> seq,
    heartbeat_secs |-> heartbeatSecs, max_segment_secs |-> maxSegmentSecs,
    records |-> records ]

\* The bounds segment() writes when its records hold no agent_start.
DefaultHeartbeatSecs == 60
DefaultMaxSegmentSecs == 300

\* A header that declares more: its run's provenance, its workload class.
Declaring(segment, fields) == fields @@ segment

PlainSegment(incarnation, seq, records) ==
  Segment(incarnation, seq, DefaultHeartbeatSecs, DefaultMaxSegmentSecs, records)

(***************************************************************************)
(* Lifecycle records: producer clock.  The envelope every heartbeat and    *)
(* agent_stop carries holds the cumulative `dropped` counter and, in       *)
(* endpoints[].source, the instances the producer observes.                *)
(***************************************************************************)
AgentStart(at) == [ kind |-> "agent_start", at_ms |-> at ]

\* Mutant: a stop record counts from zero again.
Envelope_StopRestarts(kind, at, dropped, sources) ==
  [ kind |-> kind, at_ms |-> at, sources |-> sources,
    dropped |-> IF kind = "agent_stop" THEN 0 ELSE dropped ]

Envelope(kind, at, dropped, sources) ==
  [ kind |-> kind, at_ms |-> at, dropped |-> dropped, sources |-> sources ]

Heartbeat(at, dropped, sources) == Envelope("heartbeat", at, dropped, sources)

\* agent_stop() builds its envelope with dropped 0, whatever the heartbeats
\* before it said.
AgentStop(at, source) == Envelope("agent_stop", at, 0, {source})

\* dp_rank and group_idx are 0 wherever a builder is not told otherwise.
IdentityRefused(at, instance, from, to) ==
  [ kind |-> "identity_refused", at_ms |-> at, instance_id |-> instance,
    dp_rank |-> 0, group_idx |-> 0,
    window_start_ms |-> from, window_end_ms |-> to ]

(***************************************************************************)
(* Delivery records: producer clock.                                       *)
(***************************************************************************)
SegmentsDropped(incarnation, first, last, at) ==
  [ kind |-> "segments_dropped", at_ms |-> at, incarnation |-> incarnation,
    first_seq |-> first, last_seq |-> last, count |-> last - first + 1 ]

SegmentRecovered(attributed, at) ==
  [ kind |-> "segment_recovered", at_ms |-> at, attributed |-> attributed ]

(***************************************************************************)
(* Cache records: engine clock.  Of a store of 16 tokens only the number   *)
(* matters, so n_tokens is left out.                                       *)
(***************************************************************************)
CacheRecord(kind, instance, rank, block, at) ==
  [ kind |-> kind, instance_id |-> instance, dp_rank |-> rank,
    group_idx |-> 0, block_id |-> block, at_ms |-> at ]

Store(instance, rank, block, at) == CacheRecord("store", instance, rank, block, at)
Evict(instance, rank, block, at) == CacheRecord("evict", instance, rank, block, at)

\* The record with the optional fields it was told to carry: content_id, seq,
\* reused, parent_id, and a heartbeat's canary and reuse_reporting.
With(record, fields) == fields @@ record

StoreSeq(instance, block, at, seq) ==
  With(Store(instance, 0, block, at), [seq |-> seq])

\* Two clocks on one record: at_ms is the producer's, boundary_ms the engine's.
HolderReset(instance, at, boundary, seq) ==
  [ kind |-> "holder_reset", instance_id |-> instance, dp_rank |-> 0,
    at_ms |-> at, boundary_ms |-> boundary, seq |-> seq ]

(***************************************************************************)
(* A declared tag interval: producer clock, open without `until_ms`.       *)
(***************************************************************************)
TagInterval(at, declaration, identity, tag, from) ==
  [ kind |-> "tag_interval", at_ms |-> at, declaration_id |-> declaration,
    identity |-> identity, tag |-> tag, from_ms |-> from ]
=============================================================================
