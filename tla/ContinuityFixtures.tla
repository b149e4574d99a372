------------------------- MODULE ContinuityFixtures -------------------------
(***************************************************************************)
(* The fixtures of tools/gen-reader-corpus.py whose verdicts are about     *)
(* continuity: each pairs the segments a reader is given with the verdict  *)
(* it must reach.  A fixture is a record of its segments and, per verdict  *)
(* family it pins, the expected verdict with the question it answers.      *)
(***************************************************************************)
EXTENDS ReaderContinuity

\* n milliseconds after T0.
Ms(n) == n \div (1000 \div Second)

Span(from, to) == <<Ms(from), Ms(to)>>

Fixture(segments, expect) == [segments |-> segments, expect |-> expect]

I0 == {"i0"}
I1 == {"i1"}

\* The steady producer whose records place the knowledge horizon.
HorizonProducer ==
  Segment("RUN2", 0, 7200, 14400,
    << AgentStart(0), Heartbeat(Ms(5060000), 0, I1),
       Heartbeat(Ms(10120000), 0, I1) >>)

\* start, heartbeats at 60 s and 120 s, stop at 180 s: the counted bracket.
CountedRun(dropped) ==
  Segment("RUN1", 0, 300, 600,
    << AgentStart(0), Heartbeat(Ms(60000), 0, I0),
       Heartbeat(Ms(120000), dropped, I0), AgentStop(Ms(180000), "i0") >>)

\* The same run with no stop record.
UnclosedRun ==
  Segment("RUN1", 0, 300, 600,
    << AgentStart(0), Heartbeat(Ms(60000), 0, I0), Heartbeat(Ms(120000), 0, I0) >>)

\* A run that stops at 120 s, and its successor.
StoppedRun ==
  Segment("RUN1", 0, 300, 600,
    << AgentStart(0), Heartbeat(Ms(60000), 0, I0), AgentStop(Ms(120000), "i0") >>)
SuccessorRun ==
  Segment("RUN2", 0, 300, 600,
    << AgentStart(Ms(400000)), Heartbeat(Ms(460000), 0, I0) >>)

-----------------------------------------------------------------------------
\* gap_span

seq_narrows_the_degraded_span_to_its_bracket ==
  Fixture({ PlainSegment("RUN1", 0,
              << Heartbeat(0, 0, I0),
                 StoreSeq("i0", "b1", Ms(100), 41), StoreSeq("i0", "b2", Ms(200), 42),
                 StoreSeq("i0", "b3", Ms(300), 44), StoreSeq("i0", "b4", Ms(400), 45),
                 Heartbeat(Ms(500), 1, I0) >>) },
          [gap_degraded |-> {"dropped_delta"}, gap_span |-> {Span(200, 300)}])

seq_across_an_incarnation_boundary_does_not_narrow ==
  Fixture({ PlainSegment("RUN1", 0,
              << Heartbeat(0, 0, I0), StoreSeq("i0", "b1", Ms(100), 41) >>),
            PlainSegment("RUN2", 0,
              << StoreSeq("i0", "b2", Ms(200), 100), Heartbeat(Ms(300), 1, I0) >>) },
          [gap_degraded |-> {"dropped_delta"}, gap_span |-> {}])

a_bracket_missing_seq_does_not_narrow ==
  Fixture({ PlainSegment("RUN1", 0,
              << Heartbeat(0, 0, I0), StoreSeq("i0", "b1", Ms(100), 41),
                 Store("i0", 0, "b2", Ms(200)), StoreSeq("i0", "b3", Ms(300), 44),
                 Heartbeat(Ms(400), 1, I0) >>) },
          [gap_degraded |-> {"dropped_delta"}, gap_span |-> {}])

seq_a_bracket_does_not_span_a_holder_reset ==
  Fixture({ PlainSegment("RUN1", 0,
              << Heartbeat(0, 0, I0), StoreSeq("i0", "b1", Ms(100), 41),
                 HolderReset("i0", Ms(250), Ms(200), 2),
                 StoreSeq("i0", "b2", Ms(200), 2), Heartbeat(Ms(300), 1, I0) >>) },
          [gap_degraded |-> {"dropped_delta"}, gap_span |-> {}])

-----------------------------------------------------------------------------
\* staleness

staleness_silence_without_a_stop_is_unexplained ==
  Fixture({ Segment("RUN1", 0, 60, 300, UnclosedRun.records), HorizonProducer },
          [staleness |-> "RUN1" :> "unexplained" @@ "RUN2" :> "live"])

staleness_a_stop_makes_the_same_silence_a_departure ==
  Fixture({ Segment("RUN1", 0, 60, 300, StoppedRun.records), HorizonProducer },
          [staleness |-> "RUN1" :> "departed" @@ "RUN2" :> "live"])

staleness_is_judged_against_the_larger_bound ==
  Fixture({ Segment("RUN1", 0, 60, 7200, UnclosedRun.records),
            Segment("RUN2", 0, 1800, 3600,
              << AgentStart(0), Heartbeat(Ms(1060000), 0, I1),
                 Heartbeat(Ms(2120000), 0, I1) >>) },
          [staleness |-> "RUN1" :> "live" @@ "RUN2" :> "live"])

staleness_without_declared_bounds_has_no_basis ==
  Fixture({ Segment11("RUN1", 1,
              << Heartbeat(Ms(60000), 0, I0), Heartbeat(Ms(120000), 0, I0) >>),
            HorizonProducer },
          [staleness |-> "RUN1" :> "no_basis" @@ "RUN2" :> "live"])

-----------------------------------------------------------------------------
\* coverage

WithStore(seg) ==
  [seg EXCEPT !.records = <<Head(@), Store("i0", 0, "b1", Ms(30000))>> \o Tail(@)]

coverage_a_counted_bracket_is_complete ==
  Fixture({ WithStore(CountedRun(0)) },
          [coverage |-> [span |-> Span(0, 180000), verdict |-> "complete"]])

coverage_loss_inside_the_bracket_reduces_it ==
  Fixture({ WithStore(CountedRun(3)) },
          [coverage |-> [span |-> Span(0, 180000), verdict |-> "reduced"]])

coverage_an_unclosed_tail_reduces_it ==
  Fixture({ WithStore(UnclosedRun) },
          [coverage |-> [span |-> Span(0, 180000), verdict |-> "reduced"]])

-----------------------------------------------------------------------------
\* holder_register

Question(instance, rank, from, to, register) ==
  [instance |-> instance, dp_rank |-> rank, group_idx |-> 0,
   span |-> Span(from, to), register |-> register]

gap_scope_a_producer_level_loss_degrades_every_covered_instance ==
  Fixture({ Segment("RUN1", 0, 300, 600,
              << AgentStart(0), Heartbeat(Ms(60000), 0, {"i0", "i1"}),
                 Store("i0", 0, "b1", Ms(5000)) >>),
            PlainSegment("RUN1", 2, << Store("i0", 0, "b2", Ms(70000)) >>),
            Segment("RUN2", 0, 300, 600,
              << AgentStart(0), Heartbeat(Ms(60000), 0, {"i9"}),
                 Store("i9", 0, "b3", Ms(6000)) >>) },
          [holder_register |->
             { Question("i0", 0, 0, 100000, "indeterminate"),
               Question("i1", 0, 0, 100000, "indeterminate"),
               Question("i9", 0, 0, 100000, "none") }])

refused_degrades_exactly_the_named_holder_over_its_window ==
  Fixture({ PlainSegment("RUN1", 0,
              << IdentityRefused(Ms(500000), "i0", Ms(10000), Ms(20000)),
                 Store("i0", 0, "b1", Ms(12000)), Store("i0", 1, "b2", Ms(15000)) >>) },
          [holder_register |->
             { Question("i0", 0, 10000, 20000, "lower_bound"),
               Question("i0", 1, 10000, 20000, "none"),
               Question("i0", 0, 30000, 40000, "none") }])

refused_is_confined_by_its_window_not_its_stamp ==
  Fixture({ PlainSegment("RUN1", 0,
              << IdentityRefused(Ms(35000), "i0", Ms(10000), Ms(20000)),
                 Store("i0", 0, "b1", Ms(12000)) >>) },
          [holder_register |->
             { Question("i0", 0, 10000, 20000, "lower_bound"),
               Question("i0", 0, 30000, 40000, "none") }])

-----------------------------------------------------------------------------
\* absence

absence_is_exact_within_a_counted_bracket ==
  Fixture({ CountedRun(0) },
          [absence |-> [span |-> Span(0, 180000), register |-> "exact"]])

absence_before_the_producer_started_is_a_lower_bound ==
  Fixture({ CountedRun(0) },
          [absence |-> [span |-> Span(-300000, 180000), register |-> "lower_bound"]])

absence_during_a_gap_is_a_lower_bound ==
  Fixture({ CountedRun(3) },
          [absence |-> [span |-> Span(0, 180000), register |-> "lower_bound"]])

absence_outside_observation_is_a_lower_bound ==
  Fixture({ UnclosedRun },
          [absence |-> [span |-> Span(0, 400000), register |-> "lower_bound"]])

-----------------------------------------------------------------------------
\* uncovered

BracketWindow == {Span(120000, 400000)}

uncovered_the_bracket_runs_stop_to_start ==
  Fixture({ StoppedRun, SuccessorRun,
            Segment("RUN3", 0, 7200, 14400,
              << AgentStart(0), Heartbeat(Ms(230000), 0, I1),
                 Heartbeat(Ms(460000), 0, I1) >>) },
          [uncovered |-> "i0" :> BracketWindow @@ "i1" :> {}])

uncovered_a_crash_opens_the_bracket_at_the_last_observation ==
  Fixture({ UnclosedRun, SuccessorRun }, [uncovered |-> "i0" :> BracketWindow])

uncovered_a_discarded_recovery_declares_no_coverage ==
  Fixture({ UnclosedRun,
            [SuccessorRun EXCEPT
               !.records = <<SegmentRecovered(FALSE, Ms(399000))>> \o @] },
          [uncovered |-> "i0" :> BracketWindow])

uncovered_a_lost_start_closes_the_bracket_at_the_first_observation ==
  Fixture({ StoppedRun,
            PlainSegment("RUN2", 1,
              << Heartbeat(Ms(400000), 0, I0), Heartbeat(Ms(460000), 0, I0) >>) },
          [uncovered |-> "i0" :> BracketWindow])

uncovered_overlapping_runs_leave_no_blind_spot ==
  Fixture({ Segment("RUN1", 0, 300, 600,
              << AgentStart(0), Heartbeat(Ms(60000), 0, I0),
                 AgentStop(Ms(200000), "i0") >>),
            Segment("RUN2", 0, 300, 600,
              << AgentStart(Ms(150000)), Heartbeat(Ms(210000), 0, I0) >>) },
          [uncovered |-> "i0" :> {}])

-----------------------------------------------------------------------------
\* gap_degraded

gap_a_missing_segment_seq_degrades_the_window ==
  Fixture({ PlainSegment("RUN1", 0, << Store("i0", 0, "b1", 0) >>),
            PlainSegment("RUN1", 2, << Store("i0", 0, "b2", Ms(20000)) >>) },
          [gap_degraded |-> {"missing_segment_seq"}])

gap_a_dropped_delta_between_heartbeats_degrades_the_window ==
  Fixture({ Segment("RUN1", 0, 60, 300,
              << AgentStart(0), Heartbeat(Ms(60000), 0, I0),
                 Store("i0", 0, "b1", Ms(90000)), Heartbeat(Ms(120000), 3, I0) >>) },
          [gap_degraded |-> {"dropped_delta"}])

gap_a_declared_drop_overlapping_the_window_degrades_it ==
  Fixture({ PlainSegment("RUN1", 3,
              << SegmentsDropped("RUN1", 0, 2, 0), Store("i0", 0, "b1", Ms(10000)) >>) },
          [gap_degraded |-> {"segments_dropped"}])

gap_an_intact_stream_is_not_degraded ==
  Fixture({ Segment("RUN1", 0, 60, 300, UnclosedRun.records),
            PlainSegment("RUN1", 1, << Store("i0", 0, "b1", Ms(130000)) >>),
            PlainSegment("RUN2", 0, << Store("i1", 0, "b2", Ms(140000)) >>) },
          [gap_degraded |-> {}])

-----------------------------------------------------------------------------
ContinuityFixtureSet ==
  { seq_narrows_the_degraded_span_to_its_bracket,
    seq_across_an_incarnation_boundary_does_not_narrow,
    a_bracket_missing_seq_does_not_narrow,
    seq_a_bracket_does_not_span_a_holder_reset,
    staleness_silence_without_a_stop_is_unexplained,
    staleness_a_stop_makes_the_same_silence_a_departure,
    staleness_is_judged_against_the_larger_bound,
    staleness_without_declared_bounds_has_no_basis,
    coverage_a_counted_bracket_is_complete,
    coverage_loss_inside_the_bracket_reduces_it,
    coverage_an_unclosed_tail_reduces_it,
    gap_scope_a_producer_level_loss_degrades_every_covered_instance,
    refused_degrades_exactly_the_named_holder_over_its_window,
    refused_is_confined_by_its_window_not_its_stamp,
    absence_is_exact_within_a_counted_bracket,
    absence_before_the_producer_started_is_a_lower_bound,
    absence_during_a_gap_is_a_lower_bound,
    absence_outside_observation_is_a_lower_bound,
    uncovered_the_bracket_runs_stop_to_start,
    uncovered_a_crash_opens_the_bracket_at_the_last_observation,
    uncovered_a_discarded_recovery_declares_no_coverage,
    uncovered_a_lost_start_closes_the_bracket_at_the_first_observation,
    uncovered_overlapping_runs_leave_no_blind_spot,
    gap_a_missing_segment_seq_degrades_the_window,
    gap_a_dropped_delta_between_heartbeats_degrades_the_window,
    gap_a_declared_drop_overlapping_the_window_degrades_it,
    gap_an_intact_stream_is_not_degraded }
=============================================================================
