------------------------- MODULE ResidencyFixtures -------------------------
(***************************************************************************)
(* The fixtures of tools/gen-reader-corpus.py whose verdicts are about the *)
(* cache facts.                                                            *)
(***************************************************************************)
EXTENDS ContinuityFixtures, ReaderResidency

Has(content) == [content_id |-> content]

\* The i0 store and evict of a block with a content, n ms after T0.
Stored(i, block, n, content) == With(Store(i, 0, block, Ms(n)), Has(content))
Evicted(i, block, n, content) == With(Evict(i, 0, block, Ms(n)), Has(content))

OneRun(records) == {PlainSegment("RUN1", 0, records)}

-----------------------------------------------------------------------------
\* insertions, recompute, first_insertion

Reporting(at, sources, reporting) ==
  With(Heartbeat(Ms(at), 0, sources), [reuse_reporting |-> reporting])

Refused == [countable |-> FALSE]
Count(n) == [countable |-> TRUE, records |-> n]

reuse_none_makes_every_store_an_insertion ==
  Fixture(OneRun(<< Reporting(0, I0, "none"),
                    Stored("i0", "b1", 100, "c1"), Stored("i0", "b2", 200, "c2") >>),
          [insertions |-> Count(2)])

reuse_labelled_excludes_the_reused_records ==
  Fixture(OneRun(<< Reporting(0, I0, "labelled"),
                    Stored("i0", "b1", 100, "c1"),
                    With(Stored("i0", "b1", 200, "c1"), [reused |-> TRUE]),
                    Stored("i0", "b2", 300, "c2") >>),
          [insertions |-> Count(2)])

reuse_unlabelled_forbids_an_insertion_count ==
  Fixture(OneRun(<< Reporting(0, I0, "unlabelled"),
                    Stored("i0", "b1", 100, "c1"), Stored("i0", "b1", 200, "c1") >>),
          [insertions |-> Refused])

reuse_undeclared_is_not_none ==
  Fixture(OneRun(<< Heartbeat(0, 0, I0), Stored("i0", "b1", 100, "c1") >>),
          [insertions |-> Refused])

reuse_unrecognized_reads_as_unlabelled ==
  Fixture(OneRun(<< Reporting(0, I0, "sampled_at_source"),
                    Stored("i0", "b1", 100, "c1") >>),
          [insertions |-> Refused])

reuse_unlabelled_still_permits_a_recompute_figure ==
  Fixture(OneRun(<< Reporting(0, I0, "unlabelled"),
                    Stored("i0", "b1", 100, "c1"), Evicted("i0", "b1", 200, "c1"),
                    Stored("i0", "b1", 300, "c1"), Stored("i0", "b2", 400, "c2") >>),
          [insertions |-> Refused, recompute |-> 1])

reuse_unlabelled_forbids_a_first_insertion_figure ==
  Fixture(OneRun(<< Reporting(0, I0, "unlabelled"),
                    Stored("i0", "b1", 100, "c1"), Stored("i0", "b2", 200, "c2") >>),
          [first_insertion |-> Refused])

first_insertion_is_countable_where_reuse_is_not_announced ==
  Fixture(OneRun(<< Reporting(0, I0, "none"),
                    Stored("i0", "b1", 100, "c1"), Stored("i0", "b2", 200, "c2") >>),
          [first_insertion |-> Count(2)])

a_window_takes_the_weakest_reuse_declaration_it_contains ==
  Fixture({ PlainSegment("RUN1", 0,
              << Reporting(0, I0, "none"), Stored("i0", "b1", 100, "c1") >>),
            PlainSegment("RUN2", 0,
              << Reporting(200, I1, "unlabelled"), Stored("i1", "b2", 300, "c2") >>) },
          [insertions |-> Refused])

-----------------------------------------------------------------------------
\* audit: per instance, the classes with a nonzero count

audit_re_store_after_eviction ==
  Fixture(OneRun(<< Stored("i0", "b1", 0, "c1"), Evicted("i0", "b1", 100, "c1"),
                    Stored("i0", "b1", 200, "c1"), Evicted("i0", "b1", 300, "c1") >>),
          [audit |-> "i0" :> [agreed |-> 2]])

audit_evict_before_store_is_unjoined ==
  Fixture(OneRun(<< Evict("i0", 0, "b1", 0), Stored("i0", "b1", 100, "c1"),
                    Evict("i0", 0, "b2", Ms(200)), Stored("i0", "b2", 200, "c2") >>),
          [audit |-> "i0" :> [unjoined |-> 2]])

audit_restart_mid_flight_is_indeterminate ==
  Fixture({ PlainSegment("RUN1", 0, << Stored("i0", "b1", 0, "c1") >>),
            PlainSegment("RUN2", 0, << Evict("i0", 0, "b1", Ms(100)) >>) },
          [audit |-> "i0" :> [indeterminate |-> 1]])

audit_an_evict_across_a_holder_reset_is_unjoined ==
  Fixture(OneRun(<< Stored("i0", "b1", 0, "c1"),
                    HolderReset("i0", Ms(250), Ms(200), 1),
                    Evict("i0", 0, "b1", Ms(300)) >>),
          [audit |-> "i0" :> [unjoined |-> 1]])

\* Identity is the same on every tier, so the tier is left out.
audit_offload_and_scope ==
  Fixture(OneRun(<< Stored("i0", "b1", 0, "c1"), Stored("i0", "b1", 100, "c1"),
                    Evicted("i0", "b1", 200, "c1"), Evicted("i0", "b1", 300, "c1"),
                    Evict("i0", 1, "b1", Ms(400)) >>),
          [audit |-> "i0" :> [agreed |-> 2, unjoined |-> 1]])

audit_contradiction_alarms_naming_the_instance ==
  Fixture(OneRun(<< Stored("i0", "b1", 0, "c1"), Evicted("i0", "b1", 100, "WRONG"),
                    Stored("i1", "b1", 0, "c1"), Evicted("i1", "b1", 100, "c1") >>),
          [audit |-> "i0" :> [mismatched |-> 1] @@ "i1" :> [agreed |-> 1]])

audit_lost_promise_is_underresolved ==
  Fixture(OneRun(<< Stored("i0", "b1", 0, "c1"), Evict("i0", 0, "b1", Ms(100)),
                    Store("i0", 0, "b2", Ms(200)), Evict("i0", 0, "b2", Ms(300)) >>),
          [audit |-> "i0" :> [underresolved |-> 1, agreed |-> 1]])

incarnation_is_an_opaque_token ==
  Fixture({ PlainSegment("opaque.token=rev.7", 0,
              << Stored("i0", "b1", 0, "c1"), Evicted("i0", "b1", 100, "c1") >>) },
          [audit |-> "i0" :> [agreed |-> 1]])

\* Thirty days between the two clocks of one stream.
clock_the_domains_never_meet ==
  LET month == 30 * 86400 * Second
  IN Fixture({ Segment("RUN1", 0, 300, 600,
                 UnclosedRun.records \o
                 << With(Store("i0", 0, "b1", month), Has("c1")),
                    With(Evict("i0", 0, "b1", month + Ms(100)), Has("c1")) >>) },
             [staleness |-> "RUN1" :> "live", audit |-> "i0" :> [agreed |-> 1]])

-----------------------------------------------------------------------------
\* residual_zero and parent_conflicts

zero_single_holder_is_not_a_finding ==
  Fixture(OneRun(<< Stored("i0", "b1", 0, "c1"), Stored("i0", "b2", 10, "c2") >>),
          [residual_zero |-> "single_holder"])

zero_across_comparable_holders_is_measured ==
  Fixture(OneRun(<< Stored("i0", "b1", 0, "c1"), Stored("i1", "b2", 10, "c2") >>),
          [residual_zero |-> "measured"])

zero_with_no_portable_identity_says_nothing ==
  Fixture(OneRun(<< Store("i0", 0, "b1", 0), Store("i1", 0, "b2", Ms(10)) >>),
          [residual_zero |-> "not_comparable"])

shared_content_is_a_positive_residual ==
  Fixture(OneRun(<< Stored("i0", "b1", 0, "cSHARED"), Stored("i1", "b9", 10, "cSHARED") >>),
          [residual_zero |-> "positive"])

canary_split_key_material_is_not_a_measured_zero ==
  Fixture({ PlainSegment("RUN1", 0,
              << With(Heartbeat(Ms(1000), 0, I0), [canary |-> "c0ffee"]),
                 Stored("i0", "1a2b3c", 10000, "aa1111") >>),
            PlainSegment("RUN2", 0,
              << With(Heartbeat(Ms(1000), 0, I1), [canary |-> "deadbeef"]),
                 Stored("i1", "4d5e6f", 11000, "bb2222") >>) },
          [residual_zero |-> "split_key_space"])

clock_a_sliver_overlap_is_not_simultaneity ==
  Fixture(OneRun(<< Stored("i0", "bA", 0, "cS"), Evicted("i0", "bA", 300000, "cS"),
                    Stored("i1", "bB", 299998, "cS"), Evicted("i1", "bB", 600000, "cS") >>),
          [residual_zero |-> "measured"])

clock_a_robust_overlap_survives_the_allowance ==
  Fixture(OneRun(<< Stored("i0", "bC", 0, "cR"), Evicted("i0", "bC", 600000, "cR"),
                    Stored("i1", "bD", 50, "cR"), Evicted("i1", "bD", 600050, "cR") >>),
          [residual_zero |-> "positive"])

identity_collision_claims_two_parents ==
  Fixture(OneRun(<< Stored("i0", "p1", 0, "cp1"), Stored("i0", "p2", 10, "cp2"),
                    With(Stored("i0", "b1", 20, "cMERGED"), [parent_id |-> "p1"]),
                    With(Stored("i0", "b2", 30, "cMERGED"), [parent_id |-> "p2"]) >>),
          [parent_conflicts |-> 1])

-----------------------------------------------------------------------------
\* tag_slices

Tag(at, declaration, identity, tag) ==
  TagInterval(Ms(at), declaration, identity, tag, 0)
Ending(statement, until) == With(statement, [until_ms |-> Ms(until)])
Declarer(statements) == PlainSegment("DECLARER", 0, statements)
SliceOf(stores, ambiguous) == [stores |-> stores, ambiguous |-> ambiguous]

tag_a_store_at_the_edge_counts_nowhere ==
  Fixture({ Declarer(<< Ending(Tag(0, "a-1", "cS", "rule-3.applied"), 1800000) >>) }
          \cup OneRun(<< Stored("i0", "bA", 1, "cS"), Stored("i0", "bB", 600000, "cS"),
                         Stored("i0", "bC", 1799999, "cS"),
                         Stored("i0", "bD", 5400000, "cS") >>),
          [tag_slices |-> "rule-3.applied" :> SliceOf(1, 2)])

tag_a_later_statement_shortens_the_interval ==
  Fixture({ Declarer(<< Tag(0, "a-17", "cS", "rule-3.applied"),
                        Ending(Tag(1200000, "a-17", "cS", "rule-3.applied"), 1200000) >>) }
          \cup OneRun(<< Stored("i0", "bA", 600000, "cS"),
                         Stored("i0", "bB", 2400000, "cS") >>),
          [tag_slices |-> "rule-3.applied" :> SliceOf(1, 0)])

tag_an_open_interval_runs_to_the_horizon ==
  Fixture({ Declarer(<< Tag(0, "a-2", "cS", "rule-3.applied") >>) }
          \cup OneRun(<< Stored("i0", "bA", 3600000, "cS"),
                         AgentStop(Ms(7200000), "i0") >>),
          [tag_slices |-> "rule-3.applied" :> SliceOf(1, 0)])

tag_labels_are_opaque ==
  Fixture({ Declarer(<< Ending(Tag(0, "a-3", "cS", "Rule-3"), 1800000),
                        Ending(Tag(0, "a-4", "cT", "rule-3"), 1800000) >>) }
          \cup OneRun(<< Stored("i0", "bA", 600000, "cS"),
                         Stored("i0", "bB", 600000, "cT") >>),
          [tag_slices |-> "Rule-3" :> SliceOf(1, 0) @@ "rule-3" :> SliceOf(1, 0)])

-----------------------------------------------------------------------------
\* attribution: by segment, the provenance and the workload class

ProvA == [gpu |-> "fixture"]
ProvB == [gpu |-> "fixture-b"]
DefaultBounds == [heartbeat_secs |-> DefaultHeartbeatSecs,
                  max_segment_secs |-> DefaultMaxSegmentSecs]
Attributes(provenance, class) == [provenance |-> provenance, workload_class |-> class]

OneStore == << Store("i0", 0, "b1", Ms(1000)) >>
HdrSeg(r, fields) == Declaring(PlainSegment(r, 0, OneStore), fields)
Agentic == [workload_class |-> "agentic"]

provenance_declared_once_applies_to_every_record ==
  Fixture({ HdrSeg("RUN1", ProvA @@ Agentic) },
          [attribution |-> "RUN1" :> Attributes(ProvA @@ DefaultBounds, "agentic")])

a_1_1_segment_reads_from_its_header_like_any_other ==
  Fixture({ Declaring(Segment11("RUN1", 0, OneStore), ProvA) },
          [attribution |-> "RUN1" :> Attributes(ProvA, "none")])

an_undeclared_workload_class_is_absent_rather_than_empty ==
  Fixture({ HdrSeg("RUN1", ProvA) },
          [attribution |-> "RUN1" :> Attributes(ProvA @@ DefaultBounds, "none")])

each_segment_carries_its_own_declaration ==
  Fixture({ HdrSeg("RUN1", ProvA @@ Agentic),
            HdrSeg("RUN2", ProvB @@ [workload_class |-> "batch"]) },
          [attribution |-> "RUN1" :> Attributes(ProvA @@ DefaultBounds, "agentic") @@
                           "RUN2" :> Attributes(ProvB @@ DefaultBounds, "batch")])

-----------------------------------------------------------------------------
ResidencyFixtureSet ==
  { reuse_none_makes_every_store_an_insertion,
    reuse_labelled_excludes_the_reused_records,
    reuse_unlabelled_forbids_an_insertion_count,
    reuse_undeclared_is_not_none,
    reuse_unrecognized_reads_as_unlabelled,
    reuse_unlabelled_still_permits_a_recompute_figure,
    reuse_unlabelled_forbids_a_first_insertion_figure,
    first_insertion_is_countable_where_reuse_is_not_announced,
    a_window_takes_the_weakest_reuse_declaration_it_contains,
    audit_re_store_after_eviction,
    audit_evict_before_store_is_unjoined,
    audit_restart_mid_flight_is_indeterminate,
    audit_an_evict_across_a_holder_reset_is_unjoined,
    audit_offload_and_scope,
    audit_contradiction_alarms_naming_the_instance,
    audit_lost_promise_is_underresolved,
    incarnation_is_an_opaque_token,
    clock_the_domains_never_meet,
    zero_single_holder_is_not_a_finding,
    zero_across_comparable_holders_is_measured,
    zero_with_no_portable_identity_says_nothing,
    shared_content_is_a_positive_residual,
    canary_split_key_material_is_not_a_measured_zero,
    clock_a_sliver_overlap_is_not_simultaneity,
    clock_a_robust_overlap_survives_the_allowance,
    identity_collision_claims_two_parents,
    tag_a_store_at_the_edge_counts_nowhere,
    tag_a_later_statement_shortens_the_interval,
    tag_an_open_interval_runs_to_the_horizon,
    tag_labels_are_opaque,
    provenance_declared_once_applies_to_every_record,
    a_1_1_segment_reads_from_its_header_like_any_other,
    an_undeclared_workload_class_is_absent_rather_than_empty,
    each_segment_carries_its_own_declaration }
=============================================================================
