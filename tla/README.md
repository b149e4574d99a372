# Formal models of inference-events

TLA+ models of the parts of this repository that decide something, with TLC
configurations that check them on small instances and TLAPS proofs of what
matters most. The repository is a contract: `spec/kv-cache-v2.md`, its schema,
the generators of its conformance corpora, the tools that capture the traffic
they are derived from, and the Rust crate that models the wire. The programs
that meet under the contract (the producer, called the tap, the shipper, the
reader) live elsewhere; what they must do is stated by the corpus generators.

## The system

| Component | Source | State it keeps | Operations | Hard behaviour |
| --- | --- | --- | --- | --- |
| Delivery layer | `tools/gen-delivery-corpus.py`, `conformance/delivery/layout.json` | the active file, the ring of sealed segments, the run's counters; the reader's stream | start, recover, open, fsync header, record, heartbeat, seal, stop, crash, reclaim, ship | crash and recovery between any two steps, a bounded ring shared by successive runs, loss at four places, unordered delivery |
| Conversion and shipping | `conformance/delivery/layout.json` | a segment's names in the directory and what a power cut may leave of them; the shipper's listing; the bucket; the reader's watermark | convert in six steps, recover, reclaim, list, open, skip, upload, remove, discover | power cuts, three processes on one directory, a listing that is stale when used |
| Reader verdicts | `tools/gen-reader-corpus.py` | the stream | ingest a segment; fifteen verdict families | arrival order, two clocks, incarnation boundaries, evidence of loss neither missed nor fabricated |
| Load generator | `tools/capture/kvload.py` | two counters under a lock | worker loop, join, reset | threads, failures that end a thread |
| Capture | `tools/capture/kvcap.py` | capture file, signatures seen, sequence numbers | poll, receive, report | lost messages, a full queue, publisher restarts, a limit |
| Compatibility | `tools/check-compatibility.py`, `scripts/preflight.sh`, `tools/schema_profile.py` | the schema and the released baselines | edit, release | a pairwise check that must hold along any sequence of releases |
| Wire model | `crates/model`, `tools/gen-schema.py` | a typed record in a caller's hands | decode, edit, encode, validate | exact numbers at the ends of a width, absent and null, extensions |
| Wire corpora | `tools/gen-vllm-wire-corpus.py`, `tools/gen-sglang-wire-corpus.py` | none | derive one batch | runs with skipped blocks, signed hashes, partial scopes |
| Telemetry | `tools/gen-telemetry-corpus.py` | none | an event to its record | what is absent, null or zero; resets |
| Columnar twin | `tools/gen-parquet-twin.py` | none | a record to its row | two encodings of one record |
| Other generators and checks | `tools/gen-*.py`, `tools/check-*.py`, `tools/contract-hash.py` | none | print, compare | none |

How they meet: the engine publishes numbered messages; `kvload` makes it do so
and `kvcap` records them; the wire generators derive from the recording what a
decoder must produce. The producer turns events into records in segments; the
ring and the shipper move the segments; the reader forms verdicts over what
arrived. The schema fixes the records, and the compatibility checker decides
which schemas may follow which.

What makes each part correct:

- Delivery: a position of a run names one segment; an *exact* register is true
  and final; a gap has a cause; unobserved time is reported; retention keeps the
  newest.
- Conversion and shipping: every sealed segment reaches the reader once, or is
  declared dropped, oldest first, whatever dies on the way.
- Wire derivations and telemetry: what a reader takes to be resident is what the
  engine holds; a stated parent is the parent; one identity is one content.
- Wire model: what validation accepts can be decoded, a round trip loses
  nothing but what a double cannot hold, an edit is refused or read back as it
  was made.
- Reader: the expected verdicts are those of one consistent set of rules, in
  every order of arrival.
- Load: distinct numbers, a kept budget, a reset after all traffic, an end.
- Capture: reported gaps are losses, the limit costs no shape, it ends.
- Compatibility: minor releases read each other's segments, a version names one
  contract.

`PROJECT.json` lists every component, also those not modelled, and under
`hazards` each place where this code is hard to test, with the properties aimed
at it.

## The modules

    ReaderRecords            records and segments, one operator per builder
      ReaderContinuity       verdicts about continuity (spec 5)
        ContinuityFixtures   27 fixtures with their expected verdicts
        Delivery             runs, ring, shipper, reader
                             (implements SegmentStore)  --  DeliveryProofs
        ReaderResidency      verdicts about cache facts (spec 2, 3, 5.9)
          ResidencyFixtures  34 fixtures
            ReaderIngest     a reader works through a fixture  --  ReaderProofs
    SegmentStore             what the path of a sealed segment promises
      Delivery               (above)
      Shipping               conversion, recovery, shipper, discovery
                             (implements SegmentStore)  --  ShippingProofs
    Maps                     a map of one entry, one map over another
      WireEvents             derive of the two wire corpora
      WireModel              schema, validation, typed records, rows
        Telemetry            an event's record (WireEvents, WireModel)
        RecordRoundTrip      a program that decodes, edits and writes
                                                 --  WireModelProofs
          Transduction       engines, producer, reader (Telemetry too)
                                                 --  TransductionProofs
    KvLoad   --  KvLoadProofs
    KvCap   --  KvCapProofs
    Compatibility  --  CompatibilityProofs

### Reader corpus

`gen-reader-corpus.py` states what a reader must conclude and not how. The model
states the *how*: `ReaderContinuity` and `ReaderResidency` give one operator per
verdict family, written from the expected verdicts and from the reasons in the
generator (they are external code in the map). Each fixture is a definition of
the same name as in `FIXTURES`: its segments and, per family it pins, the
verdict. `ReaderIngest` lets the segments arrive in any order and again; when
all are there, `CorpusVerdicts` compares. So the run answers whether one
set of rules satisfies all 61 fixtures, which no run of the generator can,
since it writes each expectation by hand.

Data left out: token sums (every store has 16), tiers, addresses, message counts
and file names, none of which a modelled verdict tells apart. One time unit is
2 ms: `Second = 500`, `Allowance = 25` for the 50 ms of skew. It keeps the thirty
days of `clock_the_domains_never_meet` inside TLC's 32-bit integers. The only
odd millisecond offsets are the 1 ms steps at the edges of tag intervals; they
round toward the edge and stay far inside the allowance on both sides.

### Delivery

| Action | What it stands for |
| --- | --- |
| `Start`, `Crash`, `Stop` | a run begins; dies; writes `agent_stop`, seals, leaves |
| `RecoverAttributed` | an orphan with a header is sealed under its own identity: some prefix of its records survives, and the trailer is stamped now |
| `RecoverUnattributed` | a file without a header is unlinked; the first segment of the finder's own run will declare it |
| `OpenSegment`, `SyncHeader` | the header is fsync'd before any data record; the first segment continues with the discards and `agent_start` |
| `Record`, `Drop`, `Miss` | the engine publishes: recorded, counted as lost, or nobody listens |
| `Beat`, `Seal` | heartbeat with the cumulative counter; the segment becomes final |
| `Reclaim` | the ring drops the excess, oldest first, and declares one record per run |
| `Ship`, `Spoil` | any sealed segment arrives whole, or is spoiled on the way |

The reader's rules are `ReaderContinuity`'s, the same operators that meet the
corpus. `published`, `began`, `ended`, `sealed`, `reclaimed` and `spoiled` are
history: they record what really happened and no action reads them except to
bound it. The clock is one node's, so engine and producer time agree.

`SegmentStore` is the abstract specification of where segments go: they are
sealed in the order of their age and within a run without a gap, shipped,
arrive, or are dropped, none while an older one stays. `Delivery` implements it
over the segments of all runs (`StoreIsKept`): what a recovery seals long after
its run died is still older than everything the finder seals.

### Shipping

`Delivery` says what segments contain; `Shipping` follows one run's sealed
segments as files. It is written from the rules of `layout.json`, rule by rule:

| Action | Rule |
| --- | --- |
| `OpenSegment`, `Seal` | the active file becomes terminal; sealing is one durable step here, `Delivery`'s subject there |
| `Create`, `WriteRecords`, `SyncTemporary`, `Verify`, `Rename`, `SyncDirectory`, `DeleteJsonl` | "write the .parquet.tmp, fsync, verify its footer against the records written, rename to .parquet, fsync the directory, and only then delete the JSONL"; a footer that does not agree unlinks the temporary |
| `Start`, `RecoverTemporary`, `RecoverBoth`, `Recovered` | recovery unlinks a stray temporary and, where both are present, the JSONL |
| `Reclaim` | the ring, oldest first, declared |
| `List`, `Open`, `Skip`, `Upload`, `Remove` | the shipper lists what its exclusion leaves, opens, treats a vanished file as expected, uploads under its own hour, removes |
| `Discover` | the reader lists hours from its watermark less a lookback |
| `Crash`, `PowerCut`, `ShipperCrash` | the producer dies; the power fails; the shipper forgets its listing |

`files` is the directory as processes see it. `cut` is, for each segment, the
set of states a power cut may leave: it grows with each operation and shrinks at
a sync. So operations reach the disk in any order until something syncs them,
which is all a portable protocol may rely on. The producer converts and reclaims
in turn, as one thread; the shipper and the reader interleave with it freely.
A conversion repeated after a crash gives the same bytes, and no upload outlasts
the lookback (`Tick`).

`Shipping` implements `SegmentStore` too, for the segments of one run and with
its liveness: each sealed one ends in the reader, dropped, or waived
(`StoreIsImplemented`). Shipped and arrived are read off the bucket and the
reader.

What `waived` is for: recovery's "both present deletes the JSONL" has no sync of
the directory before the delete. If the crash came between the rename and its
sync, the rename may still be only in memory, and a power cut soon after
recovery may leave neither file. `exposed` names such segments and the promises
exclude them. The rule as written has this window; a sync of the directory at
the start of recovery would close it.

### Wire events, telemetry and the record model

`WireEvents` has both `derive` functions. The content hash is taken to be
injective, so an identity is the list of what was hashed. `Telemetry` is
`record`: the JSON object of one event. `WireModel` is the crate: `check`
interprets the schema, which is data here as it is there; `decode` normalises
integers and builds the structure the generated types describe; `to_value`
refuses extensions under a field's name and validates what it wrote. JSON values
are tagged; floats are counted in halves so that some are whole, and integers
have a width of `I64` with the real one's shape (signed, unsigned above it, a
32-bit cap). A field of type `number` is an `f64`: `decode` rounds what
validation accepts there to the nearest double (`as_f64`), and the window of a
refused identity is compared as doubles. A double is a number of steps of one
size, at most `Mantissa` of them (2^53), the sizes being `Scales`. The code
recurses over a value and its rule. The schema is no
deeper than a record, a list, a structure and its fields, so the model names
each level (`check1` to `check4`, `normal1` to `normal4`) and a level is one
operator (`Meets`, `Normal`) that is given what reads the level below. A rule
below the last level would be left unchecked; the schema has none. `Row` and `FromRow` are the twin generator with
PyArrow under it, and what the specification makes of a row: a field with a
column is encoded with the type `build_schema` gives it, the endpoints as a list
of structs that have a slot for each catalogued field and for nothing else.
`Columnar` names the records whose values their columns can hold; PyArrow
refuses the others, among them those with an integer beyond 2^53 in a column of
doubles.

`RecordRoundTrip` is a caller: it reads a document, or edits a typed record in
one field, and writes it. The documents are, for eight kinds, a well-formed
record and everything that differs from it in one field or in two that a rule
relates, each field with the ends of its range and the numbers beside them, as
integers and as floats. Kinds and fields that take a path another one takes are
left out.

`Transduction` closes the loop. A vLLM and an SGLang engine cache texts (lists
of blocks, each its tokens and keys), store runs with or without skipped blocks,
evict, clear with every scope they can declare, send unknown events and restart.
The model knows a block by its text and the wire by a hash which another
process makes differently, and which SGLang signs. The producer derives, puts a
reset before a message whose number does not advance, and records; transport
may lose a message; the reader keeps what it was told is resident, from typed
records. The engines, the derivation of the reset and the reader are not in the
repository; the comments of the generators and the records' definitions say what
they do. `RecordRoundTrip` is a component of its own in the same system, so the
two share a run and not a step.

The reset has a limit the model shows: a restart is seen as a sequence that does
not advance, so where the first messages of the new process are lost until its
numbers pass the old ones, nothing tells the reader. `ResidencyIsExact` is
stated for an engine that was heard and lost nothing since it started.

What decoding and writing loses is only what a double cannot hold: an integer
beyond 2^53 in a number field, which validation accepts there, comes back as the
nearest double (`Held`). `tools/gen-telemetry-corpus.py:55-56` and the
specification warn of this rounding for identities, which are strings for that
reason; an integer field, and a large integer in a field no version defines, stay
exact.

Three things do not survive the columnar form, and `TwinKeepsTheRecord` says so.
The type of a non-string extension: it comes back as text, by design. A null:
`rows` writes a null cell (`tools/gen-parquet-twin.py:73`), which
`spec/kv-cache-v2.md:100` reads as *absent*. A `store` with an unknown tier has
`tier: null`, required by its schema and pinned by
`telemetry/tier_absent_stays_null`, and read back from its row it lacks a
required field. And in an endpoint, whatever its definition does not name: the
struct type has only the catalogued fields (`tools/gen-parquet-twin.py:34-47`),
`rows` hands it the object as it is (line 73), and the encoder drops the other
keys, which at the top level the `extra` map carries. Line 99 of the
specification has it that the record model is identical in both forms, and
`docs/architecture.md:4` that both carry the same records.

### kvload

Each `with lock:` block is split at its two ends: a step that takes the lock and
reads the counters, the number to take included, and one that writes what it
made of them and releases. So a lost update would show, were the lock not held
in between: under the mutant that acquires without it two requests carry one
number. `PostKills` is an exception outside
`URLError`, `OSError` and `TimeoutError`: nothing in `worker` catches it and the
thread ends. Prompts, progress lines and elapsed times are left out.

### kvcap

The loop's condition and its poll are separate steps, so the clock and the queue
move between them. Of a payload only the shape is kept, and whether it is made
of lists, which decides whether it contributes to the signature. The publisher
numbers its messages from zero or sends them without the eight-byte number
(`kvcap.py:120-123`), in which case the line has none and the report leaves it
out of `seqs`; it drops what nobody receives and may restart as the one kind or
the other. It and the clock are the environment.

### Compatibility

A schema is a definition per record kind: for each field the set of values
admitted, the required set, and one conditional from fields to fields.
`Conditional` says where the conditional is written: inside `allOf`, as the
schema's own are, or directly in the definition, which `schema_profile.py` also
permits and `compare` treats differently. `Edit` changes one rule within the
profile, `Release` is preflight's loop over every baseline. `Valid` gives a
document its JSON Schema meaning and is what the properties compare; extensions
are allowed, so fields without a rule are. Annotations, nested structures, `not`,
`required` inside a conditional, and bounds are left out.

## What is checked

Every passing run checks deadlock unless its configuration says otherwise, and
those that do are systems that may stop: bounds are reached, the load or the
capture ended.

| Run | Question | Bounds, and why they are enough |
| --- | --- | --- |
| `ReaderCorpus` | one set of rules for every fixture, in any order? | none beyond the corpus itself: all 61 fixtures, all orders |
| `DeliveryLoss` | is *exact* true, has every gap a cause, do holes close? | one run, three positions, ring of one, two events, one spoiled segment: first, middle and last segment can each be lost, or late, in each way |
| `DeliveryBoundary` | one segment per identity, time between runs uncovered, the newest retained, *exact* final, the segment store kept? | two runs of two positions, each crashing anywhere; the second recovers what the first left, reclaims it through a ring of one and declares it; one spoiled segment. Only a later run can say anything new of a closed one |
| `Shipping` | is no segment lost or doubled, and does each arrive? | two segments through a ring of one, so one can be reclaimed while it is listed or sent; three hours with a lookback of one; one fault, a power cut in each of its outcomes. The safety theorems need no bound |
| `Transduction` | residency, parents, identities; round trips | three messages: store, lose or evict or clear, and store again; one lost, each engine restarted once; hashes of two bits, so each of SGLang's signs occurs and two processes reuse a hash; an integer width that has every end apart, doubles exact well below it and too coarse for the integers above |
| `KvLoad` | numbers, budget, reset, summary, end | three workers on five requests: two contend while a third is in flight, and each worker can die |
| `KvCap` | gaps, shapes, size, end | queue of two, five messages of which four are taken, two restarts, each process with or without numbers, a limit of two below three shapes |
| `Compatibility` | are releases of one major compatible both ways? | three releases with a detour between the first and the last, two majors of two minors, two kinds, fields and values, two edits; kinds and fields are symmetric |

Four runs end in a violation. Each checks what a comment or a document of the
repository says against what the code does; `PROJECT.json` quotes the lines.

- `DeliveryDrops` (`DropIsRecordedTwice`): a drop is said to be recorded twice,
  the second time as a gap among the segments that arrived. Oldest-first
  dropping takes a prefix, which leaves a sequence that begins above zero, and
  that is by the reader corpus no gap.
- `ReaderProvenance` (`ProvenanceIsNotTheContracts`): the liveness bounds are
  fields of the contract and are expected as provenance.
- `KvCapMaps` (`VarietyIsKept`): past `--hex-limit` messages whose events are
  maps share one empty signature and are not kept, whatever their shape.
- `CompatibilityDirect` (`ConstraintsNeedAMajor`): a field constraint added
  under a conditional that is not in `allOf` passes as an addition. Running
  `check-compatibility.py` on such a pair prints `additive`. The present schema
  has none.

Every property has a mutant: a plausible mistake in one definition, under which
TLC finds the property violated. They stand before the definition they replace,
marked `Mutant`.

### Fairness

- Delivery: only the shipper is fair (`WF` on shipping some segment): it is a
  loop over the directory. The producer owes nothing and may stop forever.
- Shipping: conversion, recovery (which includes the restart of a dead
  producer, a service its host restarts), the shipper and the reader's discovery
  are weakly fair, each a loop. Sealing, the ring, the clock and failures owe
  nothing.
- kvload: every thread is weakly fair, since `post` has a timeout and the lock
  is held for two assignments; `Join` and `Reset` because join returns and the
  reset has a timeout too.
- kvcap: the loop is weakly fair because `poll(500)` returns, and time passes.
  The publisher is not fair.

## What is proved

Each proof module states an inductive invariant, proves that `Init` implies it
and every action keeps it, and derives the theorems. All hold for every value of
the constants under the assumptions named in the modules (`DeliveryAssumption`,
`ShippingAssumption`, `KvLoadAssumption`, `KvCapAssumption`,
`CompatibilityAssumption`, `SecondAssumption`, `AllowanceAssumption`,
`WidthAssumption`, `ScaleAssumption`, `HashAssumption`, `BoundAssumption`). The
last four say that a 32-bit number is below 2^53 and that fits a signed 64-bit
integer; that some size of step lets a double reach the largest integer; that
the engine has a hash for each of the four texts; and that the sequence numbers
and clocks of the messages are small enough for a double to be exact.

**DeliveryProofs.** Every safety property of the runs: `TypeCorrect`,
`IdentityIsUnique` (`OneSegmentPerIdentity`), `ExactAbsence`
(`ExactAbsenceIsMeasured`), `OldestGoFirst` (`RetentionKeepsTheNewest`),
`GapsAreCaused` (`EveryGapHasACause`), `DownTimeIsSeen` (`DownTimeIsUncovered`)
and `ExactIsFinal` (`ExactIsNeverRetracted`); and `Refinement`
(`StoreIsKept`).
Uniqueness needs `Numbering`: the active file is above every sealed segment of
its run and below the counter, and every position under a segment was sealed.
`ExactAbsence` needs three more parts. `Bracketed`: a start record is only in
position zero and a stop record only in the last position, stamped with the
times the run really had. So a stream that has both and no hole has the whole
run. `Accounted`: each event published while a run observed is
in one of its files, or counted by its `dropped`, or the run never stopped.
`Lifecycle` and `Sequential` carry the order of a run's steps. A counted bracket
has a stop record with counter zero, so the event is in a file, the file is in
the stream, and the stream holds it (`HoldsWholeRun`, `BracketIsTheRun`).

The others rest on that invariant and one more each. `Retained`: what is yet
to be sealed is younger than all that is sealed, an orphan included, so a seal
never puts something old on disk; that a reclaim takes the oldest is a count
over the finite ring (`ExcessIsOlder`). `Caused`: a sealed segment is on disk,
with the reader, reclaimed or spoiled, and behind a counter that is not zero is an
event no file records, which stays so because event numbers are fresh.
`Timed`: runs do not overlap, and a record that counts as an observation lies
between its run's start and end. Hence the span a reader takes for a run is
inside the run, whichever segments it holds (`SpanIsInside`), and the last known
run before an interruption and the first after it bound a window with no other
run in it. `Apart`: what the ring dropped was not shipped. A reader that counts a
bracket holds the whole run, so nothing of the run is left to arrive, or to be
declared dropped.

`Refinement` puts `Numbering`, `Retained` and `Apart` together: the first two
give the order in which the store seals, `Retained` and the reclaim's count the
order in which it drops. Two theorems say what a reader may conclude before
everything has arrived. `HolesAreOwed`: where it sees a hole in a run, a segment
of that run is on the disk, reclaimed or spoiled, at any time and whatever
crashed: every position under a segment was sealed. `WindowsAreApart`: its
uncovered windows do not overlap and have no observation inside.

**ShippingProofs.** `TypeCorrect`, `CopiesSurvive` (`CopySurvives`),
`BatchesAreUnique` (`OneBatchPerSegment`), `DiscoveryIsComplete`
(`NothingBehindTheWatermark`) and `Refinement`: every behaviour implements
`SegmentStore`'s safety part. They hold for any number of segments, hours and
faults; the run has one fault. `CopySurvives` is far from inductive. `DiskInv`
says what each segment may hold in every state a cut may leave (`Sane`), and
`JobInv` refines it at each step of its conversion: after the file sync no
surviving temporary differs from the file, after verification it is the twin
wherever it survives, after the directory sync no cut state is without the
Parquet. `ShipperInv` says that what is listed or sent is a final Parquet file
and that an upload under way is within the lookback, without which
`NothingBehindTheWatermark` would not survive the reader's next listing.
`Refinement` takes `Drop`'s guard from the ring's order and `DiskInv`: an older
sealed segment no longer in the directory was shipped, dropped or exposed.

The safety half of "each segment arrives" is proved as well, in two theorems.
`NothingIsStranded`: while a sealed segment has not arrived, was not dropped and
is not exposed, some step of the conversion, the recovery, the shipper or the
discovery has its guard true. `ProgressInv` is what it adds: what is being sent
is in the listing, and what is being converted has its source.
`EveryStepCounts`: every step but a fault lowers `Work`, a natural number, and
faults are bounded. `Work` counts per segment what its conversion, upload and
discovery still need (`Left`), the producer's phase and the hours left. It is
the size of the set `Tokens`, a segment with each number up to its `Left`, so
that a sum over all segments needs no fold: where no segment has more left and
one has less, the set is a proper subset. A conversion that verification refuses
is one of the faults: it puts a segment back to the start of its work.

**KvLoadProofs.** `TypeCorrect`, `DistinctNumbers`, `KeptBudget`, `ResetIsLast`,
`TrueSummary`. The invariant says that only the lock's holder is between check
and claim (`ClaimsAreLocked`), that numbers `1..done` are each posted or about
to be by one worker (`NumbersAccounted`), and that errors and requests in flight
together do not exceed `done` (`ErrorsAccounted`). `NobodyIsStuck` adds that the
lock is held only by a worker about to claim and release it, so some thread can
always go on; `EveryStepCounts` that every step lowers `Effort`: four times the
numbers not yet given out, and for each worker the steps to its next look at the
budget.

**KvCapProofs.** `TypeCorrect`, `ListShapesStored` (`ListShapesAreKept`),
`NoFalseGap` (`GapsAreLosses`), `FileBounded` (`FileIsBounded`),
`NothingIsMislaid` (a published message is in the file, queued or lost, and one
of them only) and `ReportIsNear` (once the duration has passed each step of the
loop lowers `StepsLeft`, which is at most two, and nobody else raises it), for
any queue, limit, publisher and set of shapes. The invariant `Novelty` ties the two
sides of the test together: every line's signature was seen, and every list
signature seen has a line with its payload. `Room` is why a count tested before
the poll still holds at the receive. `Limit` counts: a payload past the limit
brought a signature that was new. `Losses` is stronger than
the property: a report reads only the file, but what it will count later is
settled earlier, so the invariant counts over the file, the queue and the
numbers the publisher has passed since (`Tally` is the report's loop, message by
message, by a step equation in place of the fold; a message without a number
leaves it as it is), and says that all it would come to with the publisher's
next number (`Expected`) is lost already.

**ReaderProofs.** The corpus has 61 concrete streams, and that one set of rules
meets them all is an evaluation, TLC's. What the run adds, every order and
repetition, is a theorem: `ArrivalDoesNotCount` takes the verdicts of a
fixture's segments as its hypothesis (the final state of the run shows it for
each) and concludes `CorpusVerdicts` always. The other theorems are about the
rules, for every stream whatever it holds, so also for those the corpus has no
fixture of. `EvidenceStays`: of the evidence of loss, later segments take back
only a hole, and that only if one of them is of the run. `IndeterminateStays`: so
a holder register a loss made indeterminate stays it. `ReopenedWasClosed`:
two families, recompute and residual, tell one story of a block, but where a
store and its eviction bear one time; they were written apart.
`TagsAreDecided` is the lemma that no slice takes what its interval excludes.

**WireModelProofs.** Lemmas about the crate, for every JSON value and every
integer width: `ValidRecordsDecode` (what `validate` accepts can be decoded),
`WrittenIsReadBack` (what `to_value` wrote is what is read from it),
`DecodedIsKept` (decoding and writing keeps what the document said, a number
field as the nearest double), and `RowsKeepTheRecord` (so does the row of a
record its columns can hold, but for the type of a non-string extension and what
an endpoint has beside its definition). What they need of doubles is little:
every number has a nearest one, a double is its own, and up to 2^53 every
integer is one. They go over the schema by its shapes: a rule is a number, a text, a
list, a structure; each shape has its own lemma about what meets it, what
normalising makes of it and what is written, and a definition is a map from
fields to such rules. So the proof does not run over the documents that TLC
tries. `ProgramInv` is the four properties of the program and that what may yet
be edited is a typed record of a known kind.

**TransductionProofs.** Two parts. Of any event an engine can derive
(`Event`: fields and their ranges, not the events of this instance),
`RecordsAreValid` says the crate accepts its record, and `FormsAgree` that a
record without a null is one the columns can hold (`Columnar`), and is the same
with its integers written as floats, relayed by a program that decoded that, and
as a row.

The engines: the inductive invariant is `EngineInv`.

- `EngineOK`, per engine: a process the producer has not heard, of which nothing
  was lost, has said nothing and so holds nothing; once it is heard and nothing
  is lost, the last number seen is the one before the next, and the reader's
  entries of this engine are exactly its cache. A producer that has seen nothing
  of an engine has told the reader nothing of it.
- `HeldOK` and `NamedOK`: the reader holds only names a hash can have, and an
  identity was given to the text it names.
- `BatchOK`: each record of the last message is that of an event which is true
  of its block, its parent and its identity included.

Without `EngineOK` nothing could be said after a restart: that the reset is
derived is what keeps a new process' empty cache and the reader's empty part
together. `Delivers` states one message, and is proved per kind of message and
engine: whatever the reader had, it then has other engines' entries unchanged,
and, if it was exact, exactly the new cache. Under it, `Folds` states what a
reader's reading of a batch is record by record (a function with a step
equation, so that the only induction is one up to a number, `UpTo`),
and that two texts of one process never share a hash, signed or not. Theorems:
`EngineCorrect`, `TypeCorrect`, `ResidencyExact` (`ResidencyIsExact`),
`ParentsTrue` (`ParentsAreTrue`), `IdentityContent` (`IdentityIsContent`),
`EveryForm` (`EveryFormIsTheRecord`); and of the program of the same
specification, `AcceptedDecode`, `EditsCaught`, `DecodeKeeps` and `TwinKeeps`.
They hold for any number of messages, losses and restarts, any hash space, any
integer width and any such doubles. Texts, places, engines and the documents of
`RecordRoundTrip` are definitions, not constants, and stay those of the model.

**CompatibilityProofs.** `TypeCorrect`, `VersionIsUnique`,
`MinorReadsOldSegments`, `OldReadersReadNewSegments`, the last two assuming
`Conditional = "allOf"`. The invariant is that of two releases one was checked
against the other. Within a major no breaking difference is then possible, so
each kind and field of the older release is in the newer with the same rule
(`MinorKeepsRules`). Between equal versions no difference at all is possible.

## What is only model-checked

- Liveness: `HolesClose`, `Termination`, `Reports`, and the last conjunct of
  `SegmentStore!Spec` within `StoreIsImplemented`. `ENABLED` and fairness are
  outside the provers' reach. For the last three what can be said without them
  is proved for every value of the constants: while work is left some process
  has a step, and each step lowers a natural number (`NothingIsStranded`,
  `NobodyIsStuck`, `ReportIsNear` and the two `EveryStepCounts`); for
  `HolesClose`, that a hole is a segment on its way or lost (`HolesAreOwed`).
  What stays with TLC is that the guard stated is the one that is enabled, and
  that a fair process takes the step.
- That the rules meet each of the 61 fixtures, the hypothesis of
  `ArrivalDoesNotCount`: an evaluation of concrete streams.
- What the recursive parts of `ReaderResidency` compute of a stream, beyond the
  fixtures: induction over data.

Every other property of a passing run is the statement of a theorem.

## What is not modelled

- The lifecycle, identity and backend corpora: they print example records and
  test vectors, without a decision.
- What the schema generator prints (Rust text, the field reference) and its
  `--check`; the profile's rules about names and column types.
- The release checks: comparisons of file trees and hashes in a fixed order. One
  remark from reading them: `check-generation.py` regenerates over a copy of
  `conformance/`, and the schema, delivery, lifecycle, identity, backend and
  Parquet generators remove no old file. An artifact that one of them no longer
  writes is thus the same on both sides and passes.
- `kvinspect.py` and `saltprobe.py`: they read a finished capture and print.
- In the wire corpora, how captured payloads are chosen and stored.
- Error paths and texts of the validator, and fields copied without a decision.

## Plan

Done, in this order: reader records and verdicts with the corpus; the delivery
layer over them; the capture tools; the release policy and their proofs; the
path of a sealed segment with its abstract specification and its proofs; the
wire derivations, telemetry, the record model and its columnar form in one
composition; the theorems about these and about every safety property of the
other runs; the segment store as the promise of the ring too; the measures and
guards behind each liveness property; the reader's rules for every stream.

What a next step would be, most important first:

1. The release steps in `Compatibility`: generated files that may be stale
   between an edit and preflight.
2. `Delivery` over a directory with names, so that recovery of the active file
   and `Shipping`'s conversion run on one disk.

## Running

    tlc -workers 2 -config DeliveryLoss.cfg Delivery.tla
    tlc -workers 2 -config Transduction.cfg Transduction.tla
    tlapm DeliveryProofs.tla
    tlapm TransductionProofs.tla    (the longest)
