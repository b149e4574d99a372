------------------------------ MODULE Delivery ------------------------------
(***************************************************************************)
(* The delivery layer: successive runs of one producer on one node, the    *)
(* directory they share, the shipper and the reader.  None of the three    *)
(* programs is in this repository.  What they must do is stated by         *)
(* tools/gen-delivery-corpus.py, whose functions build the records and     *)
(* whose docstrings say when each is written, and by the rules of          *)
(* conformance/delivery/layout.json that the corpus accompanies; the       *)
(* actions below are modelled from those.                                  *)
(*                                                                         *)
(* A run writes its records to an active file whose header is made durable *)
(* before anything else, seals it, and the sealed segments wait in a ring  *)
(* on disk that drops its oldest members past a cap and declares what it   *)
(* dropped.  A run that finds the active file of a crashed predecessor     *)
(* files it under the identity in its header, or unlinks it when there is  *)
(* no header.  The shipper moves sealed segments in no particular order;   *)
(* transport may spoil one; the reader ingests whole segments.             *)
(*                                                                         *)
(* Engine time and producer time are the same counter here: one node.      *)
(***************************************************************************)
EXTENDS ReaderContinuity

CONSTANTS MaxRuns,     \* bound: producer runs
          MaxSeq,      \* bound: segments of one run are 0..MaxSeq
          MaxTime,     \* bound: the clock
          MaxRecords,  \* bound: records in one segment before it must seal
          MaxEvents,   \* bound: cache events the engine publishes
          MaxSpoiled,  \* bound: segments spoiled in transport
          Cap          \* the ring's capacity in sealed segments

ASSUME DeliveryAssumption ==
  /\ MaxRuns \in Nat \ {0}
  /\ {MaxSeq, MaxTime, MaxRecords, MaxEvents, MaxSpoiled, Cap} \subseteq Nat

Runs == 1..MaxRuns
Instance == "i0"

VARIABLES
  now,        \* the node's clock
  run,        \* the current or latest incarnation; 0 before the first
  phase,      \* "down", "recovering" or "running"
  nextSeq,    \* the writer's counter of segments opened in this run
  dropped,    \* the run's cumulative count of messages lost on the way in
  discard,    \* declarations the run's first segment still owes
  active,     \* the file active.jsonl
  durable,    \* whether its header reached the disk
  disk,       \* the ring: sealed segments that have not shipped
  held        \* what the reader ingested

\* History: what really happened, for stating the properties.
VARIABLES
  published,  \* the events the engine published
  began,      \* when each run wrote its agent_start (-1: it did not)
  ended,      \* when each run stopped or crashed (-1: it did not)
  sealed,     \* every segment ever sealed
  reclaimed,  \* segments the ring dropped
  spoiled     \* segments transport spoiled

producer == <<run, phase, nextSeq, dropped, discard>>
file == <<active, durable>>
delivery == <<disk, held>>
history == <<published, began, ended, sealed, reclaimed, spoiled>>
vars == <<now, producer, file, delivery, history>>

-----------------------------------------------------------------------------
\* Mutant: the header takes the identity of whoever holds the file.
NewSegment_ByFinder(r, q, records) ==
  [incarnation |-> IF r = 0 THEN 0 ELSE run, segment_seq |-> q, records |-> records]

NewSegment(r, q, records) ==
  [incarnation |-> r, segment_seq |-> q, records |-> records]

\* Incarnations are numbered from 1; 0 stands for no file.
NoFile == NewSegment(0, 0, <<>>)

\* The writer may append: its own file is open and its header is on disk.
Writing == phase = "running" /\ durable

\* The active file, keeping its identity, with these records.
Holding(records) ==
  NewSegment(active.incarnation, active.segment_seq, records)

Write(records) == active' = Holding(active.records \o records)

\* The active file becomes a sealed segment with these records.
SealActive(records) ==
  /\ disk' = disk \cup {Holding(records)}
  /\ sealed' = sealed \cup {Holding(records)}
  /\ active' = NoFile
  /\ durable' = FALSE

Init ==
  /\ now = 0
  /\ run = 0 /\ phase = "down" /\ nextSeq = 0 /\ dropped = 0 /\ discard = <<>>
  /\ active = NoFile /\ durable = FALSE
  /\ disk = {} /\ held = {}
  /\ published = {} /\ sealed = {} /\ reclaimed = {} /\ spoiled = {}
  /\ began = [r \in Runs |-> -1] /\ ended = [r \in Runs |-> -1]

-----------------------------------------------------------------------------
\* The producer's life.

\* A run is a fresh incarnation; its sequence and counters start at zero.
Start ==
  /\ phase = "down" /\ run < MaxRuns
  /\ run' = run + 1
  /\ phase' = "recovering"
  /\ nextSeq' = 0 /\ dropped' = 0 /\ discard' = <<>>
  /\ UNCHANGED <<now, file, delivery, history>>

\* An orphan whose header survived is sealed under its own identity, its torn
\* tail discarded and a trailer naming the discard appended.
RecoverAttributed ==
  /\ phase = "recovering" /\ active # NoFile /\ durable
  /\ \E kept \in 0..Len(active.records) :
       SealActive(Append(SubSeq(active.records, 1, kept),
                         SegmentRecovered(TRUE, now)))
  /\ UNCHANGED <<now, producer, held, published, began, ended, reclaimed, spoiled>>

\* A file without a header belongs to no sequence: it is unlinked, and the
\* discard declared in the finder's own first segment.
RecoverUnattributed ==
  /\ phase = "recovering" /\ active # NoFile /\ ~durable
  /\ discard' = Append(discard, SegmentRecovered(FALSE, now))
  /\ active' = NoFile
  /\ UNCHANGED <<now, run, phase, nextSeq, dropped, durable, delivery, history>>

\* Mutant: the counter also advances for the segment that was just sealed.
OpenSegment_SkipsOne ==
  /\ phase \in {"recovering", "running"} /\ active = NoFile
  /\ nextSeq <= MaxSeq
  /\ active' = NewSegment(run, nextSeq, <<>>)
  /\ nextSeq' = nextSeq + 2
  /\ phase' = "running"
  /\ UNCHANGED <<now, run, dropped, discard, durable, delivery, history>>

OpenSegment ==
  /\ phase \in {"recovering", "running"} /\ active = NoFile
  /\ nextSeq <= MaxSeq
  /\ active' = NewSegment(run, nextSeq, <<>>)
  /\ nextSeq' = nextSeq + 1
  /\ phase' = "running"
  /\ UNCHANGED <<now, run, dropped, discard, durable, delivery, history>>

\* The header is fsync'd before any data record.  In the first segment the
\* discard declarations and the start record follow it.
SyncHeader ==
  /\ phase = "running" /\ active # NoFile /\ ~durable
  /\ durable' = TRUE
  /\ \/ /\ active.segment_seq = 0
        /\ Write(Append(discard, AgentStart(now)))
        /\ began' = [began EXCEPT ![run] = now]
        /\ discard' = <<>>
     \/ /\ active.segment_seq # 0
        /\ UNCHANGED <<active, began, discard>>
  /\ UNCHANGED <<now, run, phase, nextSeq, dropped, delivery,
                 published, ended, sealed, reclaimed, spoiled>>

-----------------------------------------------------------------------------
\* The engine publishes an event, and what becomes of it.

Publish == /\ Cardinality(published) < MaxEvents
           /\ published' = published \cup {[id |-> Cardinality(published), at |-> now]}

Record ==
  /\ Publish
  /\ Writing /\ Len(active.records) < MaxRecords
  /\ Write(<<Store(Instance, 0, Cardinality(published), now)>>)
  /\ UNCHANGED <<now, producer, durable, delivery, began, ended, sealed, reclaimed, spoiled>>

\* The producer counts a message it lost on the way in.
Drop ==
  /\ Publish
  /\ Writing
  /\ dropped' = dropped + 1
  /\ UNCHANGED <<now, run, phase, nextSeq, discard, file, delivery,
                 began, ended, sealed, reclaimed, spoiled>>

\* Nobody listens: the transport is publish-subscribe.
Miss ==
  /\ Publish
  /\ phase # "running"
  /\ UNCHANGED <<now, producer, file, delivery, began, ended, sealed, reclaimed, spoiled>>

-----------------------------------------------------------------------------
\* What the running producer writes of its own accord.

Beat ==
  /\ Writing /\ Len(active.records) < MaxRecords
  /\ Heartbeat(now, dropped, {Instance}) \notin Range(active.records)
  /\ Write(<<Heartbeat(now, dropped, {Instance})>>)
  /\ UNCHANGED <<now, producer, durable, delivery, history>>

Seal ==
  /\ Writing /\ nextSeq <= MaxSeq
  /\ SealActive(active.records)
  /\ UNCHANGED <<now, producer, held, published, began, ended, reclaimed, spoiled>>

Stop ==
  /\ Writing
  /\ SealActive(Append(active.records,
                       Envelope("agent_stop", now, dropped, {Instance})))
  /\ phase' = "down"
  /\ ended' = [ended EXCEPT ![run] = now]
  /\ UNCHANGED <<now, run, nextSeq, dropped, discard, held,
                 published, began, reclaimed, spoiled>>

Crash ==
  /\ phase # "down"
  /\ phase' = "down"
  /\ ended' = [ended EXCEPT ![run] = now]
  /\ UNCHANGED <<now, run, nextSeq, dropped, discard, file, delivery,
                 published, began, sealed, reclaimed, spoiled>>

-----------------------------------------------------------------------------
\* The ring.

\* Mutant: within a run the newest goes first.
Older_Inverted(s, t) ==
  \/ s.incarnation < t.incarnation
  \/ s.incarnation = t.incarnation /\ s.segment_seq > t.segment_seq

\* Oldest first: by incarnation, then by sequence number as a number.
Older(s, t) ==
  \/ s.incarnation < t.incarnation
  \/ s.incarnation = t.incarnation /\ s.segment_seq < t.segment_seq

Excess == {s \in disk : Cardinality({t \in disk : Older(t, s)})
                          < Cardinality(disk) - Cap}

\* One record per incarnation whose segments were dropped, whoever drops them.
DropRecords(gone) ==
  {SegmentsDropped(r, Min(SeqsOf(gone, r)), Max(SeqsOf(gone, r)), now) :
     r \in Incarnations(gone)}

Reclaim ==
  /\ Writing /\ Excess # {}
  /\ disk' = disk \ Excess
  /\ \E list \in [1..Cardinality(Incarnations(Excess)) -> DropRecords(Excess)] :
       /\ Range(list) = DropRecords(Excess)
       /\ Write(list)
  /\ reclaimed' = reclaimed \cup Excess
  /\ UNCHANGED <<now, producer, durable, held,
                 published, began, ended, sealed, spoiled>>

-----------------------------------------------------------------------------
\* Shipper, transport, reader: a segment leaves the disk and is ingested whole,
\* or arrives as a file that cannot be opened and commits nothing.

\* Mutant: shipping copies, and the ring later drops what already arrived.
Ship_Copies(s) ==
  /\ held' = held \cup {s}
  /\ UNCHANGED <<now, producer, file, disk, history>>

Ship(s) ==
  /\ disk' = disk \ {s}
  /\ held' = held \cup {s}
  /\ UNCHANGED <<now, producer, file, history>>

Spoil(s) ==
  /\ Cardinality(spoiled) < MaxSpoiled
  /\ disk' = disk \ {s}
  /\ spoiled' = spoiled \cup {s}
  /\ UNCHANGED <<now, producer, file, held, published, began, ended, sealed, reclaimed>>

Tick ==
  /\ now < MaxTime
  /\ now' = now + 1
  /\ UNCHANGED <<producer, file, delivery, history>>

Produce ==
  \/ Start \/ RecoverAttributed \/ RecoverUnattributed
  \/ OpenSegment \/ SyncHeader
  \/ Record \/ Drop \/ Miss \/ Beat \/ Seal \/ Stop \/ Crash \/ Reclaim

Deliver ==
  \E s \in disk : Ship(s) \/ Spoil(s)

Next == Produce \/ Deliver \/ Tick

Spec == Init /\ [][Next]_vars

\* The shipper keeps working; the producer owes nothing.
FairSpec == Spec /\ WF_vars(\E s \in disk : Ship(s))

-----------------------------------------------------------------------------
IsSegment(s) == /\ s = NewSegment(s.incarnation, s.segment_seq, s.records)
                /\ s.incarnation \in Runs
                /\ s.segment_seq \in 0..MaxSeq

TypeOK ==
  /\ now \in 0..MaxTime
  /\ run \in 0..MaxRuns
  /\ phase \in {"down", "recovering", "running"}
  /\ nextSeq \in 0..(MaxSeq + 1)
  /\ dropped \in Nat
  /\ active = NoFile \/ IsSegment(active)
  /\ durable \in BOOLEAN
  /\ \A s \in sealed : IsSegment(s)
  /\ \A e \in published : e.at \in 0..now
  /\ disk \cup held \cup reclaimed \cup spoiled \subseteq sealed
  /\ began \in [Runs -> -1..now]
  /\ ended \in [Runs -> -1..now]

\* No segment is under way anywhere.
Drained == active = NoFile /\ disk = {}

(***************************************************************************)
(* Identity lives in the header, so a position of a run names one segment  *)
(* and one only, whoever sealed it.  Filing an orphan under its finder     *)
(* would corrupt both sequences while every file stays well formed.        *)
(***************************************************************************)
OneSegmentPerIdentity ==
  \A s, t \in sealed :
    s.incarnation = t.incarnation /\ s.segment_seq = t.segment_seq => s = t

(***************************************************************************)
(* Absence is exact only where it was measured: when the reader states an  *)
(* exact register over a span, every event the engine published inside it  *)
(* is in the reader's stream, whatever was lost, torn or reclaimed.        *)
(***************************************************************************)
Holds(S, e) == \E x \in OfKind(RecordsIn(S), "store") : x.block_id = e.id

ExactAbsenceIsMeasured ==
  \A from, to \in 0..now :
    AbsenceRegister(held, from, to) = "exact" =>
      \A e \in published : from < e.at /\ e.at < to => Holds(held, e)

(***************************************************************************)
(* A producer observes nothing while it is not running: time between two   *)
(* runs is inside an uncovered window as soon as the reader knows a run on *)
(* either side, also when the earlier run crashed and its last segment was *)
(* sealed, and stamped, by a later one.                                    *)
(***************************************************************************)
DownTimeIsUncovered ==
  \A p, q \in RunsCovering(held, Instance) :
    \A r \in p..(q - 1) :
      ended[r] < began[r + 1] =>
        \E w \in Uncovered(held, Instance) :
          w[1] <= ended[r] /\ began[r + 1] <= w[2]

(***************************************************************************)
(* A reader does not fabricate gap evidence: once nothing is under way,    *)
(* every detected class has a loss of its own kind behind it.              *)
(***************************************************************************)
EveryGapHasACause ==
  Drained =>
    \A r \in Runs :
      /\ HasHole(held, r) => SegmentsOf(reclaimed \cup spoiled, r) # {}
      /\ HasDroppedDelta(held, r) => \E e \in published : ~Holds(held, e)
      /\ DeclaredDrops(held, r) # {} => SegmentsOf(reclaimed, r) # {}

(***************************************************************************)
(* Retention drops the oldest first across runs and recoveries: whatever   *)
(* is still on disk is newer than everything the ring ever dropped, which  *)
(* is what lets a surviving window be read as the most recent one.         *)
(***************************************************************************)
RetentionKeepsTheNewest ==
  \A s \in reclaimed, t \in disk :
    \/ s.incarnation < t.incarnation
    \/ s.incarnation = t.incarnation /\ s.segment_seq < t.segment_seq

(***************************************************************************)
(* The promise of the ring and its transport: segments are sealed in the   *)
(* order of their age, without a gap in a run, by whichever run; each      *)
(* leaves by shipping, or by a drop that takes nothing while an older one  *)
(* stays.                                                                  *)
(***************************************************************************)
Positions == Runs \X (0..MaxSeq)

At(S) == {<<s.incarnation, s.segment_seq>> : s \in S}

Ring == INSTANCE SegmentStore WITH
  Segments <- Positions,
  Earlier <- {p \in Positions \X Positions :
                \/ p[1][1] < p[2][1]
                \/ p[1][1] = p[2][1] /\ p[1][2] < p[2][2]},
  SameRun <- {p \in Positions \X Positions : p[1][1] = p[2][1]},
  sealed <- At(sealed), shipped <- At(held \cup spoiled), arrived <- At(held),
  dropped <- At(reclaimed), waived <- {}

StoreIsKept == Ring!Safety

(***************************************************************************)
(* gen-delivery-corpus.py: a drop is "recorded twice on purpose", in-band  *)
(* and "structurally as a gap in segment_seq among the segments that did   *)
(* arrive".  So once nothing is under way and a later segment of the run   *)
(* did arrive, a dropped position is a hole in the observed sequence.      *)
(***************************************************************************)
DropIsRecordedTwice ==
  Drained =>
    \A s \in reclaimed :
      (\E t \in held : t.incarnation = s.incarnation /\ Older(s, t)) =>
        HasHole(held, s.incarnation)

(***************************************************************************)
(* An exact register is final: nothing that arrives later takes it back.   *)
(* In particular no later run declares dropped what was already shipped.   *)
(***************************************************************************)
ExactIsNeverRetracted ==
  [][\A from, to \in 0..now :
       AbsenceRegister(held, from, to) = "exact" =>
         AbsenceRegister(held', from, to) = "exact"]_vars

(***************************************************************************)
(* Segments ship in any order, so a hole may appear on the way.  With a    *)
(* shipper that keeps working every hole closes for good, except in a run  *)
(* that lost a segment on the way: shipping late is never mistaken for     *)
(* losing, however long it takes.                                          *)
(***************************************************************************)
HolesClose ==
  <>[](\A r \in Runs :
         HasHole(held, r) => SegmentsOf(reclaimed \cup spoiled, r) # {})
=============================================================================
