------------------------------ MODULE Shipping ------------------------------
(***************************************************************************)
(* From a sealed segment on the node's disk to the reader: the conversion  *)
(* of its write-ahead JSONL to Parquet, the recovery after a crash, the    *)
(* ring, the shipper and the reader's discovery, as the rules of           *)
(* conformance/delivery/layout.json prescribe them.  The programs that     *)
(* follow the rules are not in the repository.                             *)
(*                                                                         *)
(* A directory is modelled as a power cut treats it: beside the entries    *)
(* that every process sees, "cut" holds each state a cut may leave behind, *)
(* and grows with an operation until a sync.  Only a sync orders           *)
(* operations, which is what a portable protocol may assume.               *)
(*                                                                         *)
(* Delivery models what the segments say; here they have no contents but   *)
(* their wholeness.  Sealing is one durable step, and Delivery's subject.  *)
(***************************************************************************)
EXTENDS Integers, FiniteSets

CONSTANTS MaxSeq,      \* bound: the segments of the run are 0..MaxSeq
          MaxHour,     \* bound: the clock, in hours
          MaxFaults,   \* bound: process deaths, power cuts and bad conversions
          Cap,         \* the ring's capacity in sealed segments
          Lookback     \* how far behind its watermark a listing reaches

ASSUME ShippingAssumption ==
  {MaxSeq, MaxHour, MaxFaults, Cap, Lookback} \subseteq Nat

Segments == 0..MaxSeq
NoSegment == -1

\* The names a segment goes by in the directory.
Names == {"active", "jsonl", "tmp", "parquet"}

\* What is behind a name: nothing, bytes that will change or were torn, the
\* records as JSON lines, the same records as Parquet.
Contents == {"none", "part", "lines", "twin"}

Entries == [Names -> Contents]

VARIABLES
  files,     \* the directory: the entries of each segment
  cut,       \* the entries a power cut now may leave of each
  phase,     \* the producer: "down", "recovering" or "running"
  job,       \* the segment under conversion
  step,      \* the last step of its conversion
  queue,     \* what the shipper has listed and not tried yet
  sending,   \* the object under upload
  bucket,    \* the objects uploaded, each under its hour
  watermark, \* the hour of the reader's latest discovery
  ingested,  \* the batches the reader took, known by their content
  now,       \* the hour
  faults     \* how many faults have happened
\* History.
VARIABLES
  sealed,    \* every segment sealed
  dropped,   \* every segment the ring declared dropped
  exposed    \* segments whose JSONL recovery deleted on an unsynced rename

disk == <<files, cut>>
producer == <<phase, job, step>>
shipper == <<queue, sending>>
reader == <<watermark, ingested>>
history == <<sealed, dropped, exposed>>
vars == <<disk, producer, shipper, bucket, reader, now, faults, history>>

-----------------------------------------------------------------------------
\* Faults are few, and counted together.
Fault == faults < MaxFaults /\ faults' = faults + 1

\* The directory.

Nothing == [n \in Names |-> "none"]

\* The entries with the content c behind the name n.
Put(e, n, c) == [e EXCEPT ![n] = c]

Renamed(e, c) == Put(Put(e, "tmp", "none"), "parquet", c)

\* An operation is visible at once and survives a cut or not.
Write(s, n, c) ==
  /\ files' = [files EXCEPT ![s] = Put(@, n, c)]
  /\ cut' = [cut EXCEPT ![s] = @ \cup {Put(e, n, c) : e \in @}]

Unlink(s, n) == files[s][n] # "none" /\ Write(s, n, "none")

\* Sync of the temporary: where its name survives, so do its bytes.
SyncFile(s) ==
  /\ cut' = [cut EXCEPT ![s] =
       {IF e["tmp"] = "none" THEN e ELSE Put(e, "tmp", files[s]["tmp"]) : e \in @}]
  /\ UNCHANGED files

\* The new name may come to hold whatever the temporary may hold.
MoveFile(s) ==
  /\ files' = [files EXCEPT ![s] = Renamed(@, files[s]["tmp"])]
  /\ cut' = [cut EXCEPT ![s] =
       @ \cup {Renamed(e, c) : e \in @, c \in {d["tmp"] : d \in @} \ {"none"}}]

\* Sync of the directory: a cut finds the names that are there.
SyncNames ==
  /\ cut' = [s \in Segments |->
       {e \in cut[s] : \A n \in Names : (e[n] = "none") <=> (files[s][n] = "none")}]
  /\ UNCHANGED files

Init ==
  /\ files = [s \in Segments |-> Nothing]
  /\ cut = [s \in Segments |-> {Nothing}]
  /\ phase = "down" /\ job = NoSegment /\ step = "idle"
  /\ queue = {} /\ sending = {} /\ bucket = {}
  /\ watermark = 0 /\ ingested = {} /\ now = 0
  /\ faults = 0
  /\ sealed = {} /\ dropped = {} /\ exposed = {}

-----------------------------------------------------------------------------
\* The segments as they come: one active at a time, sealed in order.

OpenSegment(s) ==
  /\ phase = "running" /\ s \notin sealed
  /\ files[s] = Nothing
  /\ \A t \in Segments : t < s => t \in sealed
  /\ files' = [files EXCEPT ![s] = Put(@, "active", "part")]
  /\ cut' = [cut EXCEPT ![s] = {Put(Nothing, "active", "part")}]
  /\ UNCHANGED <<producer, shipper, bucket, reader, now, faults, history>>

Seal(s) ==
  /\ phase # "down" /\ files[s]["active"] # "none"
  /\ files' = [files EXCEPT ![s] = Put(Nothing, "jsonl", "lines")]
  /\ cut' = [cut EXCEPT ![s] = {Put(Nothing, "jsonl", "lines")}]
  /\ sealed' = sealed \cup {s}
  /\ UNCHANGED <<producer, shipper, bucket, reader, now, faults, dropped, exposed>>

-----------------------------------------------------------------------------
\* The conversion: write the temporary, fsync, verify, rename, fsync the
\* directory, and only then delete the JSONL.

Converting == phase = "running" /\ step # "idle"

Create(s) ==
  /\ phase = "running" /\ step = "idle"
  /\ files[s]["jsonl"] # "none" /\ files[s]["parquet"] = "none"
  /\ Write(s, "tmp", "part")
  /\ job' = s /\ step' = "created"
  /\ UNCHANGED <<phase, shipper, bucket, reader, now, faults, history>>

\* Writing ends with a complete file or, rarely, with one that is not.
WriteRecords ==
  /\ Converting /\ step = "created"
  /\ step' = "written"
  /\ \/ Write(job, "tmp", "twin") /\ UNCHANGED faults
     \/ /\ Fault
        /\ UNCHANGED disk
  /\ UNCHANGED <<phase, job, shipper, bucket, reader, now, history>>

\* Mutant: the bytes are left to the page cache.
SyncTemporary_Skipped ==
  /\ Converting /\ step = "written"
  /\ step' = "synced"
  /\ UNCHANGED <<disk, phase, job, shipper, bucket, reader, now, faults, history>>

SyncTemporary ==
  /\ Converting /\ step = "written"
  /\ SyncFile(job)
  /\ step' = "synced"
  /\ UNCHANGED <<phase, job, shipper, bucket, reader, now, faults, history>>

\* The footer is compared with the records written.
Verify ==
  /\ Converting /\ step = "synced"
  /\ \/ /\ files[job]["tmp"] = "twin"
        /\ step' = "verified"
        /\ UNCHANGED <<disk, job>>
     \/ /\ files[job]["tmp"] # "twin"
        /\ Unlink(job, "tmp")
        /\ step' = "idle" /\ job' = NoSegment
  /\ UNCHANGED <<phase, shipper, bucket, reader, now, faults, history>>

Rename ==
  /\ Converting /\ step = "verified"
  /\ MoveFile(job)
  /\ step' = "renamed"
  /\ UNCHANGED <<phase, job, shipper, bucket, reader, now, faults, history>>

SyncDirectory ==
  /\ Converting /\ step = "renamed"
  /\ SyncNames
  /\ step' = "committed"
  /\ UNCHANGED <<phase, job, shipper, bucket, reader, now, faults, history>>

DeleteJsonl ==
  /\ Converting /\ step = "committed"
  /\ Unlink(job, "jsonl")
  /\ step' = "idle" /\ job' = NoSegment
  /\ UNCHANGED <<phase, shipper, bucket, reader, now, faults, history>>

-----------------------------------------------------------------------------
\* The ring drops the oldest sealed segment and declares it.

Retained == {s \in Segments : files[s]["jsonl"] # "none" \/ files[s]["parquet"] # "none"}

\* Mutant: the newest goes first.
Reclaim_NewestFirst(s) ==
  /\ phase = "running" /\ step = "idle"
  /\ s \in Retained /\ Cardinality(Retained) > Cap
  /\ \A t \in Retained : t <= s
  /\ Unlink(s, "jsonl") \/ Unlink(s, "parquet")
  /\ dropped' = dropped \cup {s}
  /\ UNCHANGED <<producer, shipper, bucket, reader, now, faults, sealed, exposed>>

Reclaim(s) ==
  /\ phase = "running" /\ step = "idle"
  /\ s \in Retained /\ Cardinality(Retained) > Cap
  /\ \A t \in Retained : s <= t
  /\ Unlink(s, "jsonl") \/ Unlink(s, "parquet")
  /\ dropped' = dropped \cup {s}
  /\ UNCHANGED <<producer, shipper, bucket, reader, now, faults, sealed, exposed>>

-----------------------------------------------------------------------------
\* Crash and recovery.

\* The producer dies; the directory stays as every process sees it.
Crash ==
  /\ phase # "down" /\ Fault
  /\ phase' = "down" /\ job' = NoSegment /\ step' = "idle"
  /\ UNCHANGED <<disk, shipper, bucket, reader, now, history>>

\* The power fails: of each segment one of its possible entries is left.
PowerCut ==
  /\ Fault
  /\ files' \in {f \in [Segments -> UNION {cut[s] : s \in Segments}] :
                   \A s \in Segments : f[s] \in cut[s]}
  /\ cut' = [s \in Segments |-> {files'[s]}]
  /\ phase' = "down" /\ job' = NoSegment /\ step' = "idle"
  /\ queue' = {} /\ sending' = {}
  /\ UNCHANGED <<bucket, reader, now, history>>

Start ==
  /\ phase = "down"
  /\ phase' = "recovering"
  /\ UNCHANGED <<disk, job, step, shipper, bucket, reader, now, faults, history>>

\* A stray temporary is unlinked.
RecoverTemporary(s) ==
  /\ phase = "recovering"
  /\ Unlink(s, "tmp")
  /\ UNCHANGED <<producer, shipper, bucket, reader, now, faults, history>>

Both(s) == files[s]["jsonl"] # "none" /\ files[s]["parquet"] # "none"

\* Both present deletes the JSONL.  The rule has no sync here, so the rename
\* itself may still be undone by a power cut.
RecoverBoth(s) ==
  /\ phase = "recovering" /\ Both(s)
  /\ Unlink(s, "jsonl")
  /\ exposed' = exposed \cup {t \in {s} : \E e \in cut[s] : e["parquet"] = "none"}
  /\ UNCHANGED <<producer, shipper, bucket, reader, now, faults, sealed, dropped>>

Recovered ==
  /\ phase = "recovering"
  /\ \A s \in Segments : files[s]["tmp"] = "none" /\ ~Both(s)
  /\ phase' = "running"
  /\ UNCHANGED <<disk, job, step, shipper, bucket, reader, now, faults, history>>

-----------------------------------------------------------------------------
\* The shipper.

\* Mutant: the exclusion forgets the conversion temporary.
ShipperExclude_NoTmp == {"active", "jsonl"}

ShipperExclude == {"active", "jsonl", "tmp"}

List ==
  /\ queue = {} /\ sending = {}
  /\ queue' = {q \in Segments \X (Names \ ShipperExclude) : files[q[1]][q[2]] # "none"}
  /\ queue' # {}
  /\ UNCHANGED <<disk, producer, sending, bucket, reader, now, faults, history>>

\* A vanished source is an expected outcome: the ring unlinked it.
Skip(s, n) ==
  /\ sending = {} /\ <<s, n>> \in queue
  /\ files[s][n] = "none"
  /\ queue' = queue \ {<<s, n>>}
  /\ UNCHANGED <<disk, producer, sending, bucket, reader, now, faults, history>>

\* Mutant: dated with the hour of sealing, here the first.
ShipHour_OfSealing == 0

\* Mutant: dated with a clock that is not UTC.
ShipHour_LocalTime == now + 1

\* The key is dated with the shipper's clock at ship time.
ShipHour == now

Open(s, n) ==
  /\ sending = {} /\ <<s, n>> \in queue
  /\ files[s][n] # "none"
  /\ sending' = {[segment |-> s, name |-> n, content |-> files[s][n], hour |-> ShipHour]}
  /\ UNCHANGED <<disk, producer, queue, bucket, reader, now, faults, history>>

Object(o) == [segment |-> o.segment, content |-> o.content, hour |-> o.hour]

Upload(o) ==
  /\ Object(o) \notin bucket
  /\ bucket' = bucket \cup {Object(o)}
  /\ UNCHANGED <<disk, producer, shipper, reader, now, faults, history>>

\* What was uploaded leaves the node, unless the ring was faster.
Remove(o) ==
  /\ Object(o) \in bucket
  /\ Write(o.segment, o.name, "none")
  /\ queue' = queue \ {<<o.segment, o.name>>}
  /\ sending' = {}
  /\ UNCHANGED <<producer, bucket, reader, now, faults, history>>

\* The shipper dies and forgets where it was; it will list again.
ShipperCrash ==
  /\ queue # {} /\ Fault
  /\ queue' = {} /\ sending' = {}
  /\ UNCHANGED <<disk, producer, bucket, reader, now, history>>

-----------------------------------------------------------------------------
\* The reader lists the hours from its watermark less the lookback.

Batch(o) == [segment |-> o.segment, content |-> o.content]

Discoverable == {o \in bucket : o.hour >= watermark - Lookback}

Discover ==
  /\ ingested' = ingested \cup {Batch(o) : o \in Discoverable}
  /\ watermark' = now
  /\ reader' # reader
  /\ UNCHANGED <<disk, producer, shipper, bucket, now, faults, history>>

\* No upload takes longer than the lookback.
Tick ==
  /\ now < MaxHour
  /\ \A o \in sending : Object(o) \in bucket \/ now < o.hour + Lookback
  /\ now' = now + 1
  /\ UNCHANGED <<disk, producer, shipper, bucket, reader, faults, history>>

-----------------------------------------------------------------------------
Conversion ==
  \/ \E s \in Segments : Create(s)
  \/ WriteRecords \/ SyncTemporary \/ Verify \/ Rename \/ SyncDirectory \/ DeleteJsonl

Recovery ==
  \/ Start \/ Recovered
  \/ \E s \in Segments : RecoverTemporary(s) \/ RecoverBoth(s)

Ring == \E s \in Segments : OpenSegment(s) \/ Seal(s) \/ Reclaim(s)

Transfer ==
  \/ List
  \/ \E s \in Segments, n \in Names : Skip(s, n) \/ Open(s, n)
  \/ \E o \in sending : Upload(o) \/ Remove(o)

Failure == Crash \/ PowerCut \/ ShipperCrash

Next == Ring \/ Conversion \/ Recovery \/ Transfer \/ Discover \/ Tick \/ Failure

\* Every process keeps working, and a dead producer is started again.  Nobody
\* owes a new segment, a drop, the passing of an hour or a failure.
Fairness ==
  /\ WF_vars(Conversion) /\ WF_vars(Recovery)
  /\ WF_vars(Transfer) /\ WF_vars(Discover)

Spec == Init /\ [][Next]_vars /\ Fairness

-----------------------------------------------------------------------------
Objects == [segment : Segments, content : Contents, hour : 0..MaxHour]

TypeOK ==
  /\ files \in [Segments -> Entries]
  /\ cut \in [Segments -> SUBSET Entries]
  /\ phase \in {"down", "recovering", "running"}
  /\ job \in Segments \cup {NoSegment}
  /\ step \in {"idle", "created", "written", "synced", "verified", "renamed", "committed"}
  /\ step # "idle" => phase = "running" /\ job \in Segments
  /\ queue \subseteq Segments \X Names
  /\ sending \subseteq [segment : Segments, name : Names, content : Contents, hour : 0..now]
  /\ \A o, p \in sending : o = p
  /\ bucket \subseteq Objects
  /\ watermark \in 0..now /\ now \in 0..MaxHour
  /\ ingested \subseteq {Batch(o) : o \in bucket}
  /\ faults \in 0..MaxFaults
  /\ sealed \subseteq Segments /\ dropped \subseteq sealed /\ exposed \subseteq sealed

Shipped == {o.segment : o \in bucket}
Arrived == {b.segment : b \in ingested}

(***************************************************************************)
(* The delete of the JSONL is last so that no crash window loses records.  *)
(* A sealed segment that was neither shipped nor declared dropped has a    *)
(* complete copy under a name recovery keeps, in the directory and in      *)
(* every state a power cut may leave it in -- except where recovery        *)
(* deleted the JSONL beside a Parquet whose rename was never synced.       *)
(***************************************************************************)
HasCopy(e) == e["jsonl"] = "lines" \/ e["parquet"] = "twin"

CopySurvives ==
  \A s \in sealed \ (Shipped \cup dropped \cup exposed) :
    HasCopy(files[s]) /\ \A e \in cut[s] : HasCopy(e)

(***************************************************************************)
(* Batch identity is the content hash: a segment that left the node in two *)
(* forms, or before it was final, would be stored twice.  Whatever is      *)
(* converted again after a crash, relisted or uploaded twice, every object *)
(* of a segment is the one Parquet file.                                   *)
(***************************************************************************)
OneBatchPerSegment == \A o \in bucket : o.content = "twin"

(***************************************************************************)
(* Ship-time dating puts every object in front of the reader's watermark,  *)
(* however late it ships: what was not ingested is still in a listing.     *)
(***************************************************************************)
NothingBehindTheWatermark ==
  \A o \in bucket : Batch(o) \in ingested \/ o \in Discoverable

(***************************************************************************)
(* The promise of the whole path: oldest dropped first, and every sealed   *)
(* segment is ingested or declared dropped in the end.                     *)
(***************************************************************************)
Store == INSTANCE SegmentStore WITH
  Earlier <- {p \in Segments \X Segments : p[1] < p[2]},
  SameRun <- Segments \X Segments,
  shipped <- Shipped, arrived <- Arrived, waived <- exposed

StoreIsImplemented == Store!Spec
=============================================================================
