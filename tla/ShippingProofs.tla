--------------------------- MODULE ShippingProofs ---------------------------
(***************************************************************************)
(* Theorems about Shipping, for every number of segments, hours and        *)
(* faults, every ring capacity and every lookback: types, that no crash    *)
(* window loses records, that one batch stands for a segment, that no      *)
(* object falls behind the reader's watermark, that every step is a step   *)
(* of SegmentStore or leaves it alone, and that the path comes to rest     *)
(* with nothing stranded on it.                                            *)
(***************************************************************************)
EXTENDS Shipping, FiniteSetTheorems, TLAPS

Excused == Shipped \cup dropped \cup exposed

(***************************************************************************)
(* What holds of each state of a segment's entries, now or after a power   *)
(* cut, where S are the sealed segments and X those that need no copy.     *)
(***************************************************************************)
Sane(s, e, S, X) ==
  /\ e \in Entries
  /\ e["jsonl"] \in {"none", "lines"}
  /\ e["parquet"] \in {"none", "twin"}
  /\ e["jsonl"] # "none" \/ e["parquet"] # "none" => s \in S
  /\ e["active"] # "none" => s \notin S /\ \A t \in Segments : t < s => t \in S
  /\ s \in S \ X => HasCopy(e)

DiskInv ==
  \A s \in Segments :
    /\ files[s] \in cut[s]
    /\ \A e \in cut[s] : Sane(s, e, sealed, Excused)

\* How far the conversion has come, in every state a cut may leave.
JobInv ==
  /\ step # "idle" => job \in sealed
  /\ step = "synced" =>
       \A e \in cut[job] : e["tmp"] \in {"none", files[job]["tmp"]}
  /\ step = "verified" =>
       /\ files[job]["tmp"] = "twin"
       /\ \A e \in cut[job] : e["tmp"] \in {"none", "twin"}
  /\ step = "renamed" =>
       files[job]["parquet"] = "twin" \/ job \in Shipped
  /\ step = "committed" =>
       (\A e \in cut[job] : e["parquet"] = "twin") \/ job \in Shipped

\* The shipper handles final Parquet files of sealed segments only, and what
\* it is still uploading is within the lookback.
ShipperInv ==
  /\ \A q \in queue : q[2] = "parquet"
  /\ \A o \in sending :
       /\ o.name = "parquet" /\ o.content = "twin" /\ o.segment \in sealed
       /\ Object(o) \in bucket \/ now <= o.hour + Lookback

BucketInv == OneBatchPerSegment /\ NothingBehindTheWatermark /\ Shipped \subseteq sealed

\* Segments are sealed in order, without a gap.
OrderInv == \A s \in sealed, t \in Segments : t < s => t \in sealed

IInv == TypeOK /\ DiskInv /\ JobInv /\ ShipperInv /\ BucketInv /\ OrderInv

-----------------------------------------------------------------------------
\* Facts about entries.

\* Writing one name changes that name and no other.
LEMMA PutType ==
  ASSUME NEW e \in Entries, NEW n \in Names, NEW c \in Contents
  PROVE  /\ Put(e, n, c) \in Entries
         /\ Put(e, n, c)[n] = c
         /\ \A m \in Names \ {n} : Put(e, n, c)[m] = e[m]
  BY DEF Put, Entries

\* A segment without files has entries too.
LEMMA NothingType == Nothing \in Entries /\ \A n \in Names : Nothing[n] = "none"
  BY DEF Nothing, Entries, Contents

\* What was excused stays excused.
LEMMA SaneGrows ==
  ASSUME NEW s, NEW e, NEW S, NEW X, NEW Y, X \subseteq Y, Sane(s, e, S, X)
  PROVE  Sane(s, e, S, Y)
  BY DEF Sane

\* The temporary matters to no promise.
LEMMA SaneTemporary ==
  ASSUME NEW s \in Segments, NEW S, NEW X, NEW e, NEW c \in Contents, Sane(s, e, S, X)
  PROVE  Sane(s, Put(e, "tmp", c), S, X)
  <1>1. e \in Entries /\ "tmp" \in Names
    BY DEF Sane, Names
  <1>2. /\ Put(e, "tmp", c) \in Entries
        /\ \A n \in Names \ {"tmp"} : Put(e, "tmp", c)[n] = e[n]
    BY <1>1, PutType
  <1> QED BY <1>2 DEF Sane, HasCopy, Names

\* A name may go where the segment is excused or the other copy is there.
LEMMA SaneUnlink ==
  ASSUME NEW s \in Segments, NEW S, NEW X, NEW e, NEW n \in Names, Sane(s, e, S, X),
         \/ s \in X
         \/ n = "tmp"
         \/ n = "jsonl" /\ e["parquet"] = "twin"
  PROVE  Sane(s, Put(e, n, "none"), S, X)
  <1>1. e \in Entries /\ n \in Names /\ "none" \in Contents
    BY DEF Sane, Contents
  <1>2. /\ Put(e, n, "none") \in Entries
        /\ Put(e, n, "none")[n] = "none"
        /\ \A m \in Names \ {n} : Put(e, n, "none")[m] = e[m]
    BY <1>1, PutType
  <1> QED BY <1>2 DEF Sane, HasCopy, Names

\* Renaming a verified temporary harms no state a cut may leave.
LEMMA SaneRenamed ==
  ASSUME NEW s \in Segments, NEW S, NEW X, NEW e, Sane(s, e, S, X), s \in S
  PROVE  Sane(s, Renamed(e, "twin"), S, X) /\ Renamed(e, "twin")["parquet"] = "twin"
  <1> DEFINE d == Put(e, "tmp", "none")
  <1>1. /\ e \in Entries /\ "tmp" \in Names /\ "parquet" \in Names
        /\ "none" \in Contents /\ "twin" \in Contents
    BY DEF Sane, Names, Contents
  <1>2. d \in Entries /\ \A m \in Names \ {"tmp"} : d[m] = e[m]
    BY <1>1, PutType
  <1>3. /\ Put(d, "parquet", "twin") \in Entries
        /\ Put(d, "parquet", "twin")["parquet"] = "twin"
        /\ \A m \in Names \ {"parquet"} : Put(d, "parquet", "twin")[m] = d[m]
    BY <1>1, <1>2, PutType
  <1>4. Renamed(e, "twin") = Put(d, "parquet", "twin")
    BY DEF Renamed
  <1> QED BY <1>2, <1>3, <1>4 DEF Sane, HasCopy, Names
-----------------------------------------------------------------------------
\* Types.

\* A write keeps directory and cut states in their types.
LEMMA WriteType ==
  ASSUME TypeOK, NEW s \in Segments, NEW n \in Names, NEW c \in Contents, Write(s, n, c)
  PROVE  files' \in [Segments -> Entries] /\ cut' \in [Segments -> SUBSET Entries]
  <1>1. \A e \in Entries : Put(e, n, c) \in Entries
    BY PutType
  <1> QED BY <1>1 DEF TypeOK, Write

\* So does an unlink, which writes nothing under the name.
LEMMA UnlinkType ==
  ASSUME TypeOK, NEW s \in Segments, NEW n \in Names, Unlink(s, n)
  PROVE  files' \in [Segments -> Entries] /\ cut' \in [Segments -> SUBSET Entries]
  BY WriteType DEF Unlink, Contents

\* What is in the ring, or was shipped, has been sealed.
LEMMA RetainedSealed == TypeOK /\ DiskInv => Retained \subseteq sealed
  BY DEF TypeOK, DiskInv, Retained, Sane

\* Every action keeps the types.
LEMMA TypeStep == IInv /\ [Next]_vars => TypeOK'
  <1> SUFFICES ASSUME IInv, [Next]_vars PROVE TypeOK'
    OBVIOUS
  <1> USE ShippingAssumption
  <1>0. TypeOK /\ DiskInv /\ ShipperInv
    BY DEF IInv
  <1>a. /\ Contents = {"none", "part", "lines", "twin"}
        /\ Names = {"active", "jsonl", "tmp", "parquet"}
    BY DEF Contents, Names
  <1>1. CASE UNCHANGED vars
    BY <1>0, <1>1 DEF TypeOK, vars, disk, producer, shipper, reader, history, Batch
  <1>2. ASSUME NEW s \in Segments, OpenSegment(s) PROVE TypeOK'
    <2>1. Put(Nothing, "active", "part") \in Entries /\ Put(files[s], "active", "part") \in Entries
      BY <1>0, <1>a, PutType, NothingType DEF TypeOK
    <2> QED BY <1>0, <1>2, <2>1 DEF OpenSegment, TypeOK, producer, shipper, reader, history, Batch
  <1>3. ASSUME NEW s \in Segments, Seal(s) PROVE TypeOK'
    <2>1. Put(Nothing, "jsonl", "lines") \in Entries
      BY <1>a, PutType, NothingType
    <2> QED BY <1>0, <1>3, <2>1 DEF Seal, TypeOK, producer, shipper, reader, Batch
  <1>4. ASSUME NEW s \in Segments, Reclaim(s) PROVE TypeOK'
    <2>1. files' \in [Segments -> Entries] /\ cut' \in [Segments -> SUBSET Entries]
      BY <1>0, <1>a, <1>4, UnlinkType DEF Reclaim
    <2>2. s \in sealed
      BY <1>0, <1>4, RetainedSealed DEF Reclaim
    <2> QED BY <1>0, <1>4, <2>1, <2>2 DEF Reclaim, TypeOK, producer, shipper, reader, Batch
  <1>5. ASSUME NEW s \in Segments, Create(s) PROVE TypeOK'
    <2>1. files' \in [Segments -> Entries] /\ cut' \in [Segments -> SUBSET Entries]
      BY <1>0, <1>a, <1>5, WriteType DEF Create
    <2> QED BY <1>0, <1>5, <2>1 DEF Create, TypeOK, shipper, reader, history, Batch
  <1>6. CASE WriteRecords
    <2>0. job \in Segments
      BY <1>0, <1>6 DEF WriteRecords, Converting, TypeOK
    <2>1. CASE Write(job, "tmp", "twin") /\ UNCHANGED faults
      <3>1. files' \in [Segments -> Entries] /\ cut' \in [Segments -> SUBSET Entries]
        BY <1>a, <1>0, <2>0, <2>1, WriteType
      <3> QED BY <1>0, <1>6, <2>1, <3>1 DEF WriteRecords, Converting, TypeOK, shipper, reader, history, Batch
    <2>2. CASE Fault /\ UNCHANGED disk
      BY <1>0, <1>6, <2>2 DEF WriteRecords, Converting, Fault, TypeOK, disk, shipper, reader, history, Batch
    <2> QED BY <1>6, <2>1, <2>2 DEF WriteRecords
  <1>7. CASE SyncTemporary
    <2>0. job \in Segments /\ files[job]["tmp"] \in Contents
      BY <1>0, <1>7, <1>a DEF SyncTemporary, Converting, TypeOK, Entries
    <2>1. \A e \in Entries : Put(e, "tmp", files[job]["tmp"]) \in Entries
      BY <2>0, <1>a, PutType
    <2>2. cut' \in [Segments -> SUBSET Entries]
      BY <1>0, <1>7, <2>0, <2>1 DEF SyncTemporary, SyncFile, TypeOK
    <2> QED BY <1>0, <1>7, <2>2 DEF SyncTemporary, SyncFile, Converting, TypeOK, shipper, reader, history, Batch
  <1>8. CASE Verify
    <2>1. CASE UNCHANGED <<disk, job>> /\ step' = "verified"
      BY <1>0, <1>8, <2>1 DEF Verify, Converting, TypeOK, disk, shipper, reader, history, Batch
    <2>2. CASE Unlink(job, "tmp") /\ step' = "idle" /\ job' = NoSegment
      <3>1. files' \in [Segments -> Entries] /\ cut' \in [Segments -> SUBSET Entries]
        BY <1>0, <1>8, <1>a, <2>2, UnlinkType DEF Verify, Converting, TypeOK
      <3> QED BY <1>0, <1>8, <2>2, <3>1 DEF Verify, TypeOK, shipper, reader, history, Batch
    <2> QED BY <1>8, <2>1, <2>2 DEF Verify
  <1>9. CASE Rename
    <2>0. job \in Segments
      BY <1>0, <1>9 DEF Rename, Converting, TypeOK
    <2>1. \A e \in Entries, c \in Contents : Renamed(e, c) \in Entries
      BY <1>a, PutType DEF Renamed
    <2>2. \A e \in Entries : e["tmp"] \in Contents
      BY <1>a DEF Entries
    <2>3. files' \in [Segments -> Entries]
      BY <1>0, <1>9, <2>0, <2>1, <2>2 DEF Rename, MoveFile, TypeOK
    <2>4. cut' \in [Segments -> SUBSET Entries]
      BY <1>0, <1>9, <2>0, <2>1, <2>2 DEF Rename, MoveFile, TypeOK
    <2> QED BY <1>0, <1>9, <2>3, <2>4 DEF Rename, Converting, TypeOK, shipper, reader, history, Batch
  <1>10. CASE SyncDirectory
    BY <1>0, <1>10 DEF SyncDirectory, SyncNames, Converting, TypeOK, shipper, reader, history, Batch
  <1>11. CASE DeleteJsonl
    <2>1. files' \in [Segments -> Entries] /\ cut' \in [Segments -> SUBSET Entries]
      BY <1>0, <1>11, <1>a, UnlinkType DEF DeleteJsonl, Converting, TypeOK
    <2> QED BY <1>0, <1>11, <2>1 DEF DeleteJsonl, TypeOK, shipper, reader, history, Batch
  <1>12. CASE Crash \/ Start \/ Recovered
    BY <1>0, <1>12 DEF Crash, Start, Recovered, Fault, TypeOK, disk, producer, shipper, reader, history, Batch
  <1>13. CASE PowerCut
    <2>1. files' \in [Segments -> Entries]
      BY <1>0, <1>13 DEF PowerCut, TypeOK
    <2> QED BY <1>0, <1>13, <2>1 DEF PowerCut, Fault, TypeOK, reader, history, Batch
  <1>14. ASSUME NEW s \in Segments, RecoverTemporary(s) PROVE TypeOK'
    <2>1. files' \in [Segments -> Entries] /\ cut' \in [Segments -> SUBSET Entries]
      BY <1>0, <1>14, <1>a, UnlinkType DEF RecoverTemporary
    <2> QED BY <1>0, <1>14, <2>1 DEF RecoverTemporary, TypeOK, producer, shipper, reader, history, Batch
  <1>15. ASSUME NEW s \in Segments, RecoverBoth(s) PROVE TypeOK'
    <2>1. files' \in [Segments -> Entries] /\ cut' \in [Segments -> SUBSET Entries]
      BY <1>0, <1>15, <1>a, UnlinkType DEF RecoverBoth
    <2>2. s \in sealed
      BY <1>0, <1>15, RetainedSealed DEF RecoverBoth, Both, Retained
    <2> QED BY <1>0, <1>15, <2>1, <2>2 DEF RecoverBoth, TypeOK, producer, shipper, reader, Batch
  <1>16. CASE List \/ ShipperCrash
    BY <1>0, <1>16 DEF List, ShipperCrash, Fault, TypeOK, disk, producer, reader, history, Batch
  <1>17. ASSUME NEW s \in Segments, NEW n \in Names, Skip(s, n) PROVE TypeOK'
    BY <1>0, <1>17 DEF Skip, TypeOK, disk, producer, reader, history, Batch
  <1>18. ASSUME NEW s \in Segments, NEW n \in Names, Open(s, n) PROVE TypeOK'
    <2>1. files[s][n] \in Contents
      BY <1>0 DEF TypeOK, Entries
    <2> QED BY <1>0, <1>18, <2>1 DEF Open, ShipHour, TypeOK, disk, producer, reader, history, Batch
  <1>19. ASSUME NEW o \in sending, Upload(o) PROVE TypeOK'
    <2>1. Object(o) \in Objects
      BY <1>0 DEF TypeOK, Object, Objects
    <2> QED BY <1>0, <1>19, <2>1 DEF Upload, TypeOK, disk, producer, shipper, reader, history, Batch
  <1>20. ASSUME NEW o \in sending, Remove(o) PROVE TypeOK'
    <2>1. files' \in [Segments -> Entries] /\ cut' \in [Segments -> SUBSET Entries]
      BY <1>0, <1>20, <1>a, WriteType DEF Remove, TypeOK
    <2> QED BY <1>0, <1>20, <2>1 DEF Remove, TypeOK, producer, reader, history, Batch
  <1>21. CASE Discover
    BY <1>0, <1>21 DEF Discover, Discoverable, TypeOK, disk, producer, shipper, history, Batch
  <1>22. CASE Tick
    BY <1>0, <1>22 DEF Tick, TypeOK, disk, producer, shipper, reader, history, Batch
  <1> QED
    BY <1>1, <1>2, <1>3, <1>4, <1>5, <1>6, <1>7, <1>8, <1>9, <1>10, <1>11, <1>12, <1>13,
       <1>14, <1>15, <1>16, <1>17, <1>18, <1>19, <1>20, <1>21, <1>22
    DEF Next, Ring, Conversion, Recovery, Transfer, Failure

-----------------------------------------------------------------------------
\* What is sealed, shipped, dropped or exposed stays so.

\* No action takes anything out of the histories.
LEMMA HistoryGrows ==
  ASSUME [Next]_vars
  PROVE  sealed \subseteq sealed' /\ Shipped \subseteq Shipped' /\ Excused \subseteq Excused'
  <1>1. /\ sealed \subseteq sealed' /\ bucket \subseteq bucket'
        /\ dropped \subseteq dropped' /\ exposed \subseteq exposed'
    BY DEF Next, vars, Ring, Conversion, Recovery, Transfer, Failure, OpenSegment, Seal, Reclaim,
           Create, WriteRecords, SyncTemporary, Verify, Rename, SyncDirectory, DeleteJsonl,
           Crash, PowerCut, Start, Recovered, RecoverTemporary, RecoverBoth, List, Skip, Open,
           Upload, Remove, ShipperCrash, Discover, Tick, history, shipper, reader
  <1> QED BY <1>1 DEF Shipped, Excused

-----------------------------------------------------------------------------
\* The directory.

\* Nothing is written: what is excused can only grow.
LEMMA DiskStill ==
  ASSUME DiskInv, Excused \subseteq Excused', UNCHANGED <<disk, sealed>>
  PROVE  DiskInv'
  <1>1. \A s \in Segments : \A e \in cut[s] : Sane(s, e, sealed, Excused')
    BY SaneGrows DEF DiskInv
  <1> QED BY <1>1 DEF DiskInv, disk

\* A write is harmless if it is so in every state a cut may leave.
LEMMA DiskWrite ==
  ASSUME TypeOK, DiskInv, Excused \subseteq Excused', sealed' = sealed,
         NEW s \in Segments, NEW n \in Names, NEW c \in Contents, Write(s, n, c),
         \A e \in cut[s] : Sane(s, Put(e, n, c), sealed, Excused')
  PROVE  DiskInv'
  <1>1. /\ files' = [files EXCEPT ![s] = Put(files[s], n, c)]
        /\ cut' = [cut EXCEPT ![s] = cut[s] \cup {Put(e, n, c) : e \in cut[s]}]
        /\ DOMAIN files = Segments /\ DOMAIN cut = Segments
    BY DEF Write, TypeOK
  <1> SUFFICES ASSUME NEW t \in Segments
               PROVE  /\ files'[t] \in cut'[t]
                      /\ \A e \in cut'[t] : Sane(t, e, sealed', Excused')
    BY DEF DiskInv
  <1>2. files[t] \in cut[t] /\ \A e \in cut[t] : Sane(t, e, sealed', Excused')
    BY SaneGrows DEF DiskInv
  <1>3. CASE t # s
    BY <1>1, <1>2, <1>3
  <1>4. CASE t = s
    <2>1. files'[s] = Put(files[s], n, c) /\ cut'[s] = cut[s] \cup {Put(e, n, c) : e \in cut[s]}
      BY <1>1
    <2> QED BY <1>2, <1>4, <2>1
  <1> QED BY <1>3, <1>4

\* Unlinking what may go.
LEMMA DiskUnlink ==
  ASSUME TypeOK, DiskInv, Excused \subseteq Excused', sealed' = sealed,
         NEW s \in Segments, NEW n \in Names, Write(s, n, "none"),
         \/ s \in Excused'
         \/ n = "tmp"
         \/ n = "jsonl" /\ \A e \in cut[s] : e["parquet"] = "twin"
  PROVE  DiskInv'
  <1>1. \A e \in cut[s] : Sane(s, e, sealed, Excused')
    BY SaneGrows DEF DiskInv
  <1>2. \A e \in cut[s] : Sane(s, Put(e, n, "none"), sealed, Excused')
    BY <1>1, SaneUnlink
  <1> QED BY <1>2, DiskWrite DEF Contents

\* A temporary may hold anything.
LEMMA DiskTemporary ==
  ASSUME TypeOK, DiskInv, Excused \subseteq Excused', sealed' = sealed,
         NEW s \in Segments, NEW c \in Contents, Write(s, "tmp", c)
  PROVE  DiskInv'
  <1>1. \A e \in cut[s] : Sane(s, e, sealed, Excused')
    BY SaneGrows DEF DiskInv
  <1>2. \A e \in cut[s] : Sane(s, Put(e, "tmp", c), sealed, Excused')
    BY <1>1, SaneTemporary
  <1> QED BY <1>2, DiskWrite DEF Names

\* Every action keeps what a segment may hold, now and after a cut.
LEMMA DiskStep == IInv /\ [Next]_vars => DiskInv'
  <1> SUFFICES ASSUME IInv, [Next]_vars PROVE DiskInv'
    OBVIOUS
  <1>0. /\ TypeOK /\ DiskInv /\ JobInv /\ ShipperInv
        /\ sealed \subseteq sealed' /\ Excused \subseteq Excused'
    BY HistoryGrows DEF IInv
  <1>a. /\ Contents = {"none", "part", "lines", "twin"}
        /\ Names = {"active", "jsonl", "tmp", "parquet"}
    BY DEF Contents, Names
  <1>b. /\ DOMAIN files = Segments /\ DOMAIN cut = Segments
        /\ step # "idle" => job \in Segments /\ job \in sealed
    BY <1>0 DEF TypeOK, JobInv
  <1>1. CASE UNCHANGED vars
    BY <1>0, <1>1, DiskStill DEF vars, history
  \* A segment that opens or is sealed has one state only; others have a
  \* larger set of sealed segments beside them.
  <1>2. ASSUME NEW s \in Segments, OpenSegment(s) PROVE DiskInv'
    <2> DEFINE d == Put(Nothing, "active", "part")
    <2>1. /\ d \in Entries /\ d["active"] = "part"
          /\ d["jsonl"] = "none" /\ d["parquet"] = "none"
      BY <1>a, PutType, NothingType
    <2>2. /\ s \notin sealed /\ \A t \in Segments : t < s => t \in sealed
          /\ files' = [files EXCEPT ![s] = d] /\ cut' = [cut EXCEPT ![s] = {d}]
          /\ sealed' = sealed /\ Excused' = Excused
      BY <1>2 DEF OpenSegment, history, Excused, Shipped
    <2>3. Sane(s, d, sealed', Excused')
      BY <2>1, <2>2 DEF Sane
    <2> HIDE DEF d
    <2> QED BY <1>0, <1>b, <2>2, <2>3 DEF DiskInv
  <1>3. ASSUME NEW s \in Segments, Seal(s) PROVE DiskInv'
    <2> DEFINE d == Put(Nothing, "jsonl", "lines")
    <2>1. /\ d \in Entries /\ d["active"] = "none"
          /\ d["jsonl"] = "lines" /\ d["parquet"] = "none"
      BY <1>a, PutType, NothingType
    <2>2. /\ sealed' = sealed \cup {s} /\ Excused' = Excused
          /\ files' = [files EXCEPT ![s] = d] /\ cut' = [cut EXCEPT ![s] = {d}]
      BY <1>3 DEF Seal, Excused, Shipped
    <2>3. Sane(s, d, sealed', Excused')
      BY <2>1, <2>2 DEF Sane, HasCopy
    <2>4. ASSUME NEW t \in Segments, t # s, NEW e, Sane(t, e, sealed, Excused)
          PROVE  Sane(t, e, sealed', Excused')
      BY <2>2, <2>4 DEF Sane
    <2> HIDE DEF d
    <2> QED BY <1>0, <1>b, <2>2, <2>3, <2>4 DEF DiskInv
  <1>4. ASSUME NEW s \in Segments, Reclaim(s) PROVE DiskInv'
    BY <1>0, <1>4, <1>a, DiskUnlink DEF Reclaim, Unlink, Excused
  <1>5. ASSUME NEW s \in Segments, Create(s) PROVE DiskInv'
    BY <1>0, <1>5, <1>a, DiskTemporary DEF Create, history
  <1>6. CASE WriteRecords
    <2>1. CASE Write(job, "tmp", "twin")
      BY <1>0, <1>6, <1>a, <1>b, <2>1, DiskTemporary DEF WriteRecords, Converting, history
    <2>2. CASE UNCHANGED disk
      BY <1>0, <1>6, <2>2, DiskStill DEF WriteRecords, history
    <2> QED BY <1>6, <2>1, <2>2 DEF WriteRecords
  <1>7. CASE SyncTemporary
    <2> DEFINE c == files[job]["tmp"]
               New(e) == IF e["tmp"] = "none" THEN e ELSE Put(e, "tmp", c)
    <2>0. job \in Segments /\ c \in Contents
      BY <1>0, <1>7, <1>a, <1>b DEF SyncTemporary, Converting, TypeOK, Entries
    <2>1. \A s \in Segments : \A e \in cut[s] : Sane(s, e, sealed, Excused')
      BY <1>0, SaneGrows DEF DiskInv
    <2>2. \A e \in cut[job] : Sane(job, New(e), sealed, Excused')
      BY <2>0, <2>1, SaneTemporary
    <2>3. /\ files' = files /\ sealed' = sealed
          /\ cut' = [cut EXCEPT ![job] = {New(e) : e \in cut[job]}]
      BY <1>7 DEF SyncTemporary, SyncFile, history
    <2>4. files[job] = New(files[job])
      BY <1>0, <2>0, <1>a DEF TypeOK, Entries, Put
    <2> HIDE DEF New
    <2> QED BY <1>0, <1>b, <2>0, <2>1, <2>2, <2>3, <2>4 DEF DiskInv
  <1>8. CASE Verify
    <2>1. CASE UNCHANGED <<disk, job>>
      BY <1>0, <1>8, <2>1, DiskStill DEF Verify, history
    <2>2. CASE Unlink(job, "tmp")
      BY <1>0, <1>8, <1>a, <1>b, <2>2, DiskUnlink DEF Verify, Converting, Unlink, history
    <2> QED BY <1>8, <2>1, <2>2 DEF Verify
  <1>9. CASE Rename
    <2> DEFINE C == {e["tmp"] : e \in cut[job]} \ {"none"}
    <2>0. job \in Segments /\ job \in sealed /\ files[job]["tmp"] = "twin" /\ files[job] \in cut[job]
      BY <1>0, <1>9, <1>b DEF Rename, Converting, JobInv, DiskInv
    <2>1. \A c \in C : c = "twin"
      BY <1>0, <1>9 DEF Rename, JobInv
    <2>2. \A s \in Segments : \A e \in cut[s] : Sane(s, e, sealed, Excused')
      BY <1>0, SaneGrows DEF DiskInv
    <2>3. \A e \in cut[job] : Sane(job, Renamed(e, "twin"), sealed, Excused')
      BY <2>0, <2>2, SaneRenamed
    <2>4. /\ files' = [files EXCEPT ![job] = Renamed(files[job], "twin")]
          /\ cut' = [cut EXCEPT ![job] = cut[job] \cup {Renamed(e, c) : e \in cut[job], c \in C}]
          /\ sealed' = sealed
      BY <1>9, <2>0 DEF Rename, MoveFile, history
    <2>5. "twin" \in C
      BY <2>0
    <2> HIDE DEF C
    <2>6. {Renamed(e, c) : e \in cut[job], c \in C} = {Renamed(e, "twin") : e \in cut[job]}
      BY <2>1, <2>5
    <2>7. /\ \A s \in Segments \ {job} : files'[s] = files[s] /\ cut'[s] = cut[s]
          /\ files'[job] = Renamed(files[job], "twin")
          /\ cut'[job] = cut[job] \cup {Renamed(e, "twin") : e \in cut[job]}
      BY <1>b, <2>0, <2>4, <2>6
    <2>8. /\ files'[job] \in cut'[job]
          /\ \A e \in cut'[job] : Sane(job, e, sealed', Excused')
      BY <2>0, <2>2, <2>3, <2>4, <2>7
    <2> QED BY <1>0, <2>2, <2>4, <2>7, <2>8 DEF DiskInv
  <1>10. CASE SyncDirectory
    <2>1. \A s \in Segments : \A e \in cut[s] : Sane(s, e, sealed, Excused')
      BY <1>0, SaneGrows DEF DiskInv
    <2>2. \A s \in Segments : cut'[s] \subseteq cut[s] /\ files'[s] \in cut'[s]
      BY <1>0, <1>10 DEF SyncDirectory, SyncNames, DiskInv
    <2> QED BY <1>10, <2>1, <2>2 DEF SyncDirectory, history, DiskInv
  <1>11. CASE DeleteJsonl
    <2>1. job \in Excused' \/ \A e \in cut[job] : e["parquet"] = "twin"
      BY <1>0, <1>11 DEF DeleteJsonl, JobInv, Excused
    <2> QED BY <1>0, <1>11, <1>a, <1>b, <2>1, DiskUnlink DEF DeleteJsonl, Converting, Unlink, history
  <1>12. CASE Crash \/ Start \/ Recovered
    BY <1>0, <1>12, DiskStill DEF Crash, Start, Recovered, history
  <1>13. CASE PowerCut
    <2>1. \A s \in Segments : \A e \in cut[s] : Sane(s, e, sealed, Excused')
      BY <1>0, SaneGrows DEF DiskInv
    <2>2. \A s \in Segments : files'[s] \in cut[s] /\ cut'[s] = {files'[s]}
      BY <1>13 DEF PowerCut
    <2> QED BY <1>13, <2>1, <2>2 DEF PowerCut, history, DiskInv
  <1>14. ASSUME NEW s \in Segments, RecoverTemporary(s) PROVE DiskInv'
    BY <1>0, <1>14, <1>a, DiskUnlink DEF RecoverTemporary, Unlink, history
  <1>15. ASSUME NEW s \in Segments, RecoverBoth(s) PROVE DiskInv'
    <2>1. CASE \A e \in cut[s] : e["parquet"] # "none"
      <3>1. \A e \in cut[s] : e["parquet"] = "twin"
        BY <1>0, <2>1 DEF DiskInv, Sane
      <3> QED BY <1>0, <1>15, <1>a, <3>1, DiskUnlink DEF RecoverBoth, Unlink
    <2>2. CASE \E e \in cut[s] : e["parquet"] = "none"
      <3>1. s \in Excused'
        BY <1>15, <2>2 DEF RecoverBoth, Excused
      <3> QED BY <1>0, <1>15, <1>a, <3>1, DiskUnlink DEF RecoverBoth, Unlink
    <2> QED BY <2>1, <2>2
  <1>16. CASE List \/ ShipperCrash
    BY <1>0, <1>16, DiskStill DEF List, ShipperCrash, history
  <1>17. ASSUME NEW s \in Segments, NEW n \in Names, Skip(s, n) \/ Open(s, n) PROVE DiskInv'
    BY <1>0, <1>17, DiskStill DEF Skip, Open, history
  <1>18. ASSUME NEW o \in sending, Upload(o) PROVE DiskInv'
    BY <1>0, <1>18, DiskStill DEF Upload, history
  <1>19. ASSUME NEW o \in sending, Remove(o) PROVE DiskInv'
    <2>1. o.segment \in Shipped
      BY <1>19 DEF Remove, Object, Shipped
    <2>2. o.segment \in Segments /\ o.name \in Names /\ o.segment \in Excused'
      BY <1>0, <2>1 DEF TypeOK, Excused
    <2> QED BY <1>0, <1>19, <2>2, DiskUnlink DEF Remove, history
  <1>20. CASE Discover \/ Tick
    BY <1>0, <1>20, DiskStill DEF Discover, Tick, history
  <1> QED
    BY <1>1, <1>2, <1>3, <1>4, <1>5, <1>6, <1>7, <1>8, <1>9, <1>10, <1>11, <1>12, <1>13,
       <1>14, <1>15, <1>16, <1>17, <1>18, <1>19, <1>20
    DEF Next, Ring, Conversion, Recovery, Transfer, Failure

-----------------------------------------------------------------------------
\* The conversion.

\* Steps that leave the converted segment's entries alone.
LEMMA JobStill ==
  ASSUME TypeOK, JobInv, UNCHANGED <<job, step>>,
         sealed \subseteq sealed', Shipped \subseteq Shipped',
         step # "idle" => files'[job] = files[job] /\ cut'[job] = cut[job]
  PROVE  JobInv'
  BY DEF JobInv

\* Without a conversion under way there is nothing to say of it.
LEMMA JobIdle == step' = "idle" => JobInv'
  BY DEF JobInv

\* Every action keeps what the conversion has reached.
LEMMA JobStep == IInv /\ [Next]_vars => JobInv'
  <1> SUFFICES ASSUME IInv, [Next]_vars PROVE JobInv'
    OBVIOUS
  <1>0. /\ TypeOK /\ DiskInv /\ JobInv /\ ShipperInv
        /\ sealed \subseteq sealed' /\ Shipped \subseteq Shipped'
    BY HistoryGrows DEF IInv
  <1>a. /\ Contents = {"none", "part", "lines", "twin"}
        /\ Names = {"active", "jsonl", "tmp", "parquet"}
    BY DEF Contents, Names
  <1>b. /\ DOMAIN files = Segments /\ DOMAIN cut = Segments
        /\ step # "idle" => /\ job \in Segments /\ job \in sealed
                           /\ files[job] \in Entries /\ cut[job] \subseteq Entries
                           /\ files[job] \in cut[job]
    BY <1>0 DEF TypeOK, JobInv, DiskInv
  <1>1. CASE UNCHANGED vars
    BY <1>0, <1>1, JobStill DEF vars, disk, producer
  <1>2. ASSUME NEW s \in Segments, OpenSegment(s) PROVE JobInv'
    BY <1>0, <1>b, <1>2, JobStill DEF OpenSegment, producer
  <1>3. ASSUME NEW s \in Segments, Seal(s) PROVE JobInv'
    <2>1. s \notin sealed
      BY <1>0, <1>3 DEF Seal, DiskInv, Sane
    <2> QED BY <1>0, <1>b, <1>3, <2>1, JobStill DEF Seal, producer
  <1>4. ASSUME NEW s \in Segments, Reclaim(s) PROVE JobInv'
    BY <1>4, JobIdle DEF Reclaim, producer
  <1>5. ASSUME NEW s \in Segments, Create(s) PROVE JobInv'
    <2>1. s \in sealed
      BY <1>0, <1>5, RetainedSealed DEF Create, Retained
    <2> QED BY <1>0, <1>5, <2>1 DEF Create, JobInv
  <1>6. CASE WriteRecords
    BY <1>0, <1>6 DEF WriteRecords, Converting, JobInv
  <1>7. CASE SyncTemporary
    <2>0. job \in Segments /\ job \in sealed /\ files[job]["tmp"] \in Contents /\ cut[job] \subseteq Entries
      BY <1>7, <1>a, <1>b DEF SyncTemporary, Converting, Entries
    <2>1. \A e \in Entries : Put(e, "tmp", files[job]["tmp"])["tmp"] = files[job]["tmp"]
      BY <2>0, <1>a, PutType
    <2>2. /\ files' = files /\ job' = job
          /\ cut'[job] = {IF e["tmp"] = "none" THEN e ELSE Put(e, "tmp", files[job]["tmp"]) : e \in cut[job]}
      BY <1>7, <1>b, <2>0 DEF SyncTemporary, SyncFile
    <2>3. \A e \in cut'[job] : e["tmp"] \in {"none", files[job]["tmp"]}
      BY <2>0, <2>1, <2>2
    <2> QED BY <1>0, <1>7, <2>0, <2>2, <2>3 DEF SyncTemporary, JobInv
  <1>8. CASE Verify
    BY <1>0, <1>b, <1>8, JobIdle DEF Verify, Converting, disk, JobInv
  <1>9. CASE Rename
    <2>0. job \in Segments /\ job \in sealed /\ files[job]["tmp"] = "twin" /\ files[job] \in Entries
      BY <1>0, <1>9, <1>b DEF Rename, Converting, JobInv
    <2>1. files'[job] = Renamed(files[job], "twin") /\ job' = job /\ step' = "renamed"
      BY <1>9, <1>b, <2>0 DEF Rename, MoveFile
    <2>2. Put(files[job], "tmp", "none") \in Entries
      BY <2>0, <1>a, PutType
    <2>3. files'[job]["parquet"] = "twin"
      BY <2>1, <2>2, <1>a, PutType DEF Renamed
    <2> QED BY <1>0, <2>0, <2>1, <2>3 DEF JobInv
  <1>10. CASE SyncDirectory
    <2>0. job \in Segments /\ job \in sealed /\ job' = job /\ step' = "committed"
      BY <1>10, <1>b DEF SyncDirectory, Converting
    <2>1. CASE files[job]["parquet"] = "twin"
      <3>1. \A e \in cut'[job] : e \in cut[job] /\ e["parquet"] # "none"
        BY <1>10, <1>a, <2>0, <2>1 DEF SyncDirectory, SyncNames
      <3>2. \A e \in cut'[job] : e["parquet"] = "twin"
        BY <1>0, <2>0, <3>1 DEF DiskInv, Sane
      <3> QED BY <1>0, <2>0, <3>2 DEF JobInv
    <2>2. CASE job \in Shipped
      BY <1>0, <2>0, <2>2 DEF JobInv
    <2> QED BY <1>0, <1>10, <2>1, <2>2 DEF SyncDirectory, JobInv
  <1>11. CASE DeleteJsonl
    BY <1>11, JobIdle DEF DeleteJsonl
  <1>12. CASE Crash \/ PowerCut
    BY <1>12, JobIdle DEF Crash, PowerCut
  <1>13. CASE Start \/ Recovered
    BY <1>0, <1>13, JobIdle DEF Start, Recovered, TypeOK
  <1>14. ASSUME NEW s \in Segments, RecoverTemporary(s) \/ RecoverBoth(s) PROVE JobInv'
    BY <1>0, <1>14, JobIdle DEF RecoverTemporary, RecoverBoth, producer, TypeOK
  <1>15. CASE List \/ ShipperCrash
    BY <1>0, <1>15, JobStill DEF List, ShipperCrash, disk, producer
  <1>16. ASSUME NEW s \in Segments, NEW n \in Names, Skip(s, n) \/ Open(s, n) PROVE JobInv'
    BY <1>0, <1>16, JobStill DEF Skip, Open, disk, producer
  <1>17. ASSUME NEW o \in sending, Upload(o) PROVE JobInv'
    BY <1>0, <1>17, JobStill DEF Upload, disk, producer
  \* The shipper may take the new Parquet file before the conversion is over.
  <1>18. ASSUME NEW o \in sending, Remove(o) PROVE JobInv'
    <2>1. /\ o.segment \in Segments /\ o.name = "parquet" /\ o.segment \in Shipped'
          /\ job' = job /\ step' = step
      BY <1>0, <1>18 DEF Remove, Object, Shipped, ShipperInv, TypeOK, producer
    <2>2. CASE o.segment # job
      BY <1>0, <1>b, <1>18, <2>1, <2>2, JobStill DEF Remove, Write, producer
    <2>3. CASE o.segment = job /\ step # "idle"
      <3>1. \A e \in Entries : Put(e, "parquet", "none")["tmp"] = e["tmp"]
        BY <1>a, PutType
      <3>2. /\ files'[job] = Put(files[job], "parquet", "none")
            /\ cut'[job] = cut[job] \cup {Put(e, "parquet", "none") : e \in cut[job]}
        BY <1>b, <1>18, <2>1, <2>3 DEF Remove, Write
      <3>3. /\ files'[job]["tmp"] = files[job]["tmp"]
            /\ \A e \in cut'[job] : \E d \in cut[job] : e["tmp"] = d["tmp"]
        BY <1>b, <2>3, <3>1, <3>2
      <3> QED BY <1>0, <2>1, <2>3, <3>3 DEF JobInv
    <2> QED BY <2>1, <2>2, <2>3, JobIdle
  <1>19. CASE Discover \/ Tick
    BY <1>0, <1>19, JobStill DEF Discover, Tick, disk, producer
  <1> QED
    BY <1>1, <1>2, <1>3, <1>4, <1>5, <1>6, <1>7, <1>8, <1>9, <1>10, <1>11, <1>12, <1>13,
       <1>14, <1>15, <1>16, <1>17, <1>18, <1>19
    DEF Next, Ring, Conversion, Recovery, Transfer, Failure

-----------------------------------------------------------------------------
\* The shipper, the bucket and the reader.

\* Every action keeps what the shipper may hold.
LEMMA ShipperStep == IInv /\ [Next]_vars => ShipperInv'
  <1> SUFFICES ASSUME IInv, [Next]_vars PROVE ShipperInv'
    OBVIOUS
  <1> USE ShippingAssumption
  <1>0. /\ TypeOK /\ DiskInv /\ ShipperInv
        /\ sealed \subseteq sealed'
    BY HistoryGrows DEF IInv
  <1>1. ASSUME UNCHANGED <<shipper, bucket, now>> PROVE ShipperInv'
    BY <1>0, <1>1 DEF ShipperInv, shipper
  <1>2. CASE UNCHANGED vars \/ Ring \/ Conversion \/ Recovery \/ Crash \/ Discover
    <2>1. UNCHANGED <<shipper, bucket, now>>
      BY <1>2 DEF vars, Ring, Conversion, Recovery, OpenSegment, Seal, Reclaim,
                  Create, WriteRecords, SyncTemporary, Verify, Rename, SyncDirectory, DeleteJsonl,
                  Crash, Start, Recovered, RecoverTemporary, RecoverBoth, Discover, shipper
    <2> QED BY <1>1, <2>1
  <1>3. CASE PowerCut \/ ShipperCrash
    BY <1>3 DEF PowerCut, ShipperCrash, ShipperInv
  <1>4. CASE List
    BY <1>0, <1>4 DEF List, ShipperExclude, Names, ShipperInv
  <1>5. ASSUME NEW s \in Segments, NEW n \in Names, Skip(s, n) PROVE ShipperInv'
    BY <1>0, <1>5 DEF Skip, ShipperInv, Object
  <1>6. ASSUME NEW s \in Segments, NEW n \in Names, Open(s, n) PROVE ShipperInv'
    <2>1. n = "parquet"
      BY <1>0, <1>6 DEF Open, ShipperInv
    <2>2. files[s][n] = "twin" /\ s \in sealed
      BY <1>0, <1>6, <2>1 DEF Open, DiskInv, Sane
    <2>3. now <= now + Lookback
      BY <1>0 DEF TypeOK
    <2> QED BY <1>0, <1>6, <2>1, <2>2, <2>3 DEF Open, ShipHour, history, ShipperInv, Object
  <1>7. ASSUME NEW o \in sending, Upload(o) PROVE ShipperInv'
    BY <1>0, <1>7 DEF Upload, ShipperInv, Object, shipper
  <1>8. ASSUME NEW o \in sending, Remove(o) PROVE ShipperInv'
    BY <1>0, <1>8 DEF Remove, ShipperInv
  <1>9. CASE Tick
    BY <1>0, <1>9 DEF Tick, ShipperInv, Object, shipper, TypeOK
  <1> QED
    BY <1>2, <1>3, <1>4, <1>5, <1>6, <1>7, <1>8, <1>9 DEF Next, Transfer, Failure

\* Every action keeps the bucket behind the clock and the reader's watermark.
LEMMA BucketStep == IInv /\ [Next]_vars => BucketInv'
  <1> SUFFICES ASSUME IInv, [Next]_vars PROVE BucketInv'
    OBVIOUS
  <1> USE ShippingAssumption
  <1>0. /\ TypeOK /\ ShipperInv /\ BucketInv
        /\ sealed \subseteq sealed'
    BY HistoryGrows DEF IInv
  <1>1. ASSUME UNCHANGED <<bucket, reader>> PROVE BucketInv'
    BY <1>0, <1>1 DEF BucketInv, OneBatchPerSegment, NothingBehindTheWatermark, Discoverable,
                      Batch, Shipped, reader
  <1>2. CASE UNCHANGED vars \/ Ring \/ Conversion \/ Recovery \/ Failure \/ Tick \/ List
    <2>1. UNCHANGED <<bucket, reader>>
      BY <1>2 DEF vars, Ring, Conversion, Recovery, Failure, OpenSegment, Seal, Reclaim,
                  Create, WriteRecords, SyncTemporary, Verify, Rename, SyncDirectory, DeleteJsonl,
                  Crash, PowerCut, ShipperCrash, Start, Recovered, RecoverTemporary, RecoverBoth,
                  Tick, List, reader
    <2> QED BY <1>1, <2>1
  <1>3. ASSUME NEW s \in Segments, NEW n \in Names, Skip(s, n) \/ Open(s, n) PROVE BucketInv'
    BY <1>1, <1>3 DEF Skip, Open
  <1>4. ASSUME NEW o \in sending, Remove(o) PROVE BucketInv'
    BY <1>1, <1>4 DEF Remove
  <1>5. ASSUME NEW o \in sending, Upload(o) PROVE BucketInv'
    <2>1. /\ o.content = "twin" /\ o.segment \in sealed /\ now <= o.hour + Lookback
          /\ o.hour \in Nat /\ now \in Nat /\ watermark \in 0..now
      BY <1>0, <1>5 DEF Upload, ShipperInv, TypeOK
    <2>2. o.hour >= watermark - Lookback
      BY <2>1
    <2>3. /\ bucket' = bucket \cup {Object(o)} /\ UNCHANGED <<watermark, ingested, sealed>>
          /\ Object(o).content = "twin" /\ Object(o).hour = o.hour /\ Object(o).segment = o.segment
      BY <1>5, <2>1 DEF Upload, reader, history, Object
    <2>4. OneBatchPerSegment' /\ (Shipped \subseteq sealed)'
      BY <1>0, <2>1, <2>3 DEF BucketInv, OneBatchPerSegment, Shipped
    <2>5. NothingBehindTheWatermark'
      BY <1>0, <2>2, <2>3 DEF BucketInv, NothingBehindTheWatermark, Discoverable
    <2> QED BY <2>4, <2>5 DEF BucketInv
  <1>6. CASE Discover
    BY <1>0, <1>6 DEF Discover, BucketInv, OneBatchPerSegment, NothingBehindTheWatermark,
                      Discoverable, Shipped, Batch
  <1> QED
    BY <1>2, <1>3, <1>4, <1>5, <1>6 DEF Next, Transfer

-----------------------------------------------------------------------------
\* Only a seal adds to the sealed segments, and what is older was there.
LEMMA OrderStep == IInv /\ [Next]_vars => OrderInv'
  <1> SUFFICES ASSUME IInv, [Next]_vars PROVE OrderInv'
    OBVIOUS
  <1>0. DiskInv /\ OrderInv
    BY DEF IInv
  <1>1. CASE sealed' = sealed
    BY <1>0, <1>1 DEF OrderInv
  <1>2. ASSUME NEW s \in Segments, Seal(s) PROVE OrderInv'
    <2>1. \A t \in Segments : t < s => t \in sealed
      BY <1>0, <1>2 DEF Seal, DiskInv, Sane
    <2> QED BY <1>0, <1>2, <2>1 DEF Seal, OrderInv
  <1>3. sealed' = sealed \/ \E s \in Segments : Seal(s)
    BY DEF Next, vars, Ring, Conversion, Recovery, Transfer, Failure, OpenSegment, Reclaim,
           Create, WriteRecords, SyncTemporary, Verify, Rename, SyncDirectory, DeleteJsonl,
           Crash, PowerCut, Start, Recovered, RecoverTemporary, RecoverBoth, List, Skip, Open,
           Upload, Remove, ShipperCrash, Discover, Tick, history
  <1> QED BY <1>1, <1>2, <1>3

-----------------------------------------------------------------------------
\* An empty directory satisfies all of it.
LEMMA InitIInv == Init => IInv
  <1> SUFFICES ASSUME Init PROVE IInv
    OBVIOUS
  <1> USE ShippingAssumption
  <1>1. /\ \A s \in Segments : files[s] = Nothing /\ cut[s] = {Nothing}
        /\ sealed = {} /\ step = "idle"
    BY DEF Init
  <1>2. TypeOK
    BY NothingType DEF Init, TypeOK
  <1>3. DiskInv
    BY <1>1, NothingType DEF DiskInv, Sane, Names
  <1>4. JobInv /\ ShipperInv /\ BucketInv
    BY DEF Init, JobInv, ShipperInv, BucketInv, OneBatchPerSegment, NothingBehindTheWatermark, Shipped
  <1>5. OrderInv
    BY DEF Init, OrderInv
  <1> QED BY <1>2, <1>3, <1>4, <1>5 DEF IInv

\* The invariant holds of every behaviour.
THEOREM Invariance == Spec => []IInv
  <1>1. IInv /\ [Next]_vars => IInv'
    BY TypeStep, DiskStep, JobStep, ShipperStep, BucketStep, OrderStep DEF IInv
  <1> QED BY <1>1, InitIInv, PTL DEF Spec

\* Every variable of Shipping keeps its type.
THEOREM TypeCorrect == Spec => []TypeOK
  <1>1. IInv => TypeOK
    BY DEF IInv
  <1> QED BY <1>1, Invariance, PTL

\* No crash, at any step of the conversion, the recovery or the shipping,
\* loses the last complete copy of a segment.
THEOREM CopiesSurvive == Spec => []CopySurvives
  <1>1. IInv => CopySurvives
    BY DEF IInv, TypeOK, DiskInv, Sane, CopySurvives, Excused
  <1> QED BY <1>1, Invariance, PTL

\* A segment never reaches the bucket in two forms.
THEOREM BatchesAreUnique == Spec => []OneBatchPerSegment
  <1>1. IInv => OneBatchPerSegment
    BY DEF IInv, BucketInv
  <1> QED BY <1>1, Invariance, PTL

\* Whatever was shipped, however late, is ingested or still in a listing.
THEOREM DiscoveryIsComplete == Spec => []NothingBehindTheWatermark
  <1>1. IInv => NothingBehindTheWatermark
    BY DEF IInv, BucketInv
  <1> QED BY <1>1, Invariance, PTL

-----------------------------------------------------------------------------
\* The refinement.

\* The order in which the store is instantiated.
Before == {p \in Segments \X Segments : p[1] < p[2]}

\* A step that touches none of the abstract store.
LEMMA StoreStill ==
  ASSUME UNCHANGED <<bucket, ingested, history>>
  PROVE  UNCHANGED Store!store
  BY DEF Store!store, Shipped, Arrived, history

\* Each action is one of the store's, or changes nothing the store sees.
LEMMA StoreStep == IInv /\ [Next]_vars => [Store!Next]_Store!store
  <1> SUFFICES ASSUME IInv, [Next]_vars PROVE [Store!Next]_Store!store
    OBVIOUS
  <1>0. TypeOK /\ DiskInv /\ ShipperInv /\ BucketInv /\ OrderInv
    BY DEF IInv
  <1>1. CASE \/ UNCHANGED vars \/ Conversion \/ Crash \/ PowerCut \/ ShipperCrash
             \/ Start \/ Recovered \/ List \/ Tick
    <2>1. UNCHANGED <<bucket, ingested, history>>
      BY <1>1 DEF vars, Conversion, Create, WriteRecords, SyncTemporary, Verify, Rename,
                  SyncDirectory, DeleteJsonl, Crash, PowerCut, ShipperCrash, Start, Recovered,
                  List, Tick, reader
    <2> QED BY <2>1, StoreStill
  <1>2. ASSUME NEW s \in Segments,
               OpenSegment(s) \/ RecoverTemporary(s)
        PROVE  [Store!Next]_Store!store
    <2>1. UNCHANGED <<bucket, ingested, history>>
      BY <1>2 DEF OpenSegment, RecoverTemporary, reader
    <2> QED BY <2>1, StoreStill
  <1>3. ASSUME NEW s \in Segments, Seal(s) PROVE [Store!Next]_Store!store
    <2>1. \A t \in Segments : t < s => t \in sealed
      BY <1>0, <1>3 DEF Seal, DiskInv, Sane
    <2>a. \A t \in sealed : t \in Segments /\ t < s
      <3>1. s \notin sealed
        BY <1>0, <1>3 DEF Seal, DiskInv, Sane
      <3> QED BY <1>0, <3>1 DEF OrderInv, TypeOK, Segments
    <2>b. /\ \A t \in sealed : <<t, s>> \in Before
          /\ \A t \in Segments : <<t, s>> \in Before => t \in sealed
      BY <2>1, <2>a DEF Before
    <2>2. Store!Seal(s)
      BY <1>3, <2>b DEF Seal, Store!Seal, Shipped, Arrived, reader, Before
    <2> QED BY <2>2 DEF Store!Next
  \* A segment that is not in the ring has no copy there, so it was settled.
  <1>4. ASSUME NEW s \in Segments, Reclaim(s) PROVE [Store!Next]_Store!store
    <2>1. s \in sealed
      BY <1>0, <1>4, RetainedSealed DEF Reclaim
    <2>2. ASSUME NEW t \in sealed, t < s PROVE t \in Store!Settled
      <3>1. t \in Segments /\ s \in Int /\ t \in Int
        BY <1>0 DEF TypeOK, Segments
      <3>2. t \notin Retained
        BY <1>4, <2>2, <3>1 DEF Reclaim
      <3>3. ~HasCopy(files[t])
        BY <3>1, <3>2 DEF Retained, HasCopy
      <3>4. t \in Excused
        BY <1>0, <3>1, <3>3 DEF DiskInv, Sane
      <3> QED BY <3>4 DEF Excused, Store!Settled
    <2>3. \A t \in sealed : <<t, s>> \in Before => t \in Store!Settled
      BY <2>2 DEF Before
    <2>4. CASE s \in dropped
      <3>1. UNCHANGED <<bucket, ingested, history>>
        BY <1>4, <2>4 DEF Reclaim, reader, history
      <3> QED BY <3>1, StoreStill
    <2>5. CASE s \notin dropped
      <3>1. Store!Drop({s})
        BY <1>4, <2>3 DEF Reclaim, Store!Drop, Shipped, Arrived, reader, Before
      <3>2. {s} \in SUBSET (sealed \ dropped)
        BY <2>1, <2>5
      <3> QED BY <3>1, <3>2 DEF Store!Next
    <2> QED BY <2>4, <2>5
  <1>5. ASSUME NEW s \in Segments, RecoverBoth(s) PROVE [Store!Next]_Store!store
    <2>1. s \in sealed
      BY <1>0, <1>5, RetainedSealed DEF RecoverBoth, Both, Retained
    <2>2. CASE exposed' = exposed
      <3>1. UNCHANGED <<bucket, ingested, history>>
        BY <1>5, <2>2 DEF RecoverBoth, reader, history
      <3> QED BY <3>1, StoreStill
    <2>3. CASE exposed' = exposed \cup {s}
      <3>1. Store!Waive(s)
        BY <1>5, <2>1, <2>3 DEF RecoverBoth, Store!Waive, Shipped, Arrived, reader
      <3> QED BY <3>1 DEF Store!Next
    <2>4. exposed' = exposed \/ exposed' = exposed \cup {s}
      BY <1>5 DEF RecoverBoth
    <2> QED BY <2>2, <2>3, <2>4
  <1>6. ASSUME NEW s \in Segments, NEW n \in Names, Skip(s, n) \/ Open(s, n)
        PROVE  [Store!Next]_Store!store
    <2>1. UNCHANGED <<bucket, ingested, history>>
      BY <1>6 DEF Skip, Open, reader
    <2> QED BY <2>1, StoreStill
  <1>7. ASSUME NEW o \in sending, Upload(o) PROVE [Store!Next]_Store!store
    <2>1. o.segment \in Segments /\ o.segment \in sealed
      BY <1>0 DEF ShipperInv, TypeOK
    <2>2. Shipped' = Shipped \cup {o.segment}
      BY <1>7 DEF Upload, Shipped, Object
    <2>3. Store!Ship(o.segment)
      BY <1>7, <2>1, <2>2 DEF Upload, Store!Ship, Arrived, reader, history
    <2> QED BY <2>1, <2>3 DEF Store!Next
  <1>8. ASSUME NEW o \in sending, Remove(o) PROVE [Store!Next]_Store!store
    <2>1. UNCHANGED <<bucket, ingested, history>>
      BY <1>8 DEF Remove, reader
    <2> QED BY <2>1, StoreStill
  <1>9. CASE Discover
    <2> DEFINE S == {o.segment : o \in Discoverable}
    <2>1. S \subseteq Shipped
      BY DEF Discoverable, Shipped
    <2>2. Arrived' = Arrived \cup S
      <3> DEFINE B == {Batch(o) : o \in Discoverable}
      <3>1. ingested' = ingested \cup B
        BY <1>9 DEF Discover
      <3>a. \A o \in Discoverable : Batch(o).segment = o.segment
        BY DEF Batch
      <3>b. {b.segment : b \in B} \subseteq S
        BY <3>a
      <3>c. ASSUME NEW o \in Discoverable PROVE \E b \in B : b.segment = o.segment
        <4> WITNESS Batch(o) \in B
        <4> QED BY <3>a
      <3>2. {b.segment : b \in B} = S
        BY <3>b, <3>c
      <3> HIDE DEF B, S
      <3> QED BY <3>1, <3>2 DEF Arrived
    <2>3. Shipped' = Shipped /\ UNCHANGED history
      BY <1>9 DEF Discover, Shipped
    <2> HIDE DEF S
    <2>4. Store!Arrive(S) /\ S \in SUBSET Shipped
      BY <2>1, <2>2, <2>3 DEF Store!Arrive, history
    <2> QED BY <2>4 DEF Store!Next
  <1> QED
    BY <1>1, <1>2, <1>3, <1>4, <1>5, <1>6, <1>7, <1>8, <1>9
    DEF Next, Ring, Recovery, Transfer, Failure

\* The directory, the conversion, the crashes, the shipper and the discovery
\* together do what SegmentStore allows: nothing arrives that was not sealed
\* and shipped, and the ring drops a segment when all older ones are settled.
THEOREM Refinement == Spec => Store!Safety
  <1>1. Init => Store!Init
    BY DEF Init, Store!Init, Shipped, Arrived
  <1>2. IInv /\ [Next]_vars => [Store!Next]_Store!store
    BY StoreStep
  <1> QED BY <1>1, <1>2, Invariance, PTL DEF Spec, Store!Safety
-----------------------------------------------------------------------------
(***************************************************************************)
(* Why every segment arrives.  What a segment has yet to go through, on    *)
(* the disk, in the shipper and before the reader, is a number; each step  *)
(* of any process lowers one segment's and raises none, or brings recovery *)
(* or the clock forward.  Only a fault sets anything back, and faults are  *)
(* counted.  And while a sealed segment is not settled some process has a  *)
(* step to take.                                                           *)
(***************************************************************************)
Has(s, n) == files[s][n] # "none"
Listed(s) == <<s, "parquet">> \in queue
Opened(s) == \E o \in sending : o.segment = s
Uploaded(s) == \E o \in sending : o.segment = s /\ Object(o) \in bucket

\* Until the JSONL is gone.  A temporary that verification will refuse weighs
\* more than the JSONL it was made from.
StepLeft(s) ==
  CASE step = "created" -> 15
    [] step = "written" -> IF files[s]["tmp"] = "twin" THEN 14 ELSE 18
    [] step = "synced" -> IF files[s]["tmp"] = "twin" THEN 13 ELSE 17
    [] step = "verified" -> 12
    [] step = "renamed" -> 3
    [] step = "committed" -> 2
    [] OTHER -> 16

ConversionLeft(s) ==
  IF s \notin sealed THEN IF Has(s, "active") THEN 19 ELSE 20
  ELSE IF ~Has(s, "jsonl") THEN 0
  ELSE IF step = "idle" \/ job # s THEN 16
  ELSE StepLeft(s)

\* Until the Parquet file is gone, and the shipper is done with its name.
UploadLeft(s) ==
  (IF Listed(s) THEN 6 ELSE IF Has(s, "parquet") THEN 7 ELSE 0)
    + (IF Has(s, "parquet") THEN 1 ELSE 0)
    - (IF Uploaded(s) THEN 3 ELSE IF Opened(s) THEN 1 ELSE 0)

ReadLeft(s) == IF s \in Shipped \ Arrived THEN 1 ELSE 0

StrayLeft(s) == IF phase # "running" /\ Has(s, "tmp") THEN 1 ELSE 0

Left(s) == ConversionLeft(s) + UploadLeft(s) + ReadLeft(s) + StrayLeft(s)

PhaseLeft == CASE phase = "down" -> 2 [] phase = "recovering" -> 1 [] OTHER -> 0

ClockLeft == 2 * (MaxHour - now) + (now - watermark)

\* As many as the sum of what is left of each segment.
Tokens == {p \in Segments \X (1..30) : p[2] <= Left(p[1])}

Work == Cardinality(Tokens) + PhaseLeft + ClockLeft

\* What a process needs is there while it needs it.
ProgressInv ==
  /\ \A o \in sending : <<o.segment, o.name>> \in queue
  /\ step # "idle" => files[job]["jsonl"] # "none"
  /\ step \in {"created", "written", "synced", "verified"} => files[job]["tmp"] # "none"

\* The guard of a step of the conversion, the recovery, the shipper, the reader.
ConversionCan ==
  /\ phase = "running"
  /\ \/ step = "idle" /\ \E s \in Segments : Has(s, "jsonl") /\ ~Has(s, "parquet")
     \/ step \in {"created", "written", "verified", "renamed"}
     \/ step = "synced" /\ (files[job]["tmp"] = "twin" \/ Has(job, "tmp"))
     \/ step = "committed" /\ Has(job, "jsonl")

RecoveryCan ==
  \/ phase = "down"
  \/ /\ phase = "recovering"
     /\ \/ \E s \in Segments : Has(s, "tmp") \/ Both(s)
        \/ \A s \in Segments : ~Has(s, "tmp") /\ ~Both(s)

TransferCan ==
  \/ queue = {} /\ sending = {} /\ \E s \in Segments : Has(s, "parquet")
  \/ sending = {} /\ \E s \in Segments, n \in Names : <<s, n>> \in queue
  \/ sending # {}

DiscoverCan == \E o \in Discoverable : Batch(o) \notin ingested

-----------------------------------------------------------------------------
\* A write changes one entry of one segment.
LEMMA WriteAt ==
  ASSUME TypeOK, NEW s \in Segments, NEW n \in Names, NEW c \in Contents, Write(s, n, c)
  PROVE  /\ \A t \in Segments \ {s} : files'[t] = files[t]
         /\ \A m \in Names \ {n} : files'[s][m] = files[s][m]
         /\ files'[s][n] = c
  <1>1. files' = [files EXCEPT ![s] = Put(files[s], n, c)]
    BY DEF Write
  <1>2. files[s] \in Entries
    BY DEF TypeOK
  <1>3. /\ Put(files[s], n, c)[n] = c
        /\ \A m \in Names \ {n} : Put(files[s], n, c)[m] = files[s][m]
    BY <1>2, PutType
  <1>4. files'[s] = Put(files[s], n, c) /\ \A t \in Segments \ {s} : files'[t] = files[t]
    BY <1>1 DEF TypeOK
  <1> QED BY <1>3, <1>4

\* So does unlinking, of an entry that was there.
LEMMA UnlinkAt ==
  ASSUME TypeOK, NEW s \in Segments, NEW n \in Names, Unlink(s, n)
  PROVE  /\ \A t \in Segments \ {s} : files'[t] = files[t]
         /\ \A m \in Names \ {n} : files'[s][m] = files[s][m]
         /\ files[s][n] # "none" /\ files'[s][n] = "none"
  BY WriteAt DEF Unlink, Contents

\* A rename changes the temporary and the Parquet of the segment.
LEMMA RenameAt ==
  ASSUME IInv, Rename
  PROVE  /\ job \in Segments
         /\ \A t \in Segments \ {job} : files'[t] = files[t]
         /\ files'[job]["active"] = files[job]["active"]
         /\ files'[job]["jsonl"] = files[job]["jsonl"]
         /\ files'[job]["tmp"] = "none" /\ files'[job]["parquet"] = "twin"
  <1>1. job \in Segments /\ files[job]["tmp"] = "twin" /\ files[job] \in Entries
        /\ files \in [Segments -> Entries]
    BY DEF IInv, TypeOK, JobInv, Rename, Converting
  <1>2. files' = [files EXCEPT ![job] = Renamed(files[job], "twin")]
    BY <1>1 DEF Rename, MoveFile
  <1>3. {"active", "jsonl", "tmp", "parquet"} = Names /\ {"none", "twin"} \subseteq Contents
    BY DEF Names, Contents
  <1> DEFINE d == Put(files[job], "tmp", "none")
  <1>4. d \in Entries /\ d["tmp"] = "none" /\ \A m \in Names \ {"tmp"} : d[m] = files[job][m]
    BY <1>1, <1>3, PutType
  <1> HIDE DEF d
  <1>5. /\ Put(d, "parquet", "twin")["parquet"] = "twin"
        /\ \A m \in Names \ {"parquet"} : Put(d, "parquet", "twin")[m] = d[m]
    BY <1>3, <1>4, PutType
  <1>6. files'[job] = Put(d, "parquet", "twin")
    BY <1>1, <1>2 DEF Renamed, d
  <1>7. \A t \in Segments \ {job} : files'[t] = files[t]
    BY <1>1, <1>2
  <1> QED BY <1>1, <1>3, <1>4, <1>5, <1>6, <1>7

-----------------------------------------------------------------------------
\* The segment under conversion keeps what it needs.
LEMMA JobKept ==
  ASSUME ProgressInv, UNCHANGED <<job, step>>,
         step # "idle" =>
           /\ files'[job]["jsonl"] = files[job]["jsonl"]
           /\ files'[job]["tmp"] = files[job]["tmp"],
         \A o \in sending' : <<o.segment, o.name>> \in queue'
  PROVE  ProgressInv'
  BY DEF ProgressInv

\* Every action keeps what progress rests on.
LEMMA ProgressStep == IInv /\ ProgressInv /\ [Next]_vars => ProgressInv'
  <1> SUFFICES ASSUME IInv, ProgressInv, [Next]_vars PROVE ProgressInv'
    OBVIOUS
  <1>0. TypeOK /\ DiskInv /\ JobInv /\ ShipperInv
    BY DEF IInv
  <1>a. /\ Contents = {"none", "part", "lines", "twin"}
        /\ Names = {"active", "jsonl", "tmp", "parquet"}
    BY DEF Contents, Names
  <1>b. /\ step # "idle" => job \in Segments /\ job \in sealed /\ phase = "running"
        /\ \A s \in Segments : s \in sealed => files[s]["active"] = "none"
        /\ \A o \in sending : <<o.segment, o.name>> \in queue
    BY <1>0 DEF TypeOK, JobInv, DiskInv, Sane, ProgressInv
  <1>1. ASSUME UNCHANGED <<files, job, step>>, \A o \in sending' : <<o.segment, o.name>> \in queue'
        PROVE  ProgressInv'
    BY <1>1, JobKept
  <1>2. CASE UNCHANGED vars \/ SyncTemporary \/ SyncDirectory \/ Start \/ Recovered \/ Discover \/ Tick
    <2>1. UNCHANGED <<files, shipper>>
      BY <1>2 DEF vars, disk, SyncTemporary, SyncFile, SyncDirectory, SyncNames, Start, Recovered,
                  Discover, Tick
    <2>2. CASE UNCHANGED <<job, step>>
      BY <1>1, <1>b, <2>1, <2>2 DEF shipper
    <2>3. CASE SyncTemporary \/ SyncDirectory
      BY <1>b, <2>1, <2>3 DEF SyncTemporary, SyncDirectory, Converting, ProgressInv, shipper
    <2> QED BY <1>2, <2>2, <2>3 DEF vars, producer, Start, Recovered, Discover, Tick
  <1>3. ASSUME NEW s \in Segments, OpenSegment(s) \/ Seal(s) PROVE ProgressInv'
    <2>1. UNCHANGED <<job, step, shipper>>
      BY <1>3 DEF OpenSegment, Seal, producer
    <2>2. step # "idle" => s # job
      BY <1>3, <1>b, NothingType, <1>a DEF OpenSegment, Seal, ProgressInv
    <2>3. \A t \in Segments \ {s} : files'[t] = files[t]
      BY <1>0, <1>3 DEF OpenSegment, Seal, TypeOK
    <2> QED BY <1>b, <2>1, <2>2, <2>3, JobKept DEF shipper
  <1>4. ASSUME NEW s \in Segments, Reclaim(s) \/ RecoverTemporary(s) \/ RecoverBoth(s)
        PROVE  ProgressInv'
    <2>1. UNCHANGED <<job, step, shipper>> /\ step = "idle"
      BY <1>0, <1>4 DEF Reclaim, RecoverTemporary, RecoverBoth, producer, TypeOK
    <2> QED BY <1>b, <2>1, JobKept DEF shipper
  <1>5. ASSUME NEW s \in Segments, Create(s) PROVE ProgressInv'
    <2>1. files'[s]["jsonl"] = files[s]["jsonl"] /\ files'[s]["tmp"] = "part"
      BY <1>0, <1>5, <1>a, WriteAt DEF Create
    <2> QED BY <1>5, <1>b, <2>1 DEF Create, shipper, ProgressInv
  <1>6. CASE WriteRecords
    <2>1. /\ job \in Segments /\ job' = job /\ step' = "written" /\ UNCHANGED shipper
          /\ step = "created"
      BY <1>6, <1>b DEF WriteRecords, Converting
    <2>2. files'[job]["jsonl"] = files[job]["jsonl"] /\ files'[job]["tmp"] # "none"
      <3>1. CASE Write(job, "tmp", "twin")
        BY <1>0, <1>a, <2>1, <3>1, WriteAt
      <3>2. CASE UNCHANGED disk
        BY <2>1, <3>2 DEF disk, ProgressInv
      <3> QED BY <1>6, <3>1, <3>2 DEF WriteRecords
    <2> QED BY <1>b, <2>1, <2>2 DEF ProgressInv, shipper
  <1>7. CASE Verify
    <2>1. UNCHANGED shipper
      BY <1>7 DEF Verify
    <2>2. CASE step' = "idle"
      BY <1>b, <2>1, <2>2 DEF ProgressInv, shipper
    <2>3. CASE step' = "verified" /\ UNCHANGED <<disk, job>>
      BY <1>7, <1>b, <2>1, <2>3 DEF Verify, Converting, ProgressInv, shipper, disk
    <2> QED BY <1>7, <2>2, <2>3 DEF Verify
  <1>8. CASE Rename
    BY <1>8, <1>b, RenameAt DEF Rename, Converting, ProgressInv, shipper
  <1>9. CASE DeleteJsonl \/ Crash
    BY <1>9, <1>b DEF DeleteJsonl, Crash, ProgressInv, shipper
  <1>10. CASE PowerCut
    BY <1>10 DEF PowerCut, ProgressInv
  <1>11. CASE List \/ ShipperCrash
    BY <1>11, <1>1 DEF List, ShipperCrash, producer, disk
  <1>12. ASSUME NEW s \in Segments, NEW n \in Names, Skip(s, n) \/ Open(s, n) PROVE ProgressInv'
    <2>1. UNCHANGED <<files, job, step>>
      BY <1>12 DEF Skip, Open, producer, disk
    <2>2. \A o \in sending' : <<o.segment, o.name>> \in queue'
      BY <1>12 DEF Skip, Open
    <2> QED BY <2>1, <2>2, <1>1
  <1>13. ASSUME NEW o \in sending, Upload(o) PROVE ProgressInv'
    BY <1>13, <1>1, <1>b DEF Upload, shipper, producer, disk
  <1>14. ASSUME NEW o \in sending, Remove(o) PROVE ProgressInv'
    <2>1. o.segment \in Segments /\ o.name = "parquet"
      BY <1>0 DEF TypeOK, ShipperInv
    <2>2. UNCHANGED <<job, step>> /\ sending' = {} /\ Write(o.segment, "parquet", "none")
      BY <1>14, <2>1 DEF Remove, producer
    <2>3. step # "idle" =>
             /\ files'[job]["jsonl"] = files[job]["jsonl"]
             /\ files'[job]["tmp"] = files[job]["tmp"]
      BY <1>0, <1>a, <1>b, <2>1, <2>2, WriteAt
    <2> QED BY <2>2, <2>3, JobKept
  <1> QED
    BY <1>2, <1>3, <1>4, <1>5, <1>6, <1>7, <1>8, <1>9, <1>10, <1>11, <1>12, <1>13, <1>14
    DEF Next, Ring, Conversion, Recovery, Transfer, Failure

\* So it always holds.
LEMMA ProgressAlways == Spec => []ProgressInv
  <1>1. Init => ProgressInv
    BY DEF Init, ProgressInv
  <1> QED BY <1>1, Invariance, ProgressStep, PTL DEF Spec

\* While a sealed segment has not arrived, was not declared dropped and is not
\* exposed, some process has a step to take: nothing is stranded, whatever
\* crashed and whatever was listed, sent or removed in between.
THEOREM NothingIsStranded ==
  Spec => [](sealed \ (Arrived \cup dropped \cup exposed) # {} =>
               ConversionCan \/ RecoveryCan \/ TransferCan \/ DiscoverCan)
  <1> DEFINE Stranded == sealed \ (Arrived \cup dropped \cup exposed)
             Can == ConversionCan \/ RecoveryCan \/ TransferCan \/ DiscoverCan
  <1>1. ASSUME IInv, ProgressInv, NEW s \in Stranded PROVE Can
    <2>0. TypeOK /\ DiskInv /\ BucketInv /\ s \in Segments /\ s \in sealed
      BY <1>1 DEF IInv, TypeOK
    <2>1. CASE s \in Shipped
      <3>1. PICK o \in bucket : o.segment = s
        BY <2>1 DEF Shipped
      <3>2. Batch(o) \notin ingested
        BY <1>1, <3>1 DEF Arrived, Batch
      <3>3. o \in Discoverable
        BY <2>0, <3>2 DEF BucketInv, NothingBehindTheWatermark
      <3> QED BY <3>2, <3>3 DEF DiscoverCan
    <2>2. CASE s \notin Shipped
      <3>1. HasCopy(files[s])
        BY <1>1, <2>0, <2>2 DEF DiskInv, Sane, Excused
      <3>2. CASE phase # "running"
        BY <2>0, <3>2 DEF RecoveryCan, TypeOK
      <3>3. CASE phase = "running" /\ step # "idle"
        BY <1>1, <2>0, <3>3 DEF ConversionCan, ProgressInv, TypeOK, Has
      <3>4. CASE phase = "running" /\ step = "idle" /\ ~Has(s, "parquet")
        BY <2>0, <3>1, <3>4 DEF ConversionCan, HasCopy, Has
      <3>5. CASE Has(s, "parquet")
        <4>1. CASE queue = {}
          BY <2>0, <3>5, <4>1 DEF TransferCan
        <4>2. CASE queue # {}
          <5>1. PICK q \in queue : q \in Segments \X Names
            BY <2>0, <4>2 DEF TypeOK
          <5>2. PICK t \in Segments, n \in Names : q = <<t, n>>
            BY <5>1
          <5> QED BY <5>1, <5>2 DEF TransferCan
        <4> QED BY <4>1, <4>2
      <3> QED BY <3>2, <3>3, <3>4, <3>5
    <2> QED BY <2>1, <2>2
  <1>2. IInv /\ ProgressInv => (Stranded # {} => Can)
    BY <1>1
  <1> QED BY <1>2, Invariance, ProgressAlways, PTL

-----------------------------------------------------------------------------
\* Every part of what is left is a number within its bounds.
LeftOK ==
  \A s \in Segments :
    /\ ConversionLeft(s) \in 0..20 /\ UploadLeft(s) \in 0..8
    /\ ReadLeft(s) \in 0..1 /\ StrayLeft(s) \in 0..1

\* What a segment has left of each kind of work is bounded.
LEMMA LeftType == IInv /\ ProgressInv => LeftOK
  <1> SUFFICES ASSUME IInv, ProgressInv, NEW s \in Segments
               PROVE  /\ ConversionLeft(s) \in 0..20 /\ UploadLeft(s) \in 0..8
                      /\ ReadLeft(s) \in 0..1 /\ StrayLeft(s) \in 0..1
    BY DEF LeftOK
  <1>1. ConversionLeft(s) \in 0..20
    BY DEF ConversionLeft, StepLeft
  <1>2. UploadLeft(s) \in 0..8
    <2>1. Opened(s) => Listed(s)
      BY DEF Opened, Listed, ProgressInv, IInv, ShipperInv
    <2>2. Uploaded(s) => Opened(s)
      BY DEF Opened, Uploaded
    <2> QED BY <2>1, <2>2 DEF UploadLeft
  <1>3. ReadLeft(s) \in 0..1 /\ StrayLeft(s) \in 0..1
    BY DEF ReadLeft, StrayLeft
  <1> QED BY <1>1, <1>2, <1>3

\* And is so after the step.
LEMMA LeftTypeNext == (IInv /\ ProgressInv => LeftOK)'
  BY LeftType, PTL

\* The step takes from the segment s, and leaves the others as they were.
Lowered(s) == Left(s)' < Left(s) /\ \A t \in Segments \ {s} : Left(t)' = Left(t)

\* No segment has more left than before.
NoneRaised == \A t \in Segments : Left(t)' <= Left(t)

\* Taking from one segment raises none.
LEMMA LoweredRaisesNone ==
  ASSUME LeftOK, LeftOK', NEW s \in Segments, Lowered(s)
  PROVE  NoneRaised
  <1>1. \A t \in Segments : Left(t) \in Int /\ Left(t)' \in Int
    BY DEF LeftOK, Left
  <1> QED BY <1>1 DEF Lowered, NoneRaised

\* The tokens are finitely many; where none is raised there are no more, and
\* where one is lowered there are fewer.
LEMMA TokensFinite ==
  LeftOK => IsFiniteSet(Tokens) /\ Cardinality(Tokens) \in Nat
  <1>1. IsFiniteSet(Segments \X (1..30))
    <2>1. MaxSeq \in Int
      BY ShippingAssumption
    <2>2. IsFiniteSet(0..MaxSeq)
      BY <2>1, FS_Interval
    <2>3. IsFiniteSet(1..30)
      <3>1. 1 \in Int /\ 30 \in Int
        OBVIOUS
      <3>2. \A a, b \in Int : IsFiniteSet(a..b)
        BY FS_Interval
      <3> QED BY <3>1, <3>2, Zenon
    <2> QED BY <2>2, <2>3, FS_Product DEF Segments
  <1>2. Tokens \in SUBSET (Segments \X (1..30))
    BY DEF Tokens
  <1> QED BY <1>1, <1>2, FS_Subset, FS_CardinalityType

\* Where no segment has more left, there are no more tokens; where one has
\* less, there are fewer.
LEMMA TokensFall ==
  ASSUME LeftOK, LeftOK', NoneRaised
  PROVE  /\ Cardinality(Tokens') \in Nat /\ Cardinality(Tokens') <= Cardinality(Tokens)
         /\ (\E s \in Segments : Left(s)' < Left(s)) =>
              Cardinality(Tokens') < Cardinality(Tokens)
  <1>1. \A s \in Segments : Left(s) \in 0..30 /\ Left(s)' \in 0..30
    BY DEF LeftOK, Left
  <1>2. Tokens' \in SUBSET Tokens
    <2>1. ASSUME NEW p \in Tokens' PROVE p \in Tokens
      <3>1. p \in Segments \X (1..30) /\ p[2] <= Left(p[1])'
        BY <2>1 DEF Tokens
      <3>2. p[1] \in Segments /\ p[2] \in 1..30
        BY <3>1
      <3>3. p[2] <= Left(p[1])
        BY <1>1, <3>1, <3>2 DEF NoneRaised
      <3> QED BY <3>1, <3>3 DEF Tokens
    <2> QED BY <2>1
  <1>3. /\ IsFiniteSet(Tokens) /\ Cardinality(Tokens) \in Nat
        /\ IsFiniteSet(Tokens') /\ Cardinality(Tokens') \in Nat
        /\ Cardinality(Tokens') <= Cardinality(Tokens)
        /\ Cardinality(Tokens') = Cardinality(Tokens) => Tokens' = Tokens
    BY <1>2, TokensFinite, FS_Subset, FS_CardinalityType
  <1>4. ASSUME NEW s \in Segments, Left(s)' < Left(s) PROVE Tokens' # Tokens
    <2> DEFINE p == <<s, Left(s)>>
    <2>1. p \in Segments \X (1..30)
      BY <1>1, <1>4
    <2>2. p \in Tokens
      BY <1>1, <2>1 DEF Tokens
    <2>3. p \notin Tokens'
      BY <1>1, <1>4 DEF Tokens
    <2> QED BY <2>2, <2>3
  <1> QED BY <1>3, <1>4

-----------------------------------------------------------------------------
\* What a step does not touch it leaves as it was.
LEMMA StillParts ==
  ASSUME NEW t
  PROVE  /\ /\ \A n \in {"active", "jsonl", "tmp"} : files'[t][n] = files[t][n]
            /\ (t \in sealed') = (t \in sealed)
            /\ \/ UNCHANGED <<job, step>>
               \/ (step = "idle" \/ job # t) /\ (step' = "idle" \/ job' # t)
            => ConversionLeft(t)' = ConversionLeft(t)
         /\ UNCHANGED <<shipper, bucket>> /\ files'[t]["parquet"] = files[t]["parquet"]
            => UploadLeft(t)' = UploadLeft(t)
         /\ UNCHANGED <<bucket, ingested>> => ReadLeft(t)' = ReadLeft(t)
         /\ phase' = phase /\ files'[t]["tmp"] = files[t]["tmp"]
            => StrayLeft(t)' = StrayLeft(t)
  <1>1. ASSUME \A n \in {"active", "jsonl", "tmp"} : files'[t][n] = files[t][n],
               (t \in sealed') = (t \in sealed),
               \/ UNCHANGED <<job, step>>
               \/ (step = "idle" \/ job # t) /\ (step' = "idle" \/ job' # t)
        PROVE  ConversionLeft(t)' = ConversionLeft(t)
    BY <1>1 DEF ConversionLeft, StepLeft, Has
  <1>2. UNCHANGED <<shipper, bucket>> /\ files'[t]["parquet"] = files[t]["parquet"]
        => UploadLeft(t)' = UploadLeft(t)
    BY DEF UploadLeft, Listed, Opened, Uploaded, Has, shipper
  <1>3. UNCHANGED <<bucket, ingested>> => ReadLeft(t)' = ReadLeft(t)
    BY DEF ReadLeft, Shipped, Arrived
  <1>4. phase' = phase /\ files'[t]["tmp"] = files[t]["tmp"] => StrayLeft(t)' = StrayLeft(t)
    BY DEF StrayLeft, Has
  <1> QED BY <1>1, <1>2, <1>3, <1>4

\* The producer works on one segment at a time.
LEMMA AtOne ==
  ASSUME LeftOK, LeftOK', NEW s \in Segments,
         UNCHANGED <<shipper, bucket, reader, phase>>,
         \A t \in Segments \ {s} : files'[t] = files[t] /\ (t \in sealed') = (t \in sealed),
         \/ UNCHANGED <<job, step>>
         \/ (step = "idle" \/ job = s) /\ (step' = "idle" \/ job' = s),
         ConversionLeft(s)' + UploadLeft(s)' + StrayLeft(s)'
           < ConversionLeft(s) + UploadLeft(s) + StrayLeft(s)
  PROVE  Lowered(s)
  <1>1. ReadLeft(s)' = ReadLeft(s)
    BY StillParts DEF reader
  <1>2. Left(s)' < Left(s)
    BY <1>1 DEF Left, LeftOK
  <1>3. ASSUME NEW t \in Segments \ {s} PROVE Left(t)' = Left(t)
    <2>1. /\ ConversionLeft(t)' = ConversionLeft(t) /\ UploadLeft(t)' = UploadLeft(t)
          /\ ReadLeft(t)' = ReadLeft(t) /\ StrayLeft(t)' = StrayLeft(t)
      BY StillParts DEF reader
    <2> QED BY <2>1 DEF Left
  <1> QED BY <1>2, <1>3 DEF Lowered

\* Each step of the ring, the conversion and the recovery that works on a
\* segment lowers it.
LEMMA RingLowers ==
  ASSUME IInv, ProgressInv, LeftOK, LeftOK', NEW s \in Segments,
         OpenSegment(s) \/ Seal(s) \/ Reclaim(s)
  PROVE  Lowered(s)
  <1>0. TypeOK /\ DiskInv /\ JobInv /\ files[s] \in Entries
    BY DEF IInv, TypeOK
  <1>a. /\ Contents = {"none", "part", "lines", "twin"}
        /\ Names = {"active", "jsonl", "tmp", "parquet"}
    BY DEF Contents, Names
  <1>b. /\ UNCHANGED <<phase, job, step, shipper, bucket, reader>>
    BY DEF OpenSegment, Seal, Reclaim, producer
  <1>c. /\ ConversionLeft(s) \in Int /\ ConversionLeft(s)' \in Int
        /\ UploadLeft(s) \in Int /\ UploadLeft(s)' \in Int
        /\ StrayLeft(s) \in Int /\ StrayLeft(s)' \in Int
    BY DEF LeftOK
  <1>1. CASE OpenSegment(s)
    <2>1. /\ files[s] = Nothing /\ s \notin sealed /\ sealed' = sealed
          /\ files' = [files EXCEPT ![s] = Put(files[s], "active", "part")]
      BY <1>1 DEF OpenSegment, history
    <2>2. /\ files'[s] = Put(files[s], "active", "part")
          /\ \A t \in Segments \ {s} : files'[t] = files[t]
      BY <1>0, <2>1 DEF TypeOK
    <2>3. /\ files'[s]["active"] = "part"
          /\ \A m \in {"jsonl", "tmp", "parquet"} : files'[s][m] = files[s][m]
      BY <1>0, <1>a, <2>2, PutType
    <2>4. ConversionLeft(s) = 20 /\ ConversionLeft(s)' = 19
      BY <1>a, <2>1, <2>3, NothingType DEF ConversionLeft, Has
    <2>5. UploadLeft(s)' = UploadLeft(s) /\ StrayLeft(s)' = StrayLeft(s)
      BY <1>b, <2>3, StillParts
    <2> QED BY <1>b, <1>c, <2>1, <2>2, <2>4, <2>5, AtOne
  <1>2. CASE Seal(s)
    <2>1. s \notin sealed /\ files[s]["active"] # "none"
      BY <1>0, <1>2 DEF Seal, DiskInv, Sane
    <2>2. /\ files'[s] = Put(Nothing, "jsonl", "lines") /\ sealed' = sealed \cup {s}
          /\ \A t \in Segments \ {s} : files'[t] = files[t]
      BY <1>0, <1>2 DEF Seal, TypeOK
    <2>3. files'[s]["jsonl"] = "lines" /\ files'[s]["parquet"] = "none" /\ files'[s]["tmp"] = "none"
      BY <1>a, <2>2, PutType, NothingType
    <2>4. ConversionLeft(s) = 19 /\ ConversionLeft(s)' = 16
      <3>1. step = "idle" \/ job # s
        BY <1>0, <2>1 DEF JobInv
      <3> QED BY <1>b, <2>1, <2>2, <2>3, <3>1 DEF ConversionLeft, Has
    <2>5. UploadLeft(s)' <= UploadLeft(s)
      BY <1>b, <1>c, <2>3 DEF UploadLeft, Listed, Opened, Uploaded, Has, shipper
    <2>6. StrayLeft(s)' = 0 /\ StrayLeft(s) >= 0
      BY <2>3 DEF StrayLeft, Has
    <2> QED BY <1>b, <1>c, <2>2, <2>4, <2>5, <2>6, AtOne
  <1>3. CASE Reclaim(s)
    <2>1. s \in sealed /\ sealed' = sealed /\ step = "idle"
      BY <1>0, <1>3, RetainedSealed DEF Reclaim
    <2>2. CASE Unlink(s, "jsonl")
      <3>1. /\ \A t \in Segments \ {s} : files'[t] = files[t]
            /\ files[s]["jsonl"] # "none" /\ files'[s]["jsonl"] = "none"
            /\ files'[s]["parquet"] = files[s]["parquet"] /\ files'[s]["tmp"] = files[s]["tmp"]
        BY <1>0, <1>a, <2>2, UnlinkAt
      <3>2. ConversionLeft(s) = 16 /\ ConversionLeft(s)' = 0
        BY <1>b, <2>1, <3>1 DEF ConversionLeft, Has
      <3>3. UploadLeft(s)' = UploadLeft(s) /\ StrayLeft(s)' = StrayLeft(s)
        BY <1>b, <3>1, StillParts
      <3> QED BY <1>b, <1>c, <2>1, <3>1, <3>2, <3>3, AtOne
    <2>3. CASE Unlink(s, "parquet")
      <3>1. /\ \A t \in Segments \ {s} : files'[t] = files[t]
            /\ files[s]["parquet"] # "none" /\ files'[s]["parquet"] = "none"
            /\ \A n \in {"active", "jsonl", "tmp"} : files'[s][n] = files[s][n]
        BY <1>0, <1>a, <2>3, UnlinkAt
      <3>2. UploadLeft(s)' < UploadLeft(s)
        BY <1>b, <1>c, <3>1 DEF UploadLeft, Listed, Opened, Uploaded, Has, shipper
      <3>3. ConversionLeft(s)' = ConversionLeft(s) /\ StrayLeft(s)' = StrayLeft(s)
        BY <1>b, <2>1, <3>1, StillParts
      <3> QED BY <1>b, <1>c, <2>1, <3>1, <3>2, <3>3, AtOne
    <2> QED BY <1>3, <2>2, <2>3 DEF Reclaim
  <1> QED BY <1>1, <1>2, <1>3

\* Recovery of a segment does a part of its work.
LEMMA RecoveryLowers ==
  ASSUME IInv, ProgressInv, LeftOK, LeftOK', NEW s \in Segments,
         RecoverTemporary(s) \/ RecoverBoth(s)
  PROVE  Lowered(s)
  <1>0. TypeOK /\ DiskInv
    BY DEF IInv
  <1>a. /\ Contents = {"none", "part", "lines", "twin"}
        /\ Names = {"active", "jsonl", "tmp", "parquet"}
    BY DEF Contents, Names
  <1>b. /\ UNCHANGED <<phase, job, step, shipper, bucket, reader, sealed>>
        /\ phase = "recovering" /\ step = "idle"
    BY <1>0 DEF RecoverTemporary, RecoverBoth, producer, history, TypeOK
  <1>c. /\ ConversionLeft(s) \in Int /\ ConversionLeft(s)' \in Int
        /\ UploadLeft(s) \in Int /\ UploadLeft(s)' \in Int
        /\ StrayLeft(s) \in Int /\ StrayLeft(s)' \in Int
    BY DEF LeftOK
  <1>1. CASE RecoverTemporary(s)
    <2>1. /\ \A t \in Segments \ {s} : files'[t] = files[t]
          /\ files[s]["tmp"] # "none" /\ files'[s]["tmp"] = "none"
          /\ \A n \in {"active", "jsonl", "parquet"} : files'[s][n] = files[s][n]
      BY <1>0, <1>a, <1>1, UnlinkAt DEF RecoverTemporary
    <2>2. StrayLeft(s) = 1 /\ StrayLeft(s)' = 0
      BY <1>b, <2>1 DEF StrayLeft, Has
    <2>3. ConversionLeft(s)' = ConversionLeft(s)
      BY <1>b, <2>1 DEF ConversionLeft, Has
    <2>4. UploadLeft(s)' = UploadLeft(s)
      BY <1>b, <2>1, StillParts
    <2> QED BY <1>b, <1>c, <2>1, <2>2, <2>3, <2>4, AtOne
  <1>2. CASE RecoverBoth(s)
    <2>1. /\ \A t \in Segments \ {s} : files'[t] = files[t]
          /\ files[s]["jsonl"] # "none" /\ files'[s]["jsonl"] = "none"
          /\ files'[s]["parquet"] = files[s]["parquet"] /\ files'[s]["tmp"] = files[s]["tmp"]
      BY <1>0, <1>a, <1>2, UnlinkAt DEF RecoverBoth
    <2>2. s \in sealed
      BY <1>0, <2>1 DEF DiskInv, Sane
    <2>3. ConversionLeft(s) = 16 /\ ConversionLeft(s)' = 0
      BY <1>b, <2>1, <2>2 DEF ConversionLeft, Has
    <2>4. UploadLeft(s)' = UploadLeft(s) /\ StrayLeft(s)' = StrayLeft(s)
      BY <1>b, <2>1, StillParts
    <2> QED BY <1>b, <1>c, <2>1, <2>3, <2>4, AtOne
  <1> QED BY <1>1, <1>2

\* So does the start of its conversion.
LEMMA CreateLowers ==
  ASSUME IInv, ProgressInv, LeftOK, LeftOK', NEW s \in Segments, Create(s)
  PROVE  Lowered(s)
  <1>0. TypeOK /\ DiskInv
    BY DEF IInv
  <1>a. /\ Contents = {"none", "part", "lines", "twin"}
        /\ Names = {"active", "jsonl", "tmp", "parquet"}
    BY DEF Contents, Names
  <1>1. /\ UNCHANGED <<phase, shipper, bucket, reader, sealed>>
        /\ phase = "running" /\ step = "idle" /\ step' = "created" /\ job' = s
        /\ files[s]["jsonl"] # "none"
    BY DEF Create, history
  <1>2. /\ \A t \in Segments \ {s} : files'[t] = files[t]
        /\ \A n \in {"active", "jsonl", "parquet"} : files'[s][n] = files[s][n]
    BY <1>0, <1>a, WriteAt DEF Create
  <1>3. s \in sealed
    BY <1>0, <1>1 DEF DiskInv, Sane
  <1>4. ConversionLeft(s) = 16 /\ ConversionLeft(s)' = 15
    BY <1>1, <1>2, <1>3 DEF ConversionLeft, StepLeft, Has
  <1>5. UploadLeft(s)' = UploadLeft(s) /\ UploadLeft(s) \in Int
    BY <1>1, <1>2, StillParts DEF LeftOK
  <1>6. StrayLeft(s)' = 0 /\ StrayLeft(s) = 0
    BY <1>1 DEF StrayLeft
  <1> QED BY <1>1, <1>2, <1>4, <1>5, <1>6, AtOne

\* So does each later step of the conversion, unless the file it writes turns
\* out incomplete.
LEMMA ConversionLowers ==
  ASSUME IInv, ProgressInv, LeftOK, LeftOK',
         WriteRecords \/ SyncTemporary \/ Verify \/ Rename \/ SyncDirectory \/ DeleteJsonl,
         faults' = faults, NEW s \in Segments, s = job
  PROVE  Lowered(s)
  <1>0. TypeOK /\ DiskInv /\ JobInv
    BY DEF IInv
  <1>a. /\ Contents = {"none", "part", "lines", "twin"}
        /\ Names = {"active", "jsonl", "tmp", "parquet"}
    BY DEF Contents, Names
  <1>b. /\ UNCHANGED <<phase, shipper, bucket, reader, sealed>>
        /\ phase = "running" /\ step # "idle" /\ (step' = "idle" \/ job' = s)
    BY DEF WriteRecords, SyncTemporary, Verify, Rename, SyncDirectory, DeleteJsonl, Converting,
           history
  <1>c. s \in sealed /\ Has(s, "jsonl")
    BY <1>0, <1>b DEF TypeOK, JobInv, ProgressInv, Has
  <1>d. /\ ConversionLeft(s) = StepLeft(s)
        /\ StrayLeft(s) = 0 /\ StrayLeft(s)' = 0
        /\ UploadLeft(s) \in 0..8 /\ UploadLeft(s)' \in 0..8
    BY <1>b, <1>c DEF ConversionLeft, StrayLeft, LeftOK
  <1>e. ASSUME files'[s]["jsonl"] = files[s]["jsonl"], step' # "idle", job' = s
        PROVE  ConversionLeft(s)' = StepLeft(s)'
    BY <1>b, <1>c, <1>e DEF ConversionLeft, Has
  <1>f. ASSUME files'[s]["parquet"] = files[s]["parquet"]
        PROVE  UploadLeft(s)' = UploadLeft(s)
    BY <1>b, <1>f, StillParts
  <1>1. CASE WriteRecords
    <2>1. step = "created" /\ step' = "written" /\ job' = s /\ Write(s, "tmp", "twin")
      BY <1>0, <1>1 DEF WriteRecords, Fault, TypeOK
    <2>2. /\ \A t \in Segments \ {s} : files'[t] = files[t]
          /\ \A n \in {"active", "jsonl", "parquet"} : files'[s][n] = files[s][n]
          /\ files'[s]["tmp"] = "twin"
      BY <1>0, <1>a, <1>c, <2>1, WriteAt
    <2>3. StepLeft(s) = 15 /\ StepLeft(s)' = 14
      BY <2>1, <2>2 DEF StepLeft
    <2> QED BY <1>b, <1>c, <1>d, <1>e, <1>f, <2>1, <2>2, <2>3, AtOne
  <1>2. CASE SyncTemporary
    <2>1. step = "written" /\ step' = "synced" /\ job' = s /\ files' = files
      BY <1>2 DEF SyncTemporary, SyncFile
    <2>2. StepLeft(s)' < StepLeft(s) /\ StepLeft(s)' \in Int /\ StepLeft(s) \in Int
      BY <2>1 DEF StepLeft
    <2> QED BY <1>b, <1>c, <1>d, <1>e, <1>f, <2>1, <2>2, AtOne
  <1>3. CASE Verify
    <2>1. CASE files[s]["tmp"] = "twin"
      <3>1. step = "synced" /\ step' = "verified" /\ job' = s /\ files' = files
        BY <1>3, <2>1 DEF Verify, disk
      <3>2. StepLeft(s) = 13 /\ StepLeft(s)' = 12
        BY <2>1, <3>1 DEF StepLeft
      <3> QED BY <1>b, <1>c, <1>d, <1>e, <1>f, <3>1, <3>2, AtOne
    <2>2. CASE files[s]["tmp"] # "twin"
      <3>1. step = "synced" /\ step' = "idle" /\ Unlink(s, "tmp")
        BY <1>3, <2>2 DEF Verify
      <3>2. /\ \A t \in Segments \ {s} : files'[t] = files[t]
            /\ \A n \in {"active", "jsonl", "parquet"} : files'[s][n] = files[s][n]
        BY <1>0, <1>a, <1>c, <3>1, UnlinkAt
      <3>3. StepLeft(s) = 17 /\ ConversionLeft(s)' = 16
        BY <1>b, <1>c, <2>2, <3>1, <3>2 DEF StepLeft, ConversionLeft, Has
      <3> QED BY <1>b, <1>c, <1>d, <1>f, <3>1, <3>2, <3>3, AtOne
    <2> QED BY <2>1, <2>2
  <1>4. CASE Rename
    <2>1. step = "verified" /\ step' = "renamed" /\ job' = s
      BY <1>4 DEF Rename
    <2>2. StepLeft(s) = 12 /\ StepLeft(s)' = 3
      BY <2>1 DEF StepLeft
    <2>3. ConversionLeft(s)' = 3
      BY <1>4, <1>e, <2>1, <2>2, RenameAt
    <2>4. \A t \in Segments \ {s} : files'[t] = files[t]
      BY <1>4, RenameAt
    <2> QED BY <1>b, <1>c, <1>d, <2>1, <2>2, <2>3, <2>4, AtOne
  <1>5. CASE SyncDirectory
    <2>1. step = "renamed" /\ step' = "committed" /\ job' = s /\ files' = files
      BY <1>5 DEF SyncDirectory, SyncNames
    <2>2. StepLeft(s) = 3 /\ StepLeft(s)' = 2
      BY <2>1 DEF StepLeft
    <2> QED BY <1>b, <1>c, <1>d, <1>e, <1>f, <2>1, <2>2, AtOne
  <1>6. CASE DeleteJsonl
    <2>1. step = "committed" /\ step' = "idle" /\ Unlink(s, "jsonl")
      BY <1>6 DEF DeleteJsonl
    <2>2. /\ \A t \in Segments \ {s} : files'[t] = files[t]
          /\ files'[s]["jsonl"] = "none" /\ files'[s]["parquet"] = files[s]["parquet"]
      BY <1>0, <1>a, <1>c, <2>1, UnlinkAt
    <2>3. StepLeft(s) = 2 /\ ConversionLeft(s)' = 0
      BY <1>b, <1>c, <2>1, <2>2 DEF StepLeft, ConversionLeft, Has
    <2> QED BY <1>b, <1>c, <1>d, <1>f, <2>1, <2>2, <2>3, AtOne
  <1> QED BY <1>c, <1>1, <1>2, <1>3, <1>4, <1>5, <1>6

\* A step of the shipper touches no conversion and no temporary.
LEMMA ShipperStill ==
  ASSUME IInv, NEW t \in Segments, UNCHANGED <<producer, sealed>>,
         files' = files \/ \E s \in Segments : Write(s, "parquet", "none")
  PROVE  ConversionLeft(t)' = ConversionLeft(t) /\ StrayLeft(t)' = StrayLeft(t)
  <1>1. TypeOK /\ Names = {"active", "jsonl", "tmp", "parquet"} /\ "none" \in Contents
    BY DEF IInv, Names, Contents
  <1>2. \A n \in {"active", "jsonl", "tmp"} : files'[t][n] = files[t][n]
    BY <1>1, WriteAt
  <1> QED BY <1>2, StillParts DEF producer

\* The shipper lowers the segment it lists, opens, uploads or removes.
LEMMA ListLowers ==
  ASSUME IInv, LeftOK, LeftOK', List
  PROVE  NoneRaised /\ \E s \in Segments : Left(s)' < Left(s)
  <1>1. /\ Names \ ShipperExclude = {"parquet"}
        /\ UNCHANGED <<files, producer, sealed, bucket, ingested, sending>>
        /\ queue = {} /\ sending = {} /\ queue' # {}
    BY DEF List, Names, ShipperExclude, disk, reader, history
  <1>2. queue' = {q \in Segments \X {"parquet"} : files[q[1]][q[2]] # "none"}
    BY <1>1 DEF List
  <1>3. ASSUME NEW t \in Segments
        PROVE  Left(t)' <= Left(t) /\ (Has(t, "parquet") => Left(t)' < Left(t))
    <2>1. ConversionLeft(t)' = ConversionLeft(t) /\ StrayLeft(t)' = StrayLeft(t)
      BY <1>1, ShipperStill
    <2>2. ReadLeft(t)' = ReadLeft(t)
      BY <1>1, StillParts
    <2>3. ~Listed(t) /\ Listed(t)' = Has(t, "parquet") /\ Has(t, "parquet")' = Has(t, "parquet")
      BY <1>1, <1>2 DEF Listed, Has
    <2>4. ~Opened(t) /\ ~Opened(t)' /\ ~Uploaded(t) /\ ~Uploaded(t)'
      BY <1>1 DEF Opened, Uploaded
    <2>5. /\ UploadLeft(t)' <= UploadLeft(t)
          /\ Has(t, "parquet") => UploadLeft(t)' < UploadLeft(t)
      BY <2>3, <2>4 DEF UploadLeft
    <2> QED BY <2>1, <2>2, <2>5 DEF Left, LeftOK
  <1>4. PICK q \in Segments \X {"parquet"} : files[q[1]][q[2]] # "none"
    BY <1>1, <1>2
  <1>5. q[1] \in Segments /\ Has(q[1], "parquet")
    BY <1>4 DEF Has
  <1> QED BY <1>3, <1>5 DEF NoneRaised

\* Skipping or opening an entry of the listing takes from that segment.
LEMMA EntryLowers ==
  ASSUME IInv, ProgressInv, LeftOK, LeftOK', NEW s \in Segments, NEW n \in Names,
         Skip(s, n) \/ Open(s, n)
  PROVE  Lowered(s)
  <1>1. /\ UNCHANGED <<files, producer, sealed, bucket, ingested>>
        /\ sending = {} /\ <<s, n>> \in queue
    BY DEF Skip, Open, disk, reader, history
  <1>2. n = "parquet" /\ Listed(s)
    BY <1>1 DEF IInv, ShipperInv, Listed
  <1>3. \A t \in Segments : ~Opened(t) /\ ~Uploaded(t) /\ Has(t, "parquet")' = Has(t, "parquet")
    BY <1>1 DEF Opened, Uploaded, Has
  <1>4. UploadLeft(s) = 6 + (IF Has(s, "parquet") THEN 1 ELSE 0)
    BY <1>2, <1>3 DEF UploadLeft
  <1>5. UploadLeft(s)' < UploadLeft(s)
    <2>1. CASE Skip(s, n)
      <3>1. ~Has(s, "parquet") /\ ~Listed(s)' /\ ~Opened(s)' /\ ~Uploaded(s)'
        BY <1>1, <1>2, <2>1 DEF Skip, Has, Listed, Opened, Uploaded
      <3>2. UploadLeft(s)' = 0
        BY <1>3, <3>1 DEF UploadLeft
      <3> QED BY <1>4, <3>1, <3>2
    <2>2. CASE Open(s, n)
      <3>1. Listed(s)' /\ Opened(s)'
        BY <1>1, <1>2, <2>2 DEF Open, Listed, Opened
      <3>2. UploadLeft(s)' < 6 + (IF Has(s, "parquet") THEN 1 ELSE 0)
        BY <1>3, <3>1 DEF UploadLeft
      <3> QED BY <1>4, <3>2
    <2> QED BY <2>1, <2>2
  <1>6. ASSUME NEW t \in Segments \ {s} PROVE UploadLeft(t)' = UploadLeft(t)
    <2>1. Listed(t)' = Listed(t) /\ ~Opened(t)' /\ ~Uploaded(t)'
      BY <1>1, <1>2 DEF Skip, Open, Listed, Opened, Uploaded
    <2> QED BY <1>3, <2>1 DEF UploadLeft
  <1>7. ASSUME NEW t \in Segments
        PROVE  /\ ConversionLeft(t)' = ConversionLeft(t) /\ StrayLeft(t)' = StrayLeft(t)
               /\ ReadLeft(t)' = ReadLeft(t)
    BY <1>1, ShipperStill, StillParts
  <1> QED BY <1>5, <1>6, <1>7 DEF Left, LeftOK, Lowered

\* An upload takes from the segment it uploads.
LEMMA UploadLowers ==
  ASSUME IInv, LeftOK, LeftOK', NEW o \in sending, Upload(o)
  PROVE  o.segment \in Segments /\ Lowered(o.segment)
  <1>1. /\ TypeOK /\ o.segment \in Segments /\ sending = {o}
        /\ UNCHANGED <<files, producer, sealed, shipper, ingested>>
        /\ Object(o) \notin bucket /\ bucket' = bucket \cup {Object(o)}
    BY DEF IInv, TypeOK, Upload, disk, reader, history
  <1>2. PICK s \in Segments : s = o.segment
    BY <1>1
  <1>3. ASSUME NEW t \in Segments
        PROVE  ConversionLeft(t)' = ConversionLeft(t) /\ StrayLeft(t)' = StrayLeft(t)
    BY <1>1, ShipperStill
  <1>4. \A t \in Segments : /\ Listed(t)' = Listed(t) /\ Opened(t)' = Opened(t)
                            /\ Has(t, "parquet")' = Has(t, "parquet")
    BY <1>1 DEF Listed, Opened, Has, shipper
  <1>5. Opened(s) /\ ~Uploaded(s) /\ Uploaded(s)'
    BY <1>1, <1>2 DEF Opened, Uploaded, shipper, Object
  <1>6. UploadLeft(s)' = UploadLeft(s) - 2
    BY <1>4, <1>5 DEF UploadLeft
  <1>7. Left(s)' < Left(s)
    BY <1>3, <1>6 DEF Left, LeftOK
  <1>8. ASSUME NEW t \in Segments \ {s} PROVE Left(t)' = Left(t)
    <2>1. ~Uploaded(t) /\ ~Uploaded(t)'
      BY <1>1, <1>2 DEF Uploaded, shipper
    <2>2. UploadLeft(t)' = UploadLeft(t)
      BY <1>4, <2>1 DEF UploadLeft
    <2>3. ReadLeft(t)' = ReadLeft(t)
      BY <1>1, <1>2 DEF ReadLeft, Shipped, Arrived, Object
    <2> QED BY <1>3, <2>2, <2>3 DEF Left
  <1> QED BY <1>2, <1>7, <1>8 DEF Lowered

\* So does the removal of what was uploaded.
LEMMA RemoveLowers ==
  ASSUME IInv, ProgressInv, LeftOK, LeftOK', NEW o \in sending, Remove(o)
  PROVE  o.segment \in Segments /\ Lowered(o.segment)
  <1>1. /\ TypeOK /\ o.segment \in Segments /\ o.name = "parquet" /\ sending = {o}
        /\ <<o.segment, "parquet">> \in queue
        /\ UNCHANGED <<producer, sealed, bucket, ingested>>
        /\ Object(o) \in bucket /\ Write(o.segment, "parquet", "none")
        /\ queue' = queue \ {<<o.segment, "parquet">>} /\ sending' = {}
    BY DEF IInv, TypeOK, ShipperInv, ProgressInv, Remove, reader, history
  <1>2. PICK s \in Segments : s = o.segment
    BY <1>1
  <1>3. ASSUME NEW t \in Segments
        PROVE  /\ ConversionLeft(t)' = ConversionLeft(t) /\ StrayLeft(t)' = StrayLeft(t)
               /\ ReadLeft(t)' = ReadLeft(t)
    BY <1>1, ShipperStill, StillParts
  <1>4. /\ \A t \in Segments \ {s} : files'[t] = files[t]
        /\ files'[s]["parquet"] = "none"
    BY <1>1, <1>2, WriteAt DEF Names, Contents
  <1>5. \A t \in Segments : ~Opened(t)' /\ ~Uploaded(t)'
    BY <1>1 DEF Opened, Uploaded
  <1>6. UploadLeft(s)' < UploadLeft(s)
    <2>1. ~Listed(s)' /\ ~Has(s, "parquet")'
      BY <1>1, <1>2, <1>4 DEF Listed, Has
    <2>2. Listed(s) /\ Uploaded(s)
      BY <1>1, <1>2 DEF Listed, Uploaded
    <2> QED BY <1>5, <2>1, <2>2 DEF UploadLeft
  <1>7. ASSUME NEW t \in Segments \ {s} PROVE UploadLeft(t)' = UploadLeft(t)
    <2>1. ~Opened(t) /\ ~Uploaded(t) /\ Listed(t)' = Listed(t)
      BY <1>1, <1>2 DEF Opened, Uploaded, Listed
    <2> QED BY <1>4, <1>5, <2>1 DEF UploadLeft, Has
  <1> QED BY <1>2, <1>3, <1>6, <1>7 DEF Left, LeftOK, Lowered

\* A discovery takes a segment further or moves the watermark.
LEMMA DiscoverLowers ==
  ASSUME IInv, LeftOK, LeftOK', Discover
  PROVE  /\ NoneRaised /\ ClockLeft' <= ClockLeft
         /\ ClockLeft' < ClockLeft \/ \E s \in Segments : Left(s)' < Left(s)
  <1>1. /\ TypeOK /\ OneBatchPerSegment
        /\ UNCHANGED <<files, producer, sealed, shipper, bucket, now>>
        /\ ingested' = ingested \cup {Batch(o) : o \in Discoverable}
        /\ watermark' = now /\ (ingested' # ingested \/ watermark' # watermark)
        /\ now \in Int /\ watermark \in Int /\ watermark <= now /\ MaxHour \in Int
    BY ShippingAssumption DEF IInv, BucketInv, TypeOK, Discover, disk, reader, history
  <1>2. ASSUME NEW t \in Segments
        PROVE  /\ ConversionLeft(t)' = ConversionLeft(t) /\ StrayLeft(t)' = StrayLeft(t)
               /\ UploadLeft(t)' = UploadLeft(t)
    BY <1>1, ShipperStill, StillParts
  <1>3. ASSUME NEW t \in Segments PROVE ReadLeft(t)' <= ReadLeft(t)
    <2>1. t \in Arrived => t \in Arrived'
      BY <1>1 DEF Arrived
    <2> QED BY <1>1, <2>1 DEF ReadLeft, Shipped
  <1>4. NoneRaised
    BY <1>2, <1>3 DEF Left, LeftOK, NoneRaised
  <1>5. ClockLeft' <= ClockLeft /\ (watermark' # watermark => ClockLeft' < ClockLeft)
    BY <1>1 DEF ClockLeft
  <1>6. ASSUME ingested' # ingested PROVE \E s \in Segments : Left(s)' < Left(s)
    <2>1. PICK o \in Discoverable : Batch(o) \notin ingested
      BY <1>1, <1>6
    <2>2. o \in bucket /\ o.content = "twin"
      BY <1>1, <2>1 DEF Discoverable, OneBatchPerSegment
    <2>3. PICK s \in Segments : s = o.segment
      BY <1>1, <2>2 DEF TypeOK, Objects
    <2>4. \A b \in ingested : b = [segment |-> b.segment, content |-> "twin"]
      BY <1>1 DEF TypeOK, Batch, OneBatchPerSegment
    <2>5. s \in Shipped \ Arrived
      BY <2>1, <2>2, <2>3, <2>4 DEF Shipped, Arrived, Batch
    <2>6. s \in Arrived'
      BY <1>1, <2>1, <2>3 DEF Arrived, Batch
    <2>7. ReadLeft(s) = 1 /\ ReadLeft(s)' = 0
      BY <2>5, <2>6 DEF ReadLeft
    <2> QED BY <1>2, <2>7 DEF Left, LeftOK
  <1> QED BY <1>1, <1>4, <1>5, <1>6

\* Every step but a fault lowers a segment, the phase or the clock, and raises
\* none of them.
LEMMA StepLowers ==
  ASSUME IInv, ProgressInv, LeftOK, LeftOK', Next, ~(faults' = faults + 1)
  PROVE  /\ faults' = faults /\ NoneRaised
         /\ PhaseLeft' <= PhaseLeft /\ ClockLeft' <= ClockLeft
         /\ \/ PhaseLeft' < PhaseLeft
            \/ ClockLeft' < ClockLeft
            \/ \E s \in Segments : Left(s)' < Left(s)
  <1> DEFINE Quiet == PhaseLeft' = PhaseLeft /\ ClockLeft' = ClockLeft
             Fewer == NoneRaised /\ \E s \in Segments : Left(s)' < Left(s)
  <1>0. /\ TypeOK /\ now \in Int /\ watermark \in Int /\ MaxHour \in Int
        /\ PhaseLeft \in Int /\ ClockLeft \in Int
    BY ShippingAssumption DEF IInv, TypeOK, PhaseLeft, ClockLeft
  <1>a. UNCHANGED <<phase, now, watermark>> => Quiet
    BY DEF PhaseLeft, ClockLeft
  <1>b. (\E s \in Segments : Lowered(s)) => Fewer
    BY LoweredRaisesNone DEF Lowered
  <1>c. ASSUME UNCHANGED <<files, job, step, shipper, bucket, ingested, sealed, faults>>,
               NEW t \in Segments, StrayLeft(t)' = StrayLeft(t)
        PROVE  Left(t)' = Left(t)
    BY <1>c, StillParts DEF Left
  <1> HIDE DEF Quiet, Fewer
  <1>1. CASE Ring
    <2>1. faults' = faults /\ UNCHANGED <<phase, now, watermark>>
      BY <1>1 DEF Ring, OpenSegment, Seal, Reclaim, producer, reader
    <2>2. \E s \in Segments : Lowered(s)
      BY <1>1, RingLowers DEF Ring
    <2> QED BY <1>0, <1>a, <1>b, <2>1, <2>2 DEF Quiet, Fewer
  <1>2. CASE Conversion
    <2>1. faults' = faults /\ UNCHANGED <<phase, now, watermark>>
      BY <1>2 DEF Conversion, Create, WriteRecords, Fault, SyncTemporary, Verify, Rename,
                  SyncDirectory, DeleteJsonl, reader
    <2>2. CASE \E s \in Segments : Create(s)
      BY <1>0, <1>a, <1>b, <2>1, <2>2, CreateLowers DEF Quiet, Fewer
    <2>3. CASE WriteRecords \/ SyncTemporary \/ Verify \/ Rename \/ SyncDirectory \/ DeleteJsonl
      <3>1. job \in Segments
        BY <1>0, <2>3 DEF TypeOK, WriteRecords, SyncTemporary, Verify, Rename, SyncDirectory,
                          DeleteJsonl, Converting
      <3>2. PICK s \in Segments : s = job
        BY <3>1
      <3>3. Lowered(s)
        BY <2>1, <2>3, <3>2, ConversionLowers
      <3> QED BY <1>0, <1>a, <1>b, <2>1, <3>3 DEF Quiet, Fewer
    <2> QED BY <1>2, <2>2, <2>3 DEF Conversion
  <1>3. CASE Start \/ Recovered
    <2>1. /\ UNCHANGED <<files, job, step, shipper, bucket, ingested, sealed, faults>>
          /\ UNCHANGED <<now, watermark>>
      BY <1>3 DEF Start, Recovered, disk, reader, history
    <2>2. PhaseLeft' < PhaseLeft /\ PhaseLeft' <= PhaseLeft
      BY <1>3 DEF Start, Recovered, PhaseLeft
    <2>3. \A t \in Segments : StrayLeft(t)' = StrayLeft(t)
      BY <1>3, <2>1 DEF Start, Recovered, StrayLeft, Has
    <2>4. NoneRaised
      BY <1>c, <2>1, <2>3 DEF NoneRaised, Left, LeftOK
    <2>5. ClockLeft' = ClockLeft
      BY <2>1 DEF ClockLeft
    <2> QED BY <1>0, <2>1, <2>2, <2>4, <2>5
  <1>4. CASE \E s \in Segments : RecoverTemporary(s) \/ RecoverBoth(s)
    <2>1. faults' = faults /\ UNCHANGED <<phase, now, watermark>>
      BY <1>4 DEF RecoverTemporary, RecoverBoth, producer, reader
    <2>2. \E s \in Segments : Lowered(s)
      BY <1>4, RecoveryLowers
    <2> QED BY <1>0, <1>a, <1>b, <2>1, <2>2 DEF Quiet, Fewer
  <1>5. CASE Transfer
    <2>1. faults' = faults /\ UNCHANGED <<phase, now, watermark>>
      BY <1>5 DEF Transfer, List, Skip, Open, Upload, Remove, producer, reader
    <2>2. Fewer
      <3>1. CASE List
        BY <3>1, ListLowers DEF Fewer
      <3>2. CASE \E s \in Segments, n \in Names : Skip(s, n) \/ Open(s, n)
        BY <3>2, <1>b, EntryLowers
      <3>3. CASE \E o \in sending : Upload(o) \/ Remove(o)
        BY <3>3, <1>b, UploadLowers, RemoveLowers
      <3> QED BY <1>5, <3>1, <3>2, <3>3 DEF Transfer
    <2> QED BY <1>0, <1>a, <2>1, <2>2 DEF Quiet, Fewer
  <1>6. CASE Discover
    <2>1. faults' = faults /\ PhaseLeft' = PhaseLeft
      BY <1>6 DEF Discover, producer, PhaseLeft
    <2> QED BY <1>0, <1>6, <2>1, DiscoverLowers
  <1>7. CASE Tick
    <2>1. /\ UNCHANGED <<files, job, step, shipper, bucket, ingested, sealed, faults>>
          /\ UNCHANGED <<phase, watermark>> /\ now' = now + 1
      BY <1>7 DEF Tick, disk, producer, reader, history
    <2>2. \A t \in Segments : StrayLeft(t)' = StrayLeft(t)
      BY <2>1 DEF StrayLeft, Has
    <2>3. NoneRaised
      BY <1>c, <2>1, <2>2 DEF NoneRaised, Left, LeftOK
    <2>4. ClockLeft' < ClockLeft /\ ClockLeft' <= ClockLeft /\ PhaseLeft' = PhaseLeft
      BY <1>0, <2>1 DEF ClockLeft, PhaseLeft
    <2> QED BY <1>0, <2>1, <2>3, <2>4
  <1>8. CASE Failure
    BY <1>8 DEF Failure, Crash, PowerCut, ShipperCrash, Fault
  <1> QED BY <1>1, <1>2, <1>3, <1>4, <1>5, <1>6, <1>7, <1>8 DEF Next, Recovery

\* Every step of the producer, the recovery, the shipper, the reader and the
\* clock lowers a natural number, and only a fault, of which there are at most
\* MaxFaults, may raise it: from any state the path comes to rest.
THEOREM EveryStepCounts ==
  Spec => /\ [](Work \in Nat)
          /\ [][faults' = faults + 1 \/ (faults' = faults /\ Work' < Work)]_vars
  <1>1. IInv /\ ProgressInv => Work \in Nat
    <2> SUFFICES ASSUME IInv, ProgressInv PROVE Work \in Nat
      OBVIOUS
    <2>1. Cardinality(Tokens) \in Nat
      BY LeftType, TokensFinite
    <2>2. PhaseLeft \in Nat /\ ClockLeft \in Nat
      BY ShippingAssumption DEF IInv, TypeOK, PhaseLeft, ClockLeft
    <2> QED BY <2>1, <2>2 DEF Work
  <1>2. /\ IInv /\ ProgressInv /\ (IInv /\ ProgressInv)' /\ Next
        => faults' = faults + 1 \/ (faults' = faults /\ Work' < Work)
    <2> SUFFICES ASSUME IInv, ProgressInv, (IInv /\ ProgressInv)', Next, ~(faults' = faults + 1)
                 PROVE  faults' = faults /\ Work' < Work
      OBVIOUS
    <2>1. LeftOK /\ LeftOK'
      BY LeftType, LeftTypeNext
    <2>2. /\ faults' = faults /\ NoneRaised
          /\ PhaseLeft' <= PhaseLeft /\ ClockLeft' <= ClockLeft
          /\ \/ PhaseLeft' < PhaseLeft
             \/ ClockLeft' < ClockLeft
             \/ \E s \in Segments : Left(s)' < Left(s)
      BY <2>1, StepLowers
    <2>3. /\ Cardinality(Tokens) \in Nat /\ Cardinality(Tokens') \in Nat
          /\ Cardinality(Tokens') <= Cardinality(Tokens)
          /\ (\E s \in Segments : Left(s)' < Left(s)) =>
               Cardinality(Tokens') < Cardinality(Tokens)
      BY <2>1, <2>2, TokensFall, TokensFinite
    <2>4. /\ PhaseLeft \in Int /\ PhaseLeft' \in Int
          /\ ClockLeft \in Int /\ ClockLeft' \in Int
      BY ShippingAssumption DEF IInv, TypeOK, PhaseLeft, ClockLeft
    <2>5. Work' = Cardinality(Tokens') + PhaseLeft' + ClockLeft'
      BY DEF Work
    <2>6. Work = Cardinality(Tokens) + PhaseLeft + ClockLeft
      BY DEF Work
    <2> QED BY <2>2, <2>3, <2>4, <2>5, <2>6
  <1> QED BY <1>1, <1>2, Invariance, ProgressAlways, PTL DEF Spec
=============================================================================
