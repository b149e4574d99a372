--------------------------- MODULE DeliveryProofs ---------------------------
(***************************************************************************)
(* Theorems about Delivery, for every number of runs, segments, records,   *)
(* events and losses and every ring capacity: the safety properties, what  *)
(* a hole or an uncovered window says before everything has arrived, and   *)
(* that the ring and its transport implement SegmentStore.                 *)
(***************************************************************************)
EXTENDS Delivery, WellFoundedInduction, FiniteSetTheorems, TLAPS

-----------------------------------------------------------------------------
(***************************************************************************)
(* The inductive invariant, in the parts the proof needs.                  *)
(***************************************************************************)

\* Every file there is: the sealed segments, and the active one.
Files == sealed \cup {active}

\* A file's records are a sequence, and without a durable header there are
\* none.
Sequential ==
  /\ \A s \in Files : s.records \in Seq(Range(s.records))
  /\ discard \in Seq(Range(discard))
  /\ \A x \in Range(discard) : x.kind = "segment_recovered"
  /\ durable => active # NoFile
  /\ ~durable => active.records = <<>>

\* Where the producer is in its life, and what it has marked by then.
Lifecycle ==
  /\ phase # "down" => run \in Runs /\ ended[run] = -1
  /\ phase = "recovering" => began[run] = -1 /\ nextSeq = 0
  /\ phase = "down" /\ run # 0 => ended[run] # -1
  /\ \A r \in Runs : r < run => ended[r] # -1
  /\ \A r \in Runs : run < r => began[r] = -1 /\ ended[r] = -1
  /\ \A s \in Files : s.incarnation <= run
  /\ phase = "recovering" => \A s \in Files : s.incarnation < run
  /\ phase = "running" /\ active # NoFile =>
       active.incarnation = run /\ nextSeq = active.segment_seq + 1

\* A position of a run names one segment, and the positions before it exist.
Numbering ==
  /\ \A s, t \in sealed :
       s.incarnation = t.incarnation /\ s.segment_seq = t.segment_seq => s = t
  /\ \A s \in sealed :
       s.incarnation = active.incarnation => s.segment_seq < active.segment_seq
  /\ \A s \in sealed :
       phase = "running" /\ s.incarnation = run => s.segment_seq < nextSeq
  /\ \A s \in Files : \A q \in 0..(s.segment_seq - 1) :
       \E t \in sealed : t.incarnation = s.incarnation /\ t.segment_seq = q
  /\ phase = "running" /\ active = NoFile =>
       \A q \in 0..(nextSeq - 1) :
         \E t \in sealed : t.incarnation = run /\ t.segment_seq = q

HasStop(s) == \E x \in Range(s.records) : x.kind = "agent_stop"

\* A start record opens a run's first segment and a stop record closes its
\* last; both carry the times at which the run began and ended.
Bracketed ==
  /\ \A s \in Files : \A x \in Range(s.records) :
       x.kind = "agent_start" =>
         /\ s.segment_seq = 0
         /\ began[s.incarnation] # -1
         /\ x.at_ms = began[s.incarnation]
  /\ \A s \in sealed : \A x \in Range(s.records) :
       x.kind = "agent_stop" => x.at_ms = ended[s.incarnation]
  /\ \A s \in sealed : HasStop(s) =>
       /\ active.incarnation # s.incarnation
       /\ s.incarnation < run \/ phase = "down"
       /\ \A t \in sealed :
            t.incarnation = s.incarnation => t.segment_seq <= s.segment_seq
  /\ ~HasStop(active)

\* The event was published while the run was observing.
Within(e, r) ==
  /\ began[r] # -1 /\ began[r] < e.at
  /\ ended[r] # -1 => e.at < ended[r]

Recorded(e, r) ==
  \E s \in Files :
    /\ s.incarnation = r
    /\ \E x \in Range(s.records) : x.kind = "store" /\ x.block_id = e.id

LossStated(r) ==
  \E s \in sealed :
    /\ s.incarnation = r
    /\ \E x \in Range(s.records) : x.kind = "agent_stop" /\ x.dropped # 0

NeverStopped(r) ==
  /\ ended[r] # -1
  /\ \A s \in sealed : s.incarnation = r => ~HasStop(s)

\* What becomes of an event that a run observed.
Fate(e, r) ==
  \/ Recorded(e, r)
  \/ r = run /\ phase = "running" /\ dropped # 0
  \/ LossStated(r)
  \/ NeverStopped(r)

Accounted == \A e \in published, r \in Runs : Within(e, r) => Fate(e, r)

IInv == TypeOK /\ Sequential /\ Lifecycle /\ Numbering /\ Bracketed /\ Accounted

-----------------------------------------------------------------------------
(***************************************************************************)
(* Sequences and their ranges.                                             *)
(***************************************************************************)

\* The range of a sequence is what its positions hold.
LEMMA RangeOfSeq ==
  ASSUME NEW T, NEW s \in Seq(T), NEW y
  PROVE  y \in Range(s) <=> \E i \in 1..Len(s) : y = s[i]
<1>1. DOMAIN s = 1..Len(s)
  OBVIOUS
<1>2. QED
  BY <1>1, Zenon DEF Range

\* Concatenating adds the records of both and nothing else.
LEMMA RangeConcat ==
  ASSUME NEW s, s \in Seq(Range(s)), NEW t, t \in Seq(Range(t))
  PROVE  /\ s \o t \in Seq(Range(s \o t))
         /\ Range(s \o t) = Range(s) \cup Range(t)
<1> DEFINE T == Range(s) \cup Range(t)
<1>0. s \in Seq(T) /\ t \in Seq(T)
  OBVIOUS
<1> HIDE DEF T
<1>1. s \o t \in Seq(T) /\ Len(s \o t) = Len(s) + Len(t)
  BY <1>0
<1>2. ASSUME NEW y PROVE y \in Range(s \o t) <=> y \in T
  <2>1. ASSUME y \in Range(s \o t) PROVE y \in T
    <3>1. PICK i \in 1..Len(s \o t) : y = (s \o t)[i]
      BY <2>1, <1>1, RangeOfSeq
    <3>2. QED
      BY <3>1, <1>1
  <2>2. ASSUME y \in Range(s) PROVE y \in Range(s \o t)
    <3>1. PICK i \in 1..Len(s) : y = s[i]
      BY <2>2, <1>0, RangeOfSeq
    <3>2. y = (s \o t)[i] /\ i \in 1..Len(s \o t)
      BY <3>1, <1>0, <1>1
    <3>3. QED
      BY <3>2, <1>1, RangeOfSeq
  <2>3. ASSUME y \in Range(t) PROVE y \in Range(s \o t)
    <3>1. PICK i \in 1..Len(t) : y = t[i]
      BY <2>3, <1>0, RangeOfSeq
    <3>2. y = (s \o t)[Len(s) + i] /\ Len(s) + i \in 1..Len(s \o t)
      BY <3>1, <1>0, <1>1
    <3>3. QED
      BY <3>2, <1>1, RangeOfSeq
  <2>4. QED
    BY <2>1, <2>2, <2>3 DEF T
<1>3. Range(s \o t) = T
  BY <1>2
<1>4. QED
  BY <1>1, <1>3 DEF T

\* Appending a record adds that record and nothing else.
LEMMA RangeAppend ==
  ASSUME NEW s, s \in Seq(Range(s)), NEW x
  PROVE  /\ Append(s, x) \in Seq(Range(Append(s, x)))
         /\ Range(Append(s, x)) = Range(s) \cup {x}
<1> DEFINE T == Range(s) \cup {x}
           a == Append(s, x)
<1>0. s \in Seq(T) /\ x \in T /\ Len(s) \in Nat
  OBVIOUS
<1> HIDE DEF T
<1>1. /\ a \in Seq(T)
      /\ Len(a) = Len(s) + 1
      /\ \A i \in 1..Len(s) : a[i] = s[i]
      /\ a[Len(s) + 1] = x
  BY <1>0
<1> HIDE DEF a
<1>2. ASSUME NEW y PROVE y \in Range(a) <=> y \in T
  <2>1. ASSUME y \in Range(a) PROVE y \in T
    <3>1. PICK i \in 1..Len(a) : y = a[i]
      BY <2>1, <1>1, RangeOfSeq
    <3>2. QED
      BY <3>1, <1>1
  <2>2. ASSUME y \in Range(s) PROVE y \in Range(a)
    <3>1. PICK i \in 1..Len(s) : y = s[i]
      BY <2>2, <1>0, RangeOfSeq
    <3>2. y = a[i] /\ i \in 1..Len(a)
      BY <3>1, <1>0, <1>1
    <3>3. QED
      BY <3>2, <1>1, RangeOfSeq
  <2>3. x \in Range(a)
    <3>1. Len(s) + 1 \in 1..Len(a)
      BY <1>0, <1>1
    <3>2. QED
      BY <3>1, <1>1, RangeOfSeq
  <2>4. QED
    BY <2>1, <2>2, <2>3 DEF T
<1>3. Range(a) = T
  BY <1>2
<1>4. QED
  BY <1>1, <1>3 DEF T, a

\* A prefix keeps some of the records and adds none.
LEMMA RangePrefix ==
  ASSUME NEW s, s \in Seq(Range(s)), NEW k \in 0..Len(s)
  PROVE  /\ SubSeq(s, 1, k) \in Seq(Range(SubSeq(s, 1, k)))
         /\ Range(SubSeq(s, 1, k)) \subseteq Range(s)
<1> DEFINE p == SubSeq(s, 1, k)
<1>1. p \in Seq(Range(s)) /\ Len(p) = k
  OBVIOUS
<1> HIDE DEF p
<1>2. ASSUME NEW y \in Range(p) PROVE y \in Range(s)
  <2>1. PICK i \in 1..Len(p) : y = p[i]
    BY <1>1, RangeOfSeq
  <2>2. QED
    BY <2>1, <1>1
<1>3. p \in Seq(Range(p))
  <2>1. \A i \in 1..Len(p) : p[i] \in Range(p)
    BY <1>1, RangeOfSeq
  <2>2. QED
    BY <1>1, <2>1
<1>4. QED
  BY <1>2, <1>3 DEF p

\* A file keeps its identity when it is sealed or written to.
LEMMA HoldingType ==
  ASSUME TypeOK, active # NoFile, NEW rs
  PROVE  /\ IsSegment(Holding(rs))
         /\ Holding(rs).incarnation = active.incarnation
         /\ Holding(rs).segment_seq = active.segment_seq
         /\ Holding(rs).records = rs
  BY DEF TypeOK, IsSegment, Holding, NewSegment

\* The new bound of a mark's range.
LEMMA MarkType ==
  ASSUME now \in Nat, NEW f \in [Runs -> -1..now], NEW r \in Runs
  PROVE  [f EXCEPT ![r] = now] \in [Runs -> -1..now]
<1>1. now \in -1..now
  OBVIOUS
<1>2. QED
  BY <1>1

-----------------------------------------------------------------------------
(***************************************************************************)
(* Type correctness.                                                       *)
(***************************************************************************)
LEMMA TypeStep == IInv /\ [Next]_vars => TypeOK'
<1> SUFFICES ASSUME IInv, [Next]_vars PROVE TypeOK'
  OBVIOUS
<1>a. TypeOK /\ Sequential /\ Lifecycle
  BY DEF IInv
<1> USE <1>a, DeliveryAssumption DEF TypeOK, vars, producer, file, delivery, history
<1>1. CASE Start
  BY <1>1 DEF Start
<1>2. CASE RecoverAttributed
  <2>1. PICK rs : SealActive(rs)
    BY <1>2 DEF RecoverAttributed
  <2>2. IsSegment(Holding(rs))
    BY <1>2, HoldingType DEF RecoverAttributed
  <2>3. QED
    BY <1>2, <2>1, <2>2 DEF RecoverAttributed, SealActive
<1>3. CASE RecoverUnattributed
  BY <1>3 DEF RecoverUnattributed
<1>4. CASE OpenSegment
  <2>1. IsSegment(active')
    BY <1>4 DEF OpenSegment, Lifecycle, IsSegment, NewSegment
  <2>2. QED
    BY <1>4, <2>1 DEF OpenSegment
<1>5. CASE SyncHeader
  <2>1. CASE active.segment_seq = 0
    <3>1. IsSegment(active')
      BY <1>5, <2>1, HoldingType DEF SyncHeader, Write
    <3>2. began' \in [Runs -> -1..now]
      BY <1>5, <2>1, MarkType, SMTT(30) DEF SyncHeader, Lifecycle
    <3>3. QED
      BY <1>5, <3>1, <3>2 DEF SyncHeader
  <2>2. CASE active.segment_seq # 0
    BY <1>5, <2>2 DEF SyncHeader
  <2>3. QED
    BY <2>1, <2>2
<1>6. CASE Record
  <2>1. IsSegment(active')
    BY <1>6, HoldingType DEF Record, Write, Writing, Sequential
  <2>2. \A e \in published' : e.at \in 0..now
    BY <1>6 DEF Record, Publish
  <2>3. QED
    BY <1>6, <2>1, <2>2 DEF Record
<1>7. CASE Drop
  BY <1>7 DEF Drop, Publish
<1>8. CASE Miss
  BY <1>8 DEF Miss, Publish
<1>9. CASE Beat
  <2>1. IsSegment(active')
    BY <1>9, HoldingType DEF Beat, Write, Writing, Sequential
  <2>2. QED
    BY <1>9, <2>1 DEF Beat
<1>10. CASE Seal
  <2>1. IsSegment(Holding(active.records))
    BY <1>10, HoldingType DEF Seal, Writing, Sequential
  <2>2. QED
    BY <1>10, <2>1 DEF Seal, SealActive
<1>11. CASE Stop
  <2>1. PICK rs : SealActive(rs)
    BY <1>11 DEF Stop
  <2>2. IsSegment(Holding(rs))
    BY <1>11, HoldingType DEF Stop, Writing, Sequential
  <2>3. ended' \in [Runs -> -1..now]
    BY <1>11, MarkType DEF Stop, Writing, Lifecycle
  <2>4. QED
    BY <1>11, <2>1, <2>2, <2>3 DEF Stop, SealActive
<1>12. CASE Crash
  BY <1>12 DEF Crash, Lifecycle
<1>13. CASE Reclaim
  <2>1. IsSegment(active')
    BY <1>13, HoldingType DEF Reclaim, Write, Writing, Sequential
  <2>2. QED
    BY <1>13, <2>1 DEF Reclaim, Excess
<1>14. CASE \E s \in disk : Ship(s)
  BY <1>14 DEF Ship
<1>15. CASE \E s \in disk : Spoil(s)
  BY <1>15 DEF Spoil
<1>16. CASE Tick
  <2>1. now' = now + 1 /\ now' \in 0..MaxTime
    BY <1>16, DeliveryAssumption DEF Tick
  <2>2. \A e \in published' : e.at \in 0..now'
    BY <1>16, <2>1 DEF Tick
  <2>3. began' \in [Runs -> -1..now'] /\ ended' \in [Runs -> -1..now']
    <3>1. -1..now \subseteq -1..now'
      BY <2>1
    <3>2. QED
      BY <1>16, <3>1 DEF Tick
  <2>4. QED
    BY <1>16, <2>1, <2>2, <2>3 DEF Tick
<1>17. CASE UNCHANGED vars
  BY <1>17
<1>18. QED
  BY <1>1, <1>2, <1>3, <1>4, <1>5, <1>6, <1>7, <1>8, <1>9, <1>10, <1>11, <1>12, <1>13, <1>14, <1>15, <1>16, <1>17 DEF Next, Produce, Deliver

-----------------------------------------------------------------------------
(***************************************************************************)
(* What each action that touches a file does to its records, as a set.     *)
(***************************************************************************)

\* The file s is the active file sealed, with the records `added` appended.
SealedAs(s, added) ==
  /\ IsSegment(s)
  /\ s.incarnation = active.incarnation
  /\ s.segment_seq = active.segment_seq
  /\ s.records \in Seq(Range(s.records))
  /\ added \subseteq Range(s.records)
  /\ Range(s.records) \subseteq Range(active.records) \cup added
  /\ sealed' = sealed \cup {s} /\ disk' = disk \cup {s}
  /\ active' = NoFile /\ durable' = FALSE

\* The active file gained these records.
Wrote(added) ==
  /\ active # NoFile /\ IsSegment(active')
  /\ active'.incarnation = active.incarnation
  /\ active'.segment_seq = active.segment_seq
  /\ active'.records \in Seq(Range(active'.records))
  /\ Range(active'.records) = Range(active.records) \cup added

\* A seal moves the active file, as it is, among the sealed segments.
LEMMA SealSeals ==
  ASSUME IInv, Seal
  PROVE  \E s : SealedAs(s, {}) /\ Range(s.records) = Range(active.records)
<1>1. active # NoFile /\ active \in Files /\ TypeOK
  BY DEF IInv, Seal, Writing, Sequential, Files
<1>2. SealActive(active.records)
  BY DEF Seal
<1>3. QED
  BY <1>1, <1>2, HoldingType DEF SealedAs, SealActive, IInv, Sequential

\* A stop seals the active file with one record more, the stop record.
LEMMA StopSeals ==
  ASSUME IInv, Stop
  PROVE  \E s : SealedAs(s, {Envelope("agent_stop", now, dropped, {Instance})})
                /\ Range(active.records) \subseteq Range(s.records)
<1> DEFINE x == Envelope("agent_stop", now, dropped, {Instance})
           rs == Append(active.records, x)
<1>1. active # NoFile /\ active \in Files /\ TypeOK
  BY DEF IInv, Stop, Writing, Sequential, Files
<1>2. SealActive(rs)
  BY DEF Stop
<1>3. rs \in Seq(Range(rs)) /\ Range(rs) = Range(active.records) \cup {x}
  <2>1. active.records \in Seq(Range(active.records))
    BY <1>1 DEF IInv, Sequential
  <2>2. QED
    BY <2>1, RangeAppend, Zenon
<1> HIDE DEF x, rs
<1>4. QED
  <2>1. SealedAs(Holding(rs), {x}) /\ Range(active.records) \subseteq Range(Holding(rs).records)
    BY <1>1, <1>2, <1>3, HoldingType DEF SealedAs, SealActive
  <2>2. QED
    BY <2>1 DEF x

\* A recovery seals what the torn tail left of the file, and its trailer.
LEMMA RecoverSeals ==
  ASSUME IInv, RecoverAttributed
  PROVE  \E s : SealedAs(s, {SegmentRecovered(TRUE, now)})
<1> DEFINE x == SegmentRecovered(TRUE, now)
<1>1. active # NoFile /\ active \in Files /\ TypeOK
  BY DEF IInv, RecoverAttributed, Files
<1>2. PICK kept \in 0..Len(active.records) :
        SealActive(Append(SubSeq(active.records, 1, kept), x))
  BY DEF RecoverAttributed
<1> DEFINE p == SubSeq(active.records, 1, kept)
           rs == Append(p, x)
<1>3. p \in Seq(Range(p)) /\ Range(p) \subseteq Range(active.records)
  <2>1. active.records \in Seq(Range(active.records))
    BY <1>1 DEF IInv, Sequential
  <2>2. QED
    BY <2>1, RangePrefix, Zenon
<1>4. SealActive(rs)
  BY <1>2
<1> HIDE DEF x, p
<1>5. rs \in Seq(Range(rs)) /\ Range(rs) = Range(p) \cup {x}
  BY <1>3, RangeAppend, Zenon
<1> HIDE DEF rs
<1>6. SealedAs(Holding(rs), {x})
  BY <1>1, <1>3, <1>4, <1>5, HoldingType DEF SealedAs, SealActive
<1>7. QED
  BY <1>6 DEF x

\* A write adds the records it is given.
LEMMA WriteWrites ==
  ASSUME IInv, active # NoFile, NEW ts, ts \in Seq(Range(ts)), Write(ts)
  PROVE  Wrote(Range(ts))
<1> DEFINE rs == active.records \o ts
<1>1. TypeOK /\ active.records \in Seq(Range(active.records))
  BY DEF IInv, Sequential, Files
<1>2. rs \in Seq(Range(rs)) /\ Range(rs) = Range(active.records) \cup Range(ts)
  BY <1>1, RangeConcat, Zenon
<1>3. active' = Holding(rs)
  BY DEF Write
<1> HIDE DEF rs
<1>4. QED
  BY <1>1, <1>2, <1>3, HoldingType DEF Wrote

\* One record is a sequence, and it is all the sequence holds.
LEMMA RangeSingle ==
  ASSUME NEW x
  PROVE  <<x>> \in Seq(Range(<<x>>)) /\ Range(<<x>>) = {x}
  BY DEF Range

\* Recording an event adds its store to the active file.
LEMMA RecordWrites ==
  ASSUME IInv, Record
  PROVE  Wrote({Store(Instance, 0, Cardinality(published), now)})
<1> DEFINE x == Store(Instance, 0, Cardinality(published), now)
<1>1. active # NoFile /\ Write(<<x>>)
  BY DEF Record, Writing, IInv, Sequential
<1> HIDE DEF x
<1>2. Wrote({x})
  BY <1>1, RangeSingle, WriteWrites
<1>3. QED
  BY <1>2 DEF x

\* A heartbeat adds one envelope to the active file.
LEMMA BeatWrites ==
  ASSUME IInv, Beat
  PROVE  Wrote({Heartbeat(now, dropped, {Instance})})
<1> DEFINE x == Heartbeat(now, dropped, {Instance})
<1>1. active # NoFile /\ Write(<<x>>)
  BY DEF Beat, Writing, IInv, Sequential
<1> HIDE DEF x
<1>2. Wrote({x})
  BY <1>1, RangeSingle, WriteWrites
<1>3. QED
  BY <1>2 DEF x

\* A first segment opens with the owed discards and the start record.
LEMMA SyncWrites ==
  ASSUME IInv, SyncHeader, active.segment_seq = 0
  PROVE  Wrote(Range(discard) \cup {AgentStart(now)})
<1> DEFINE x == AgentStart(now)
           ts == Append(discard, x)
<1>1. active # NoFile /\ Write(ts)
  BY DEF SyncHeader
<1> HIDE DEF x
<1>2. ts \in Seq(Range(ts)) /\ Range(ts) = Range(discard) \cup {x}
  <2>1. discard \in Seq(Range(discard))
    BY DEF IInv, Sequential
  <2>2. QED
    BY <2>1, RangeAppend, Zenon
<1> HIDE DEF ts
<1>3. QED
  BY <1>1, <1>2, WriteWrites DEF x

\* A reclaim adds its drop declarations to the active file, whatever their
\* order.
LEMMA ReclaimWrites ==
  ASSUME IInv, Reclaim
  PROVE  Wrote(DropRecords(Excess))
<1> DEFINE n == Cardinality(Incarnations(Excess))
           D == DropRecords(Excess)
<1>1. PICK list \in [1..n -> D] : Range(list) = D /\ Write(list)
  BY DEF Reclaim
<1>2. n \in Nat
  <2>1. Incarnations(Excess) \subseteq Runs
    <3>1. Excess \subseteq disk
      BY DEF Excess
    <3>2. disk \subseteq sealed
      BY DEF IInv, TypeOK
    <3>3. \A s \in sealed : s.incarnation \in Runs
      BY DEF IInv, TypeOK, IsSegment
    <3>4. QED
      BY <3>1, <3>2, <3>3 DEF Incarnations
  <2>2. IsFiniteSet(Runs)
    BY DeliveryAssumption, FS_Interval DEF Runs
  <2>3. IsFiniteSet(Incarnations(Excess))
    BY <2>1, <2>2, FS_Subset
  <2>4. QED
    BY <2>3, FS_CardinalityType
<1> HIDE DEF n, D
<1>3. list \in Seq(Range(list))
  <2>1. list \in Seq(D) /\ Range(list) = D
    BY <1>1, <1>2
  <2>2. QED
    BY <2>1
<1>4. active # NoFile
  BY DEF Reclaim, Writing, IInv, Sequential
<1>5. QED
  BY <1>1, <1>3, <1>4, WriteWrites DEF D

-----------------------------------------------------------------------------
(***************************************************************************)
(* The parts of the inductive invariant.                                   *)
(***************************************************************************)
LEMMA InitInvariant == Init => IInv
<1> SUFFICES ASSUME Init PROVE IInv
  OBVIOUS
<1> USE DEF Init, NoFile, NewSegment
<1>1. TypeOK
  <2>1. MaxSeq \in Nat /\ MaxTime \in Nat /\ MaxRuns \in Nat
    BY DeliveryAssumption
  <2>2. -1 \in -1..0 /\ 0 \in 0..MaxTime /\ 0 \in 0..MaxRuns /\ 0 \in 0..(MaxSeq + 1)
    BY <2>1
  <2>3. began \in [Runs -> -1..now] /\ ended \in [Runs -> -1..now]
    BY <2>2
  <2>4. QED
    BY <2>2, <2>3 DEF TypeOK
<1>2. Range(<<>>) = {} /\ <<>> \in Seq({})
  BY DEF Range
<1>3. Sequential
  BY <1>2 DEF Sequential, Files
<1>4. Lifecycle
  BY DeliveryAssumption DEF Lifecycle, Files, Runs
<1>5. Numbering
  BY DEF Numbering, Files
<1>6. Bracketed
  BY <1>2 DEF Bracketed, Files, HasStop
<1>7. Accounted
  BY DEF Accounted
<1>8. QED
  BY <1>1, <1>3, <1>4, <1>5, <1>6, <1>7 DEF IInv

\* No file holds no records.
LEMMA EmptyFile == NoFile.records = <<>> /\ Range(<<>>) = {} /\ <<>> \in Seq({})
  BY DEF NoFile, NewSegment, Range

\* A segment is never the absent file, and its identity is made of numbers.
LEMMA RealFile ==
  ASSUME NEW s, IsSegment(s)
  PROVE  /\ s # NoFile
         /\ s.incarnation \in 1..MaxRuns /\ s.incarnation \in Nat
         /\ s.segment_seq \in 0..MaxSeq /\ s.segment_seq \in Nat
  BY DeliveryAssumption DEF IsSegment, NoFile, NewSegment, Runs

\* No step loses the shape of a file, or writes before the header is durable.
LEMMA SequentialStep == IInv /\ [Next]_vars => Sequential'
<1> SUFFICES ASSUME IInv, [Next]_vars PROVE Sequential'
  OBVIOUS
<1> USE EmptyFile DEF IInv, Sequential, Files, vars, producer, file, delivery, history
<1> DEFINE Sealing(added) == \E s : SealedAs(s, added)
<1>0. ASSUME NEW added, Sealing(added), UNCHANGED discard PROVE Sequential'
  BY <1>0 DEF SealedAs
<1>00. ASSUME NEW added, Wrote(added), durable', UNCHANGED <<sealed, discard>>
       PROVE  Sequential'
  BY <1>00, RealFile DEF Wrote
<1>1. CASE Start
  BY <1>1 DEF Start
<1>2. CASE RecoverAttributed
  BY <1>2, <1>0, RecoverSeals DEF RecoverAttributed
<1>3. CASE RecoverUnattributed
  <2> DEFINE x == SegmentRecovered(FALSE, now)
  <2>1. x.kind = "segment_recovered"
    BY DEF SegmentRecovered
  <2>2. discard' = Append(discard, x)
    BY <1>3 DEF RecoverUnattributed
  <2> HIDE DEF x
  <2>3. discard' \in Seq(Range(discard')) /\ Range(discard') = Range(discard) \cup {x}
    BY <2>2, RangeAppend
  <2>4. QED
    BY <1>3, <2>1, <2>3 DEF RecoverUnattributed
<1>4. CASE OpenSegment
  BY <1>4 DEF OpenSegment, NewSegment, Lifecycle
<1>5. CASE SyncHeader
  <2>1. CASE active.segment_seq = 0
    <3>1. Wrote(Range(discard) \cup {AgentStart(now)})
      BY <1>5, <2>1, SyncWrites
    <3>2. QED
      BY <1>5, <2>1, <3>1 DEF SyncHeader, Wrote, IsSegment, NoFile, NewSegment
  <2>2. CASE active.segment_seq # 0
    BY <1>5, <2>2 DEF SyncHeader
  <2>3. QED
    BY <2>1, <2>2
<1>6. CASE Record
  BY <1>6, <1>00, RecordWrites DEF Record, Writing
<1>7. CASE Drop
  BY <1>7 DEF Drop
<1>8. CASE Miss
  BY <1>8 DEF Miss
<1>9. CASE Beat
  BY <1>9, <1>00, BeatWrites DEF Beat, Writing
<1>10. CASE Seal
  BY <1>10, <1>0, SealSeals DEF Seal
<1>11. CASE Stop
  BY <1>11, <1>0, StopSeals DEF Stop
<1>12. CASE Crash
  BY <1>12 DEF Crash
<1>13. CASE Reclaim
  BY <1>13, <1>00, ReclaimWrites DEF Reclaim, Writing
<1>14. CASE \E s \in disk : Ship(s)
  BY <1>14 DEF Ship
<1>15. CASE \E s \in disk : Spoil(s)
  BY <1>15 DEF Spoil
<1>16. CASE Tick
  BY <1>16 DEF Tick
<1>17. CASE UNCHANGED vars
  BY <1>17
<1>18. QED
  BY <1>1, <1>2, <1>3, <1>4, <1>5, <1>6, <1>7, <1>8, <1>9, <1>10, <1>11, <1>12, <1>13, <1>14, <1>15, <1>16, <1>17 DEF Next, Produce, Deliver

\* No step leaves the producer's life and its marks in disagreement.
LEMMA LifecycleStep == IInv /\ [Next]_vars => Lifecycle'
<1> SUFFICES ASSUME IInv, [Next]_vars PROVE Lifecycle'
  OBVIOUS
<1> USE DeliveryAssumption DEF IInv, Lifecycle, Files, Runs, vars, producer, file, delivery, history
<1>a. /\ run \in Nat /\ run \in 0..MaxRuns /\ now \in Nat
      /\ began \in [1..MaxRuns -> -1..now] /\ ended \in [1..MaxRuns -> -1..now]
      /\ NoFile.incarnation = 0
      /\ \A s \in sealed : s.incarnation \in Nat
      /\ active.incarnation \in Nat
  BY SMTT(30) DEF TypeOK, IsSegment, NoFile, NewSegment
<1>b. /\ \A s \in sealed : s.incarnation <= run
      /\ active.incarnation <= run
  OBVIOUS
<1>e. Lifecycle
  OBVIOUS
<1> HIDE DEF TypeOK, NoFile, IInv, Lifecycle
<1>c. ASSUME UNCHANGED <<run, phase, nextSeq, active, sealed, began, ended>>
      PROVE  Lifecycle'
  BY <1>c, <1>e DEF Lifecycle
<1>d. ASSUME NEW added, Wrote(added),
             UNCHANGED <<run, phase, nextSeq, sealed, began, ended>>
      PROVE  Lifecycle'
  <2>1. /\ active # NoFile /\ active'.incarnation = active.incarnation
        /\ active'.segment_seq = active.segment_seq
    BY <1>d DEF Wrote
  <2>2. QED
    BY <1>d, <2>1, <1>a, <1>e DEF Lifecycle
<1>1. CASE Start
  <2>1. /\ run' = run + 1 /\ phase' = "recovering" /\ run < MaxRuns /\ phase = "down"
        /\ nextSeq' = 0
        /\ UNCHANGED <<sealed, active, began, ended>>
    BY <1>1 DEF Start
  <2>2. run' \in 1..MaxRuns /\ began[run'] = -1 /\ ended[run'] = -1
    BY <2>1, <1>a, <1>e DEF Lifecycle
  <2>3. ASSUME NEW r \in 1..MaxRuns, r < run' PROVE ended[r] # -1
    BY <2>1, <2>3, <1>a, <1>e DEF Lifecycle
  <2>4. ASSUME NEW r \in 1..MaxRuns, run' < r PROVE began[r] = -1 /\ ended[r] = -1
    BY <2>1, <2>4, <1>a, <1>e DEF Lifecycle
  <2>5. ASSUME NEW s \in sealed \cup {active} PROVE s.incarnation < run'
    BY <2>1, <1>a, <1>b, <1>e, SMTT(30) DEF Lifecycle
  <2>6. QED
    BY <2>1, <2>2, <2>3, <2>4, <2>5, <1>a, SMTT(30) DEF Lifecycle
<1>2. CASE RecoverAttributed
  <2>1. PICK s : SealedAs(s, {SegmentRecovered(TRUE, now)})
    BY <1>2, RecoverSeals
  <2>2. /\ active # NoFile /\ phase = "recovering"
        /\ UNCHANGED <<run, phase, nextSeq, began, ended>>
        /\ sealed' = sealed \cup {s} /\ active' = NoFile
        /\ s.incarnation = active.incarnation
    BY <1>2, <2>1 DEF RecoverAttributed, SealedAs
  <2>3. QED
    BY <2>2, <1>a, <1>b, <1>e, SMTT(30) DEF Lifecycle
<1>3. CASE RecoverUnattributed
  BY <1>3, <1>a, <1>e, SMTT(30) DEF Lifecycle, RecoverUnattributed
<1>4. CASE OpenSegment
  BY <1>4, <1>a, <1>e, SMTT(30) DEF Lifecycle, OpenSegment, NewSegment
<1>5. CASE SyncHeader
  <2>1. CASE active.segment_seq = 0
    <3>1. Wrote(Range(discard) \cup {AgentStart(now)})
      BY <1>5, <2>1, SyncWrites
    <3>2. QED
      BY <1>5, <2>1, <3>1, <1>a, <1>e DEF Lifecycle, SyncHeader, Wrote
  <2>2. CASE active.segment_seq # 0
    BY <1>5, <2>2, <1>a, <1>e DEF Lifecycle, SyncHeader
  <2>3. QED
    BY <2>1, <2>2
<1>6. CASE Record
  <2>1. PICK added : Wrote(added)
    BY <1>6, RecordWrites
  <2>2. QED
    BY <1>6, <2>1, <1>d DEF Record
<1>7. CASE Drop
  BY <1>7, <1>c DEF Drop
<1>8. CASE Miss
  BY <1>8, <1>c DEF Miss
<1>9. CASE Beat
  <2>1. PICK added : Wrote(added)
    BY <1>9, BeatWrites
  <2>2. QED
    BY <1>9, <2>1, <1>d DEF Beat
<1>10. CASE Seal
  <2>1. PICK s : SealedAs(s, {})
    BY <1>10, SealSeals
  <2>2. /\ phase = "running"
        /\ UNCHANGED <<run, phase, nextSeq, began, ended>>
        /\ sealed' = sealed \cup {s} /\ active' = NoFile
        /\ s.incarnation = active.incarnation
    BY <1>10, <2>1 DEF Seal, Writing, SealedAs
  <2>3. QED
    BY <2>2, <1>a, <1>b, <1>e, SMTT(30) DEF Lifecycle
<1>11. CASE Stop
  <2>1. PICK s : SealedAs(s, {Envelope("agent_stop", now, dropped, {Instance})})
    BY <1>11, StopSeals
  <2>2. /\ phase = "running" /\ phase' = "down"
        /\ ended' = [ended EXCEPT ![run] = now]
        /\ UNCHANGED <<run, nextSeq, began>>
        /\ sealed' = sealed \cup {s} /\ active' = NoFile
        /\ s.incarnation = active.incarnation
    BY <1>11, <2>1 DEF Stop, Writing, SealedAs
  <2>3. run \in 1..MaxRuns /\ now # -1
    BY <2>2, <1>a, <1>e DEF Lifecycle
  <2>4. \A r \in 1..MaxRuns : ended'[r] = IF r = run THEN now ELSE ended[r]
    BY <2>2, <1>a, <1>e DEF Lifecycle
  <2>5. \A s2 \in sealed' \cup {active'} : s2.incarnation <= run'
    BY <2>2, <1>a, <1>b, <1>e, SMTT(30) DEF Lifecycle
  <2>6. \A r \in 1..MaxRuns : /\ r < run' => ended'[r] # -1
                              /\ run' < r => began'[r] = -1 /\ ended'[r] = -1
    BY <2>2, <2>3, <2>4, <1>a, <1>e DEF Lifecycle
  <2>7. QED
    BY <2>2, <2>3, <2>4, <2>5, <2>6, <1>e DEF Lifecycle
<1>12. CASE Crash
  BY <1>12, <1>a, <1>e DEF Lifecycle, Crash
<1>13. CASE Reclaim
  BY <1>13, <1>d, ReclaimWrites DEF Reclaim
<1>14. CASE \E s \in disk : Ship(s)
  BY <1>14, <1>c DEF Ship
<1>15. CASE \E s \in disk : Spoil(s)
  BY <1>15, <1>c DEF Spoil
<1>16. CASE Tick
  BY <1>16, <1>c DEF Tick
<1>17. CASE UNCHANGED vars
  BY <1>17, <1>c
<1>18. QED
  BY <1>1, <1>2, <1>3, <1>4, <1>5, <1>6, <1>7, <1>8, <1>9, <1>10, <1>11, <1>12, <1>13, <1>14, <1>15, <1>16, <1>17 DEF Next, Produce, Deliver

\* No step gives a position to two segments or leaves one out.
LEMMA NumberingStep == IInv /\ [Next]_vars => Numbering'
<1> SUFFICES ASSUME IInv, [Next]_vars PROVE Numbering'
  OBVIOUS
<1> USE DEF IInv, Numbering, Files, vars, producer, file, delivery, history
<1>a. /\ nextSeq \in Nat
      /\ NoFile.incarnation = 0 /\ NoFile.segment_seq = 0
      /\ \A s \in sealed : /\ s.incarnation \in Nat /\ s.incarnation # 0
                           /\ s.segment_seq \in Nat
      /\ active # NoFile => active.incarnation \in Nat /\ active.incarnation # 0
      /\ active.segment_seq \in Nat
  BY RealFile, DeliveryAssumption DEF TypeOK, NoFile, NewSegment
<1> HIDE DEF TypeOK, NoFile
<1>s. ASSUME NEW added, NEW s, SealedAs(s, added), active # NoFile,
             phase' = "running" => phase = "running",
             UNCHANGED <<run, nextSeq>>
      PROVE  Numbering'
  <2>1. /\ sealed' = sealed \cup {s} /\ active' = NoFile
        /\ s.incarnation = active.incarnation /\ s.segment_seq = active.segment_seq
    BY <1>s DEF SealedAs
  <2>2. \A t, u \in sealed' :
          t.incarnation = u.incarnation /\ t.segment_seq = u.segment_seq => t = u
    BY <2>1, <1>a
  <2>3. \A t \in sealed' :
          t.incarnation = active'.incarnation => t.segment_seq < active'.segment_seq
    BY <2>1, <1>a, <1>s
  <2>4. \A t \in sealed' :
          phase' = "running" /\ t.incarnation = run' => t.segment_seq < nextSeq'
    BY <2>1, <1>a, <1>s DEF Lifecycle
  <2>5. \A f \in Files' : \A q \in 0..(f.segment_seq - 1) :
          \E t \in sealed' : t.incarnation = f.incarnation /\ t.segment_seq = q
    BY <2>1, <1>a
  <2>6. phase' = "running" =>
          \A q \in 0..(nextSeq' - 1) :
            \E t \in sealed' : t.incarnation = run' /\ t.segment_seq = q
    <3> SUFFICES ASSUME phase' = "running", NEW q \in 0..(nextSeq' - 1)
                 PROVE  \E t \in sealed' : t.incarnation = run' /\ t.segment_seq = q
      OBVIOUS
    <3>1. active.incarnation = run /\ nextSeq = active.segment_seq + 1
      BY <1>s DEF Lifecycle
    <3>2. q = active.segment_seq \/ q \in 0..(active.segment_seq - 1)
      BY <3>1, <1>a, <1>s
    <3>3. QED
      BY <3>1, <3>2, <2>1, <1>s
  <2>7. QED
    BY <2>2, <2>3, <2>4, <2>5, <2>6
<1>w. ASSUME NEW added, Wrote(added), UNCHANGED <<sealed, run, phase, nextSeq>>
      PROVE  Numbering'
  <2>1. /\ active'.incarnation = active.incarnation
        /\ active'.segment_seq = active.segment_seq
        /\ active # NoFile /\ active' # NoFile
    BY <1>w, RealFile DEF Wrote
  <2>2. QED
    BY <2>1, <1>w
<1>1. CASE Start
  BY <1>1, <1>a DEF Start, Lifecycle
<1>2. CASE RecoverAttributed
  BY <1>2, <1>s, RecoverSeals DEF RecoverAttributed
<1>3. CASE RecoverUnattributed
  BY <1>3, <1>a DEF RecoverUnattributed
<1>4. CASE OpenSegment
  <2>a. /\ active = NoFile /\ UNCHANGED <<sealed, run>>
        /\ active' = NewSegment(run, nextSeq, <<>>)
        /\ phase' = "running" /\ nextSeq' = nextSeq + 1
        /\ phase \in {"recovering", "running"}
    BY <1>4 DEF OpenSegment
  <2>1. /\ active = NoFile /\ UNCHANGED <<sealed, run>>
        /\ active'.incarnation = run /\ active'.segment_seq = nextSeq
        /\ phase' = "running" /\ nextSeq' = nextSeq + 1
        /\ phase = "running" \/ (phase = "recovering" /\ nextSeq = 0)
    BY <2>a DEF NewSegment, Lifecycle
  <2>0. active' # NoFile
    <3>1. run # 0
      BY <2>a, DeliveryAssumption DEF Lifecycle, Runs
    <3>2. QED
      BY <2>1, <3>1, <1>a
  <2>2. \A s \in sealed : s.incarnation = run =>
          phase = "running" /\ s.segment_seq < nextSeq
    BY <2>1, <1>a DEF Lifecycle
  <2>3. \A q \in 0..(nextSeq - 1) :
          \E t \in sealed : t.incarnation = run /\ t.segment_seq = q
    BY <2>1
  <2>4. \A s \in sealed : s.incarnation = run => s.segment_seq < nextSeq'
    BY <2>1, <2>2, <1>a
  <2>5. QED
    BY <2>0, <2>1, <2>2, <2>3, <2>4
<1>5. CASE SyncHeader
  <2>1. CASE active.segment_seq = 0
    BY <1>5, <2>1, <1>w, SyncWrites DEF SyncHeader
  <2>2. CASE active.segment_seq # 0
    BY <1>5, <2>2, <1>a DEF SyncHeader
  <2>3. QED
    BY <2>1, <2>2
<1>6. CASE Record
  BY <1>6, <1>w, RecordWrites DEF Record
<1>7. CASE Drop
  BY <1>7 DEF Drop
<1>8. CASE Miss
  BY <1>8 DEF Miss
<1>9. CASE Beat
  BY <1>9, <1>w, BeatWrites DEF Beat
<1>10. CASE Seal
  BY <1>10, <1>s, SealSeals DEF Seal, Writing, Sequential
<1>11. CASE Stop
  BY <1>11, <1>s, StopSeals DEF Stop, Writing, Sequential
<1>12. CASE Crash
  BY <1>12, <1>a DEF Crash
<1>13. CASE Reclaim
  BY <1>13, <1>w, ReclaimWrites DEF Reclaim
<1>14. CASE \E s \in disk : Ship(s)
  BY <1>14 DEF Ship
<1>15. CASE \E s \in disk : Spoil(s)
  BY <1>15 DEF Spoil
<1>16. CASE Tick
  BY <1>16 DEF Tick
<1>17. CASE UNCHANGED vars
  BY <1>17
<1>18. QED
  BY <1>1, <1>2, <1>3, <1>4, <1>5, <1>6, <1>7, <1>8, <1>9, <1>10, <1>11, <1>12, <1>13, <1>14, <1>15, <1>16, <1>17 DEF Next, Produce, Deliver

\* No step misplaces a start or a stop record, a recovery by a later run
\* included.
LEMMA BracketedStep == IInv /\ [Next]_vars => Bracketed'
<1> SUFFICES ASSUME IInv, [Next]_vars PROVE Bracketed'
  OBVIOUS
<1> USE DEF IInv, Bracketed, HasStop, Files, vars, producer, file, delivery, history
<1>a. /\ run \in Nat
      /\ NoFile.incarnation = 0 /\ Range(NoFile.records) = {}
      /\ \A s \in sealed : /\ s.incarnation \in Runs /\ s.incarnation # 0
                           /\ s.segment_seq \in Nat
      /\ active # NoFile => active.incarnation \in Runs /\ active.incarnation # 0
      /\ active.segment_seq \in Nat
  <2>1. run \in Nat /\ NoFile.incarnation = 0 /\ NoFile.segment_seq = 0
    BY DeliveryAssumption DEF TypeOK, NoFile, NewSegment
  <2>2. Range(NoFile.records) = {}
    BY EmptyFile
  <2>3. \A s : IsSegment(s) => /\ s.incarnation \in Runs /\ s.incarnation # 0
                              /\ s.segment_seq \in Nat
    BY RealFile DEF Runs
  <2>4. QED
    BY <2>1, <2>2, <2>3 DEF TypeOK
<1> HIDE DEF TypeOK, NoFile
\* Sealing without a stop record.
<1>s. ASSUME NEW added, NEW s, SealedAs(s, added), active # NoFile,
             \A x \in added : x.kind \notin {"agent_start", "agent_stop"},
             UNCHANGED <<run, phase, began, ended>>
      PROVE  Bracketed'
  <2>1. /\ sealed' = sealed \cup {s} /\ active' = NoFile
        /\ s.incarnation = active.incarnation /\ s.segment_seq = active.segment_seq
        /\ Range(s.records) \subseteq Range(active.records) \cup added
    BY <1>s DEF SealedAs
  <2>2. \A x \in Range(s.records) : /\ x.kind # "agent_stop"
                                    /\ x.kind = "agent_start" => x \in Range(active.records)
    BY <2>1, <1>s
  <2>3. QED
    BY <2>1, <2>2, <1>a, <1>s
\* Writing neither a start nor a stop record.
<1>w. ASSUME NEW added, Wrote(added),
             \A x \in added : x.kind \notin {"agent_start", "agent_stop"},
             UNCHANGED <<sealed, run, phase, began, ended>>
      PROVE  Bracketed'
  <2>1. /\ active'.incarnation = active.incarnation
        /\ active'.segment_seq = active.segment_seq
        /\ Range(active'.records) = Range(active.records) \cup added
    BY <1>w DEF Wrote
  <2>2. QED
    BY <2>1, <1>w
<1>1. CASE Start
  <2>1. /\ run' = run + 1
        /\ UNCHANGED <<sealed, active, began, ended>>
    BY <1>1 DEF Start
  <2>2. \A s \in sealed : s.incarnation < run'
    BY <2>1, <1>a DEF Lifecycle, Runs
  <2>3. QED
    BY <2>1, <2>2
<1>2. CASE RecoverAttributed
  <2>1. SegmentRecovered(TRUE, now).kind = "segment_recovered"
    BY DEF SegmentRecovered
  <2>2. active # NoFile /\ UNCHANGED <<run, phase, began, ended>>
    BY <1>2 DEF RecoverAttributed
  <2>3. PICK s : SealedAs(s, {SegmentRecovered(TRUE, now)})
    BY <1>2, RecoverSeals
  <2>4. QED
    BY <2>1, <2>2, <2>3, <1>s
<1>3. CASE RecoverUnattributed
  BY <1>3, <1>a DEF RecoverUnattributed
<1>4. CASE OpenSegment
  <2>1. /\ UNCHANGED <<sealed, run, began, ended>> /\ phase # "down"
        /\ active'.incarnation = run /\ Range(active'.records) = {}
    BY <1>4, EmptyFile DEF OpenSegment, NewSegment
  <2>2. \A s \in sealed : HasStop(s) => s.incarnation < run
    BY <2>1
  <2>3. QED
    BY <2>1, <2>2, <1>a
<1>5. CASE SyncHeader
  <2>1. CASE active.segment_seq = 0
    <3>1. Wrote(Range(discard) \cup {AgentStart(now)})
      BY <1>5, <2>1, SyncWrites
    <3>2. /\ active'.incarnation = active.incarnation
          /\ active'.segment_seq = active.segment_seq
          /\ Range(active'.records) = Range(active.records) \cup Range(discard) \cup {AgentStart(now)}
      BY <3>1 DEF Wrote
    <3>3. /\ Range(active.records) = {}
          /\ active.incarnation = run /\ run \in Runs
          /\ began' = [began EXCEPT ![run] = now] /\ began \in [Runs -> -1..now]
          /\ UNCHANGED <<sealed, run, phase, ended>>
      BY <1>5, <2>1, EmptyFile DEF SyncHeader, Sequential, Lifecycle, TypeOK
    <3>4. \A r \in Runs : r # run => began'[r] = began[r]
      BY <3>3
    <3>5. began'[run] = now /\ now # -1
      BY <3>3 DEF TypeOK
    <3>6. \A s \in sealed : s.incarnation # run
      BY <3>3, <2>1, <1>a DEF Numbering
    <3>7. /\ AgentStart(now).kind = "agent_start" /\ AgentStart(now).at_ms = now
          /\ \A x \in Range(discard) : x.kind = "segment_recovered"
      BY DEF AgentStart, Sequential
    <3>8. \A x \in Range(active'.records) :
            /\ x.kind # "agent_stop"
            /\ x.kind = "agent_start" => x.at_ms = now
      BY <3>2, <3>3, <3>7
    <3>9. QED
      BY <2>1, <3>2, <3>3, <3>4, <3>5, <3>6, <3>8, <1>a
  <2>2. CASE active.segment_seq # 0
    BY <1>5, <2>2, <1>a DEF SyncHeader
  <2>3. QED
    BY <2>1, <2>2
<1>6. CASE Record
  BY <1>6, <1>w, RecordWrites DEF Record, Store, CacheRecord
<1>7. CASE Drop
  BY <1>7 DEF Drop
<1>8. CASE Miss
  BY <1>8 DEF Miss
<1>9. CASE Beat
  BY <1>9, <1>w, BeatWrites DEF Beat, Heartbeat, Envelope
<1>10. CASE Seal
  BY <1>10, <1>s, SealSeals DEF Seal, Writing, Sequential
<1>11. CASE Stop
  <2> DEFINE stop == Envelope("agent_stop", now, dropped, {Instance})
  <2>0. stop.kind = "agent_stop" /\ stop.at_ms = now
    BY DEF Envelope
  <2>1. PICK s : SealedAs(s, {stop})
    BY <1>11, StopSeals
  <2> HIDE DEF stop
  <2>2. /\ sealed' = sealed \cup {s} /\ active' = NoFile
        /\ s.incarnation = active.incarnation /\ s.segment_seq = active.segment_seq
        /\ Range(s.records) \subseteq Range(active.records) \cup {stop}
    BY <2>1 DEF SealedAs
  <2>3. /\ active # NoFile /\ active.incarnation = run /\ run \in Runs
        /\ phase = "running" /\ phase' = "down"
        /\ ended' = [ended EXCEPT ![run] = now] /\ ended \in [Runs -> -1..now]
        /\ UNCHANGED <<run, began>>
    BY <1>11 DEF Stop, Writing, Sequential, Lifecycle, TypeOK
  <2>4. ended'[run] = now /\ \A r \in Runs : r # run => ended'[r] = ended[r]
    BY <2>3
  <2>5. \A x \in Range(s.records) :
          /\ x.kind = "agent_stop" => x.at_ms = now
          /\ x.kind = "agent_start" => x \in Range(active.records)
    BY <2>0, <2>2
  <2>6. \A t \in sealed : HasStop(t) => t.incarnation # run
    BY <2>3, <1>a
  <2>7. \A t \in sealed : t.incarnation = s.incarnation => t.segment_seq <= s.segment_seq
    BY <2>2, <1>a DEF Numbering
  <2>8. QED
    BY <2>2, <2>3, <2>4, <2>5, <2>6, <2>7, <1>a
<1>12. CASE Crash
  <2>1. /\ UNCHANGED <<sealed, active, run, began>> /\ phase # "down" /\ phase' = "down"
        /\ run \in Runs /\ ended \in [Runs -> -1..now]
        /\ ended' = [ended EXCEPT ![run] = now]
    BY <1>12 DEF Crash, Lifecycle, TypeOK
  <2>2. \A r \in Runs : r # run => ended'[r] = ended[r]
    BY <2>1
  <2>3. \A t \in sealed : HasStop(t) => t.incarnation # run
    BY <2>1, <1>a
  <2>4. QED
    BY <2>1, <2>2, <2>3, <1>a
<1>13. CASE Reclaim
  BY <1>13, <1>w, ReclaimWrites DEF Reclaim, DropRecords, SegmentsDropped
<1>14. CASE \E s \in disk : Ship(s)
  BY <1>14 DEF Ship
<1>15. CASE \E s \in disk : Spoil(s)
  BY <1>15 DEF Spoil
<1>16. CASE Tick
  BY <1>16 DEF Tick
<1>17. CASE UNCHANGED vars
  BY <1>17
<1>18. QED
  BY <1>1, <1>2, <1>3, <1>4, <1>5, <1>6, <1>7, <1>8, <1>9, <1>10, <1>11, <1>12, <1>13, <1>14, <1>15, <1>16, <1>17 DEF Next, Produce, Deliver

\* No step loses an observed event without a trace: a torn tail marks the run
\* as never stopped, a drop on the way in raises the counter of the stop record.
LEMMA AccountedStep == IInv /\ [Next]_vars => Accounted'
<1> SUFFICES ASSUME IInv, [Next]_vars,
                    NEW e \in published', NEW r \in Runs, Within(e, r)'
             PROVE  Fate(e, r)'
  BY DEF Accounted
<1> USE DEF vars, producer, file, delivery, history
<1>a. /\ now \in Nat /\ run \in Nat /\ dropped \in Nat /\ r \in Nat /\ r # 0
      /\ began \in [Runs -> -1..now] /\ ended \in [Runs -> -1..now]
      /\ began[r] \in -1..now /\ ended[r] \in -1..now
      /\ \A x \in published : x.at \in 0..now
      /\ phase # "down" => run \in Runs
  <2>1. r \in Nat /\ r # 0
    BY DeliveryAssumption DEF Runs
  <2>2. /\ now \in Nat /\ run \in Nat /\ dropped \in Nat
        /\ began \in [Runs -> -1..now] /\ ended \in [Runs -> -1..now]
        /\ \A x \in published : x.at \in 0..now
    BY DEF IInv, TypeOK
  <2>3. phase # "down" => run \in Runs
    BY DEF IInv, Lifecycle
  <2>4. QED
    BY <2>1, <2>2, <2>3
<1>b. e \in published /\ Within(e, r) => Fate(e, r)
  BY DEF IInv, Accounted
\* Only the current run, while it runs, observes an event of this instant.
<1>c. ASSUME e.at = now, Within(e, r)
      PROVE  r = run /\ phase = "running"
  <2>1. began[r] # -1 /\ ended[r] = -1
    BY <1>a, <1>c DEF Within
  <2>2. r = run
    BY <2>1, <1>a DEF IInv, Lifecycle
  <2>3. QED
    BY <2>1, <2>2, <1>a DEF IInv, Lifecycle, TypeOK
\* A step that loses no record and moves no mark.
<1>k. ASSUME UNCHANGED <<published, began, ended, sealed, run, dropped>>,
             phase = "running" => phase' = "running",
             Recorded(e, r) => Recorded(e, r)'
      PROVE  Fate(e, r)'
  <2>1. e \in published /\ Within(e, r)
    BY <1>k DEF Within
  <2>2. Fate(e, r)
    BY <2>1, <1>b
  <2>3. (LossStated(r) => LossStated(r)') /\ (NeverStopped(r) => NeverStopped(r)')
    BY <1>k DEF LossStated, NeverStopped, HasStop
  <2>4. QED
    BY <2>2, <2>3, <1>k DEF Fate
\* A write keeps what was recorded.
<1>w. ASSUME NEW added, Wrote(added), UNCHANGED sealed, Recorded(e, r)
      PROVE  Recorded(e, r)'
  BY <1>w DEF Wrote, Recorded, Files
<1>1. CASE Start
  <2>1. r # run + 1
    BY <1>1, <1>a DEF Start, Within, IInv, Lifecycle
  <2>2. /\ UNCHANGED <<published, began, ended, sealed, active>> /\ phase = "down"
    BY <1>1 DEF Start
  <2>3. e \in published /\ Within(e, r)
    BY <2>2 DEF Within
  <2>4. Recorded(e, r) \/ LossStated(r) \/ NeverStopped(r)
    BY <2>2, <2>3, <1>b DEF Fate
  <2>5. QED
    BY <2>2, <2>4 DEF Fate, Recorded, LossStated, NeverStopped, HasStop, Files
<1>2. CASE RecoverAttributed
  <2>1. PICK s : SealedAs(s, {SegmentRecovered(TRUE, now)})
    BY <1>2, RecoverSeals
  <2>2. /\ sealed' = sealed \cup {s} /\ s.incarnation = active.incarnation
        /\ Range(s.records) \subseteq Range(active.records) \cup {SegmentRecovered(TRUE, now)}
        /\ UNCHANGED <<published, began, ended, run, phase>>
        /\ phase = "recovering" /\ active # NoFile
    BY <1>2, <2>1 DEF RecoverAttributed, SealedAs
  <2>3. ~HasStop(s)
    BY <2>2 DEF HasStop, IInv, Bracketed, SegmentRecovered
  <2>4. e \in published /\ Within(e, r) /\ Fate(e, r)
    BY <2>2, <1>b DEF Within
  <2>5. CASE r = active.incarnation
    <3>1. r < run
      BY <2>2, <2>5 DEF IInv, Lifecycle, Files
    <3>2. ended[r] # -1
      BY <3>1 DEF IInv, Lifecycle
    <3>3. \A t \in sealed : t.incarnation = r => ~HasStop(t)
      BY <2>5 DEF IInv, Bracketed
    <3>4. NeverStopped(r)'
      BY <2>2, <2>3, <3>2, <3>3 DEF NeverStopped, HasStop
    <3>5. QED
      BY <3>4 DEF Fate
  <2>6. CASE r # active.incarnation
    <3>1. Recorded(e, r) => Recorded(e, r)'
      BY <2>2, <2>6 DEF Recorded, Files
    <3>2. LossStated(r) => LossStated(r)'
      BY <2>2 DEF LossStated
    <3>3. NeverStopped(r) => NeverStopped(r)'
      BY <2>2, <2>6 DEF NeverStopped, HasStop
    <3>4. QED
      BY <2>2, <2>4, <3>1, <3>2, <3>3 DEF Fate
  <2>7. QED
    BY <2>5, <2>6
<1>3. CASE RecoverUnattributed
  <2>1. Range(active.records) = {}
    BY <1>3, EmptyFile DEF RecoverUnattributed, IInv, Sequential
  <2>2. Recorded(e, r) => Recorded(e, r)'
    BY <1>3, <2>1 DEF RecoverUnattributed, Recorded, Files
  <2>3. QED
    BY <1>3, <2>2, <1>k DEF RecoverUnattributed
<1>4. CASE OpenSegment
  <2>1. active = NoFile /\ Range(active.records) = {}
    BY <1>4, EmptyFile DEF OpenSegment
  <2>2. Recorded(e, r) => Recorded(e, r)'
    BY <1>4, <2>1 DEF OpenSegment, Recorded, Files
  <2>3. QED
    BY <1>4, <2>2, <1>k DEF OpenSegment
<1>5. CASE SyncHeader
  <2>1. CASE active.segment_seq = 0
    <3>1. Wrote(Range(discard) \cup {AgentStart(now)})
      BY <1>5, <2>1, SyncWrites
    <3>2. /\ UNCHANGED <<published, ended, sealed, run, phase, dropped>>
          /\ phase = "running" /\ began' = [began EXCEPT ![run] = now]
      BY <1>5, <2>1 DEF SyncHeader
    <3>3. CASE r = run
      <4>1. began'[r] = now /\ e.at \in 0..now
        BY <3>2, <3>3, <1>a
      <4>2. QED
        BY <4>1, <1>a DEF Within
    <3>4. CASE r # run
      <4>1. began'[r] = began[r]
        BY <3>2, <3>4, <1>a
      <4>2. e \in published /\ Within(e, r)
        BY <3>2, <4>1 DEF Within
      <4>3. Fate(e, r)
        BY <4>2, <1>b
      <4>4. (LossStated(r) => LossStated(r)') /\ (NeverStopped(r) => NeverStopped(r)')
        BY <3>2 DEF LossStated, NeverStopped, HasStop
      <4>5. Recorded(e, r) => Recorded(e, r)'
        BY <3>1, <3>2, <1>w
      <4>6. QED
        BY <3>2, <4>3, <4>4, <4>5 DEF Fate
    <3>5. QED
      BY <3>3, <3>4
  <2>2. CASE active.segment_seq # 0
    <3>1. Recorded(e, r) => Recorded(e, r)'
      BY <1>5, <2>2 DEF SyncHeader, Recorded, Files
    <3>2. QED
      BY <1>5, <2>2, <3>1, <1>k DEF SyncHeader
  <2>3. QED
    BY <2>1, <2>2
<1>6. CASE Record
  <2> DEFINE x == Store(Instance, 0, Cardinality(published), now)
             new == [id |-> Cardinality(published), at |-> now]
  <2>1. Wrote({x})
    BY <1>6, RecordWrites
  <2>2. /\ UNCHANGED <<began, ended, sealed, run, phase, dropped>>
        /\ published' = published \cup {new}
        /\ phase = "running"
    BY <1>6 DEF Record, Publish, Writing
  <2>3. Within(e, r)
    BY <2>2 DEF Within
  <2>4. CASE e = new
    <3>1. r = run /\ e.id = Cardinality(published)
      BY <2>3, <2>4, <1>c
    <3>2. active'.incarnation = run
      BY <1>6, <2>1 DEF Wrote, IInv, Lifecycle, Record, Writing
    <3>3. x \in Range(active'.records) /\ x.kind = "store" /\ x.block_id = e.id
      BY <2>1, <3>1 DEF Wrote, Store, CacheRecord
    <3>4. Recorded(e, r)'
      BY <3>1, <3>2, <3>3 DEF Recorded, Files
    <3>5. QED
      BY <3>4 DEF Fate
  <2>5. CASE e # new
    <3>1. Fate(e, r)
      BY <2>2, <2>3, <2>5, <1>b
    <3>2. (LossStated(r) => LossStated(r)') /\ (NeverStopped(r) => NeverStopped(r)')
      BY <2>2 DEF LossStated, NeverStopped, HasStop
    <3>3. Recorded(e, r) => Recorded(e, r)'
      BY <2>1, <2>2, <1>w
    <3>4. QED
      BY <2>2, <3>1, <3>2, <3>3 DEF Fate
  <2>6. QED
    BY <2>4, <2>5
<1>7. CASE Drop
  <2> DEFINE new == [id |-> Cardinality(published), at |-> now]
  <2>1. /\ UNCHANGED <<began, ended, sealed, active, run, phase>>
        /\ dropped' = dropped + 1 /\ phase = "running"
        /\ published' = published \cup {new}
    BY <1>7 DEF Drop, Publish, Writing
  <2>2. Within(e, r) /\ dropped' # 0
    BY <2>1, <1>a DEF Within
  <2>3. CASE e = new
    BY <2>1, <2>2, <2>3, <1>c DEF Fate
  <2>4. CASE e # new
    <3>1. Fate(e, r)
      BY <2>1, <2>2, <2>4, <1>b
    <3>2. QED
      BY <2>1, <2>2, <3>1 DEF Fate, Recorded, LossStated, NeverStopped, HasStop, Files
  <2>5. QED
    BY <2>3, <2>4
<1>8. CASE Miss
  <2> DEFINE new == [id |-> Cardinality(published), at |-> now]
  <2>1. /\ UNCHANGED <<began, ended, sealed, active, run, phase, dropped>>
        /\ phase # "running"
        /\ published' = published \cup {new}
    BY <1>8 DEF Miss, Publish
  <2>2. Within(e, r)
    BY <2>1 DEF Within
  <2>3. e # new
    BY <2>1, <2>2, <1>c
  <2>4. Fate(e, r)
    BY <2>1, <2>2, <2>3, <1>b
  <2>5. QED
    BY <2>1, <2>4 DEF Fate, Recorded, LossStated, NeverStopped, HasStop, Files
<1>9. CASE Beat
  <2>1. Recorded(e, r) => Recorded(e, r)'
    BY <1>9, BeatWrites, <1>w DEF Beat
  <2>2. QED
    BY <1>9, <2>1, <1>k DEF Beat
<1>10. CASE Seal
  <2>1. PICK s : SealedAs(s, {}) /\ Range(s.records) = Range(active.records)
    BY <1>10, SealSeals
  <2>2. /\ sealed' = sealed \cup {s} /\ s.incarnation = active.incarnation
        /\ UNCHANGED <<published, began, ended, run, phase, dropped>>
    BY <1>10, <2>1 DEF Seal, SealedAs
  <2>3. ~HasStop(s)
    BY <2>1 DEF HasStop, IInv, Bracketed
  <2>4. e \in published /\ Within(e, r) /\ Fate(e, r)
    BY <2>2, <1>b DEF Within
  <2>5. Recorded(e, r) => Recorded(e, r)'
    BY <2>1, <2>2 DEF Recorded, Files
  <2>6. (LossStated(r) => LossStated(r)') /\ (NeverStopped(r) => NeverStopped(r)')
    BY <2>2, <2>3 DEF LossStated, NeverStopped, HasStop
  <2>7. QED
    BY <2>2, <2>4, <2>5, <2>6 DEF Fate
<1>11. CASE Stop
  <2> DEFINE stop == Envelope("agent_stop", now, dropped, {Instance})
  <2>1. PICK s : /\ SealedAs(s, {stop})
                 /\ Range(active.records) \subseteq Range(s.records)
    BY <1>11, StopSeals
  <2>2. /\ sealed' = sealed \cup {s} /\ s.incarnation = active.incarnation
        /\ stop \in Range(s.records)
        /\ stop.kind = "agent_stop" /\ stop.dropped = dropped
        /\ phase = "running" /\ run \in Runs
        /\ ended' = [ended EXCEPT ![run] = now]
        /\ UNCHANGED <<published, began, run>>
    BY <1>11, <2>1, <1>a DEF Stop, SealedAs, Envelope, Writing
  <2>3. active.incarnation = run
    BY <1>11, <2>2 DEF Stop, Writing, IInv, Sequential, Lifecycle
  <2>4. Recorded(e, r) => Recorded(e, r)'
    BY <2>1, <2>2 DEF Recorded, Files
  <2>5. LossStated(r) => LossStated(r)'
    BY <2>2 DEF LossStated
  <2>6. CASE r = run
    <3>1. ended[r] = -1
      BY <2>2, <2>6 DEF IInv, Lifecycle
    <3>2. e \in published /\ Within(e, r)
      BY <2>2, <3>1 DEF Within
    <3>3. Recorded(e, r) \/ dropped # 0 \/ LossStated(r)
      BY <3>1, <3>2, <1>b DEF Fate, NeverStopped
    <3>4. dropped # 0 => LossStated(r)'
      BY <2>2, <2>3, <2>6 DEF LossStated
    <3>5. QED
      BY <3>3, <3>4, <2>4, <2>5 DEF Fate
  <2>7. CASE r # run
    <3>1. ended'[r] = ended[r]
      BY <2>2, <2>7, <1>a
    <3>2. e \in published /\ Within(e, r)
      BY <2>2, <3>1 DEF Within
    <3>3. Recorded(e, r) \/ LossStated(r) \/ NeverStopped(r)
      BY <2>7, <3>2, <1>b DEF Fate
    <3>4. NeverStopped(r) => NeverStopped(r)'
      BY <2>2, <2>3, <2>7, <3>1 DEF NeverStopped, HasStop
    <3>5. QED
      BY <3>3, <3>4, <2>4, <2>5 DEF Fate
  <2>8. QED
    BY <2>6, <2>7
<1>12. CASE Crash
  <2>1. /\ UNCHANGED <<sealed, active, run, began, published>> /\ phase # "down"
        /\ run \in Runs /\ ended' = [ended EXCEPT ![run] = now]
    BY <1>12, <1>a DEF Crash
  <2>2. (Recorded(e, r) => Recorded(e, r)') /\ (LossStated(r) => LossStated(r)')
    BY <2>1 DEF Recorded, LossStated, Files
  <2>3. CASE r = run
    <3>1. ended'[r] = now /\ now # -1
      BY <2>1, <2>3, <1>a
    <3>2. \A t \in sealed : t.incarnation = r => ~HasStop(t)
      BY <2>1, <2>3, <1>a DEF IInv, Bracketed
    <3>3. NeverStopped(r)'
      BY <2>1, <3>1, <3>2 DEF NeverStopped, HasStop
    <3>4. QED
      BY <3>3 DEF Fate
  <2>4. CASE r # run
    <3>1. ended'[r] = ended[r]
      BY <2>1, <2>4, <1>a
    <3>2. e \in published /\ Within(e, r)
      BY <2>1, <3>1 DEF Within
    <3>3. Recorded(e, r) \/ LossStated(r) \/ NeverStopped(r)
      BY <2>4, <3>2, <1>b DEF Fate
    <3>4. NeverStopped(r) => NeverStopped(r)'
      BY <2>1, <3>1 DEF NeverStopped, HasStop
    <3>5. QED
      BY <2>2, <3>3, <3>4 DEF Fate
  <2>5. QED
    BY <2>3, <2>4
<1>13. CASE Reclaim
  <2>1. Recorded(e, r) => Recorded(e, r)'
    BY <1>13, ReclaimWrites, <1>w DEF Reclaim
  <2>2. QED
    BY <1>13, <2>1, <1>k DEF Reclaim
<1>14. CASE \E s \in disk : Ship(s)
  BY <1>14, <1>k DEF Ship, Recorded, Files
<1>15. CASE \E s \in disk : Spoil(s)
  BY <1>15, <1>k DEF Spoil, Recorded, Files
<1>16. CASE Tick
  BY <1>16, <1>k DEF Tick, Recorded, Files
<1>17. CASE UNCHANGED vars
  BY <1>17, <1>k DEF Recorded, Files
<1>18. QED
  BY <1>1, <1>2, <1>3, <1>4, <1>5, <1>6, <1>7, <1>8, <1>9, <1>10, <1>11, <1>12, <1>13, <1>14, <1>15, <1>16, <1>17 DEF Next, Produce, Deliver

-----------------------------------------------------------------------------
(***************************************************************************)
(* The theorems.                                                           *)
(***************************************************************************)

\* The invariant holds of every behaviour of the delivery layer.
THEOREM Invariant == Spec => []IInv
<1>1. Init => IInv
  BY InitInvariant
<1>2. IInv /\ [Next]_vars => IInv'
  BY TypeStep, SequentialStep, LifecycleStep, NumberingStep, BracketedStep,
     AccountedStep DEF IInv
<1>3. QED
  BY <1>1, <1>2, PTL DEF Spec

\* Every variable keeps its type, whatever the bounds.
THEOREM TypeCorrect == Spec => []TypeOK
<1>1. IInv => TypeOK
  BY DEF IInv
<1>2. QED
  BY <1>1, Invariant, PTL

\* Recovery never files a segment under a position that is taken: identity
\* lives in the header, so crashes and later finders cannot merge or fork a
\* run's sequence.
THEOREM IdentityIsUnique == Spec => []OneSegmentPerIdentity
<1>1. IInv => OneSegmentPerIdentity
  BY DEF IInv, Numbering, OneSegmentPerIdentity
<1>2. QED
  BY <1>1, Invariant, PTL

\* The least and the greatest of one number is the number.
LEMMA MinMaxSingle ==
  ASSUME NEW a \in Int
  PROVE  Min({a}) = a /\ Max({a}) = a
<1>1. \E x \in {a} : \A y \in {a} : x <= y
  OBVIOUS
<1>2. \E x \in {a} : \A y \in {a} : x >= y
  OBVIOUS
<1>3. Min({a}) \in {a}
  BY <1>1, Zenon DEF Min
<1>4. Max({a}) \in {a}
  BY <1>2, Zenon DEF Max
<1>5. QED
  BY <1>3, <1>4

\* A reader that sees a run's start and stop and no hole between them holds
\* everything the run ever sealed.
LEMMA HoldsWholeRun ==
  ASSUME IInv, NEW r, CountedBracket(held, r), NEW t \in sealed, t.incarnation = r
  PROVE  t \in held
<1> USE DEF IInv, TypeOK
<1>1. PICK first \in held : first.incarnation = r /\ first.segment_seq = 0
  <2>1. PICK x \in OfKind(RecordsOf(held, r), "agent_start") : TRUE
    BY DEF CountedBracket, StartTimes
  <2>2. PICK s \in SegmentsOf(held, r) : x \in Range(s.records)
    BY <2>1 DEF OfKind, RecordsOf, RecordsIn
  <2>3. x.kind = "agent_start" /\ s \in held /\ s \in Files /\ s.incarnation = r
    BY <2>1, <2>2 DEF OfKind, SegmentsOf, Files
  <2>4. QED
    BY <2>2, <2>3 DEF Bracketed
<1>2. PICK last \in held : last.incarnation = r /\ HasStop(last)
  <2>1. PICK x \in OfKind(RecordsOf(held, r), "agent_stop") : TRUE
    BY DEF CountedBracket, StopTimes
  <2>2. PICK s \in SegmentsOf(held, r) : x \in Range(s.records)
    BY <2>1 DEF OfKind, RecordsOf, RecordsIn
  <2>3. QED
    BY <2>1, <2>2 DEF OfKind, SegmentsOf, HasStop
<1>3. /\ t.segment_seq <= last.segment_seq
      /\ t.segment_seq \in Nat /\ last.segment_seq \in Nat
  BY <1>2, RealFile DEF Bracketed
<1>4. ~HasHole(held, r)
  BY DEF CountedBracket, RunGaps
<1>5. first.segment_seq \in SeqsOf(held, r) /\ last.segment_seq \in SeqsOf(held, r)
  BY <1>1, <1>2 DEF SeqsOf, SegmentsOf
<1>6. t.segment_seq \in SeqsOf(held, r)
  <2>1. CASE last.segment_seq = 0
    BY <2>1, <1>1, <1>3, <1>5
  <2>2. CASE last.segment_seq # 0
    BY <2>2, <1>1, <1>3, <1>4, <1>5 DEF HasHole
  <2>3. QED
    BY <2>1, <2>2
<1>7. PICK s \in held : s.incarnation = r /\ s.segment_seq = t.segment_seq
  BY <1>6 DEF SeqsOf, SegmentsOf
<1>8. QED
  BY <1>7 DEF Numbering

\* The verdict rests on the marks themselves: the bracket a reader reads is the
\* time the run was observing.
LEMMA BracketIsTheRun ==
  ASSUME IInv, NEW r \in Runs, CountedBracket(held, r)
  PROVE  /\ Opens(held, r) = began[r] /\ Closes(held, r) = ended[r]
         /\ began[r] # -1 /\ ~NeverStopped(r)
         /\ active.incarnation # r
         /\ ~(r = run /\ phase = "running")
<1> USE DEF IInv, TypeOK
<1>0. began[r] \in Int /\ ended[r] \in Int
  OBVIOUS
<1>1. /\ StartTimes(held, r) # {}
      /\ StartTimes(held, r) \subseteq {began[r]}
      /\ began[r] # -1
  <2>1. ASSUME NEW x \in OfKind(RecordsOf(held, r), "agent_start")
        PROVE  x.at_ms = began[r] /\ began[r] # -1
    <3>1. PICK s \in SegmentsOf(held, r) : x \in Range(s.records)
      BY <2>1 DEF OfKind, RecordsOf, RecordsIn
    <3>2. x.kind = "agent_start" /\ s \in Files /\ s.incarnation = r
      BY <2>1, <3>1 DEF OfKind, SegmentsOf, Files
    <3>3. QED
      BY <3>1, <3>2 DEF Bracketed
  <2>2. QED
    BY <2>1 DEF StartTimes, CountedBracket
<1>2. /\ StopTimes(held, r) # {}
      /\ StopTimes(held, r) \subseteq {ended[r]}
      /\ \E s \in sealed : s.incarnation = r /\ HasStop(s)
  <2>1. ASSUME NEW x \in OfKind(RecordsOf(held, r), "agent_stop")
        PROVE  /\ x.at_ms = ended[r]
               /\ \E s \in sealed : s.incarnation = r /\ HasStop(s)
    <3>1. PICK s \in SegmentsOf(held, r) : x \in Range(s.records)
      BY <2>1 DEF OfKind, RecordsOf, RecordsIn
    <3>2. x.kind = "agent_stop" /\ s \in sealed /\ s.incarnation = r
      BY <2>1, <3>1 DEF OfKind, SegmentsOf
    <3>3. QED
      BY <3>1, <3>2 DEF Bracketed, HasStop
  <2>2. QED
    BY <2>1 DEF StopTimes, CountedBracket
<1>3. StartTimes(held, r) = {began[r]} /\ StopTimes(held, r) = {ended[r]}
  BY <1>1, <1>2
<1>4. Opens(held, r) = began[r] /\ Closes(held, r) = ended[r]
  BY <1>0, <1>3, MinMaxSingle DEF Opens, Closes
<1>5. QED
  BY <1>1, <1>2, <1>4 DEF Bracketed, NeverStopped

\* Absence is exact only where it was measured: for every schedule of crashes,
\* recoveries, losses and reclaims, a counted bracket over a span means that
\* every event published inside the span reached the reader.
THEOREM ExactAbsence == Spec => []ExactAbsenceIsMeasured
<1>1. ASSUME IInv PROVE ExactAbsenceIsMeasured
  <2> SUFFICES ASSUME NEW from \in 0..now, NEW to \in 0..now,
                      AbsenceRegister(held, from, to) = "exact",
                      NEW e \in published, from < e.at, e.at < to
               PROVE  Holds(held, e)
    BY DEF ExactAbsenceIsMeasured
  <2>1. PICK r \in Incarnations(held) :
          /\ CountedBracket(held, r)
          /\ Opens(held, r) <= from /\ to <= Closes(held, r)
    BY DEF AbsenceRegister, Counted
  <2>2. r \in Runs
    BY <1>1, <2>1 DEF Incarnations, IInv, TypeOK, IsSegment
  <2>3. /\ began[r] \in Int /\ ended[r] \in Int /\ e.at \in Int /\ now \in Nat
    BY <1>1, <2>2 DEF IInv, TypeOK
  <2>4. Within(e, r)
    BY <1>1, <2>1, <2>2, <2>3, BracketIsTheRun DEF Within
  <2>5. Recorded(e, r) \/ LossStated(r)
    BY <1>1, <2>1, <2>2, <2>4, BracketIsTheRun DEF IInv, Accounted, Fate
  <2>6. ~LossStated(r)
    <3> SUFFICES ASSUME NEW s \in sealed, s.incarnation = r,
                        NEW x \in Range(s.records), x.kind = "agent_stop", x.dropped # 0
                 PROVE  FALSE
      BY DEF LossStated
    <3>1. s \in held
      BY <1>1, <2>1, HoldsWholeRun
    <3>2. x \in Envelopes(RecordsOf(held, r))
      BY <3>1 DEF Envelopes, OfKind, RecordsOf, RecordsIn, SegmentsOf
    <3>3. HasDroppedDelta(held, r)
      BY <3>2 DEF HasDroppedDelta
    <3>4. QED
      BY <3>3, <2>1 DEF CountedBracket, RunGaps
  <2>7. PICK s \in Files : /\ s.incarnation = r
                           /\ \E x \in Range(s.records) :
                                x.kind = "store" /\ x.block_id = e.id
    BY <2>5, <2>6 DEF Recorded
  <2>8. s \in held
    BY <1>1, <2>1, <2>2, <2>7, BracketIsTheRun, HoldsWholeRun DEF Files
  <2>9. QED
    BY <2>7, <2>8 DEF Holds, OfKind, RecordsIn
<1>2. QED
  BY <1>1, Invariant, PTL

-----------------------------------------------------------------------------
(***************************************************************************)
(* What the ring drops.  The dropped segments are older than the kept ones *)
(* because the ring is finite, its order is total, and a file that is yet  *)
(* to be sealed is younger than every sealed one, recovered files too.     *)
(***************************************************************************)
Retained ==
  /\ RetentionKeepsTheNewest
  /\ IsFiniteSet(disk)
  /\ active # NoFile => \A s \in sealed : s.incarnation <= active.incarnation

\* A reclaim drops older segments than it keeps.
LEMMA ExcessIsOlder ==
  ASSUME IInv, IsFiniteSet(disk), NEW s \in Excess, NEW t \in disk \ Excess
  PROVE  Older(s, t)
<1> DEFINE Before(x) == {u \in disk : Older(u, x)}
<1>1. s \in disk /\ t \in disk /\ s # t
  BY DEF Excess
<1>2. \A u \in disk : u.incarnation \in Int /\ u.segment_seq \in Int
  BY DeliveryAssumption DEF IInv, TypeOK, IsSegment, Runs
<1>3. Older(s, t) \/ Older(t, s)
  BY <1>1, <1>2 DEF Older, IInv, TypeOK, Numbering
<1>4. ASSUME Older(t, s) PROVE FALSE
  <2>1. Before(t) \subseteq Before(s)
    BY <1>1, <1>2, <1>4 DEF Older
  <2>2. IsFiniteSet(Before(s)) /\ IsFiniteSet(Before(t))
    BY FS_Subset
  <2>3. Cardinality(Before(t)) <= Cardinality(Before(s))
    BY <2>1, <2>2, FS_Subset
  <2>4. /\ Cardinality(Before(s)) < Cardinality(disk) - Cap
        /\ ~(Cardinality(Before(t)) < Cardinality(disk) - Cap)
    BY <1>1 DEF Excess
  <2>5. /\ Cardinality(Before(s)) \in Nat /\ Cardinality(Before(t)) \in Nat
        /\ Cardinality(disk) \in Nat /\ Cap \in Nat
    BY <2>2, FS_CardinalityType, DeliveryAssumption
  <2> HIDE DEF Before
  <2>6. QED
    BY <2>3, <2>4, <2>5
<1>5. QED
  BY <1>3, <1>4

\* A file that is sealed joins the ring as its youngest segment.
LEMMA SealingRetains ==
  ASSUME IInv, Retained, NEW s, NEW added, SealedAs(s, added),
         disk' = disk \cup {s}, reclaimed' = reclaimed
  PROVE  Retained'
<1>1. /\ active # NoFile /\ active' = NoFile
      /\ s.incarnation = active.incarnation /\ s.segment_seq = active.segment_seq
  BY DeliveryAssumption DEF SealedAs, IsSegment, Runs, NoFile, NewSegment
<1>2. \A u \in reclaimed : u \in sealed
  BY DEF IInv, TypeOK
<1>3. \A u \in sealed : u.incarnation \in Int
  BY DeliveryAssumption DEF IInv, TypeOK, IsSegment, Runs
<1>4. active.incarnation \in Int
  BY <1>1, DeliveryAssumption DEF IInv, TypeOK, IsSegment, Runs
<1>5. ASSUME NEW u \in reclaimed
      PROVE  \/ u.incarnation < s.incarnation
             \/ u.incarnation = s.incarnation /\ u.segment_seq < s.segment_seq
  BY <1>1, <1>2, <1>3, <1>4 DEF Retained, IInv, Numbering
<1>6. RetentionKeepsTheNewest'
  BY <1>5 DEF Retained, RetentionKeepsTheNewest
<1>7. IsFiniteSet(disk')
  BY FS_AddElement DEF Retained
<1>8. QED
  BY <1>1, <1>6, <1>7 DEF Retained

\* No step keeps on disk what is older than a dropped segment.
LEMMA RetainedStep == IInv /\ Retained /\ [Next]_vars => Retained'
<1> SUFFICES ASSUME IInv, Retained, [Next]_vars PROVE Retained'
  OBVIOUS
<1> USE DEF producer, file, delivery, history, vars
<1>f. ASSUME disk' \subseteq disk, reclaimed' = reclaimed, sealed' = sealed,
             active' # NoFile =>
               active # NoFile /\ active'.incarnation = active.incarnation
      PROVE  Retained'
  <2>1. IsFiniteSet(disk')
    BY <1>f, FS_Subset DEF Retained
  <2>2. QED
    BY <1>f, <2>1 DEF Retained, RetentionKeepsTheNewest
<1>1. CASE Start
  BY <1>1, <1>f DEF Start
<1>2. CASE RecoverAttributed
  <2>1. PICK s : SealedAs(s, {SegmentRecovered(TRUE, now)})
    BY <1>2, RecoverSeals
  <2>2. disk' = disk \cup {s} /\ reclaimed' = reclaimed
    BY <1>2, <2>1 DEF RecoverAttributed, SealedAs
  <2>3. QED
    BY <2>1, <2>2, SealingRetains
<1>3. CASE RecoverUnattributed
  BY <1>3, <1>f DEF RecoverUnattributed
<1>4. CASE OpenSegment
  <2>1. active'.incarnation = run /\ UNCHANGED <<disk, reclaimed, sealed>>
    BY <1>4 DEF OpenSegment, NewSegment
  <2>2. \A s \in sealed : s.incarnation <= run
    BY DEF IInv, Lifecycle, Files
  <2>3. QED
    BY <2>1, <2>2 DEF Retained, RetentionKeepsTheNewest
<1>5. CASE SyncHeader
  <2>1. active # NoFile /\ active'.incarnation = active.incarnation
    <3>1. CASE active.segment_seq = 0
      BY <1>5, <3>1, SyncWrites DEF Wrote
    <3>2. CASE active.segment_seq # 0
      BY <1>5, <3>2 DEF SyncHeader
    <3>3. QED
      BY <3>1, <3>2
  <2>2. QED
    BY <1>5, <2>1, <1>f DEF SyncHeader
<1>6. CASE Record
  <2>1. active # NoFile /\ active'.incarnation = active.incarnation
    BY <1>6, RecordWrites DEF Wrote
  <2>2. QED
    BY <1>6, <2>1, <1>f DEF Record
<1>7. CASE Drop
  BY <1>7, <1>f DEF Drop
<1>8. CASE Miss
  BY <1>8, <1>f DEF Miss
<1>9. CASE Beat
  <2>1. active # NoFile /\ active'.incarnation = active.incarnation
    BY <1>9, BeatWrites DEF Wrote
  <2>2. QED
    BY <1>9, <2>1, <1>f DEF Beat
<1>10. CASE Seal
  <2>1. PICK s : SealedAs(s, {})
    BY <1>10, SealSeals
  <2>2. disk' = disk \cup {s} /\ reclaimed' = reclaimed
    BY <1>10, <2>1 DEF Seal, SealedAs
  <2>3. QED
    BY <2>1, <2>2, SealingRetains
<1>11. CASE Stop
  <2>1. PICK s : SealedAs(s, {Envelope("agent_stop", now, dropped, {Instance})})
    BY <1>11, StopSeals
  <2>2. disk' = disk \cup {s} /\ reclaimed' = reclaimed
    BY <1>11, <2>1 DEF Stop, SealedAs
  <2>3. QED
    BY <2>1, <2>2, SealingRetains
<1>12. CASE Crash
  BY <1>12, <1>f DEF Crash
<1>13. CASE Reclaim
  <2>1. /\ disk' = disk \ Excess /\ reclaimed' = reclaimed \cup Excess
        /\ sealed' = sealed
    BY <1>13 DEF Reclaim
  <2>2. active # NoFile /\ active'.incarnation = active.incarnation
    BY <1>13, ReclaimWrites DEF Wrote
  <2>3. \A s \in Excess, t \in disk \ Excess : Older(s, t)
    BY ExcessIsOlder DEF Retained
  <2>4. IsFiniteSet(disk')
    BY <2>1, FS_Subset DEF Retained
  <2>5. RetentionKeepsTheNewest'
    BY <2>1, <2>3 DEF Retained, RetentionKeepsTheNewest, Older
  <2>6. QED
    BY <2>1, <2>2, <2>4, <2>5 DEF Retained
<1>14. CASE \E s \in disk : Ship(s)
  BY <1>14, <1>f DEF Ship
<1>15. CASE \E s \in disk : Spoil(s)
  BY <1>15, <1>f DEF Spoil
<1>16. CASE Tick
  BY <1>16, <1>f DEF Tick
<1>17. CASE UNCHANGED vars
  BY <1>17, <1>f
<1>18. QED
  BY <1>1, <1>2, <1>3, <1>4, <1>5, <1>6, <1>7, <1>8, <1>9, <1>10, <1>11, <1>12, <1>13, <1>14, <1>15, <1>16, <1>17 DEF Next, Produce, Deliver

\* Retention drops the oldest first, whatever crashed, was recovered late or
\* shipped early: a window that survived on disk is the most recent one.
THEOREM OldestGoFirst == Spec => []RetentionKeepsTheNewest
<1>1. Init => Retained
  BY FS_EmptySet DEF Init, Retained, RetentionKeepsTheNewest
<1>2. Retained => RetentionKeepsTheNewest
  BY DEF Retained
<1>3. QED
  BY <1>1, <1>2, Invariant, RetainedStep, PTL DEF Spec

-----------------------------------------------------------------------------
(***************************************************************************)
(* What is behind a detected gap.  A segment goes nowhere but to the disk, *)
(* the reader, the ring's losses or the transport's; a declared drop names *)
(* a run of which the ring dropped something; and behind a counter that is *)
(* not zero is an event that no file records, now or ever: it has a number *)
(* of its own, and numbers are not given twice.                            *)
(***************************************************************************)
Written == RecordsIn(Files)

Counts(x) == x.kind \in {"heartbeat", "agent_stop"} /\ x.dropped # 0

Unrecorded(e) == \A x \in Written : x.kind = "store" => x.block_id # e.id

Conserved == sealed \subseteq disk \cup held \cup reclaimed \cup spoiled

Declared ==
  \A x \in Written :
    x.kind = "segments_dropped" => SegmentsOf(reclaimed, x.incarnation) # {}

NumbersAreFresh ==
  /\ IsFiniteSet(published)
  /\ \A e \in published : e.id \in 0..(Cardinality(published) - 1)
  /\ \A x \in Written :
       x.kind = "store" => x.block_id \in 0..(Cardinality(published) - 1)

CountsHaveLosses ==
  dropped # 0 \/ (\E x \in Written : Counts(x)) =>
    \E e \in published : Unrecorded(e)

Caused == Conserved /\ Declared /\ NumbersAreFresh /\ CountsHaveLosses

\* The step adds no record to the files but these.
Adds(added) == Written' \subseteq Written \cup added

\* Sealing moves records, and appends these.
LEMMA SealingAdds ==
  ASSUME NEW s, NEW added, SealedAs(s, added)
  PROVE  Adds(added)
  BY EmptyFile DEF SealedAs, Adds, Written, Files, RecordsIn

\* Writing appends these.
LEMMA WritingAdds ==
  ASSUME NEW added, Wrote(added), sealed' = sealed
  PROVE  Adds(added)
  BY DEF Wrote, Adds, Written, Files, RecordsIn

\* A step that publishes and reclaims nothing and adds neither a store nor a
\* declared drop, nor a count where nothing was dropped.
LEMMA PlainStep ==
  ASSUME Caused, NEW added, Adds(added), Conserved',
         \A x \in added : x.kind \notin {"store", "segments_dropped"},
         \A x \in added : Counts(x) => dropped # 0,
         dropped' \in {0, dropped}, UNCHANGED <<published, reclaimed>>
  PROVE  Caused'
<1>1. \A x \in Written' : x \in Written \/ x \in added
  BY DEF Adds
<1>2. Declared'
  BY <1>1 DEF Caused, Declared
<1>3. NumbersAreFresh'
  BY <1>1 DEF Caused, NumbersAreFresh
<1>4. ASSUME NEW e \in published, Unrecorded(e) PROVE Unrecorded(e)'
  BY <1>1, <1>4 DEF Unrecorded
<1>5. ASSUME dropped' # 0 \/ \E x \in Written' : Counts(x)
      PROVE  dropped # 0 \/ \E x \in Written : Counts(x)
  BY <1>1, <1>5
<1>6. CountsHaveLosses'
  BY <1>4, <1>5 DEF Caused, CountsHaveLosses, Counts
<1>7. QED
  BY <1>2, <1>3, <1>6 DEF Caused

\* One event more makes one number more.
LEMMA PublishNumbers ==
  ASSUME Caused, Publish
  PROVE  LET n == Cardinality(published)
         IN /\ n \in Nat /\ IsFiniteSet(published')
            /\ Cardinality(published') = n + 1
            /\ published' = published \cup {[id |-> n, at |-> now]}
            /\ \A e \in published' : e.id \in 0..n
<1> DEFINE n == Cardinality(published)
           e0 == [id |-> n, at |-> now]
<1>1. n \in Nat
  BY FS_CardinalityType DEF Caused, NumbersAreFresh
<1>2. published' = published \cup {e0}
  BY DEF Publish
<1>3. e0 \notin published
  BY <1>1 DEF Caused, NumbersAreFresh
<1>4. IsFiniteSet(published') /\ Cardinality(published') = n + 1
  BY <1>2, <1>3, FS_AddElement DEF Caused, NumbersAreFresh
<1>5. \A e \in published' : e.id \in 0..n
  BY <1>1, <1>2 DEF Caused, NumbersAreFresh
<1>6. QED
  BY <1>1, <1>2, <1>4, <1>5

\* No step loses sight of what is behind a gap.
LEMMA CausedStep == IInv /\ Caused /\ [Next]_vars => Caused'
<1> SUFFICES ASSUME IInv, Caused, [Next]_vars PROVE Caused'
  OBVIOUS
<1> USE DEF vars, producer, file, delivery, history
<1>q. ASSUME Written' \subseteq Written, Conserved', dropped' \in {0, dropped},
             UNCHANGED <<published, reclaimed>>
      PROVE  Caused'
  <2>1. Adds({})
    BY <1>q DEF Adds
  <2>2. QED
    BY <1>q, <2>1, PlainStep
<1>u. ASSUME UNCHANGED <<active, sealed>> PROVE Written' = Written
  BY <1>u DEF Written, Files
<1>s. ASSUME NEW s, NEW added, SealedAs(s, added),
             UNCHANGED <<held, reclaimed, spoiled, published, dropped>>,
             \A x \in added : /\ x.kind \notin {"store", "segments_dropped"}
                              /\ Counts(x) => dropped # 0
      PROVE  Caused'
  <2>1. Conserved'
    BY <1>s DEF SealedAs, Caused, Conserved
  <2>2. QED
    BY <1>s, <2>1, SealingAdds, PlainStep
<1>w. ASSUME NEW added, Wrote(added), UNCHANGED <<sealed, disk, held, reclaimed, spoiled>>
      PROVE  Adds(added) /\ Conserved'
  BY <1>w, WritingAdds DEF Caused, Conserved
<1>1. CASE Start
  BY <1>1, <1>q, <1>u DEF Start, Caused, Conserved
<1>2. CASE RecoverAttributed
  <2> DEFINE x == SegmentRecovered(TRUE, now)
  <2>1. PICK s : SealedAs(s, {x})
    BY <1>2, RecoverSeals
  <2>2. x.kind = "segment_recovered"
    BY DEF SegmentRecovered
  <2>3. ~Counts(x)
    BY <2>2 DEF Counts
  <2>4. UNCHANGED <<held, reclaimed, spoiled, published, dropped>>
    BY <1>2 DEF RecoverAttributed
  <2> HIDE DEF x
  <2>5. QED
    BY <2>1, <2>2, <2>3, <2>4, <1>s
<1>3. CASE RecoverUnattributed
  <2>1. active' = NoFile /\ sealed' = sealed /\ Range(NoFile.records) = {}
    BY <1>3, EmptyFile DEF RecoverUnattributed
  <2>2. Written' \subseteq Written
    BY <2>1 DEF Written, Files, RecordsIn
  <2>3. QED
    BY <1>3, <2>2, <1>q DEF RecoverUnattributed, Caused, Conserved
<1>4. CASE OpenSegment
  <2>1. sealed' = sealed /\ Range(active'.records) = {}
    BY <1>4, EmptyFile DEF OpenSegment, NewSegment
  <2>2. Written' \subseteq Written
    BY <2>1 DEF Written, Files, RecordsIn
  <2>3. QED
    BY <1>4, <2>2, <1>q DEF OpenSegment, Caused, Conserved
<1>5. CASE SyncHeader
  <2>0. UNCHANGED <<sealed, disk, held, reclaimed, spoiled, published, dropped>>
    BY <1>5 DEF SyncHeader
  <2>1. CASE active.segment_seq = 0
    <3>1. Wrote(Range(discard) \cup {AgentStart(now)})
      BY <1>5, <2>1, SyncWrites
    <3>2. \A x \in Range(discard) \cup {AgentStart(now)} :
            x.kind \in {"segment_recovered", "agent_start"}
      BY DEF IInv, Sequential, AgentStart
    <3>3. \A x \in Range(discard) \cup {AgentStart(now)} :
            x.kind \notin {"store", "segments_dropped"} /\ ~Counts(x)
      BY <3>2 DEF Counts
    <3>4. QED
      BY <2>0, <3>1, <3>3, <1>w, PlainStep
  <2>2. CASE active.segment_seq # 0
    <3>1. active' = active
      BY <1>5, <2>2 DEF SyncHeader
    <3>2. QED
      BY <2>0, <3>1, <1>q, <1>u DEF Caused, Conserved
  <2>3. QED
    BY <2>1, <2>2
<1>6. CASE Record
  <2> DEFINE n == Cardinality(published)
             x == Store(Instance, 0, n, now)
  <2>1. Wrote({x})
    BY <1>6, RecordWrites
  <2>2. UNCHANGED <<sealed, disk, held, reclaimed, spoiled, dropped>>
    BY <1>6 DEF Record
  <2>3. x.kind = "store" /\ x.block_id = n
    BY DEF Store, CacheRecord
  <2>4. /\ n \in Nat /\ IsFiniteSet(published') /\ Cardinality(published') = n + 1
        /\ published \subseteq published' /\ \A e \in published' : e.id \in 0..n
    BY <1>6, PublishNumbers DEF Record
  <2>5. \A e \in published : e.id \in 0..(n - 1)
    BY DEF Caused, NumbersAreFresh
  <2> HIDE DEF x, n
  <2>6. Conserved' /\ \A y \in Written' : y \in Written \/ y = x
    BY <2>1, <2>2, <1>w DEF Adds
  <2>7. Declared'
    BY <2>2, <2>3, <2>6 DEF Caused, Declared
  <2>8. NumbersAreFresh'
    <3>1. \A y \in Written : y.kind = "store" => y.block_id \in 0..(n - 1)
      BY DEF Caused, NumbersAreFresh, n
    <3>2. \A y \in Written' : y.kind = "store" => y.block_id \in 0..n
      BY <2>3, <2>4, <2>6, <3>1
    <3>3. QED
      BY <2>4, <3>2 DEF NumbersAreFresh
  <2>9. CountsHaveLosses'
    <3>1. ASSUME NEW e \in published, Unrecorded(e) PROVE Unrecorded(e)'
      BY <2>3, <2>4, <2>5, <2>6, <3>1 DEF Unrecorded
    <3>2. ~Counts(x)
      BY <2>3 DEF Counts
    <3>3. QED
      BY <2>2, <2>4, <2>6, <3>1, <3>2 DEF Caused, CountsHaveLosses, Counts
  <2>10. QED
    BY <2>6, <2>7, <2>8, <2>9 DEF Caused
<1>7. CASE Drop
  <2> DEFINE n == Cardinality(published)
             e0 == [id |-> n, at |-> now]
  <2>1. Written' = Written /\ Conserved' /\ Declared'
    BY <1>7, <1>u DEF Drop, Caused, Conserved, Declared
  <2>2. /\ n \in Nat /\ IsFiniteSet(published') /\ Cardinality(published') = n + 1
        /\ published' = published \cup {e0} /\ \A e \in published' : e.id \in 0..n
    BY <1>7, PublishNumbers DEF Drop
  <2>3. \A y \in Written : y.kind = "store" => y.block_id \in 0..(n - 1)
    BY DEF Caused, NumbersAreFresh
  <2>4. e0.id = n
    OBVIOUS
  <2> HIDE DEF n, e0
  <2>5. NumbersAreFresh'
    BY <2>1, <2>2, <2>3 DEF NumbersAreFresh
  <2>6. e0 \in published' /\ \A y \in Written' : y.kind = "store" => y.block_id # e0.id
    BY <2>1, <2>2, <2>3, <2>4
  <2>7. CountsHaveLosses'
    BY <2>6 DEF CountsHaveLosses, Unrecorded
  <2>8. QED
    BY <2>1, <2>5, <2>7 DEF Caused
<1>8. CASE Miss
  <2> DEFINE n == Cardinality(published)
  <2>1. /\ Written' = Written /\ Conserved' /\ Declared' /\ dropped' = dropped
    BY <1>8, <1>u DEF Miss, Caused, Conserved, Declared
  <2>2. /\ n \in Nat /\ IsFiniteSet(published') /\ Cardinality(published') = n + 1
        /\ published \subseteq published' /\ \A e \in published' : e.id \in 0..n
    BY <1>8, PublishNumbers DEF Miss
  <2>3. \A y \in Written : y.kind = "store" => y.block_id \in 0..(n - 1)
    BY DEF Caused, NumbersAreFresh
  <2> HIDE DEF n
  <2>4. NumbersAreFresh'
    BY <2>1, <2>2, <2>3 DEF NumbersAreFresh
  <2>5. CountsHaveLosses'
    BY <2>1, <2>2 DEF Caused, CountsHaveLosses, Unrecorded
  <2>6. QED
    BY <2>1, <2>4, <2>5 DEF Caused
<1>9. CASE Beat
  <2> DEFINE x == Heartbeat(now, dropped, {Instance})
  <2>1. Wrote({x})
    BY <1>9, BeatWrites
  <2>2. x.kind = "heartbeat" /\ x.dropped = dropped
    BY DEF Heartbeat, Envelope
  <2>3. UNCHANGED <<sealed, disk, held, reclaimed, spoiled, published, dropped>>
    BY <1>9 DEF Beat
  <2> HIDE DEF x
  <2>4. Counts(x) => dropped # 0
    BY <2>2 DEF Counts
  <2>5. QED
    BY <2>1, <2>2, <2>3, <2>4, <1>w, PlainStep
<1>10. CASE Seal
  <2>1. PICK s : SealedAs(s, {})
    BY <1>10, SealSeals
  <2>2. QED
    BY <1>10, <2>1, <1>s DEF Seal
<1>11. CASE Stop
  <2> DEFINE x == Envelope("agent_stop", now, dropped, {Instance})
  <2>1. PICK s : SealedAs(s, {x})
    BY <1>11, StopSeals
  <2>2. x.kind = "agent_stop" /\ x.dropped = dropped
    BY DEF Envelope
  <2>3. UNCHANGED <<held, reclaimed, spoiled, published, dropped>>
    BY <1>11 DEF Stop
  <2> HIDE DEF x
  <2>4. Counts(x) => dropped # 0
    BY <2>2 DEF Counts
  <2>5. QED
    BY <2>1, <2>2, <2>3, <2>4, <1>s
<1>12. CASE Crash
  BY <1>12, <1>q, <1>u DEF Crash, Caused, Conserved
<1>13. CASE Reclaim
  <2>1. Wrote(DropRecords(Excess))
    BY <1>13, ReclaimWrites
  <2>2. /\ disk' = disk \ Excess /\ reclaimed' = reclaimed \cup Excess
        /\ UNCHANGED <<sealed, held, spoiled, published, dropped>>
    BY <1>13 DEF Reclaim
  <2>3. \A y \in Written' : y \in Written \/ y \in DropRecords(Excess)
    BY <2>1, <2>2, WritingAdds DEF Adds
  <2>4. ASSUME NEW y \in DropRecords(Excess)
        PROVE  /\ y.kind = "segments_dropped"
               /\ SegmentsOf(reclaimed', y.incarnation) # {}
    <3>1. PICK r \in Incarnations(Excess) :
            y = SegmentsDropped(r, Min(SeqsOf(Excess, r)), Max(SeqsOf(Excess, r)), now)
      BY DEF DropRecords
    <3>2. y.kind = "segments_dropped" /\ y.incarnation = r
      BY <3>1 DEF SegmentsDropped
    <3>3. QED
      BY <3>1, <3>2, <2>2 DEF Incarnations, SegmentsOf
  <2>5. Conserved'
    BY <2>2 DEF Caused, Conserved
  <2>6. Declared'
    BY <2>2, <2>3, <2>4 DEF Caused, Declared, SegmentsOf
  <2>7. NumbersAreFresh'
    BY <2>2, <2>3, <2>4 DEF Caused, NumbersAreFresh
  <2>8. CountsHaveLosses'
    <3>1. ASSUME NEW e \in published, Unrecorded(e) PROVE Unrecorded(e)'
      <4>1. \A y \in Written' : y.kind = "store" => y \in Written
        BY <2>3, <2>4
      <4>2. QED
        BY <3>1, <4>1 DEF Unrecorded
    <3>2. \A y \in DropRecords(Excess) : ~Counts(y)
      BY <2>4 DEF Counts
    <3>3. QED
      BY <2>2, <2>3, <3>1, <3>2 DEF Caused, CountsHaveLosses, Counts
  <2>9. QED
    BY <2>5, <2>6, <2>7, <2>8 DEF Caused
<1>14. CASE \E s \in disk : Ship(s)
  BY <1>14, <1>q, <1>u DEF Ship, Caused, Conserved
<1>15. CASE \E s \in disk : Spoil(s)
  BY <1>15, <1>q, <1>u DEF Spoil, Caused, Conserved
<1>16. CASE Tick
  BY <1>16, <1>q, <1>u DEF Tick, Caused, Conserved
<1>17. CASE UNCHANGED vars
  BY <1>17, <1>q, <1>u DEF Caused, Conserved
<1>18. QED
  BY <1>1, <1>2, <1>3, <1>4, <1>5, <1>6, <1>7, <1>8, <1>9, <1>10, <1>11, <1>12, <1>13, <1>14, <1>15, <1>16, <1>17 DEF Next, Produce, Deliver

\* What is behind a gap stays there in every behaviour.
LEMMA CausedAlways == Spec => []Caused
<1>1. Init => Caused
  <2> SUFFICES ASSUME Init PROVE Caused
    OBVIOUS
  <2>1. Written = {}
    <3>1. Files = {NoFile}
      BY DEF Init, Files
    <3>2. QED
      BY <3>1, EmptyFile DEF Written, RecordsIn
  <2>2. dropped = 0 /\ published = {} /\ sealed = {}
    BY DEF Init
  <2>3. QED
    BY <2>1, <2>2, FS_EmptySet
       DEF Caused, Conserved, Declared, NumbersAreFresh, CountsHaveLosses
<1>2. QED
  BY <1>1, Invariant, CausedStep, PTL DEF Spec

\* Behind a hole in an observed sequence is a sealed segment that the reader
\* does not hold.
LEMMA HoleHasASegment ==
  ASSUME IInv, Caused, NEW r \in Runs, HasHole(held, r)
  PROVE  SegmentsOf(disk \cup reclaimed \cup spoiled, r) # {}
<1>1. PICK a \in SeqsOf(held, r), b \in SeqsOf(held, r) :
        a < b /\ \E q \in a..b : q \notin SeqsOf(held, r)
  BY DEF HasHole
<1>2. PICK q \in a..b : q \notin SeqsOf(held, r)
  BY <1>1
<1>3. PICK u \in held : u.incarnation = r /\ u.segment_seq = b
  BY DEF SeqsOf, SegmentsOf
<1>4. PICK v \in held : v.incarnation = r /\ v.segment_seq = a
  BY DEF SeqsOf, SegmentsOf
<1>5. u \in Files /\ a \in Nat /\ b \in Nat
  BY <1>3, <1>4, RealFile DEF IInv, TypeOK, Files
<1>6. q \in 0..(u.segment_seq - 1)
  BY <1>1, <1>2, <1>3, <1>5
<1>7. PICK t \in sealed : t.incarnation = r /\ t.segment_seq = q
  BY <1>3, <1>5, <1>6 DEF IInv, Numbering
<1>8. t \notin held
  BY <1>2, <1>7 DEF SeqsOf, SegmentsOf
<1>9. QED
  BY <1>7, <1>8 DEF Caused, Conserved, SegmentsOf

\* A hole closes with the arrival of what is still on the way, and of nothing
\* else: where a reader sees one, a segment of that run is on the disk or lost.
THEOREM HolesAreOwed ==
  Spec => [](\A r \in Runs : HasHole(held, r) =>
               SegmentsOf(disk \cup reclaimed \cup spoiled, r) # {})
<1>1. IInv /\ Caused =>
        \A r \in Runs : HasHole(held, r) => SegmentsOf(disk \cup reclaimed \cup spoiled, r) # {}
  BY HoleHasASegment
<1>2. QED
  BY <1>1, Invariant, CausedAlways, PTL

\* Whatever is lost, a reader that has received what there is fabricates no
\* gap: each class it detects has a loss of that class behind it.
THEOREM GapsAreCaused == Spec => []EveryGapHasACause
<1>1. ASSUME IInv, Caused, Drained, NEW r \in Runs, HasHole(held, r)
      PROVE  SegmentsOf(reclaimed \cup spoiled, r) # {}
  BY <1>1, HoleHasASegment DEF Drained, SegmentsOf
<1>2. ASSUME IInv, Caused, NEW r \in Runs, HasDroppedDelta(held, r)
      PROVE  \E e \in published : ~Holds(held, e)
  <2>1. held \subseteq Files
    BY <1>2 DEF IInv, TypeOK, Files
  <2>2. RecordsIn(held) \subseteq Written
    BY <2>1 DEF RecordsIn, Written
  <2>3. PICK x \in Written : Counts(x)
    BY <1>2, <2>1 DEF HasDroppedDelta, Envelopes, OfKind, RecordsOf, RecordsIn,
       SegmentsOf, Written, Counts
  <2>4. PICK e \in published : Unrecorded(e)
    BY <1>2, <2>3 DEF Caused, CountsHaveLosses
  <2>5. QED
    BY <2>2, <2>4 DEF Unrecorded, Holds, OfKind
<1>3. ASSUME IInv, Caused, NEW r \in Runs, DeclaredDrops(held, r) # {}
      PROVE  SegmentsOf(reclaimed, r) # {}
  <2>1. held \subseteq Files
    BY <1>3 DEF IInv, TypeOK, Files
  <2>2. PICK x \in Written : x.kind = "segments_dropped" /\ x.incarnation = r
    BY <1>3, <2>1 DEF DeclaredDrops, OfKind, RecordsIn, Written
  <2>3. QED
    BY <1>3, <2>2 DEF Caused, Declared
<1>4. IInv /\ Caused => EveryGapHasACause
  BY <1>1, <1>2, <1>3 DEF EveryGapHasACause
<1>5. QED
  BY <1>4, Invariant, CausedAlways, PTL

\* A sealed segment is in one place: on disk, with the reader, or dropped.
Apart == disk \cap held = {} /\ disk \cap reclaimed = {} /\ held \cap reclaimed = {}

\* A file that is sealed was nowhere before.
LEMMA SealingIsNew ==
  ASSUME IInv, Apart, NEW s, NEW added, SealedAs(s, added),
         UNCHANGED <<held, reclaimed>>
  PROVE  Apart'
<1>1. s \notin sealed /\ disk' = disk \cup {s}
  BY RealFile DEF SealedAs, IInv, Numbering, TypeOK
<1>2. held \subseteq sealed /\ reclaimed \subseteq sealed
  BY DEF IInv, TypeOK
<1>3. QED
  BY <1>1, <1>2 DEF Apart

\* No step leaves a segment in two of these places.
LEMMA ApartAlways == Spec => []Apart
<1>1. Init => Apart
  BY DEF Init, Apart
<1>2. IInv /\ Apart /\ [Next]_vars => Apart'
  <2> SUFFICES ASSUME IInv, Apart, [Next]_vars PROVE Apart'
    OBVIOUS
  <2> USE DEF vars, producer, file, delivery, history
  <2>1. CASE RecoverAttributed
    <3>1. UNCHANGED <<held, reclaimed>>
      BY <2>1 DEF RecoverAttributed
    <3>2. QED
      BY <2>1, <3>1, RecoverSeals, SealingIsNew
  <2>2. CASE Seal
    <3>1. UNCHANGED <<held, reclaimed>>
      BY <2>2 DEF Seal
    <3>2. QED
      BY <2>2, <3>1, SealSeals, SealingIsNew
  <2>3. CASE Stop
    <3>1. UNCHANGED <<held, reclaimed>>
      BY <2>3 DEF Stop
    <3>2. QED
      BY <2>3, <3>1, StopSeals, SealingIsNew
  <2>4. CASE Reclaim
    BY <2>4 DEF Reclaim, Apart, Excess
  <2>5. CASE Deliver
    BY <2>5 DEF Deliver, Ship, Spoil, Apart
  <2>6. ASSUME UNCHANGED <<disk, held, reclaimed>> PROVE Apart'
    BY <2>6 DEF Apart
  <2>7. CASE Start \/ RecoverUnattributed \/ OpenSegment \/ SyncHeader \/ Record
             \/ Drop \/ Miss \/ Beat \/ Crash \/ Tick \/ UNCHANGED vars
    BY <2>6, <2>7 DEF Start, RecoverUnattributed, OpenSegment, SyncHeader, Record,
       Drop, Miss, Beat, Crash, Tick
  <2>8. QED
    BY <2>1, <2>2, <2>3, <2>4, <2>5, <2>7 DEF Next, Produce
<1>3. QED
  BY <1>1, <1>2, Invariant, PTL DEF Spec

\* Once a reader states an exact register nothing that arrives takes it back: it
\* holds the whole run by then, and the ring dropped nothing of it.
THEOREM ExactIsFinal == Spec => ExactIsNeverRetracted
<1> DEFINE Keeps == \A from, to \in 0..now :
                      AbsenceRegister(held, from, to) = "exact" =>
                        AbsenceRegister(held', from, to) = "exact"
<1>1. ASSUME IInv, Caused, Apart, NEW s \in disk, held' = held \cup {s},
             NEW r, CountedBracket(held, r)
      PROVE  /\ CountedBracket(held', r) /\ Opens(held', r) = Opens(held, r)
             /\ Closes(held', r) = Closes(held, r)
  <2>1. disk \subseteq sealed /\ held \subseteq sealed /\ reclaimed \subseteq sealed
    BY <1>1 DEF IInv, TypeOK
  <2>2. s.incarnation # r
    BY <1>1, <2>1, HoldsWholeRun DEF Apart
  <2>3. SegmentsOf(held', r) = SegmentsOf(held, r)
    BY <1>1, <2>2 DEF SegmentsOf
  <2>4. RecordsOf(held', r) = RecordsOf(held, r) /\ SeqsOf(held', r) = SeqsOf(held, r)
    BY <2>3 DEF RecordsOf, SeqsOf
  <2>5. /\ StartTimes(held', r) = StartTimes(held, r)
        /\ StopTimes(held', r) = StopTimes(held, r)
        /\ ObservedTimes(held', r) = ObservedTimes(held, r)
        /\ HasHole(held', r) = HasHole(held, r)
        /\ HasDroppedDelta(held', r) = HasDroppedDelta(held, r)
    BY <2>4 DEF StartTimes, StopTimes, ObservedTimes, Observations, HasHole, HasDroppedDelta
  <2>6. DeclaredDrops(held', r) = {}
    <3> SUFFICES ASSUME NEW x \in DeclaredDrops(held', r) PROVE FALSE
      OBVIOUS
    <3>1. x \in Written /\ x.kind = "segments_dropped" /\ x.incarnation = r
      BY <1>1, <2>1 DEF DeclaredDrops, OfKind, RecordsIn, Written, Files
    <3>2. PICK t \in reclaimed : t.incarnation = r
      BY <1>1, <3>1 DEF Caused, Declared, SegmentsOf
    <3>3. t \in held
      BY <1>1, <2>1, <3>2, HoldsWholeRun
    <3>4. QED
      BY <1>1, <3>2, <3>3 DEF Apart
  <2>7. RunGaps(held', r) = {}
    BY <1>1, <2>5, <2>6 DEF CountedBracket, RunGaps
  <2>8. CountedBracket(held', r)
    BY <1>1, <2>5, <2>7 DEF CountedBracket
  <2>9. QED
    BY <2>5, <2>8 DEF Opens, Closes
<1>2. ASSUME IInv, Caused, Apart, NEW s \in disk, held' = held \cup {s}
      PROVE  Keeps
  <2> SUFFICES ASSUME NEW from \in 0..now, NEW to \in 0..now, Counted(held, from, to)
               PROVE  Counted(held', from, to)
    BY DEF AbsenceRegister
  <2>1. PICK r \in Incarnations(held) :
          CountedBracket(held, r) /\ Opens(held, r) <= from /\ to <= Closes(held, r)
    BY DEF Counted
  <2>2. r \in Incarnations(held')
    BY <1>2 DEF Incarnations
  <2>3. QED
    BY <1>1, <1>2, <2>1, <2>2 DEF Counted
<1>3. held' = held => Keeps
  OBVIOUS
<1>4. ASSUME IInv, Caused, Apart, [Next]_vars PROVE [Keeps]_vars
  <2>1. held' = held \/ \E s \in disk : held' = held \cup {s}
    BY <1>4 DEF Next, Produce, Deliver, Start, RecoverAttributed, RecoverUnattributed,
       OpenSegment, SyncHeader, Record, Drop, Miss, Beat, Seal, Stop, Crash, Reclaim,
       Ship, Spoil, Tick, vars, producer, file, delivery, history
  <2>2. QED
    BY <1>2, <1>3, <1>4, <2>1
<1>5. QED
  BY <1>4, Invariant, CausedAlways, ApartAlways, PTL DEF Spec, ExactIsNeverRetracted

-----------------------------------------------------------------------------
(***************************************************************************)
(* When the runs were observing.  Runs follow one another, and a record by *)
(* which a run proves that it observes is written between its start and    *)
(* its end: the trailer that a later run appends is not one.               *)
(***************************************************************************)
Observing ==
  \A s \in Files : \A x \in Range(s.records) :
    x.kind \in LifecycleKinds =>
      /\ began[s.incarnation] # -1
      /\ x.at_ms \in began[s.incarnation]..now
      /\ ended[s.incarnation] # -1 => x.at_ms <= ended[s.incarnation]

Successive ==
  /\ \A r \in Runs : began[r] # -1 /\ ended[r] # -1 => began[r] <= ended[r]
  /\ \A p, q \in Runs : p < q =>
       /\ began[q] # -1 => ended[p] <= began[q]
       /\ ended[q] # -1 => ended[p] <= ended[q]
  /\ phase = "running" /\ (durable \/ active = NoFile \/ active.segment_seq # 0) =>
       began[run] # -1

Timed == Observing /\ Successive

\* A set of naturals has a least member.
LEMMA LeastMember ==
  ASSUME NEW S \in SUBSET Nat, S # {}
  PROVE  Min(S) \in S /\ \A y \in S : Min(S) <= y
<1>1. PICK x \in S : \A y \in S : x <= y
  <2>1. PICK x \in S : \A y \in S : <<y, x>> \notin OpToRel(<, Nat)
    BY WFMin, NatLessThanWellFounded, Zenon
  <2>2. ASSUME NEW y \in S PROVE ~(y < x)
    <3>1. y \in Nat /\ x \in Nat
      OBVIOUS
    <3>2. QED
      BY <2>1, <3>1, Zenon DEF OpToRel
  <2>3. QED
    BY <2>2
<1>2. Min(S) \in S /\ \A y \in S : Min(S) <= y
  BY <1>1, Zenon DEF Min
<1>3. QED
  BY <1>2

\* A bounded set of naturals has a greatest member.
LEMMA GreatestMember ==
  ASSUME NEW b \in Nat, NEW S \in SUBSET (0..b), S # {}
  PROVE  Max(S) \in S /\ \A y \in S : y <= Max(S)
<1> DEFINE T == {b - y : y \in S}
<1>1. T \in SUBSET Nat /\ T # {}
  <2>1. \A y \in S : b - y \in Nat
    OBVIOUS
  <2>2. QED
    BY <2>1
<1> HIDE DEF T
<1>2. Min(T) \in T /\ \A z \in T : Min(T) <= z
  BY <1>1, LeastMember
<1>3. PICK x \in S : Min(T) = b - x
  BY <1>2 DEF T
<1>4. \A y \in S : b - x <= b - y
  BY <1>2, <1>3 DEF T
<1>5. \A y \in S : x >= y
  BY <1>4
<1>6. Max(S) \in S /\ \A y \in S : Max(S) >= y
  BY <1>5, Zenon DEF Max
<1>7. QED
  BY <1>6

\* Every record of the files after the step was in a file of the same run
\* before it, or is one of these, in the active file's run.
Carried(added) ==
  \A s \in Files' : \A x \in Range(s.records) :
    \/ \E t \in Files : t.incarnation = s.incarnation /\ x \in Range(t.records)
    \/ x \in added /\ s.incarnation = active.incarnation

\* Sealing carries records along, and appends these.
LEMMA SealingCarries ==
  ASSUME NEW s, NEW added, SealedAs(s, added)
  PROVE  Carried(added)
  BY EmptyFile DEF SealedAs, Carried, Files

\* Writing carries records along, and appends these.
LEMMA WritingCarries ==
  ASSUME NEW added, Wrote(added), sealed' = sealed
  PROVE  Carried(added)
  BY DEF Wrote, Carried, Files

\* A record of a file belongs to a run.
LEMMA RecordsHaveRuns ==
  ASSUME IInv, NEW t \in Files, NEW x \in Range(t.records)
  PROVE  t.incarnation \in Runs
<1>1. CASE t \in sealed
  BY <1>1 DEF IInv, TypeOK, IsSegment
<1>2. CASE t = active
  BY <1>2, EmptyFile DEF IInv, TypeOK, IsSegment
<1>3. QED
  BY <1>1, <1>2 DEF Files

\* Observations stay within their run if a start is marked only where nothing
\* is written yet, an end now, and what is written now is stamped now.
LEMMA ObservingKept ==
  ASSUME IInv, Observing, NEW added, Carried(added), now' = now,
         \A r \in Runs : \/ began'[r] = began[r]
                         \/ \A t \in Files : t.incarnation = r => Range(t.records) = {},
         \A r \in Runs : ended'[r] = ended[r] \/ ended'[r] = now,
         \A x \in added : x.kind \in LifecycleKinds =>
           /\ began'[active.incarnation] # -1
           /\ began'[active.incarnation] <= now
           /\ x.at_ms = now
           /\ ended'[active.incarnation] \in {-1, now}
  PROVE  Observing'
<1> SUFFICES ASSUME NEW s \in Files', NEW x \in Range(s.records), x.kind \in LifecycleKinds
             PROVE  /\ began'[s.incarnation] # -1
                    /\ x.at_ms \in began'[s.incarnation]..now
                    /\ ended'[s.incarnation] # -1 => x.at_ms <= ended'[s.incarnation]
  BY DEF Observing
<1>1. now \in Nat
  BY DEF IInv, TypeOK
<1>2. ASSUME NEW t \in Files, t.incarnation = s.incarnation, x \in Range(t.records)
      PROVE  /\ began'[s.incarnation] # -1
             /\ x.at_ms \in began'[s.incarnation]..now
             /\ ended'[s.incarnation] # -1 => x.at_ms <= ended'[s.incarnation]
  <2>1. s.incarnation \in Runs
    BY <1>2, RecordsHaveRuns
  <2>2. began'[s.incarnation] = began[s.incarnation]
    BY <1>2, <2>1
  <2>3. ended'[s.incarnation] = ended[s.incarnation] \/ ended'[s.incarnation] = now
    BY <2>1
  <2>4. QED
    BY <1>2, <2>2, <2>3 DEF Observing
<1>3. ASSUME x \in added, s.incarnation = active.incarnation
      PROVE  /\ began'[s.incarnation] # -1
             /\ x.at_ms \in began'[s.incarnation]..now
             /\ ended'[s.incarnation] # -1 => x.at_ms <= ended'[s.incarnation]
  BY <1>1, <1>3
<1>4. QED
  BY <1>2, <1>3 DEF Carried

\* No step writes an observation outside its run or lets two runs overlap.
LEMMA TimedStep == IInv /\ Timed /\ [Next]_vars => Timed'
<1> SUFFICES ASSUME IInv, Timed, [Next]_vars PROVE Timed'
  OBVIOUS
<1> USE DEF vars, producer, file, delivery, history
<1>a. /\ now \in Nat /\ Observing
      /\ began \in [Runs -> -1..now] /\ ended \in [Runs -> -1..now]
      /\ \A r \in Runs : began[r] \in Int /\ began[r] <= now /\ ended[r] \in Int /\ ended[r] <= now
      /\ phase # "down" => run \in Runs
      /\ \A r \in Runs : r \in Nat
  <2>1. /\ now \in Nat /\ Observing
        /\ began \in [Runs -> -1..now] /\ ended \in [Runs -> -1..now]
        /\ phase # "down" => run \in Runs
    BY DEF IInv, TypeOK, Timed, Lifecycle
  <2>2. \A r \in Runs : r \in Nat
    BY DeliveryAssumption DEF Runs
  <2>3. QED
    BY <2>1, <2>2
\* Nothing is marked.
<1>k. ASSUME UNCHANGED <<began, ended, now>>, NEW added, Carried(added),
             \A x \in added : x.kind \in LifecycleKinds =>
               /\ active.incarnation = run /\ run \in Runs
               /\ began[run] # -1 /\ x.at_ms = now /\ ended[run] = -1
      PROVE  Observing'
  BY <1>a, <1>k, ObservingKept
<1>o. ASSUME UNCHANGED <<began, ended, now, sealed>>,
             active' = active \/ Range(active'.records) = {}
      PROVE  Observing'
  <2>1. Carried({})
    BY <1>o DEF Carried, Files
  <2>2. QED
    BY <1>k, <1>o, <2>1
\* A later phase of the same run.
<1>n. ASSUME UNCHANGED <<began, ended, run>>,
             phase' = "running" /\ (durable' \/ active' = NoFile \/ active'.segment_seq # 0)
               => phase = "running" /\ (durable \/ active = NoFile \/ active.segment_seq # 0)
      PROVE  Successive'
  BY <1>n DEF Timed, Successive
<1>w. ASSUME Writing PROVE /\ began[run] # -1 /\ run \in Runs /\ ended[run] = -1
                           /\ active.incarnation = run /\ active # NoFile
  BY <1>w DEF Writing, Timed, Successive, IInv, Lifecycle, Sequential
<1>1. CASE Start
  <2>1. phase' # "running" /\ UNCHANGED <<began, ended, now, sealed, active>>
    BY <1>1 DEF Start
  <2>2. QED
    BY <2>1, <1>o DEF Timed, Successive
<1>2. CASE RecoverAttributed
  <2> DEFINE x == SegmentRecovered(TRUE, now)
  <2>1. PICK s : SealedAs(s, {x})
    BY <1>2, RecoverSeals
  <2>2. x.kind \notin LifecycleKinds
    BY DEF SegmentRecovered, LifecycleKinds
  <2>3. UNCHANGED <<began, ended, now, run, phase>> /\ phase # "running"
    BY <1>2 DEF RecoverAttributed
  <2> HIDE DEF x
  <2>4. QED
    BY <2>1, <2>2, <2>3, <1>k, <1>n, SealingCarries DEF Timed
<1>3. CASE RecoverUnattributed
  <2>1. Range(active'.records) = {}
    BY <1>3, EmptyFile DEF RecoverUnattributed
  <2>2. UNCHANGED <<began, ended, now, sealed, run, phase>> /\ phase # "running"
    BY <1>3 DEF RecoverUnattributed
  <2>3. QED
    BY <2>1, <2>2, <1>o, <1>n DEF Timed
<1>4. CASE OpenSegment
  <2>1. /\ Range(active'.records) = {} /\ active'.segment_seq = nextSeq
        /\ active = NoFile /\ phase' = "running"
        /\ UNCHANGED <<began, ended, now, sealed, run, durable>>
        /\ phase = "recovering" \/ phase = "running"
    BY <1>4, EmptyFile DEF OpenSegment, NewSegment
  <2>2. active' # NoFile
    <3>1. active'.incarnation = run /\ run # 0
      BY <1>4, <1>a, DeliveryAssumption DEF OpenSegment, NewSegment, Runs
    <3>2. QED
      BY <3>1 DEF NoFile, NewSegment
  <2>3. ~durable
    BY <2>1 DEF IInv, Sequential
  <2>4. phase = "recovering" => active'.segment_seq = 0
    BY <2>1 DEF IInv, Lifecycle
  <2>5. QED
    BY <2>1, <2>2, <2>3, <2>4, <1>o, <1>n DEF Timed
<1>5. CASE SyncHeader
  <2>1. CASE active.segment_seq = 0
    <3>1. Wrote(Range(discard) \cup {AgentStart(now)})
      BY <1>5, <2>1, SyncWrites
    <3>2. /\ active.incarnation = run /\ run \in Runs /\ ended[run] = -1
          /\ began' = [began EXCEPT ![run] = now]
          /\ UNCHANGED <<sealed, ended, now, run, phase>>
          /\ active.records = <<>>
      BY <1>5, <2>1 DEF SyncHeader, IInv, Lifecycle, Sequential
    <3>3. \A x \in Range(discard) : x.kind \notin LifecycleKinds
      BY DEF IInv, Sequential, LifecycleKinds
    <3>4. AgentStart(now).at_ms = now
      BY DEF AgentStart
    <3>5. \A r \in Runs : r # run => began'[r] = began[r]
      BY <3>2, <1>a
    <3>6. began'[run] = now
      BY <3>2, <1>a
    <3>7. \A t \in Files : t.incarnation = run => Range(t.records) = {}
      <4>1. \A t \in sealed : t.incarnation # run
        BY <2>1, <3>2, RealFile DEF IInv, Numbering, TypeOK
      <4>2. QED
        BY <3>2, <4>1, EmptyFile DEF Files
    <3>8. Observing'
      <4>1. Carried(Range(discard) \cup {AgentStart(now)})
        BY <3>1, <3>2, WritingCarries
      <4>2. \A r \in Runs : \/ began'[r] = began[r]
                            \/ \A t \in Files : t.incarnation = r => Range(t.records) = {}
        BY <3>5, <3>7
      <4>3. \A x \in Range(discard) \cup {AgentStart(now)} : x.kind \in LifecycleKinds =>
              /\ began'[active.incarnation] # -1 /\ began'[active.incarnation] <= now
              /\ x.at_ms = now /\ ended'[active.incarnation] \in {-1, now}
        BY <3>2, <3>3, <3>4, <3>6, <1>a
      <4>4. QED
        BY <1>a, <3>2, <4>1, <4>2, <4>3, ObservingKept
    <3>9. Successive'
      <4>1. \A r \in Runs : run < r => began[r] = -1
        BY DEF IInv, Lifecycle
      <4>2. QED
        BY <3>2, <3>5, <3>6, <4>1, <1>a DEF Timed, Successive
    <3>10. QED
      BY <3>8, <3>9 DEF Timed
  <2>2. CASE active.segment_seq # 0
    <3>1. /\ UNCHANGED <<active, sealed, began, ended, now, run, phase>>
          /\ active.segment_seq # 0
      BY <1>5, <2>2 DEF SyncHeader
    <3>2. QED
      BY <3>1, <1>o, <1>n DEF Timed
  <2>3. QED
    BY <2>1, <2>2
<1>6. CASE Record
  <2> DEFINE x == Store(Instance, 0, Cardinality(published), now)
  <2>1. Wrote({x}) /\ x.kind = "store"
    BY <1>6, RecordWrites DEF Store, CacheRecord
  <2>2. UNCHANGED <<sealed, began, ended, now, run, phase, durable>> /\ durable
    BY <1>6 DEF Record, Writing
  <2> HIDE DEF x
  <2>3. \A y \in {x} : y.kind \notin LifecycleKinds
    BY <2>1 DEF LifecycleKinds
  <2>4. QED
    BY <2>1, <2>2, <2>3, <1>k, <1>n, WritingCarries DEF Timed
<1>7. CASE Drop
  BY <1>7, <1>o, <1>n DEF Drop, Timed
<1>8. CASE Miss
  BY <1>8, <1>o, <1>n DEF Miss, Timed
<1>9. CASE Beat
  <2> DEFINE x == Heartbeat(now, dropped, {Instance})
  <2>1. Wrote({x}) /\ x.at_ms = now
    BY <1>9, BeatWrites DEF Heartbeat, Envelope
  <2>2. UNCHANGED <<sealed, began, ended, now, run, phase, durable>> /\ durable
    BY <1>9 DEF Beat, Writing
  <2>3. Writing
    BY <1>9 DEF Beat
  <2> HIDE DEF x
  <2>4. QED
    BY <2>1, <2>2, <2>3, <1>w, <1>k, <1>n, WritingCarries DEF Timed, Writing
<1>10. CASE Seal
  <2>1. PICK s : SealedAs(s, {})
    BY <1>10, SealSeals
  <2>2. UNCHANGED <<began, ended, now, run, phase>> /\ Writing
    BY <1>10 DEF Seal
  <2>3. QED
    BY <2>1, <2>2, <1>k, <1>n, SealingCarries DEF Timed, Writing
<1>11. CASE Stop
  <2> DEFINE x == Envelope("agent_stop", now, dropped, {Instance})
  <2>1. PICK s : SealedAs(s, {x})
    BY <1>11, StopSeals
  <2>2. x.at_ms = now
    BY DEF Envelope
  <2>3. /\ ended' = [ended EXCEPT ![run] = now] /\ Writing /\ phase' = "down"
        /\ UNCHANGED <<began, now, run>>
    BY <1>11 DEF Stop
  <2> HIDE DEF x
  <2>4. \A r \in Runs : ended'[r] = ended[r] \/ ended'[r] = now
    BY <2>3, <1>a
  <2>5. ended'[run] = now
    BY <2>3, <1>a, <1>w
  <2>6. Observing'
    BY <2>1, <2>2, <2>3, <2>4, <2>5, <1>a, <1>w, SealingCarries, ObservingKept
  <2>7. Successive'
    BY <2>3, <2>5, <1>a, <1>w DEF Timed, Successive, IInv, Lifecycle
  <2>8. QED
    BY <2>6, <2>7 DEF Timed
<1>12. CASE Crash
  <2>1. /\ ended' = [ended EXCEPT ![run] = now] /\ run \in Runs /\ phase' = "down"
        /\ UNCHANGED <<began, now, run, sealed, active>>
    BY <1>12, <1>a DEF Crash
  <2>2. \A r \in Runs : ended'[r] = ended[r] \/ ended'[r] = now
    BY <2>1, <1>a
  <2>3. ended'[run] = now
    BY <2>1, <1>a
  <2>4. Carried({})
    BY <2>1 DEF Carried, Files
  <2>5. Observing'
    BY <2>1, <2>2, <2>4, <1>a, ObservingKept
  <2>6. Successive'
    BY <2>1, <2>3, <1>a DEF Timed, Successive, IInv, Lifecycle
  <2>7. QED
    BY <2>5, <2>6 DEF Timed
<1>13. CASE Reclaim
  <2>1. Wrote(DropRecords(Excess)) /\ Writing
    BY <1>13, ReclaimWrites DEF Reclaim
  <2>2. UNCHANGED <<sealed, began, ended, now, run, phase, durable>>
    BY <1>13 DEF Reclaim
  <2>3. \A x \in DropRecords(Excess) : x.at_ms = now
    BY DEF DropRecords, SegmentsDropped
  <2>4. QED
    BY <2>1, <2>2, <2>3, <1>w, <1>k, <1>n, WritingCarries DEF Timed, Writing
<1>14. CASE \E s \in disk : Ship(s)
  BY <1>14, <1>o, <1>n DEF Ship, Timed
<1>15. CASE \E s \in disk : Spoil(s)
  BY <1>15, <1>o, <1>n DEF Spoil, Timed
<1>16. CASE Tick
  <2>1. /\ now' = now + 1
        /\ UNCHANGED <<sealed, active, began, ended, run, phase, durable>>
    BY <1>16 DEF Tick
  <2>2. Successive'
    BY <2>1 DEF Timed, Successive
  <2>3. ASSUME NEW s \in Files, NEW x \in Range(s.records), x.kind \in LifecycleKinds
        PROVE  x.at_ms <= now'
    <3>1. x.at_ms \in Int /\ x.at_ms <= now
      BY <1>a, <2>3 DEF Observing
    <3>2. QED
      BY <3>1, <2>1, <1>a
  <2>4. Observing'
    BY <2>1, <2>3, <1>a DEF Observing, Files
  <2>5. QED
    BY <2>2, <2>4 DEF Timed
<1>17. CASE UNCHANGED vars
  BY <1>17, <1>o, <1>n DEF Timed
<1>18. QED
  BY <1>1, <1>2, <1>3, <1>4, <1>5, <1>6, <1>7, <1>8, <1>9, <1>10, <1>11, <1>12, <1>13, <1>14, <1>15, <1>16, <1>17 DEF Next, Produce, Deliver

\* So observations keep within their runs, always.
LEMMA TimedAlways == Spec => []Timed
<1>1. Init => Timed
  <2> SUFFICES ASSUME Init PROVE Timed
    OBVIOUS
  <2>1. /\ Files = {NoFile} /\ phase = "down"
        /\ \A r \in Runs : began[r] = -1 /\ ended[r] = -1
    BY DEF Init, Files
  <2>2. QED
    BY <2>1, EmptyFile DEF Timed, Observing, Successive
<1>2. QED
  BY <1>1, Invariant, TimedStep, PTL DEF Spec

\* What a reader takes for the span of a run lies between its start and its
\* end, whichever of the run's segments it holds.
LEMMA SpanIsInside ==
  ASSUME IInv, Timed, NEW r \in RunsCovering(held, Instance)
  PROVE  /\ r \in Runs /\ began[r] # -1
         /\ Opens(held, r) \in Nat /\ Closes(held, r) \in Nat
         /\ began[r] <= Opens(held, r) /\ Opens(held, r) <= Closes(held, r)
         /\ ended[r] # -1 => Closes(held, r) <= ended[r]
         /\ \A t \in ObservedTimes(held, r) :
              t \in Nat /\ Opens(held, r) <= t /\ t <= Closes(held, r)
<1> DEFINE T == ObservedTimes(held, r)
<1>1. /\ now \in Nat /\ held \subseteq Files
      /\ \A i \in Runs : began[i] \in -1..now /\ ended[i] \in -1..now
  BY DEF IInv, TypeOK, Files
<1>2. r \in Runs
  BY DEF RunsCovering, Incarnations, IInv, TypeOK, IsSegment
<1>3. ASSUME NEW x \in Observations(held, r)
      PROVE  /\ began[r] # -1 /\ x.at_ms \in began[r]..now
             /\ ended[r] # -1 => x.at_ms <= ended[r]
             /\ x.kind = "agent_start" => x.at_ms = began[r]
  <2>1. x \in RecordsOf(held, r) /\ x.kind \in LifecycleKinds
    BY DEF Observations
  <2>2. PICK s \in SegmentsOf(held, r) : x \in Range(s.records)
    BY <2>1 DEF RecordsOf, RecordsIn
  <2>3. s \in Files /\ s.incarnation = r
    BY <2>2, <1>1 DEF SegmentsOf
  <2>4. x.kind = "agent_start" => x.at_ms = began[r]
    BY <2>2, <2>3 DEF IInv, Bracketed
  <2>5. QED
    BY <2>1, <2>2, <2>3, <2>4 DEF Timed, Observing
<1>4. PICK x0 \in Observations(held, r) : TRUE
  <2>1. PICK x \in Envelopes(RecordsOf(held, r)) : TRUE
    BY DEF RunsCovering, InstancesOf
  <2>2. QED
    BY <2>1 DEF Envelopes, OfKind, Observations, LifecycleKinds
<1>5. began[r] # -1 /\ began[r] \in Nat /\ ended[r] \in Int
  BY <1>1, <1>2, <1>3, <1>4
<1>6. T \in SUBSET Nat /\ T \in SUBSET (0..now) /\ T # {}
  <2>1. \A t \in T : t \in 0..now
    BY <1>1, <1>3, <1>5 DEF ObservedTimes
  <2>2. T # {}
    BY <1>4 DEF ObservedTimes
  <2>3. QED
    BY <1>1, <2>1, <2>2
<1>7. \A t \in T : began[r] <= t /\ (ended[r] # -1 => t <= ended[r])
  BY <1>3, <1>5 DEF ObservedTimes
<1>8. StartTimes(held, r) \subseteq T \cap {began[r]} /\ StopTimes(held, r) \subseteq T
  BY <1>3 DEF StartTimes, StopTimes, OfKind, ObservedTimes, Observations, LifecycleKinds
<1> HIDE DEF T
<1>9. Opens(held, r) \in T /\ \A t \in T : Opens(held, r) <= t
  <2>1. CASE StartTimes(held, r) = {}
    <3>1. Opens(held, r) = Min(T)
      BY <2>1 DEF Opens, T
    <3>2. QED
      BY <3>1, <1>6, LeastMember
  <2>2. CASE StartTimes(held, r) # {}
    <3>1. StartTimes(held, r) = {began[r]} /\ began[r] \in T
      BY <2>2, <1>8
    <3>2. Opens(held, r) = began[r]
      BY <2>2, <3>1, <1>5, MinMaxSingle DEF Opens
    <3>3. QED
      BY <3>1, <3>2, <1>7
  <2>3. QED
    BY <2>1, <2>2
<1>10. Closes(held, r) \in T /\ \A t \in T : t <= Closes(held, r)
  <2>1. CASE StopTimes(held, r) = {}
    <3>1. Closes(held, r) = Max(T)
      BY <2>1 DEF Closes, T
    <3>2. QED
      BY <3>1, <1>1, <1>6, GreatestMember
  <2>2. CASE StopTimes(held, r) # {}
    <3>1. StopTimes(held, r) \in SUBSET (0..now)
      BY <1>6, <1>8
    <3>2. Max(StopTimes(held, r)) \in StopTimes(held, r)
      BY <1>1, <2>2, <3>1, GreatestMember
    <3>3. Closes(held, r) = Max(StopTimes(held, r))
      BY <2>2 DEF Closes
    <3>4. \A t \in StopTimes(held, r) : t = ended[r]
      <4>1. held \subseteq sealed
        BY DEF IInv, TypeOK
      <4>2. QED
        BY <4>1 DEF StopTimes, OfKind, RecordsOf, RecordsIn, SegmentsOf, IInv, Bracketed
    <3>5. Closes(held, r) = ended[r] /\ Closes(held, r) \in T
      BY <3>2, <3>3, <3>4, <1>8
    <3>6. QED
      BY <3>5, <1>6, <1>7
  <2>3. QED
    BY <2>1, <2>2
<1>11. \A t \in ObservedTimes(held, r) :
         t \in Nat /\ Opens(held, r) <= t /\ t <= Closes(held, r)
  BY <1>6, <1>9, <1>10 DEF T
<1>12. QED
  BY <1>2, <1>5, <1>6, <1>7, <1>9, <1>10, <1>11

\* Time at which no run was observing is inside an uncovered window, as soon as
\* the reader knows a run before it and a run after it.
THEOREM DownTimeIsSeen == Spec => []DownTimeIsUncovered
<1>2. ASSUME IInv, Timed,
             NEW p \in RunsCovering(held, Instance),
             NEW q \in RunsCovering(held, Instance),
             NEW r \in p..(q - 1), ended[r] < began[r + 1]
      PROVE  \E w \in Uncovered(held, Instance) :
               w[1] <= ended[r] /\ began[r + 1] <= w[2]
  <2> DEFINE R == RunsCovering(held, Instance)
             P == {x \in R : x <= r}
             Q == {x \in R : x > r}
             a == Max(P)
             b == Min(Q)
  <2>1. ASSUME NEW x \in R
        PROVE  /\ x \in Runs /\ x \in 0..MaxRuns /\ x \in Nat /\ began[x] # -1 /\ x <= run
               /\ Opens(held, x) \in Nat /\ Closes(held, x) \in Nat
               /\ began[x] <= Opens(held, x) /\ Opens(held, x) <= Closes(held, x)
               /\ ended[x] # -1 => Closes(held, x) <= ended[x]
    <3>1. x \in Runs /\ began[x] # -1
      BY <1>2, SpanIsInside
    <3>2. x \in 0..MaxRuns /\ x \in Nat /\ run \in Nat
      BY <1>2, <3>1, DeliveryAssumption DEF Runs, IInv, TypeOK
    <3>3. x <= run
      BY <1>2, <3>1, <3>2 DEF IInv, Lifecycle
    <3>4. QED
      BY <1>2, <3>1, <3>2, <3>3, SpanIsInside
  <2>2. p \in Runs /\ q \in Runs /\ p \in Nat /\ q \in Nat /\ r \in Int /\ p <= r /\ r < q
    BY <2>1
  <2>3. /\ P \in SUBSET (0..MaxRuns) /\ p \in P
        /\ Q \in SUBSET Nat /\ q \in Q
    BY <2>1, <2>2
  <2>4. a \in P /\ \A x \in P : x <= a
    BY <2>3, DeliveryAssumption, GreatestMember
  <2>5. b \in Q /\ \A x \in Q : b <= x
    BY <2>3, LeastMember
  <2>6. a \in R /\ b \in R /\ a <= r /\ r < b
    BY <2>4, <2>5
  <2>7. \A x \in R : (x <= r => x <= a) /\ (r < x => b <= x)
    BY <2>1, <2>2, <2>4, <2>5
  <2> HIDE DEF R, P, Q, a, b
  <2>8. /\ \A i \in Runs : i \in Nat /\ began[i] \in Int /\ ended[i] \in Int
        /\ \A i \in Runs : i < run => ended[i] # -1
        /\ \A i \in Runs : -1 <= began[i] /\ -1 <= ended[i]
    <3>1. \A i \in Runs : i \in Nat
      BY DeliveryAssumption DEF Runs
    <3>2. /\ now \in Nat
          /\ \A i \in Runs : began[i] \in -1..now /\ ended[i] \in -1..now
      BY <1>2 DEF IInv, TypeOK
    <3>3. \A i \in Runs : i < run => ended[i] # -1
      BY <1>2 DEF IInv, Lifecycle
    <3>4. QED
      BY <3>1, <3>2, <3>3
  <2>9. /\ \A i \in Runs : began[i] # -1 /\ ended[i] # -1 => began[i] <= ended[i]
        /\ \A i, j \in Runs : i < j =>
             /\ began[j] # -1 => ended[i] <= began[j]
             /\ ended[j] # -1 => ended[i] <= ended[j]
    BY <1>2 DEF Timed, Successive
  <2>10. r \in Runs /\ r + 1 \in Runs
    BY <2>2, DeliveryAssumption DEF Runs
  <2>11. /\ a \in Runs /\ b \in Runs /\ a \in Nat /\ b \in Nat /\ r \in Nat
         /\ began[a] # -1 /\ began[b] # -1 /\ b <= run /\ run \in Nat
    BY <1>2, <2>1, <2>6, <2>8, <2>10 DEF IInv, TypeOK
  <2>12. Closes(held, a) \in Nat /\ Closes(held, a) <= ended[r]
    <3>1. ended[a] # -1 /\ ended[r] # -1
      BY <2>6, <2>8, <2>10, <2>11
    <3>2. Closes(held, a) \in Nat /\ Closes(held, a) <= ended[a]
      BY <2>1, <2>6, <3>1
    <3>3. ended[a] <= ended[r]
      BY <2>6, <2>8, <2>9, <2>10, <2>11, <3>1
    <3>4. QED
      BY <2>8, <2>10, <2>11, <3>2, <3>3
  <2>13. Opens(held, b) \in Nat /\ began[r + 1] <= Opens(held, b)
    <3>1. began[b] <= Opens(held, b) /\ Opens(held, b) \in Nat
      BY <2>1, <2>6
    <3>2. CASE b = r + 1
      BY <3>1, <3>2
    <3>3. CASE r + 1 < b
      <4>1. ended[r + 1] # -1 /\ ended[r] # -1
        BY <3>3, <2>8, <2>10, <2>11
      <4>2. began[r + 1] # -1
        BY <4>1, <1>2, <2>8, <2>10
      <4>3. began[r + 1] <= ended[r + 1] /\ ended[r + 1] <= began[b]
        BY <3>3, <4>1, <4>2, <2>9, <2>10, <2>11
      <4>4. QED
        BY <3>1, <4>3, <2>8, <2>10, <2>11
    <3>4. QED
      BY <3>2, <3>3, <2>6, <2>11
  <2>14. ASSUME NEW c \in R
         PROVE  ~(Opens(held, c) < Opens(held, b) /\ Closes(held, c) > Closes(held, a))
    <3>1. /\ c \in Runs /\ c \in Nat /\ c <= run /\ began[c] # -1
          /\ Opens(held, c) \in Nat /\ Closes(held, c) \in Nat
          /\ began[c] <= Opens(held, c)
          /\ ended[c] # -1 => Closes(held, c) <= ended[c]
      BY <2>1
    <3>2. CASE c = a \/ c = b
      BY <3>1, <3>2, <2>12, <2>13
    <3>3. CASE c < a
      <4>1. ended[c] # -1
        BY <3>1, <3>3, <2>6, <2>8, <2>11
      <4>2. Closes(held, c) <= ended[c] /\ ended[c] <= began[a]
        BY <3>1, <3>3, <4>1, <2>9, <2>11
      <4>3. began[a] <= Opens(held, a) /\ Opens(held, a) <= Closes(held, a)
            /\ Opens(held, a) \in Nat
        BY <2>1, <2>6
      <4>4. Closes(held, c) <= Closes(held, a)
        BY <3>1, <4>2, <4>3, <2>8, <2>11, <2>12
      <4>5. QED
        BY <3>1, <4>4, <2>12
    <3>4. CASE b < c
      <4>1. ended[b] # -1
        BY <3>1, <3>4, <2>8, <2>11
      <4>2. ended[b] <= began[c]
        BY <3>1, <3>4, <2>9, <2>11
      <4>3. Opens(held, b) <= Closes(held, b) /\ Closes(held, b) <= ended[b]
            /\ Closes(held, b) \in Nat
        BY <2>1, <2>6, <4>1
      <4>4. Opens(held, b) <= Opens(held, c)
        BY <3>1, <4>2, <4>3, <2>8, <2>11, <2>13
      <4>5. QED
        BY <3>1, <4>4, <2>13
    <3>5. QED
      BY <3>1, <3>2, <3>3, <3>4, <2>7, <2>11
  <2>15. Closes(held, a) < Opens(held, b)
    BY <1>2, <2>8, <2>10, <2>12, <2>13
  <2> DEFINE w == <<Closes(held, a), Opens(held, b)>>
  <2>16. w \in Uncovered(held, Instance)
    BY <2>6, <2>14, <2>15 DEF Uncovered, R
  <2>17. QED
    BY <2>12, <2>13, <2>16
<1>3. IInv /\ Timed => DownTimeIsUncovered
  BY <1>2 DEF DownTimeIsUncovered
<1>4. QED
  BY <1>3, Invariant, TimedAlways, PTL

\* The windows of a reader are apart, and each is what it claims: no run that
\* covers the instance has an observation inside.
THEOREM WindowsAreApart ==
  Spec =>
    [](\A w \in Uncovered(held, Instance) :
         /\ \A v \in Uncovered(held, Instance) : v = w \/ v[2] <= w[1] \/ w[2] <= v[1]
         /\ \A r \in RunsCovering(held, Instance) :
              \A t \in ObservedTimes(held, r) : t <= w[1] \/ w[2] <= t)
<1> DEFINE R == RunsCovering(held, Instance)
           U == Uncovered(held, Instance)
<1>1. ASSUME IInv, Timed, NEW w \in U
      PROVE  /\ w[1] \in Nat /\ w[2] \in Nat /\ w[1] < w[2]
             /\ \E p, q \in R : w = <<Closes(held, p), Opens(held, q)>>
             /\ \A r \in R : ~(Opens(held, r) < w[2] /\ Closes(held, r) > w[1])
  <2>1. PICK p \in R, q \in R : w = <<Closes(held, p), Opens(held, q)>>
    BY DEF Uncovered
  <2>2. w[1] < w[2] /\ \A r \in R : ~(Opens(held, r) < w[2] /\ Closes(held, r) > w[1])
    BY DEF Uncovered
  <2>3. Closes(held, p) \in Nat /\ Opens(held, q) \in Nat
    BY <1>1, SpanIsInside
  <2>4. QED
    BY <2>1, <2>2, <2>3
<1>2. ASSUME IInv, Timed, NEW w \in U, NEW v \in U
      PROVE  v = w \/ v[2] <= w[1] \/ w[2] <= v[1]
  <2>1. PICK p \in R, q \in R : w = <<Closes(held, p), Opens(held, q)>>
    BY <1>2, <1>1
  <2>2. PICK c \in R, d \in R : v = <<Closes(held, c), Opens(held, d)>>
    BY <1>2, <1>1
  <2>3. \A r \in R : /\ Opens(held, r) \in Nat /\ Closes(held, r) \in Nat
                     /\ Opens(held, r) <= Closes(held, r)
    BY <1>2, SpanIsInside
  <2>4. /\ \A r \in R : ~(Opens(held, r) < w[2] /\ Closes(held, r) > w[1])
        /\ \A r \in R : ~(Opens(held, r) < v[2] /\ Closes(held, r) > v[1])
    BY <1>2, <1>1
  <2>5. ASSUME w[1] < v[2], v[1] < w[2] PROVE v[2] = w[2] /\ v[1] = w[1]
    <3>1. v[2] = Opens(held, d) /\ v[1] = Closes(held, c)
          /\ w[2] = Opens(held, q) /\ w[1] = Closes(held, p)
      BY <2>1, <2>2
    <3>2. Opens(held, d) >= w[2] /\ Opens(held, q) >= v[2]
      BY <2>3, <2>4, <2>5, <3>1
    <3>3. Closes(held, c) <= w[1] /\ Closes(held, p) <= v[1]
      BY <2>3, <2>4, <2>5, <3>1
    <3>4. QED
      BY <2>3, <3>1, <3>2, <3>3
  <2>6. w[1] \in Nat /\ w[2] \in Nat /\ v[1] \in Nat /\ v[2] \in Nat
    BY <1>2, <1>1
  <2>7. QED
    BY <2>1, <2>2, <2>5, <2>6
<1>3. ASSUME IInv, Timed, NEW w \in U, NEW r \in R, NEW t \in ObservedTimes(held, r)
      PROVE  t <= w[1] \/ w[2] <= t
  <2>1. /\ t \in Nat /\ Opens(held, r) <= t /\ t <= Closes(held, r)
        /\ Opens(held, r) \in Nat /\ Closes(held, r) \in Nat
    BY <1>3, SpanIsInside
  <2>2. /\ w[1] \in Nat /\ w[2] \in Nat
        /\ ~(Opens(held, r) < w[2] /\ Closes(held, r) > w[1])
    BY <1>3, <1>1
  <2>3. QED
    BY <2>1, <2>2
<1>4. IInv /\ Timed =>
        \A w \in U : /\ \A v \in U : v = w \/ v[2] <= w[1] \/ w[2] <= v[1]
                     /\ \A r \in R : \A t \in ObservedTimes(held, r) : t <= w[1] \/ w[2] <= t
  BY <1>2, <1>3
<1>5. QED
  BY <1>4, Invariant, TimedAlways, PTL

-----------------------------------------------------------------------------
(***************************************************************************)
(* The refinement.  Every step is a step of SegmentStore on the positions  *)
(* of the segments, or leaves it alone.                                    *)
(***************************************************************************)

\* The substituted order of age and relation of runs.
Aged == {p \in Positions \X Positions :
           \/ p[1][1] < p[2][1]
           \/ p[1][1] = p[2][1] /\ p[1][2] < p[2][2]}

Related == {p \in Positions \X Positions : p[1][1] = p[2][1]}

At1(s) == <<s.incarnation, s.segment_seq>>

\* What At says of a union, and of the order.
LEMMA AtParts ==
  ASSUME NEW S, NEW T, NEW s
  PROVE  /\ At(S \cup T) = At(S) \cup At(T)
         /\ At({s}) = {At1(s)}
         /\ At({}) = {}
  BY DEF At, At1

\* The abstract store's order of positions is the ring's order of segments.
LEMMA AgedIsOlder ==
  ASSUME TypeOK, NEW s, IsSegment(s), NEW t, IsSegment(t)
  PROVE  /\ At1(s) \in Positions
         /\ <<At1(s), At1(t)>> \in Aged <=> Older(s, t)
         /\ <<At1(s), At1(t)>> \in Related <=> s.incarnation = t.incarnation
  BY DEF At1, Aged, Related, Older, Positions, IsSegment

\* Nothing of the store is touched.
LEMMA RingStill ==
  ASSUME UNCHANGED <<sealed, held, reclaimed, spoiled>>
  PROVE  UNCHANGED Ring!store
  BY DEF Ring!store

\* The file that is sealed is the youngest, and the next of its run.
LEMMA SealingIsASeal ==
  ASSUME IInv, Retained, NEW s, NEW added, SealedAs(s, added),
         UNCHANGED <<held, reclaimed, spoiled>>
  PROVE  Ring!Next
<1>1. TypeOK /\ IsSegment(s) /\ sealed' = sealed \cup {s}
  BY DEF IInv, SealedAs
<1>2. ASSUME NEW t \in sealed PROVE <<At1(t), At1(s)>> \in Aged
  <2>1. IsSegment(t)
    BY <1>1 DEF TypeOK
  <2>2. active # NoFile
    BY <1>1, DeliveryAssumption DEF SealedAs, IsSegment, Runs, NoFile, NewSegment
  <2>3. /\ t.incarnation <= s.incarnation
        /\ t.incarnation = s.incarnation => t.segment_seq < s.segment_seq
    BY <2>2 DEF SealedAs, Retained, IInv, Numbering
  <2>4. Older(t, s)
    BY <1>1, <2>1, <2>3, DeliveryAssumption DEF Older, IsSegment, Runs
  <2> QED BY <1>1, <2>1, <2>4, AgedIsOlder
<1>3. ASSUME NEW p \in Positions, <<p, At1(s)>> \in Aged, <<p, At1(s)>> \in Related
      PROVE  p \in At(sealed)
  <2>a. p = <<p[1], p[2]>> /\ p[1] \in Runs /\ p[2] \in 0..MaxSeq
    BY DEF Positions
  <2>b. p[1] = s.incarnation
    BY <1>3 DEF Related, At1
  <2>c. p[1] < s.incarnation \/ p[2] < s.segment_seq
    BY <1>3 DEF Aged, At1
  <2>1. /\ p = <<p[1], p[2]>> /\ p[2] \in 0..MaxSeq
        /\ p[1] = s.incarnation /\ p[2] < s.segment_seq
    BY <1>1, <2>a, <2>b, <2>c, DeliveryAssumption DEF IsSegment, Runs
  <2>2. s.segment_seq \in 0..MaxSeq /\ MaxSeq \in Nat
    BY <1>1, DeliveryAssumption DEF IsSegment
  <2>3. p[2] \in 0..(active.segment_seq - 1) /\ active \in Files
    BY <2>1, <2>2 DEF SealedAs, Files
  <2>4. PICK t \in sealed : t.incarnation = p[1] /\ t.segment_seq = p[2]
    BY <2>1, <2>3 DEF SealedAs, IInv, Numbering
  <2> QED BY <2>1, <2>4 DEF At
<1>4. At(sealed') = At(sealed) \cup {At1(s)}
  BY <1>1 DEF At, At1
<1>5. \A p \in At(sealed) : <<p, At1(s)>> \in Aged
  BY <1>2 DEF At, At1
<1>6. At1(s) \in Positions
  BY <1>1, AgedIsOlder
<1>7. Ring!Seal(At1(s))
  BY <1>3, <1>4, <1>5 DEF Ring!Seal, Aged, Related
<1> QED BY <1>6, <1>7 DEF Ring!Next

\* What leaves the disk for the reader, or is spoiled on the way, is shipped.
LEMMA LeavingIsAShip ==
  ASSUME IInv, NEW s \in disk, Ship(s) \/ Spoil(s)
  PROVE  Ring!Next
<1>1. s \in sealed /\ IsSegment(s) /\ TypeOK
  BY DEF IInv, TypeOK
<1>2. At1(s) \in At(sealed) /\ At1(s) \in Positions
  BY <1>1, AgedIsOlder DEF At, At1
<1>3. At((held \cup spoiled)') = At(held \cup spoiled) \cup {At1(s)}
  <2>1. (held \cup spoiled)' = (held \cup spoiled) \cup {s}
    BY DEF Ship, Spoil, history
  <2> QED BY <2>1 DEF At, At1
<1>4. At(held') \in {At(held), At(held) \cup {At1(s)}}
  <2>1. held' = held \/ held' = held \cup {s}
    BY DEF Ship, Spoil
  <2>2. held' = held => At(held') = At(held)
    OBVIOUS
  <2>3. held' = held \cup {s} => At(held') = At(held) \cup {At1(s)}
    BY DEF At, At1
  <2> QED BY <2>1, <2>2, <2>3
<1>5. UNCHANGED <<sealed, reclaimed>>
  BY DEF Ship, Spoil, history
<1>6. Ring!Ship(At1(s))
  BY <1>2, <1>3, <1>4, <1>5 DEF Ring!Ship
<1> QED BY <1>2, <1>6 DEF Ring!Next

\* A reclaim takes whatever is on disk and older than what it takes; what is
\* older and not on disk was settled.
LEMMA ReclaimIsADrop ==
  ASSUME IInv, Retained, Conserved, Apart, Reclaim
  PROVE  Ring!Next
<1>1. /\ TypeOK /\ Excess \subseteq disk /\ disk \subseteq sealed
      /\ reclaimed \subseteq sealed /\ IsFiniteSet(disk)
      /\ \A s \in sealed : IsSegment(s)
  BY DEF IInv, TypeOK, Excess, Retained
<1>2. reclaimed' = reclaimed \cup Excess /\ UNCHANGED <<sealed, held, spoiled>>
  BY DEF Reclaim
<1>3. ASSUME NEW s \in Excess, NEW t \in sealed, <<At1(t), At1(s)>> \in Aged
      PROVE  t \in held \cup spoiled \cup reclaimed \cup Excess
  <2>1. Older(t, s)
    BY <1>1, <1>3, AgedIsOlder
  <2>2. ~Older(s, t)
    BY <1>1, <2>1, DeliveryAssumption DEF Older, IsSegment, Runs
  <2>3. t \notin disk \ Excess
    BY <1>1, <2>2, ExcessIsOlder
  <2> QED BY <2>3 DEF Conserved
<1>4. \A p \in At(Excess), q \in At(sealed) :
        <<q, p>> \in Aged => q \in Ring!Settled \cup At(Excess)
  <2> SUFFICES ASSUME NEW s \in Excess, NEW t \in sealed, <<At1(t), At1(s)>> \in Aged
               PROVE  At1(t) \in Ring!Settled \cup At(Excess)
    BY DEF At, At1
  <2>1. t \in held \cup spoiled \cup reclaimed \cup Excess
    BY <1>3
  <2> QED BY <2>1 DEF Ring!Settled, At, At1
<1>5. At(reclaimed') = At(reclaimed) \cup At(Excess)
  BY <1>2, AtParts
<1>6. At(Excess) \in SUBSET (At(sealed) \ At(reclaimed))
  <2>1. At(Excess) \subseteq At(sealed)
    BY <1>1 DEF At
  <2>2. ASSUME NEW s \in Excess, NEW t \in reclaimed, At1(s) = At1(t) PROVE FALSE
    <3>1. s = t
      BY <1>1, <2>2 DEF At1, IInv, Numbering
    <3> QED BY <1>1, <3>1 DEF Apart
  <2> QED BY <2>1, <2>2 DEF At, At1
<1>7. Ring!Drop(At(Excess))
  BY <1>2, <1>4, <1>5 DEF Ring!Drop, Aged
<1> QED BY <1>6, <1>7 DEF Ring!Next

\* Each action seals, ships, drops, or leaves the store of segments as it is.
LEMMA RingStep ==
  IInv /\ Retained /\ Conserved /\ Apart /\ [Next]_vars => [Ring!Next]_Ring!store
<1> SUFFICES ASSUME IInv, Retained, Conserved, Apart, [Next]_vars
             PROVE  [Ring!Next]_Ring!store
  OBVIOUS
<1>1. CASE RecoverAttributed
  <2>1. UNCHANGED <<held, reclaimed, spoiled>>
    BY <1>1 DEF RecoverAttributed
  <2> QED BY <1>1, <2>1, RecoverSeals, SealingIsASeal
<1>2. CASE Seal
  <2>1. UNCHANGED <<held, reclaimed, spoiled>>
    BY <1>2 DEF Seal
  <2> QED BY <1>2, <2>1, SealSeals, SealingIsASeal
<1>3. CASE Stop
  <2>1. UNCHANGED <<held, reclaimed, spoiled>>
    BY <1>3 DEF Stop
  <2> QED BY <1>3, <2>1, StopSeals, SealingIsASeal
<1>4. CASE Reclaim
  BY <1>4, ReclaimIsADrop
<1>5. CASE Deliver
  BY <1>5, LeavingIsAShip DEF Deliver
<1>6. CASE Start \/ RecoverUnattributed \/ OpenSegment \/ SyncHeader \/ Record
           \/ Drop \/ Miss \/ Beat \/ Crash \/ Tick \/ UNCHANGED vars
  <2>1. UNCHANGED <<sealed, held, reclaimed, spoiled>>
    BY <1>6 DEF Start, RecoverUnattributed, OpenSegment, SyncHeader, Record,
       Drop, Miss, Beat, Crash, Tick, vars, delivery, history
  <2> QED BY <2>1, RingStill
<1> QED
  BY <1>1, <1>2, <1>3, <1>4, <1>5, <1>6 DEF Next, Produce

\* The ring and its transport, over any number of runs and crashes, keep the
\* promise of SegmentStore: sealed in the order of age, dropped in it too.
THEOREM Refinement == Spec => StoreIsKept
<1>1. Init => Ring!Init
  BY AtParts DEF Init, Ring!Init
<1>2. Init => Retained
  BY FS_EmptySet DEF Init, Retained, RetentionKeepsTheNewest
<1>3. Caused => Conserved
  BY DEF Caused
<1> QED
  BY <1>1, <1>2, <1>3, Invariant, RetainedStep, CausedAlways, ApartAlways, RingStep, PTL
  DEF Spec, StoreIsKept, Ring!Safety
=============================================================================
