------------------------------- MODULE KvCap -------------------------------
(***************************************************************************)
(* tools/capture/kvcap.py: one loop that receives published messages until *)
(* a duration or a message count is reached, writes one line for each, and *)
(* then reports.  The engine's publisher and the publish-subscribe socket  *)
(* are outside this repository: a publisher numbers its messages from zero *)
(* or sends them without a number the capture can read; what is published  *)
(* while nobody is connected or the receive queue is full is lost; and it  *)
(* restarts.                                                               *)
(*                                                                         *)
(* Of a payload only its shape is kept.  A list-shaped event contributes   *)
(* to the signature the capture judges novelty by; a map-shaped one, and a *)
(* payload that does not decode, contribute nothing.                       *)
(***************************************************************************)
EXTENDS Integers, Sequences, FiniteSets

CONSTANTS ListShapes,  \* shapes of list-shaped payloads
          MapShapes,   \* shapes of payloads whose events are maps
          HexLimit,    \* args.hex_limit
          MaxMsgs,     \* args.max_msgs
          Duration,    \* args.duration, in ticks
          QueueLimit,  \* the receive queue's high-water mark
          MaxPublished,\* bound: messages published
          MaxRestarts  \* bound: publisher restarts

ASSUME KvCapAssumption ==
  /\ ListShapes \cap MapShapes = {}
  /\ {HexLimit, MaxMsgs, Duration, QueueLimit, MaxPublished, MaxRestarts} \subseteq Nat

\* No second frame of eight bytes.
None == -1

VARIABLES
  numbered,    \* whether the publisher numbers its messages
  seq,         \* the publisher's next number
  connected,   \* whether the subscription reaches the publisher
  queue,       \* received by the socket and not yet by the loop
  elapsed,     \* ticks since `started`
  pc,          \* "test" (the loop's condition), "poll" or "reported"
  out,         \* the capture file: one line per message
  hex_stored,  \* payloads stored
  seen_signatures,
  gaps         \* as reported

\* History.
VARIABLES published, restarts, lost

publisher == <<numbered, seq, connected, published, restarts, lost>>
capture == <<out, hex_stored, seen_signatures, gaps>>
vars == <<publisher, queue, elapsed, pc, capture>>

Shapes == ListShapes \cup MapShapes
msgs == Len(out)

Init ==
  /\ numbered \in BOOLEAN
  /\ seq = 0 /\ connected = FALSE /\ queue = <<>>
  /\ elapsed = 0 /\ pc = "test"
  /\ out = <<>> /\ hex_stored = 0 /\ seen_signatures = {} /\ gaps = 0
  /\ published = 0 /\ restarts = 0 /\ lost = 0

-----------------------------------------------------------------------------
\* The engine's publisher.

Connect ==
  /\ ~connected
  /\ connected' = TRUE
  /\ UNCHANGED <<numbered, seq, published, restarts, lost, queue, elapsed, pc, capture>>

Number == IF numbered THEN seq ELSE None

Publish(shape) ==
  /\ published < MaxPublished
  /\ published' = published + 1
  /\ seq' = IF numbered THEN seq + 1 ELSE seq
  /\ IF connected /\ Len(queue) < QueueLimit
     THEN queue' = Append(queue, [seq |-> Number, shape |-> shape]) /\ UNCHANGED lost
     ELSE lost' = lost + 1 /\ UNCHANGED queue
  /\ UNCHANGED <<numbered, connected, restarts, elapsed, pc, capture>>

Restart ==
  /\ restarts < MaxRestarts
  /\ restarts' = restarts + 1
  /\ numbered' \in BOOLEAN
  /\ seq' = 0 /\ connected' = FALSE
  /\ UNCHANGED <<published, lost, queue, elapsed, pc, capture>>

Tick ==
  /\ elapsed < Duration
  /\ elapsed' = elapsed + 1
  /\ UNCHANGED <<publisher, queue, pc, capture>>

-----------------------------------------------------------------------------
\* The capture loop.

\* Mutant: the message count is not looked at.
Enter_OnDuration ==
  /\ pc = "test" /\ elapsed < Duration
  /\ pc' = "poll"
  /\ UNCHANGED <<publisher, queue, elapsed, capture>>

Enter ==
  /\ pc = "test" /\ msgs < MaxMsgs /\ elapsed < Duration
  /\ pc' = "poll"
  /\ UNCHANGED <<publisher, queue, elapsed, capture>>

\* Mutant: an empty poll polls again without looking at the clock.
PollTimesOut_Again ==
  /\ pc = "poll" /\ queue = <<>>
  /\ UNCHANGED vars

\* poll(500) returned nothing.
PollTimesOut ==
  /\ pc = "poll" /\ queue = <<>>
  /\ pc' = "test"
  /\ UNCHANGED <<publisher, queue, elapsed, capture>>

Signature(shape) == IF shape \in ListShapes THEN {shape} ELSE {}

\* Mutant: past the limit nothing is stored.
Stores_FirstOnly(shape) == hex_stored < HexLimit

\* Full bytes for the first of them, then only for newly seen shapes.
Stores(shape) ==
  \/ hex_stored < HexLimit
  \/ Signature(shape) \notin seen_signatures

\* Mutant: only a novel shape counts against the limit.
Receive_CountsNovel ==
  /\ pc = "poll" /\ queue # <<>>
  /\ LET m == Head(queue)
     IN /\ out' = Append(out, [seq |-> m.seq, shape |-> m.shape, hex |-> Stores(m.shape)])
        /\ hex_stored' = hex_stored +
             (IF Signature(m.shape) \notin seen_signatures THEN 1 ELSE 0)
        /\ seen_signatures' = seen_signatures \cup {Signature(m.shape)}
  /\ queue' = Tail(queue)
  /\ pc' = "test"
  /\ UNCHANGED <<publisher, elapsed, gaps>>

\* A message that was waiting is taken even if the duration has passed since
\* the condition was tested.
Receive ==
  /\ pc = "poll" /\ queue # <<>>
  /\ LET m == Head(queue)
     IN /\ out' = Append(out, [seq |-> m.seq, shape |-> m.shape, hex |-> Stores(m.shape)])
        /\ hex_stored' = hex_stored + (IF Stores(m.shape) THEN 1 ELSE 0)
        /\ seen_signatures' = seen_signatures \cup {Signature(m.shape)}
  /\ queue' = Tail(queue)
  /\ pc' = "test"
  /\ UNCHANGED <<publisher, elapsed, gaps>>

\* Mutant: the step itself is counted as missing.
Missing_Inclusive(a, b) == IF a # None /\ b > a + 1 THEN b - a ELSE 0

\* Only a forward jump counts; a restart's fall back to zero does not, nor does
\* the first number, which has none before it.
Missing(a, b) == IF a # None /\ b > a + 1 THEN b - a - 1 ELSE 0

\* The report's loop over the numbers, each beside the one before it: the last
\* one and what is missing up to it.  A line without a number is not among them.
After(count, s) ==
  IF s = None THEN count
  ELSE [last |-> s, missing |-> count.missing + Missing(count.last, s)]

SeqGaps ==
  LET counted[k \in 0..msgs] ==
        IF k = 0 THEN [last |-> None, missing |-> 0]
        ELSE After(counted[k - 1], out[k].seq)
  IN counted[msgs].missing

Report ==
  /\ pc = "test" /\ (msgs >= MaxMsgs \/ elapsed >= Duration)
  /\ gaps' = SeqGaps
  /\ pc' = "reported"
  /\ UNCHANGED <<publisher, queue, elapsed, out, hex_stored, seen_signatures>>

Loop == Enter \/ PollTimesOut \/ Receive \/ Report

Next == \/ Connect \/ Restart \/ Tick \/ Loop
        \/ \E shape \in Shapes : Publish(shape)

Spec == Init /\ [][Next]_vars

\* Time passes and the loop runs; the publisher owes nothing.
FairSpec == Spec /\ WF_vars(Tick) /\ WF_vars(Loop)

-----------------------------------------------------------------------------
TypeOK ==
  /\ {seq, published, lost} \subseteq 0..MaxPublished
  /\ numbered \in BOOLEAN /\ connected \in BOOLEAN
  /\ queue \in Seq([seq : Nat \cup {None}, shape : Shapes]) /\ Len(queue) <= QueueLimit
  /\ elapsed \in 0..Duration
  /\ pc \in {"test", "poll", "reported"}
  /\ out \in Seq([seq : Nat \cup {None}, shape : Shapes, hex : BOOLEAN])
  /\ seen_signatures \subseteq {Signature(s) : s \in Shapes}
  /\ msgs <= MaxMsgs

(***************************************************************************)
(* The report's line "nonzero = the publisher outran this capture" can be  *)
(* believed: the gaps it counts are messages that were published and not   *)
(* captured, also across publisher restarts.                               *)
(***************************************************************************)
GapsAreLosses == gaps <= lost

Captured(shapes) == {s \in shapes : \E k \in 1..msgs : out[k].shape = s}
Kept(shapes) == {s \in shapes : \E k \in 1..msgs : out[k].shape = s /\ out[k].hex}

(***************************************************************************)
(* The limit costs no list shape: whatever arrived in list form, in any    *)
(* order and however late, has a full payload in the file.                 *)
(***************************************************************************)
ListShapesAreKept == Kept(ListShapes) = Captured(ListShapes)

(***************************************************************************)
(* The limit bounds the file: past it one payload more for each signature  *)
(* that arrived at most, the empty one included, and the first message is  *)
(* within it unless it is zero.                                            *)
(***************************************************************************)
FileIsBounded ==
  Cardinality({k \in 1..msgs : out[k].hex})
    <= Cardinality(Captured(ListShapes)) + (IF HexLimit = 0 THEN 1 ELSE HexLimit)

(***************************************************************************)
(* --hex-limit: "after that, only shape-novel messages are stored (keeps   *)
(* the file small, keeps the variety)".  So every shape that arrived has a *)
(* full payload in the file, whichever form it has.                        *)
(***************************************************************************)
VarietyIsKept == Kept(Shapes) = Captured(Shapes)

(***************************************************************************)
(* The capture ends and reports although the publisher may fall silent or  *)
(* keep the queue full.                                                    *)
(***************************************************************************)
Reports == <>(pc = "reported")
=============================================================================
