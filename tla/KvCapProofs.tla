---------------------------- MODULE KvCapProofs ----------------------------
(***************************************************************************)
(* Theorems about KvCap, for every set of shapes, every limit, every queue *)
(* and every number of messages and restarts.                              *)
(***************************************************************************)
EXTENDS KvCap, WellFoundedInduction, SequenceTheorems, FiniteSetTheorems, TLAPS

-----------------------------------------------------------------------------
\* The loop polls only while the file has room for one message more, and the
\* publisher numbers and loses no more than it published.
Room ==
  /\ pc = "poll" => msgs < MaxMsgs
  /\ seq <= published /\ lost <= published

\* A list shape that arrived is a signature that was seen, and the message
\* that showed it first has its payload in the file.
Novelty ==
  /\ \A k \in 1..msgs : Signature(out[k].shape) \in seen_signatures
  /\ \A s \in ListShapes :
       {s} \in seen_signatures => \E k \in 1..msgs : out[k].shape = s /\ out[k].hex

\* The numbers that reached the socket, in order: those in the file and those
\* still queued.
Arrived == msgs + Len(queue)
Numbers == [k \in 1..Arrived |-> IF k <= msgs THEN out[k].seq ELSE queue[k - msgs].seq]

Counts == [last : Nat \cup {None}, missing : Nat]

\* t is what the report's loop has counted at each of the n messages.
Tally(t, n, numbers) ==
  /\ t \in [Nat -> Counts] /\ t[0] = [last |-> None, missing |-> 0]
  /\ \A k \in 1..n : t[k] = After(t[k - 1], numbers[k])

\* What would be missing if the number s came next.
Expected(count, s) == count.missing + Missing(count.last, s)

\* What a report could count now or later is lost already: also the numbers the
\* publisher has passed since the last message that reached the socket, which
\* count when another follows it, and are forgotten when it restarts.
Losses ==
  /\ \E t : Tally(t, Arrived, Numbers) /\ Expected(t[Arrived], seq) <= lost
  /\ gaps \in Nat /\ gaps <= lost

Payloads == {k \in 1..msgs : out[k].hex}

\* Every payload is counted, and each past the limit has brought a signature
\* that was new; so has the first, which is within the limit unless it is zero.
Limit ==
  /\ IsFiniteSet(Payloads) /\ hex_stored = Cardinality(Payloads)
  /\ seen_signatures = {Signature(out[k].shape) : k \in 1..msgs}
  /\ IsFiniteSet(seen_signatures)
  /\ IF seen_signatures = {} THEN hex_stored = 0
     ELSE hex_stored <= Cardinality(seen_signatures)
                        + (IF HexLimit = 0 THEN 0 ELSE HexLimit - 1)

IInv == TypeOK /\ Room /\ Novelty /\ Limit /\ Losses

\* A received line is appended to the file, and the file has what it had.
LEMMA ReceiveAppends ==
  ASSUME TypeOK, Receive
  PROVE  LET m == Head(queue)
             line == [seq |-> m.seq, shape |-> m.shape, hex |-> Stores(m.shape)]
         IN /\ m \in [seq : Nat \cup {None}, shape : Shapes]
            /\ Tail(queue) \in Seq([seq : Nat \cup {None}, shape : Shapes])
            /\ Len(Tail(queue)) <= QueueLimit
            /\ line \in [seq : Nat \cup {None}, shape : Shapes, hex : BOOLEAN]
            /\ out' = Append(out, line) /\ msgs \in Nat /\ msgs' = msgs + 1
            /\ out' \in Seq([seq : Nat \cup {None}, shape : Shapes, hex : BOOLEAN])
            /\ out'[msgs + 1] = line
            /\ \A k \in 1..msgs : out'[k] = out[k]
<1> DEFINE m == Head(queue)
           line == [seq |-> m.seq, shape |-> m.shape, hex |-> Stores(m.shape)]
           Line == [seq : Nat \cup {None}, shape : Shapes, hex : BOOLEAN]
<1>1. /\ m \in [seq : Nat \cup {None}, shape : Shapes]
      /\ Tail(queue) \in Seq([seq : Nat \cup {None}, shape : Shapes])
      /\ Len(Tail(queue)) <= QueueLimit
  <2> DEFINE Message == [seq : Nat \cup {None}, shape : Shapes]
  <2>1. queue \in Seq(Message) /\ queue # <<>> /\ Len(queue) <= QueueLimit /\ QueueLimit \in Nat
    BY KvCapAssumption DEF TypeOK, Receive
  <2> HIDE DEF Message
  <2>2. Head(queue) \in Message /\ Tail(queue) \in Seq(Message) /\ Len(Tail(queue)) <= QueueLimit
    BY <2>1, HeadTailProperties
  <2>3. QED
    BY <2>2 DEF Message
<1>2. Stores(m.shape) \in BOOLEAN
  BY DEF Stores
<1>3. line \in Line
  BY <1>1, <1>2
<1>4. out' = Append(out, line) /\ out \in Seq(Line)
  BY DEF Receive, TypeOK
<1> HIDE DEF line, Line
<1>5. /\ Len(out) \in Nat /\ Len(out') = Len(out) + 1 /\ out' \in Seq(Line)
      /\ out'[Len(out) + 1] = line /\ \A k \in 1..Len(out) : out'[k] = out[k]
  BY <1>3, <1>4
<1>6. QED
  BY <1>1, <1>3, <1>4, <1>5 DEF msgs, line, Line

\* Every step keeps the types and the bound on the number of messages.
LEMMA TypeStep == IInv /\ [Next]_vars => TypeOK' /\ Room'
<1> SUFFICES ASSUME IInv, [Next]_vars PROVE TypeOK' /\ Room'
  OBVIOUS
<1> DEFINE Message == [seq : Nat \cup {None}, shape : Shapes]
           Line == [seq : Nat \cup {None}, shape : Shapes, hex : BOOLEAN]
           Signatures == {Signature(s) : s \in Shapes}
<1> USE DEF vars, publisher, capture
<1>a. /\ seq \in Nat /\ published \in Nat /\ lost \in Nat
      /\ seq <= published /\ lost <= published /\ published <= MaxPublished
      /\ QueueLimit \in Nat /\ MaxPublished \in Nat /\ Duration \in Nat /\ MaxMsgs \in Nat
      /\ numbered \in BOOLEAN /\ connected \in BOOLEAN /\ elapsed \in 0..Duration
      /\ pc \in {"test", "poll", "reported"}
      /\ queue \in Seq(Message) /\ Len(queue) <= QueueLimit
      /\ out \in Seq(Line) /\ seen_signatures \subseteq Signatures
      /\ Len(out) <= MaxMsgs /\ (pc = "poll" => Len(out) < MaxMsgs)
  BY KvCapAssumption DEF IInv, TypeOK, Room, msgs
<1> DEFINE Queued(q) == q \in Seq(Message) /\ Len(q) <= QueueLimit
           Filed(o) == o \in Seq(Line) /\ Len(o) <= MaxMsgs
<1> HIDE DEF Message, Line, Signatures
<1>p. ASSUME seq' \in Nat, published' \in Nat, lost' \in Nat,
             seq' <= published', lost' <= published', published' <= MaxPublished,
             numbered' \in BOOLEAN, connected' \in BOOLEAN, elapsed' \in 0..Duration,
             pc' \in {"test", "poll", "reported"}, Queued(queue'), Filed(out'),
             seen_signatures' \subseteq Signatures,
             pc' = "poll" => Len(out') < MaxMsgs
      PROVE  TypeOK' /\ Room'
  <2>1. {seq, published, lost}' \subseteq 0..MaxPublished
    BY <1>p, <1>a
  <2>2. QED
    BY <2>1, <1>p DEF TypeOK, Room, msgs, Message, Line, Signatures
<1>1. CASE Connect
  BY <1>1, <1>a, <1>p DEF Connect
<1>2. CASE Restart
  <2>1. /\ numbered' \in BOOLEAN /\ seq' = 0 /\ connected' = FALSE
        /\ UNCHANGED <<published, lost, queue, elapsed, pc, capture>>
    BY <1>2 DEF Restart
  <2>2. numbered' \in BOOLEAN /\ connected' \in BOOLEAN
    BY <2>1, Zenon
  <2>3. seq' \in Nat /\ seq' <= published'
    BY <2>1, <1>a
  <2>4. QED
    BY <2>1, <2>2, <2>3, <1>a, <1>p
<1>3. CASE Tick
  BY <1>3, <1>a, <1>p DEF Tick
<1>4. ASSUME NEW shape \in Shapes, Publish(shape) PROVE TypeOK' /\ Room'
  <2> DEFINE m == [seq |-> Number, shape |-> shape]
  <2>1. m \in Message
    BY <1>a DEF Message, Number
  <2>2. \/ UNCHANGED queue /\ lost' = lost + 1
        \/ queue' = Append(queue, m) /\ Len(queue) < QueueLimit /\ UNCHANGED lost
    BY <1>4 DEF Publish
  <2>3. /\ published < MaxPublished /\ published' = published + 1
        /\ seq' = seq \/ seq' = seq + 1
        /\ UNCHANGED <<numbered, connected, elapsed, pc, capture>>
    BY <1>4 DEF Publish
  <2> HIDE DEF m
  <2>4. Queued(queue')
    BY <1>a, <2>1, <2>2
  <2>5. QED
    BY <1>a, <1>p, <2>2, <2>3, <2>4
<1>5. CASE Enter
  BY <1>5, <1>a, <1>p DEF Enter, msgs
<1>6. CASE PollTimesOut
  BY <1>6, <1>a, <1>p DEF PollTimesOut
<1>7. CASE Receive
  <2>0. /\ Head(queue) \in [seq : Nat \cup {None}, shape : Shapes] /\ Queued(Tail(queue))
        /\ out' \in Seq(Line) /\ Len(out') = Len(out) + 1
    BY <1>7, ReceiveAppends DEF IInv, Message, Line, msgs
  <2>1. /\ Queued(queue') /\ pc' = "test" /\ pc = "poll"
        /\ UNCHANGED <<publisher, elapsed>>
    BY <1>7, <2>0 DEF Receive
  <2>2. seen_signatures' \subseteq Signatures
    BY <1>7, <1>a, <2>0 DEF Receive, Signatures
  <2>3. Filed(out')
    BY <1>a, <2>0, <2>1
  <2>4. QED
    BY <1>a, <1>p, <2>1, <2>2, <2>3
<1>8. CASE Report
  BY <1>8, <1>a, <1>p DEF Report
<1>9. CASE UNCHANGED vars
  BY <1>9, <1>a, <1>p
<1>10. QED
  BY <1>1, <1>2, <1>3, <1>4, <1>5, <1>6, <1>7, <1>8, <1>9 DEF Next, Loop

\* No message that shows a list shape for the first time goes unstored.
LEMMA NoveltyStep == IInv /\ [Next]_vars => Novelty'
<1> SUFFICES ASSUME IInv, [Next]_vars PROVE Novelty'
  OBVIOUS
<1>1. CASE Receive
  <2> DEFINE m == Head(queue)
             line == [seq |-> m.seq, shape |-> m.shape, hex |-> Stores(m.shape)]
  <2>1. /\ msgs \in Nat /\ msgs' = msgs + 1 /\ out'[msgs + 1] = line
        /\ \A k \in 1..msgs : out'[k] = out[k]
    BY <1>1, ReceiveAppends DEF IInv
  <2>2. seen_signatures' = seen_signatures \cup {Signature(m.shape)}
    BY <1>1 DEF Receive
  <2>3. line.shape = m.shape /\ line.hex = Stores(m.shape)
    OBVIOUS
  <2> HIDE DEF m, line
  <2>4. \A k \in 1..msgs' : Signature(out'[k].shape) \in seen_signatures'
    <3>1. \A k \in 1..msgs : Signature(out[k].shape) \in seen_signatures
      BY DEF IInv, Novelty
    <3>2. \A k \in 1..(msgs + 1) : k \in 1..msgs \/ k = msgs + 1
      BY <2>1
    <3>3. QED
      BY <2>1, <2>2, <2>3, <3>1, <3>2
  <2>5. ASSUME NEW s \in ListShapes, {s} \in seen_signatures'
        PROVE  \E k \in 1..msgs' : out'[k].shape = s /\ out'[k].hex
    <3>1. CASE {s} \in seen_signatures
      <4>1. PICK k \in 1..msgs : out[k].shape = s /\ out[k].hex
        BY <3>1 DEF IInv, Novelty
      <4>2. k \in 1..msgs' /\ out'[k] = out[k]
        BY <2>1
      <4>3. QED
        BY <4>1, <4>2
    <3>2. CASE {s} \notin seen_signatures
      <4>1. {s} = Signature(m.shape)
        BY <2>2, <2>5, <3>2
      <4>2. m.shape = s
        BY <4>1 DEF Signature
      <4>3. Stores(m.shape)
        BY <3>2, <4>1 DEF Stores
      <4>4. msgs + 1 \in 1..msgs'
        BY <2>1
      <4>5. QED
        BY <2>1, <2>3, <4>2, <4>3, <4>4
    <3>3. QED
      BY <3>1, <3>2
  <2>6. QED
    BY <2>4, <2>5 DEF Novelty
<1>2. ASSUME UNCHANGED <<out, seen_signatures>> PROVE Novelty'
  BY <1>2 DEF IInv, Novelty, msgs
<1>3. CASE Connect \/ Restart \/ Tick \/ Enter \/ PollTimesOut \/ Report
           \/ (\E shape \in Shapes : Publish(shape)) \/ UNCHANGED vars
  BY <1>2, <1>3 DEF Connect, Restart, Tick, Enter, PollTimesOut, Report, Publish,
     vars, capture
<1>4. QED
  BY <1>1, <1>3 DEF Next, Loop

-----------------------------------------------------------------------------
\* A payload past the limit comes with a signature not seen before.
LEMMA LimitStep == IInv /\ [Next]_vars => Limit'
<1> SUFFICES ASSUME IInv, [Next]_vars PROVE Limit'
  OBVIOUS
<1>1. CASE Receive
  <2> DEFINE m == Head(queue)
             line == [seq |-> m.seq, shape |-> m.shape, hex |-> Stores(m.shape)]
             novel == Signature(m.shape)
  <2>1. /\ msgs \in Nat /\ msgs' = msgs + 1 /\ out'[msgs + 1] = line
        /\ \A k \in 1..msgs : out'[k] = out[k]
    BY <1>1, ReceiveAppends DEF IInv
  <2>2. /\ seen_signatures' = seen_signatures \cup {novel}
        /\ hex_stored' = hex_stored + (IF Stores(m.shape) THEN 1 ELSE 0)
        /\ Stores(m.shape) <=> hex_stored < HexLimit \/ novel \notin seen_signatures
    BY <1>1 DEF Receive, Stores
  <2>3. line.shape = m.shape /\ line.hex = Stores(m.shape)
    OBVIOUS
  <2>4. /\ IsFiniteSet(Payloads) /\ hex_stored = Cardinality(Payloads)
        /\ IsFiniteSet(seen_signatures)
        /\ Cardinality(Payloads) \in Nat /\ Cardinality(seen_signatures) \in Nat
        /\ HexLimit \in Nat
    BY FS_CardinalityType, KvCapAssumption DEF IInv, Limit
  <2> DEFINE stored == Stores(m.shape)
  <2>t. novel = Signature(m.shape)
    OBVIOUS
  <2> HIDE DEF m, line, novel, stored
  <2>k. \A k \in 1..msgs' : k \in 1..msgs \/ k = msgs + 1
    BY <2>1
  <2>j. /\ \A k \in 1..msgs : k \in 1..msgs' /\ k # msgs + 1
        /\ msgs + 1 \in 1..msgs'
    BY <2>1
  <2>5. Payloads' = IF stored THEN Payloads \cup {msgs + 1} ELSE Payloads
    <3>1. \A k \in 1..msgs : k \in Payloads' <=> k \in Payloads
      BY <2>1, <2>j DEF Payloads
    <3>2. msgs + 1 \in Payloads' <=> stored
      BY <2>1, <2>3, <2>j DEF Payloads, stored
    <3>3. Payloads \subseteq 1..msgs /\ Payloads' \subseteq 1..msgs'
      BY DEF Payloads
    <3>4. ASSUME stored PROVE Payloads' = Payloads \cup {msgs + 1}
      BY <3>1, <3>2, <3>3, <3>4, <2>k, <2>j
    <3>5. ASSUME ~stored PROVE Payloads' = Payloads
      BY <3>1, <3>2, <3>3, <3>5, <2>k, <2>j
    <3>6. QED
      BY <3>4, <3>5
  <2>6. msgs + 1 \notin Payloads
    BY <2>j DEF Payloads
  <2>7. IsFiniteSet(Payloads') /\ hex_stored' = Cardinality(Payloads')
    BY <2>2, <2>4, <2>5, <2>6, FS_AddElement DEF stored
  <2>8. seen_signatures' = {Signature(out'[k].shape) : k \in 1..msgs'}
    <3>1. seen_signatures = {Signature(out[k].shape) : k \in 1..msgs}
      BY DEF IInv, Limit
    <3>2. \A k \in 1..msgs : Signature(out'[k].shape) = Signature(out[k].shape)
      BY <2>1
    <3>3. Signature(out'[msgs + 1].shape) = novel
      BY <2>1, <2>3, <2>t
    <3>4. QED
      BY <2>2, <2>k, <2>j, <3>1, <3>2, <3>3
  <2>9. /\ IsFiniteSet(seen_signatures')
        /\ Cardinality(seen_signatures') =
             IF novel \in seen_signatures THEN Cardinality(seen_signatures)
             ELSE Cardinality(seen_signatures) + 1
    BY <2>2, <2>4, FS_AddElement
  <2>10. seen_signatures' # {}
    BY <2>2
  <2>11. hex_stored' <= Cardinality(seen_signatures')
                        + (IF HexLimit = 0 THEN 0 ELSE HexLimit - 1)
    <3>1. CASE seen_signatures = {}
      <4>1. hex_stored = 0 /\ novel \notin seen_signatures
        BY <3>1 DEF IInv, Limit
      <4>2. QED
        BY <4>1, <2>2, <2>4, <2>9
    <3>2. CASE seen_signatures # {}
      <4>1. hex_stored <= Cardinality(seen_signatures)
                          + (IF HexLimit = 0 THEN 0 ELSE HexLimit - 1)
        BY <3>2 DEF IInv, Limit
      <4>2. Cardinality(seen_signatures) # 0
        BY <3>2, <2>4, FS_EmptySet
      <4>3. QED
        BY <4>1, <4>2, <2>2, <2>4, <2>9
    <3>3. QED
      BY <3>1, <3>2
  <2>12. QED
    BY <2>7, <2>8, <2>9, <2>10, <2>11 DEF Limit
<1>2. ASSUME UNCHANGED <<out, seen_signatures, hex_stored>> PROVE Limit'
  BY <1>2 DEF IInv, Limit, Payloads, msgs
<1>3. CASE Connect \/ Restart \/ Tick \/ Enter \/ PollTimesOut \/ Report
           \/ (\E shape \in Shapes : Publish(shape)) \/ UNCHANGED vars
  BY <1>2, <1>3 DEF Connect, Restart, Tick, Enter, PollTimesOut, Report, Publish,
     vars, capture
<1>4. QED
  BY <1>1, <1>3 DEF Next, Loop

\* Induction over the naturals, in a form that takes no operator: what holds of
\* the first number and of the next after each it holds of, up to a limit, holds
\* of all up to there.  The fact is the set it holds on.
LEMMA UpTo ==
  ASSUME NEW lo \in Nat, NEW hi \in Nat, NEW Reached,
         lo \in Reached,
         \A k \in lo .. hi : k < hi /\ k \in Reached => k + 1 \in Reached
  PROVE  \A k \in lo .. hi : k \in Reached
<1> DEFINE Fails == {k \in Nat : k \in lo .. hi /\ k \notin Reached}
<1> SUFFICES ASSUME Fails # {} PROVE FALSE
  OBVIOUS
<1>1. PICK x \in Fails : \A y \in Fails : <<y, x>> \notin OpToRel(<, Nat)
  BY WFMin, NatLessThanWellFounded, Zenon
<1>2. /\ x \in lo .. hi /\ x \notin Reached /\ x # lo
      /\ x - 1 \in lo .. hi /\ x - 1 < hi /\ x - 1 \in Nat /\ (x - 1) + 1 = x /\ x \in Nat
  OBVIOUS
<1>3. x - 1 < x
  BY <1>2
<1>4. <<x - 1, x>> \in OpToRel(<, Nat)
  BY <1>2, <1>3, Zenon DEF OpToRel
<1>5. x - 1 \in Reached
  BY <1>1, <1>2, <1>4
<1>6. QED
  BY <1>2, <1>5

-----------------------------------------------------------------------------
\* A message adds to what is missing what is expected before its number, and
\* one without a number nothing.
LEMMA CountAdvances ==
  ASSUME NEW c \in Counts, NEW s \in Nat \cup {None}
  PROVE  /\ After(c, s) \in Counts
         /\ c.missing \in Nat /\ After(c, s).missing \in Nat
         /\ c.missing <= After(c, s).missing
<1>1. c.missing \in Nat /\ c.last \in Nat \cup {None}
  BY DEF Counts
<1>2. CASE s = None
  BY <1>1, <1>2 DEF After
<1>3. CASE s # None
  <2>1. s \in Nat /\ Missing(c.last, s) \in Nat
    BY <1>1, <1>3 DEF Missing, None
  <2>2. After(c, s) = [last |-> s, missing |-> c.missing + Missing(c.last, s)]
    BY <1>3 DEF After
  <2>3. c.missing + Missing(c.last, s) \in Nat
    BY <1>1, <2>1
  <2>4. QED
    BY <1>1, <2>1, <2>2, <2>3 DEF Counts
<1>4. QED
  BY <1>2, <1>3

\* What is missing up to a message grows with it.
LEMMA TallyGrows ==
  ASSUME NEW n \in Nat, NEW numbers \in [1..n -> Nat \cup {None}], NEW t,
         Tally(t, n, numbers), NEW a \in 0..n
  PROVE  /\ t[a] \in Counts /\ t[n] \in Counts
         /\ t[a].missing \in Nat /\ t[n].missing \in Nat /\ t[a].missing <= t[n].missing
<1> DEFINE Holds == {k \in a..n : t[a].missing <= t[k].missing}
<1>1. t \in [Nat -> Counts] /\ \A k \in 1..n : t[k] = After(t[k - 1], numbers[k])
  BY Zenon DEF Tally
<1>2. /\ \A k \in Nat : t[k] \in Counts /\ t[k].missing \in Nat
      /\ a \in Nat /\ a <= n
  BY <1>1, CountAdvances
<1>4. ASSUME NEW k \in 1..n PROVE t[k - 1].missing <= t[k].missing
  <2>1. t[k - 1] \in Counts /\ numbers[k] \in Nat \cup {None}
    BY <1>2
  <2>2. t[k - 1].missing <= After(t[k - 1], numbers[k]).missing
    BY <2>1, CountAdvances
  <2>3. QED
    BY <2>2, <1>1
<1>5. a \in Holds
  BY <1>2
<1>6. ASSUME NEW k \in a..n, k < n, k \in Holds PROVE k + 1 \in Holds
  <2>1. k + 1 \in 1..n /\ (k + 1) - 1 = k /\ k \in Nat /\ k + 1 \in Nat /\ k + 1 \in a..n
    BY <1>2, <1>6
  <2>2. t[k].missing <= t[k + 1].missing
    BY <1>4, <2>1
  <2>3. QED
    BY <1>2, <1>6, <2>1, <2>2
<1> HIDE DEF Holds
<1>7. \A k \in a..n : k \in Holds
  BY <1>2, <1>5, <1>6, UpTo
<1>8. n \in Holds
  BY <1>2, <1>7
<1>9. QED
  BY <1>2, <1>8 DEF Holds

\* A message that comes next is counted after those before it.
LEMMA TallyExtends ==
  ASSUME NEW n \in Nat, NEW numbers \in [1..n -> Nat \cup {None}], NEW t,
         Tally(t, n, numbers),
         NEW s \in Nat \cup {None}, NEW longer \in [1..(n + 1) -> Nat \cup {None}],
         \A k \in 1..n : longer[k] = numbers[k], longer[n + 1] = s
  PROVE  \E h : Tally(h, n + 1, longer) /\ h[n + 1] = After(t[n], s)
<1> DEFINE last == After(t[n], s)
           h == [t EXCEPT ![n + 1] = last]
<1>1. /\ t \in [Nat -> Counts] /\ t[0] = [last |-> None, missing |-> 0]
      /\ \A k \in 1..n : t[k] = After(t[k - 1], numbers[k])
  BY Zenon DEF Tally
<1>3. last \in Counts
  <2>1. t[n] \in Counts
    BY <1>1
  <2>2. QED
    BY <2>1, CountAdvances
<1> HIDE DEF last
<1>5. h \in [Nat -> Counts] /\ h[n + 1] = last /\ \A k \in 0..n : h[k] = t[k]
  <2>1. n + 1 \in Nat /\ \A k \in 0..n : k \in Nat /\ k # n + 1
    OBVIOUS
  <2>2. t \in [Nat -> Counts]
    BY <1>1
  <2>3. QED
    BY <2>1, <2>2, <1>3
<1> HIDE DEF h
<1>6. ASSUME NEW k \in 1..(n + 1)
      PROVE  h[k] = After(h[k - 1], longer[k])
  <2>1. CASE k = n + 1
    <3>1. k - 1 = n /\ n \in 0..n
      BY <2>1
    <3>2. h[k] = last /\ h[k - 1] = t[n] /\ longer[k] = s
      BY <2>1, <3>1, <1>5
    <3>3. QED
      BY <3>2 DEF last
  <2>2. CASE k # n + 1
    <3>1. k \in 1..n /\ k \in 0..n /\ k - 1 \in 0..n
      BY <2>2
    <3>2. h[k] = t[k] /\ h[k - 1] = t[k - 1] /\ longer[k] = numbers[k]
      BY <3>1, <1>5
    <3>3. t[k] = After(t[k - 1], numbers[k])
      BY <3>1, <1>1
    <3>4. QED
      BY <3>2, <3>3
  <2>3. QED
    BY <2>1, <2>2
<1>7. h[0] = [last |-> None, missing |-> 0]
  BY <1>1, <1>5
<1>8. Tally(h, n + 1, longer)
  BY <1>5, <1>6, <1>7 DEF Tally
<1>9. QED
  BY <1>5, <1>8 DEF last

\* The numbers that arrived.
LEMMA NumbersTyped ==
  ASSUME TypeOK
  PROVE  /\ seq \in Nat /\ lost \in Nat /\ msgs \in Nat /\ Len(queue) \in Nat
         /\ Arrived \in Nat /\ msgs \in 0..Arrived /\ Numbers \in [1..Arrived -> Nat \cup {None}]
<1> DEFINE Message == [seq : Nat \cup {None}, shape : Shapes]
           Line == [seq : Nat \cup {None}, shape : Shapes, hex : BOOLEAN]
<1>1. /\ out \in Seq(Line) /\ queue \in Seq(Message)
      /\ \A m \in Message : m.seq \in Nat \cup {None}
      /\ \A m \in Line : m.seq \in Nat \cup {None}
      /\ seq \in Nat /\ lost \in Nat
  BY KvCapAssumption DEF TypeOK
<1> HIDE DEF Message, Line
<1>2. /\ \A k \in 1..msgs : out[k].seq \in Nat \cup {None}
      /\ \A k \in 1..Len(queue) : queue[k].seq \in Nat \cup {None}
      /\ msgs \in Nat /\ Len(queue) \in Nat
  BY <1>1, ElementOfSeq DEF msgs
<1>3. \A k \in 1..(msgs + Len(queue)) :
         k \in 1..msgs \/ (~(k <= msgs) /\ k - msgs \in 1..Len(queue))
  BY <1>2
<1>4. \A k \in 1..Arrived : (IF k <= msgs THEN out[k].seq ELSE queue[k - msgs].seq) \in Nat \cup {None}
  BY <1>2, <1>3 DEF Arrived
<1>5. Numbers \in [1..Arrived -> Nat \cup {None}]
  BY <1>4 DEF Numbers
<1>6. QED
  BY <1>1, <1>2, <1>5 DEF Arrived

\* What the report's loop adds up is the tally of the lines.
LEMMA ReportedTally ==
  ASSUME TypeOK, NEW t, Tally(t, Arrived, Numbers)
  PROVE  SeqGaps = t[msgs].missing
<1> DEFINE Loop1(f) == [k \in 0..msgs |->
                          IF k = 0 THEN [last |-> None, missing |-> 0]
                          ELSE After(f[k - 1], out[k].seq)]
           counted == CHOOSE f : f = Loop1(f)
           h == [k \in 0..msgs |-> t[k]]
           Holds == {k \in 0..msgs : counted[k] = t[k]}
<1>1. SeqGaps = counted[msgs].missing
  BY DEF SeqGaps
<1>2. /\ msgs \in Nat /\ Arrived \in Nat /\ msgs <= Arrived
  BY NumbersTyped
<1>3. \A k \in 1..msgs : Numbers[k] = out[k].seq /\ k \in 1..Arrived
  BY <1>2 DEF Numbers
<1>4. /\ t[0] = [last |-> None, missing |-> 0]
      /\ \A k \in 1..Arrived : t[k] = After(t[k - 1], Numbers[k])
  BY Zenon DEF Tally
<1>5. ASSUME NEW k \in 1..msgs PROVE t[k] = After(t[k - 1], out[k].seq)
  BY <1>3, <1>4
<1>6. h = Loop1(h)
  <2>1. ASSUME NEW k \in 0..msgs PROVE h[k] = Loop1(h)[k]
    <3>1. CASE k = 0
      BY <3>1, <1>2, <1>4
    <3>2. CASE k # 0
      <4>1. k \in 1..msgs /\ k - 1 \in 0..msgs
        BY <3>2, <1>2
      <4>2. h[k] = t[k] /\ h[k - 1] = t[k - 1]
        BY <4>1
      <4>3. t[k] = After(t[k - 1], out[k].seq)
        BY <4>1, <1>5
      <4>4. QED
        BY <3>2, <4>2, <4>3
    <3>3. QED
      BY <3>1, <3>2
  <2>2. QED
    BY <2>1, Zenon
<1> HIDE DEF Loop1, h
<1>7. counted = Loop1(counted)
  BY <1>6, Zenon
<1> HIDE DEF counted
<1>8. \A k \in 0..msgs :
        counted[k] = IF k = 0 THEN [last |-> None, missing |-> 0]
                     ELSE After(counted[k - 1], out[k].seq)
  <2>1. \A k \in 0..msgs :
          Loop1(counted)[k] = IF k = 0 THEN [last |-> None, missing |-> 0]
                              ELSE After(counted[k - 1], out[k].seq)
    BY DEF Loop1
  <2>2. QED
    BY <2>1, <1>7
<1>9. 0 \in Holds
  BY <1>2, <1>4, <1>8
<1>10. ASSUME NEW k \in 0..msgs, k < msgs, k \in Holds PROVE k + 1 \in Holds
  <2>1. k + 1 \in 0..msgs /\ k + 1 \in 1..msgs /\ (k + 1) - 1 = k /\ k + 1 # 0
    BY <1>2, <1>10
  <2>2. counted[k] = t[k]
    BY <1>10
  <2>3. counted[k + 1] = t[k + 1]
    <3>1. t[k + 1] = After(t[(k + 1) - 1], out[k + 1].seq)
      BY <1>5, <2>1
    <3>2. counted[k + 1] = After(counted[(k + 1) - 1], out[k + 1].seq)
      BY <1>8, <2>1
    <3>3. QED
      BY <2>1, <2>2, <3>1, <3>2
  <2>4. QED
    BY <2>1, <2>3
<1> HIDE DEF Holds
<1>11. \A k \in 0..msgs : k \in Holds
  BY <1>2, <1>9, <1>10, UpTo
<1>12. msgs \in Holds
  BY <1>2, <1>11
<1>13. QED
  BY <1>1, <1>12 DEF Holds

\* A message that reaches the socket is the next of its numbers.
LEMMA QueuedNumbers ==
  ASSUME IInv, NEW shape \in Shapes, Publish(shape), lost' = lost
  PROVE  /\ Arrived' = Arrived + 1 /\ Numbers' \in [1..(Arrived + 1) -> Nat \cup {None}]
         /\ Numbers'[Arrived + 1] = Number
         /\ \A k \in 1..Arrived : Numbers'[k] = Numbers[k]
<1> DEFINE m == [seq |-> Number, shape |-> shape]
           Message == [seq : Nat \cup {None}, shape : Shapes]
<1>1. /\ seq \in Nat /\ lost \in Nat /\ msgs \in Nat /\ Len(queue) \in Nat
      /\ Arrived = msgs + Len(queue) /\ Numbers \in [1..Arrived -> Nat \cup {None}]
  BY NumbersTyped DEF IInv, Arrived
<1>n. Number \in Nat \cup {None}
  BY <1>1 DEF Number
<1>2. ~(lost' = lost + 1)
  BY <1>1
<1>3. queue' = Append(queue, m) /\ msgs' = msgs /\ out' = out
  BY <1>2 DEF Publish, capture, msgs
<1>4. queue \in Seq(Message) /\ m \in Message /\ m.seq = Number
  BY <1>1, <1>n DEF IInv, TypeOK
<1> HIDE DEF m, Message
<1>5. /\ Len(queue') = Len(queue) + 1 /\ queue'[Len(queue) + 1] = m
      /\ \A k \in 1..Len(queue) : queue'[k] = queue[k]
  BY <1>3, <1>4, AppendProperties
<1>6. Arrived' = Arrived + 1
  BY <1>1, <1>3, <1>5 DEF Arrived
<1>7. Numbers' = [k \in 1..(Arrived + 1) |->
                    IF k <= msgs THEN out[k].seq ELSE queue'[k - msgs].seq]
  BY <1>3, <1>6 DEF Numbers
<1>8. ASSUME NEW k \in 1..Arrived PROVE Numbers'[k] = Numbers[k]
  <2>1. k \in 1..(Arrived + 1)
    BY <1>1
  <2>2. CASE k <= msgs
    BY <2>1, <2>2, <1>7 DEF Numbers
  <2>3. CASE ~(k <= msgs)
    <3>1. k - msgs \in 1..Len(queue)
      BY <2>3, <1>1
    <3>2. queue'[k - msgs] = queue[k - msgs]
      BY <3>1, <1>5
    <3>3. QED
      BY <2>1, <2>3, <3>2, <1>7 DEF Numbers
  <2>4. QED
    BY <2>2, <2>3
<1>9. Numbers'[Arrived + 1] = Number
  <2>1. /\ Arrived + 1 \in 1..(Arrived + 1) /\ ~(Arrived + 1 <= msgs)
        /\ (Arrived + 1) - msgs = Len(queue) + 1
    BY <1>1
  <2>2. QED
    BY <2>1, <1>4, <1>5, <1>7
<1>10. Numbers' \in [1..(Arrived + 1) -> Nat \cup {None}]
  <2>1. \A k \in 1..(Arrived + 1) : k \in 1..Arrived \/ k = Arrived + 1
    BY <1>1
  <2>2. \A k \in 1..(Arrived + 1) : Numbers'[k] \in Nat \cup {None}
    BY <2>1, <1>1, <1>n, <1>8, <1>9
  <2>3. QED
    BY <2>2, <1>7
<1>11. QED
  BY <1>6, <1>8, <1>9, <1>10

\* Taking a message from the queue into the file leaves the numbers as they are.
LEMMA ReceivedNumbers ==
  ASSUME IInv, Receive
  PROVE  Arrived' = Arrived /\ Numbers' = Numbers
<1> DEFINE m == Head(queue)
           line == [seq |-> m.seq, shape |-> m.shape, hex |-> Stores(m.shape)]
           Message == [seq : Nat \cup {None}, shape : Shapes]
<1>1. /\ msgs \in Nat /\ msgs' = msgs + 1 /\ out'[msgs + 1] = line
      /\ \A k \in 1..msgs : out'[k] = out[k]
  BY ReceiveAppends DEF IInv
<1>2. queue \in Seq(Message) /\ queue # <<>> /\ queue' = Tail(queue)
  BY DEF IInv, TypeOK, Receive
<1>3. line.seq = queue[1].seq
  <2>1. m = queue[1]
    BY <1>2
  <2>2. QED
    BY <2>1
<1> HIDE DEF m, line, Message
<1>4. /\ Len(queue) \in Nat /\ Len(queue') = Len(queue) - 1
      /\ \A k \in 1..Len(queue') : queue'[k] = queue[k + 1]
  BY <1>2, HeadTailProperties, LenProperties
<1>5. Arrived' = Arrived /\ Arrived = msgs + Len(queue)
  BY <1>1, <1>4 DEF Arrived
<1>6. ASSUME NEW k \in 1..Arrived
      PROVE  (IF k <= msgs' THEN out'[k].seq ELSE queue'[k - msgs'].seq)
               = IF k <= msgs THEN out[k].seq ELSE queue[k - msgs].seq
  <2>1. CASE k <= msgs
    <3>1. k \in 1..msgs /\ k <= msgs'
      BY <2>1, <1>1
    <3>2. QED
      BY <2>1, <3>1, <1>1
  <2>2. CASE k = msgs + 1
    <3>1. ~(k <= msgs) /\ k <= msgs' /\ k - msgs = 1
      BY <2>2, <1>1
    <3>2. QED
      BY <2>2, <3>1, <1>1, <1>3
  <2>3. CASE ~(k <= msgs) /\ k # msgs + 1
    <3>1. /\ ~(k <= msgs') /\ k - msgs' \in 1..Len(queue')
          /\ (k - msgs') + 1 = k - msgs
      BY <2>3, <1>1, <1>4, <1>5
    <3>2. queue'[k - msgs'] = queue[k - msgs]
      BY <3>1, <1>4
    <3>3. QED
      BY <2>3, <3>1, <3>2
  <2>4. QED
    BY <2>1, <2>2, <2>3
<1>7. Numbers' = [k \in 1..Arrived |->
                    IF k <= msgs' THEN out'[k].seq ELSE queue'[k - msgs'].seq]
  BY <1>5 DEF Numbers
<1>8. QED
  BY <1>5, <1>6, <1>7 DEF Numbers

\* No step counts a gap that is not a loss.
LEMMA LossesStep == IInv /\ [Next]_vars => Losses'
<1> SUFFICES ASSUME IInv, [Next]_vars PROVE Losses'
  OBVIOUS
<1>1. PICK t : Tally(t, Arrived, Numbers) /\ Expected(t[Arrived], seq) <= lost
  BY DEF IInv, Losses
<1>2. /\ TypeOK /\ gaps \in Nat /\ gaps <= lost /\ seq \in Nat /\ lost \in Nat
      /\ msgs \in 0..Arrived /\ Arrived \in Nat
      /\ Numbers \in [1..Arrived -> Nat \cup {None}]
  BY NumbersTyped DEF IInv, Losses
<1> DEFINE now == t[Arrived]
<1>3. now.missing \in Nat /\ now.last \in Nat \cup {None}
  BY <1>1, <1>2 DEF Tally, Counts
<1> HIDE DEF now
<1>w. now = t[Arrived]
  BY DEF now
<1>4. \A s \in Nat : /\ Expected(now, s) \in Nat
                      /\ now.missing <= Expected(now, s)
  <2>1. \A s \in Nat : Missing(now.last, s) \in Nat
    BY <1>3 DEF Missing, None
  <2>2. QED
    BY <2>1, <1>3 DEF Expected
\* Whatever leaves the arrived numbers as they are.
<1>a. ASSUME Arrived' = Arrived, Numbers' = Numbers,
             Expected(now, seq') <= lost', gaps' \in Nat, gaps' <= lost'
      PROVE  Losses'
  <2>1. Tally(t, Arrived', Numbers') /\ Expected(t[Arrived'], seq') <= lost'
    BY <1>1, <1>a, <1>w
  <2>2. QED
    BY <2>1, <1>a DEF Losses
<1>s. ASSUME UNCHANGED <<out, queue>> PROVE Arrived' = Arrived /\ Numbers' = Numbers
  BY <1>s DEF Numbers, Arrived, msgs
<1>b. ASSUME UNCHANGED <<out, queue, seq, lost, gaps>> PROVE Losses'
  BY <1>1, <1>2, <1>a, <1>b, <1>s, <1>w
<1>5. CASE Connect \/ Tick \/ Enter \/ PollTimesOut \/ UNCHANGED vars
  BY <1>5, <1>b DEF Connect, Tick, Enter, PollTimesOut, vars, publisher, capture
<1>6. CASE Restart
  <2>1. UNCHANGED <<out, queue, lost, gaps>> /\ seq' = 0
    BY <1>6 DEF Restart, capture
  <2>2. Expected(now, 0) <= Expected(now, seq)
    BY <1>2, <1>3 DEF Expected, Missing, None
  <2>3. Expected(now, seq') <= lost'
    <3>1. Expected(now, 0) \in Nat /\ Expected(now, seq) \in Nat
      BY <1>2, <1>4
    <3>2. QED
      BY <2>1, <2>2, <3>1, <1>1, <1>2, <1>w
  <2>4. QED
    BY <1>a, <1>s, <1>2, <2>1, <2>3
<1>7. ASSUME NEW shape \in Shapes, Publish(shape) PROVE Losses'
  <2>0. /\ gaps' = gaps
        /\ seq' = IF numbered THEN seq + 1 ELSE seq
        /\ Number = IF numbered THEN seq ELSE None
    BY <1>7 DEF Publish, capture, Number
  <2>n. Number \in Nat \cup {None}
    BY <2>0, <1>2
  <2>1. CASE lost' = lost
    <3>1. /\ Arrived' = Arrived + 1 /\ Numbers' \in [1..(Arrived + 1) -> Nat \cup {None}]
          /\ Numbers'[Arrived + 1] = Number
          /\ \A k \in 1..Arrived : Numbers'[k] = Numbers[k]
      BY <1>7, <2>1, QueuedNumbers
    <3>2. PICK h : Tally(h, Arrived + 1, Numbers') /\ h[Arrived + 1] = After(now, Number)
      BY <1>1, <1>2, <1>w, <2>n, <3>1, TallyExtends
    <3>3. Expected(After(now, Number), seq') = Expected(now, seq)
      <4>1. CASE numbered
        <5>1. Number = seq /\ seq' = seq + 1 /\ seq # None
          BY <4>1, <2>0, <1>2 DEF None
        <5>2. After(now, seq) = [last |-> seq, missing |-> Expected(now, seq)]
          BY <5>1 DEF After, Expected
        <5>3. Expected(now, seq) \in Nat
          BY <1>2, <1>4
        <5>4. Missing(seq, seq + 1) = 0
          BY <1>2 DEF Missing
        <5>5. Expected(After(now, seq), seq + 1) = Expected(now, seq) + 0
          BY <5>2, <5>4 DEF Expected
        <5>6. QED
          BY <5>1, <5>3, <5>5
      <4>2. CASE ~numbered
        BY <4>2, <2>0 DEF After
      <4>3. QED
        BY <4>1, <4>2
    <3>5. Tally(h, Arrived', Numbers') /\ Expected(h[Arrived'], seq') <= lost'
      BY <1>1, <1>w, <2>1, <3>1, <3>2, <3>3
    <3>6. QED
      BY <3>5, <2>0, <2>1, <1>2 DEF Losses
  <2>2. CASE lost' # lost
    <3>1. UNCHANGED <<out, queue>> /\ lost' = lost + 1
      BY <1>7, <2>2 DEF Publish, capture
    <3>2. Expected(now, seq + 1) <= Expected(now, seq) + 1
      BY <1>2, <1>3 DEF Expected, Missing, None
    <3>3. Expected(now, seq') <= lost'
      <4>1. Expected(now, seq + 1) \in Nat /\ Expected(now, seq) \in Nat
        BY <1>2, <1>4
      <4>2. Expected(now, seq) <= lost
        BY <1>1, <1>w
      <4>3. seq' = seq \/ seq' = seq + 1
        BY <2>0
      <4>4. CASE seq' = seq
        BY <4>1, <4>2, <4>4, <3>1, <1>2
      <4>5. CASE seq' = seq + 1
        BY <4>1, <4>2, <4>5, <3>1, <3>2, <1>2
      <4>6. QED
        BY <4>3, <4>4, <4>5
    <3>4. QED
      BY <1>a, <1>s, <1>2, <2>0, <3>1, <3>3
  <2>3. QED
    BY <2>1, <2>2
<1>8. CASE Receive
  <2>1. UNCHANGED <<seq, lost, gaps>>
    BY <1>8 DEF Receive, publisher
  <2>2. Arrived' = Arrived /\ Numbers' = Numbers
    BY <1>8, ReceivedNumbers
  <2>3. Expected(now, seq') <= lost'
    BY <1>1, <1>w, <2>1
  <2>4. QED
    BY <1>a, <1>2, <2>1, <2>2, <2>3
<1>9. CASE Report
  <2>1. gaps' = SeqGaps /\ UNCHANGED <<out, queue, seq, lost>>
    BY <1>9 DEF Report, publisher
  <2>2. SeqGaps = t[msgs].missing
    BY <1>1, <1>2, ReportedTally
  <2>3. t[msgs].missing \in Nat /\ t[msgs].missing <= now.missing
    BY <1>1, <1>2, <1>w, TallyGrows
  <2>4. gaps' \in Nat /\ gaps' <= lost'
    <3>1. Expected(now, seq) \in Nat /\ now.missing <= Expected(now, seq)
      BY <1>2, <1>4
    <3>2. now.missing <= lost
      BY <3>1, <1>1, <1>2, <1>3, <1>w
    <3>3. QED
      BY <3>2, <1>2, <1>3, <2>1, <2>2, <2>3
  <2>5. QED
    BY <1>a, <1>s, <1>1, <1>2, <1>w, <2>1, <2>4
<1>10. QED
  BY <1>5, <1>6, <1>7, <1>8, <1>9 DEF Next, Loop

-----------------------------------------------------------------------------
(***************************************************************************)
(* The theorems.                                                           *)
(***************************************************************************)

\* The invariant holds of every capture.
THEOREM Invariant == Spec => []IInv
<1>1. Init => IInv
  <2> SUFFICES ASSUME Init PROVE IInv
    OBVIOUS
  <2>1. /\ numbered \in BOOLEAN /\ seq = 0 /\ published = 0 /\ lost = 0 /\ elapsed = 0 /\ connected = FALSE
        /\ pc = "test" /\ queue = <<>> /\ out = <<>> /\ msgs = 0 /\ seen_signatures = {}
        /\ hex_stored = 0 /\ gaps = 0
    BY DEF Init, msgs
  <2>2. TypeOK
    <3>1. {seq, published, lost} \subseteq 0..MaxPublished /\ elapsed \in 0..Duration
      BY <2>1, KvCapAssumption
    <3>2. /\ queue \in Seq([seq : Nat \cup {None}, shape : Shapes]) /\ Len(queue) <= QueueLimit
          /\ out \in Seq([seq : Nat \cup {None}, shape : Shapes, hex : BOOLEAN])
          /\ msgs <= MaxMsgs
      BY <2>1, KvCapAssumption, EmptySeq
    <3>3. QED
      BY <2>1, <3>1, <3>2 DEF TypeOK
  <2>3. Limit
    <3>1. Payloads = {} /\ seen_signatures = {Signature(out[k].shape) : k \in 1..msgs}
      BY <2>1 DEF Payloads
    <3>2. QED
      BY <2>1, <3>1, FS_EmptySet DEF Limit
  <2>4. Losses
    <3> DEFINE t == [k \in Nat |-> [last |-> None, missing |-> 0]]
    <3>1. Arrived = 0
      BY <2>1 DEF Arrived
    <3>2. t \in [Nat -> Counts] /\ t[0] = [last |-> None, missing |-> 0]
      BY DEF Counts
    <3> HIDE DEF t
    <3>3. Tally(t, 0, Numbers) /\ Expected(t[0], seq) = 0
      <4>1. Expected(t[0], seq) = 0
        BY <3>2 DEF Expected, Missing
      <4>2. QED
        BY <3>2, <4>1 DEF Tally
    <3>4. QED
      BY <2>1, <3>1, <3>3 DEF Losses
  <2>5. Room /\ Novelty
    BY <2>1 DEF Room, Novelty
  <2>6. QED
    BY <2>2, <2>3, <2>4, <2>5 DEF IInv
<1>2. IInv /\ [Next]_vars => IInv'
  BY TypeStep, NoveltyStep, LimitStep, LossesStep DEF IInv
<1>3. QED
  BY <1>1, <1>2, PTL DEF Spec

\* Every variable keeps its type, and no more messages are captured than asked.
THEOREM TypeCorrect == Spec => []TypeOK
<1>1. IInv => TypeOK
  BY DEF IInv
<1>2. QED
  BY <1>1, Invariant, PTL

\* Whatever the limit and the order of arrival, every list shape that arrived
\* has a full payload in the file.
THEOREM ListShapesStored == Spec => []ListShapesAreKept
<1>1. ASSUME IInv, NEW s \in Captured(ListShapes) PROVE s \in Kept(ListShapes)
  <2>1. PICK k \in 1..msgs : out[k].shape = s
    BY DEF Captured
  <2>2. s \in ListShapes
    BY DEF Captured
  <2>3. Signature(s) = {s}
    BY <2>2 DEF Signature
  <2>4. {s} \in seen_signatures
    BY <1>1, <2>1, <2>3 DEF IInv, Novelty
  <2>5. QED
    BY <1>1, <2>2, <2>4 DEF IInv, Novelty, Kept
<1>2. Kept(ListShapes) \subseteq Captured(ListShapes)
  BY DEF Kept, Captured
<1>3. IInv => ListShapesAreKept
  BY <1>1, <1>2 DEF ListShapesAreKept
<1>4. QED
  BY <1>3, Invariant, PTL

\* Whatever was lost, restarted or still waits in the queue, the report counts
\* no gap that is not a message published and never captured.
THEOREM NoFalseGap == Spec => []GapsAreLosses
<1>1. IInv => GapsAreLosses
  BY DEF IInv, Losses, GapsAreLosses
<1>2. QED
  BY <1>1, Invariant, PTL

\* Signatures are those of the list shapes that arrived, and the empty one.
LEMMA FewSignatures ==
  ASSUME IInv
  PROVE  /\ Cardinality(Captured(ListShapes)) \in Nat
         /\ Cardinality(seen_signatures) \in Nat
         /\ Cardinality(seen_signatures) <= Cardinality(Captured(ListShapes)) + 1
<1> DEFINE C == Captured(ListShapes)
           K == {k \in 1..msgs : out[k].shape \in ListShapes}
           T == {{s} : s \in C}
           f == [k \in K |-> out[k].shape]
           h == [s \in C |-> {s}]
<1>1. msgs \in Nat
  BY DEF IInv, TypeOK, msgs
<1>2. IsFiniteSet(K)
  <2>1. IsFiniteSet(1..msgs) /\ K \in SUBSET (1..msgs)
    BY <1>1, FS_Interval
  <2>2. QED
    BY <2>1, FS_Subset
<1>3. f \in Surjection(K, C)
  BY DEF Surjection, Captured
<1>4. IsFiniteSet(C)
  BY <1>2, <1>3, FS_Surjection
<1>5. h \in Surjection(C, T)
  BY DEF Surjection
<1>6. IsFiniteSet(T) /\ Cardinality(T) <= Cardinality(C)
  BY <1>4, <1>5, FS_Surjection
<1>7. seen_signatures \subseteq T \cup {{}}
  <2>1. ASSUME NEW k \in 1..msgs PROVE Signature(out[k].shape) \in T \cup {{}}
    BY DEF Signature, Captured
  <2>2. QED
    BY <2>1 DEF IInv, Limit
<1> HIDE DEF C, T
<1>8. IsFiniteSet(T \cup {{}}) /\ Cardinality(T \cup {{}}) <= Cardinality(T) + 1
  <2>1. Cardinality(T) \in Nat
    BY <1>6, FS_CardinalityType
  <2>2. /\ IsFiniteSet(T \cup {{}})
        /\ Cardinality(T \cup {{}}) = IF {} \in T THEN Cardinality(T) ELSE Cardinality(T) + 1
    BY <1>6, FS_AddElement
  <2>3. QED
    BY <2>1, <2>2
<1>9. Cardinality(seen_signatures) <= Cardinality(T \cup {{}}) /\ IsFiniteSet(seen_signatures)
  BY <1>7, <1>8, FS_Subset
<1>10. QED
  BY <1>4, <1>6, <1>8, <1>9, FS_CardinalityType DEF C

\* The file holds at most the limit, and one payload more for each signature
\* that arrived, for any number of shapes.
THEOREM FileBounded == Spec => []FileIsBounded
<1>1. ASSUME IInv PROVE FileIsBounded
  <2>1. /\ hex_stored = Cardinality(Payloads)
        /\ IF seen_signatures = {} THEN hex_stored = 0
           ELSE hex_stored <= Cardinality(seen_signatures)
                              + (IF HexLimit = 0 THEN 0 ELSE HexLimit - 1)
    BY <1>1 DEF IInv, Limit
  <2>2. HexLimit \in Nat /\ hex_stored \in Nat
    BY <1>1, <2>1, KvCapAssumption, FS_CardinalityType DEF IInv, Limit
  <2>3. hex_stored <= Cardinality(Captured(ListShapes))
                      + (IF HexLimit = 0 THEN 1 ELSE HexLimit)
    BY <1>1, <2>1, <2>2, FewSignatures
  <2>4. QED
    BY <2>1, <2>3 DEF FileIsBounded, Payloads
<1>2. QED
  BY <1>1, Invariant, PTL
-----------------------------------------------------------------------------
(***************************************************************************)
(* What the liveness property rests on, but for the loop being run.        *)
(***************************************************************************)

\* Every published message is in the file, waiting for the loop or lost.
Balanced == published = msgs + Len(queue) + lost

\* The steps the loop has before it when its time is up.
StepsLeft == CASE pc = "poll" -> 2 [] pc = "test" -> 1 [] OTHER -> 0

\* No message is both counted lost and captured, and none is forgotten: also
\* not one that is queued when the publisher restarts.
THEOREM NothingIsMislaid == Spec => []Balanced
<1>1. Init => Balanced
  BY DEF Init, Balanced, msgs
<1>2. IInv /\ Balanced /\ [Next]_vars => Balanced'
  <2> SUFFICES ASSUME IInv, Balanced, [Next]_vars PROVE Balanced'
    OBVIOUS
  <2>0. /\ published \in Nat /\ lost \in Nat /\ msgs \in Nat /\ Len(queue) \in Nat
        /\ queue \in Seq([seq : Nat \cup {None}, shape : Shapes]) /\ published = msgs + Len(queue) + lost
    BY DEF IInv, TypeOK, msgs, Balanced
  <2>1. ASSUME UNCHANGED <<published, queue, out, lost>> PROVE Balanced'
    BY <2>0, <2>1 DEF Balanced, msgs
  <2>2. ASSUME NEW shape \in Shapes, Publish(shape) PROVE Balanced'
    <3>1. published' = published + 1 /\ msgs' = msgs
      BY <2>2 DEF Publish, capture, msgs
    <3>2. CASE lost' = lost + 1 /\ UNCHANGED queue
      BY <2>0, <3>1, <3>2 DEF Balanced
    <3>3. CASE queue' = Append(queue, [seq |-> Number, shape |-> shape]) /\ UNCHANGED lost
      <4>1. Len(queue') = Len(queue) + 1
        BY <2>0, <3>3
      <4>2. QED
        BY <2>0, <3>1, <3>3, <4>1 DEF Balanced
    <3>4. QED
      BY <2>2, <3>2, <3>3 DEF Publish
  <2>3. CASE Receive
    <3>1. msgs' = msgs + 1
      BY <2>3, ReceiveAppends DEF IInv
    <3>2. queue # <<>> /\ queue' = Tail(queue) /\ UNCHANGED <<published, lost>>
      BY <2>3 DEF Receive, publisher
    <3>3. Len(queue') = Len(queue) - 1
      BY <2>0, <3>2, HeadTailProperties
    <3>4. QED
      BY <2>0, <3>1, <3>2, <3>3 DEF Balanced
  <2>4. CASE Connect \/ Restart \/ Tick \/ Enter \/ PollTimesOut \/ Report \/ UNCHANGED vars
    BY <2>1, <2>4
       DEF Connect, Restart, Tick, Enter, PollTimesOut, Report, vars, publisher, capture
  <2>5. QED
    BY <2>2, <2>3, <2>4 DEF Next, Loop
<1>3. QED
  BY <1>1, <1>2, Invariant, PTL DEF Spec

\* Once the duration has passed each step of the loop brings the report nearer,
\* and nobody's step takes it away: a full queue, a flooding publisher and a
\* restart cost two steps at most.
THEOREM ReportIsNear ==
  Spec => [][elapsed = Duration =>
               /\ elapsed' = Duration /\ StepsLeft' <= StepsLeft
               /\ Loop => StepsLeft' < StepsLeft]_vars
<1>1. IInv /\ Next /\ elapsed = Duration =>
        /\ elapsed' = Duration /\ StepsLeft' <= StepsLeft
        /\ Loop => StepsLeft' < StepsLeft
  <2> SUFFICES ASSUME IInv, Next, elapsed = Duration
               PROVE  /\ elapsed' = Duration /\ StepsLeft' <= StepsLeft
                      /\ Loop => StepsLeft' < StepsLeft
    OBVIOUS
  <2>1. StepsLeft \in Int /\ Duration \in Nat
    BY KvCapAssumption DEF StepsLeft
  <2>2. CASE Loop
    <3>1. elapsed' = elapsed
      BY <2>2 DEF Loop, Enter, PollTimesOut, Receive, Report
    <3>2. StepsLeft' < StepsLeft /\ StepsLeft' <= StepsLeft
      BY <2>1, <2>2 DEF Loop, Enter, PollTimesOut, Receive, Report, StepsLeft
    <3>3. QED
      BY <3>1, <3>2
  <2>3. CASE ~Loop
    <3>1. ~Tick
      BY <2>1 DEF Tick
    <3>2. UNCHANGED <<elapsed, pc>>
      BY <2>3, <3>1 DEF Next, Connect, Restart, Publish
    <3>3. StepsLeft' = StepsLeft
      BY <3>2 DEF StepsLeft
    <3>4. QED
      BY <2>1, <2>3, <3>2, <3>3
  <2>4. QED
    BY <2>2, <2>3
<1>2. QED
  BY <1>1, Invariant, PTL DEF Spec
=============================================================================
