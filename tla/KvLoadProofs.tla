---------------------------- MODULE KvLoadProofs ----------------------------
(***************************************************************************)
(* Theorems about KvLoad, for every set of workers and every budget.       *)
(***************************************************************************)
EXTENDS KvLoad, FiniteSetTheorems, TLAPS

-----------------------------------------------------------------------------
(***************************************************************************)
(* The inductive invariant, in the parts the proof needs.                  *)
(***************************************************************************)

\* Only the holder of the lock is between its check and its claim, so what it
\* has read of the counters is so still.
ClaimsAreLocked ==
  \A w \in Workers :
    pc[w] = "claiming" => lock = {w} /\ n[w] = done /\ done + err < Requests

\* A worker leaves only when the budget is spent, and it stays spent.
SpentWhenStopped == \A w \in Workers : pc[w] = "stopped" => done + err >= Requests

\* The numbers given out are 1 to done: some were posted, and the others are
\* each about to be posted by one worker.
NumbersAccounted ==
  /\ posted \subseteq 1..done
  /\ \A k \in 1..done : k \in posted \/ \E w \in Workers : pc[w] = "posting" /\ n[w] = k
  /\ \A w \in InFlight : n[w] \in 1..done

\* Every counted error is a request's that is no longer in flight.
ErrorsAccounted == err + Cardinality(InFlight) <= done

IInv == /\ TypeOK /\ ClaimsAreLocked /\ SpentWhenStopped
        /\ NumbersAccounted /\ NumbersAreDistinct
        /\ ErrorsAccounted /\ BudgetIsKept /\ ResetFollowsAllTraffic

-----------------------------------------------------------------------------
\* The workers in flight are a finite set, never larger than all of them.
LEMMA InFlightFinite ==
  /\ IsFiniteSet(InFlight)
  /\ Cardinality(InFlight) \in Nat /\ Cardinality(Workers) \in Nat
  /\ Cardinality(InFlight) <= Cardinality(Workers)
<1>1. InFlight \subseteq Workers
  BY DEF InFlight
<1>2. QED
  BY <1>1, KvLoadAssumption, FS_Subset, FS_CardinalityType

\* The same of the workers in flight after a step.
LEMMA InFlightFiniteNext ==
  /\ Cardinality(InFlight') \in Nat
  /\ Cardinality(InFlight') <= Cardinality(Workers)
<1>1. InFlight' \subseteq Workers
  BY DEF InFlight
<1>2. QED
  BY <1>1, KvLoadAssumption, FS_Subset, FS_CardinalityType

\* A claim puts one worker more in flight.
LEMMA EntersFlight ==
  ASSUME NEW w \in Workers, TypeOK, w \notin InFlight, Goto(w, "posting")
  PROVE  Cardinality(InFlight') = Cardinality(InFlight) + 1
<1>1. InFlight' = InFlight \cup {w}
  BY DEF InFlight, Goto, TypeOK
<1>2. QED
  BY <1>1, InFlightFinite, FS_AddElement

\* A worker that goes on to anything but a failure's counting leaves it.
LEMMA LeavesFlight ==
  ASSUME NEW w \in Workers, TypeOK, w \in InFlight,
         NEW where \in {"looping", "dead"}, Goto(w, where)
  PROVE  Cardinality(InFlight') = Cardinality(InFlight) - 1
<1>1. InFlight' = InFlight \ {w}
  BY DEF InFlight, Goto, TypeOK
<1>2. QED
  BY <1>1, InFlightFinite, FS_RemoveElement

\* The invariant holds before any worker has moved.
LEMMA InitInvariant == Init => IInv
<1> SUFFICES ASSUME Init PROVE IInv
  OBVIOUS
<1>1. InFlight = {} /\ Cardinality(InFlight) = 0
  BY FS_EmptySet DEF Init, InFlight
<1>2. TypeOK
  BY KvLoadAssumption DEF Init, TypeOK, Paths
<1>3. BudgetIsKept /\ ErrorsAccounted
  BY <1>1, KvLoadAssumption, InFlightFinite DEF Init, BudgetIsKept, ErrorsAccounted
<1>4. QED
  BY <1>1, <1>2, <1>3
     DEF Init, IInv, ClaimsAreLocked, SpentWhenStopped, NumbersAccounted,
         NumbersAreDistinct, ResetFollowsAllTraffic

\* Every step of a worker and of the main thread preserves the invariant.
LEMMA StepInvariant == IInv /\ [Next]_vars => IInv'
<1> SUFFICES ASSUME IInv, [Next]_vars PROVE IInv'
  OBVIOUS
<1> USE KvLoadAssumption DEF IInv
<1>a. /\ done \in Nat /\ err \in Nat /\ Requests \in Nat /\ TypeOK
      /\ Cardinality(InFlight) \in Nat
  BY InFlightFinite DEF TypeOK
<1>1. ASSUME NEW w \in Workers, Acquire(w) PROVE IInv'
  <2> USE <1>1 DEF Acquire, Goto
  <2>1. TypeOK'
    BY DEF TypeOK
  <2>2. InFlight' = InFlight
    BY DEF InFlight, TypeOK
  <2>3. main' = "joining"
    BY DEF ResetFollowsAllTraffic, Idle
  <2>4. ClaimsAreLocked' /\ SpentWhenStopped'
    BY DEF ClaimsAreLocked, SpentWhenStopped, TypeOK
  <2>a. \A v \in Workers : pc'[v] = "posting" <=> pc[v] = "posting"
    BY DEF TypeOK
  <2>b. \A v \in Workers : v \in InFlight \/ pc[v] = "posting" => n'[v] = n[v]
    BY DEF TypeOK, InFlight
  <2>c. done' = done /\ posted' = posted
    OBVIOUS
  <2>d. InFlight \subseteq Workers
    BY DEF InFlight
  <2>5. NumbersAccounted' /\ NumbersAreDistinct'
    <3> HIDE <1>1 DEF Acquire, Goto
    <3>1. NumbersAccounted'
      <4>1. ASSUME NEW k \in 1..done, k \notin posted
            PROVE  \E v \in Workers : pc'[v] = "posting" /\ n'[v] = k
        BY <2>a, <2>b, <4>1 DEF NumbersAccounted
      <4>2. \A v \in InFlight' : n'[v] \in 1..done'
        BY <2>2, <2>b, <2>c, <2>d DEF NumbersAccounted
      <4>3. QED
        BY <2>c, <4>1, <4>2 DEF NumbersAccounted
    <3>2. NumbersAreDistinct'
      BY <2>2, <2>a, <2>b, <2>c, <2>d DEF NumbersAreDistinct
    <3>3. QED
      BY <3>1, <3>2
  <2>6. QED
    BY <2>1, <2>2, <2>3, <2>4, <2>5
       DEF ErrorsAccounted, BudgetIsKept, ResetFollowsAllTraffic
<1>2. ASSUME NEW w \in Workers, Claim(w) PROVE IInv'
  <2>1. done + err < Requests /\ lock = {w} /\ n[w] = done /\ pc[w] = "claiming"
    BY <1>2 DEF Claim, ClaimsAreLocked
  <2>2. /\ done' = done + 1 /\ n' = [n EXCEPT ![w] = done + 1]
        /\ lock' = {} /\ Goto(w, "posting")
        /\ UNCHANGED <<err, main, path, posted>>
    BY <1>2, <2>1 DEF Claim
  <2>3. TypeOK'
    BY <1>a, <2>1, <2>2 DEF TypeOK, Goto
  <2>4. InFlight' = InFlight \cup {w} /\ w \notin InFlight
    BY <2>1, <2>2 DEF InFlight, TypeOK, Goto
  <2>5. Cardinality(InFlight') = Cardinality(InFlight) + 1
    BY <2>2, <2>4, EntersFlight
  <2>6. main' = "joining"
    BY <2>1, <2>2 DEF ResetFollowsAllTraffic, Idle
  <2>7. ClaimsAreLocked'
    <3>1. \A v \in Workers : pc[v] = "claiming" => v = w
      BY <2>1 DEF ClaimsAreLocked
    <3>2. QED
      BY <2>2, <3>1 DEF ClaimsAreLocked, TypeOK, Goto
  <2>8. SpentWhenStopped'
    BY <1>a, <2>2 DEF SpentWhenStopped, TypeOK, Goto
  <2>9. /\ InFlight \subseteq Workers /\ n'[w] = done + 1 /\ pc'[w] = "posting"
        /\ \A v \in Workers : v # w => n'[v] = n[v] /\ pc'[v] = pc[v]
    BY <2>2 DEF InFlight, TypeOK, Goto
  <2>10. NumbersAccounted'
    <3>1. posted' = posted /\ pc[w] # "posting"
      BY <2>1, <2>2
    <3>2. QED
      BY <1>a, <2>2, <2>4, <2>9, <3>1 DEF NumbersAccounted
  <2>11. NumbersAreDistinct'
    <3>1. \A v \in InFlight : n'[v] = n[v] /\ n[v] \in 1..done
      BY <2>4, <2>9 DEF NumbersAccounted
    <3>2. \A u, v \in InFlight' : n'[u] = n'[v] => u = v
      BY <1>a, <2>4, <2>9, <3>1 DEF NumbersAreDistinct
    <3>3. \A v \in Workers : pc'[v] = "posting" => n'[v] \notin posted'
      BY <1>a, <2>2, <2>9 DEF NumbersAccounted, NumbersAreDistinct
    <3>4. QED
      BY <3>2, <3>3 DEF NumbersAreDistinct
  <2>12. ErrorsAccounted' /\ BudgetIsKept'
    BY <1>a, <2>1, <2>2, <2>5, InFlightFiniteNext, InFlightFinite
       DEF ErrorsAccounted, BudgetIsKept
  <2>13. QED
    BY <2>3, <2>6, <2>7, <2>8, <2>10, <2>11, <2>12 DEF ResetFollowsAllTraffic
<1>3. ASSUME NEW w \in Workers, PostOk(w) \/ PostKills(w) PROVE IInv'
  <2> DEFINE where == pc'[w]
  <2>1. where \in {"looping", "dead"} /\ Goto(w, where) /\ pc[w] = "posting"
    BY <1>3 DEF PostOk, PostKills, Goto, TypeOK
  <2>2. posted' = posted \cup {n[w]} /\ UNCHANGED <<n, done, err, lock, main, path>>
    BY <1>3 DEF PostOk, PostKills
  <2> HIDE DEF where
  <2>3. InFlight' = InFlight \ {w} /\ w \in InFlight
    BY <2>1 DEF InFlight, Goto, TypeOK
  <2>4. Cardinality(InFlight') = Cardinality(InFlight) - 1
    BY <2>1, <2>3, LeavesFlight
  <2>5. n[w] \in 1..done /\ n[w] \in 1..Requests
    BY <1>a, <2>3 DEF NumbersAccounted, TypeOK
  <2>6. TypeOK'
    BY <1>a, <2>1, <2>2, <2>5 DEF TypeOK, Goto
  <2>7. main' = "joining"
    BY <2>1, <2>2 DEF ResetFollowsAllTraffic, Idle
  <2>8. ClaimsAreLocked' /\ SpentWhenStopped'
    BY <2>1, <2>2 DEF ClaimsAreLocked, SpentWhenStopped, TypeOK, Goto
  <2>9. NumbersAccounted'
    BY <2>1, <2>2, <2>3, <2>5 DEF NumbersAccounted, TypeOK, Goto
  <2>10. NumbersAreDistinct'
    BY <2>1, <2>2, <2>3 DEF NumbersAreDistinct, TypeOK, Goto, InFlight
  <2>11. ErrorsAccounted' /\ BudgetIsKept'
    BY <1>a, <2>2, <2>4, InFlightFinite DEF ErrorsAccounted, BudgetIsKept
  <2>12. QED
    BY <2>6, <2>7, <2>8, <2>9, <2>10, <2>11 DEF ResetFollowsAllTraffic
<1>4. ASSUME NEW w \in Workers, PostFails(w) PROVE IInv'
  <2> USE <1>4 DEF PostFails, Goto
  <2>1. InFlight' = InFlight /\ w \in InFlight
    BY DEF InFlight, TypeOK
  <2>2. n[w] \in 1..done /\ n[w] \in 1..Requests
    BY <1>a, <2>1 DEF NumbersAccounted, TypeOK
  <2>3. TypeOK'
    BY <1>a, <2>2 DEF TypeOK
  <2>4. main' = "joining"
    BY DEF ResetFollowsAllTraffic, Idle
  <2>5. ClaimsAreLocked' /\ SpentWhenStopped'
    BY DEF ClaimsAreLocked, SpentWhenStopped, TypeOK
  <2>6. NumbersAccounted'
    BY <2>1, <2>2 DEF NumbersAccounted, TypeOK
  <2>7. NumbersAreDistinct'
    BY <2>1 DEF NumbersAreDistinct, TypeOK, InFlight
  <2>8. QED
    BY <2>1, <2>3, <2>4, <2>5, <2>6, <2>7
       DEF ErrorsAccounted, BudgetIsKept, ResetFollowsAllTraffic
<1>5. ASSUME NEW w \in Workers, CountError(w) PROVE IInv'
  <2> USE <1>5 DEF CountError
  <2>1. InFlight' = InFlight \ {w} /\ w \in InFlight
    BY DEF InFlight, TypeOK, Goto
  <2>2. Cardinality(InFlight') = Cardinality(InFlight) - 1
    BY <2>1, LeavesFlight
  <2>3. ErrorsAccounted' /\ BudgetIsKept'
    BY <1>a, <2>2, InFlightFinite DEF ErrorsAccounted, BudgetIsKept
  <2>4. TypeOK'
    BY <1>a, <2>3, InFlightFiniteNext DEF TypeOK, Goto, ErrorsAccounted
  <2>5. main' = "joining"
    BY DEF ResetFollowsAllTraffic, Idle
  <2>6. ClaimsAreLocked' /\ SpentWhenStopped'
    BY <1>a DEF ClaimsAreLocked, SpentWhenStopped, TypeOK, Goto
  <2>7. NumbersAccounted' /\ NumbersAreDistinct'
    BY <2>1 DEF NumbersAccounted, NumbersAreDistinct, TypeOK, Goto
  <2>8. QED
    BY <2>3, <2>4, <2>5, <2>6, <2>7 DEF ResetFollowsAllTraffic
<1>6. CASE Join
  <2> USE <1>6 DEF Join
  <2>1. InFlight' = InFlight
    BY DEF InFlight
  <2>2. TypeOK' /\ ClaimsAreLocked' /\ SpentWhenStopped'
    BY DEF TypeOK, ClaimsAreLocked, SpentWhenStopped
  <2>3. NumbersAccounted' /\ NumbersAreDistinct' /\ ErrorsAccounted' /\ BudgetIsKept'
    BY <2>1 DEF NumbersAccounted, NumbersAreDistinct, ErrorsAccounted, BudgetIsKept
  <2>4. ResetFollowsAllTraffic'
    BY DEF ResetFollowsAllTraffic, SpentWhenStopped, Idle
  <2>5. QED
    BY <2>2, <2>3, <2>4
<1>7. CASE Reset \/ UNCHANGED vars
  <2>1. /\ UNCHANGED <<pc, n, done, err, lock, posted>>
        /\ main # "joining" \/ UNCHANGED main
    BY <1>7 DEF Reset, vars
  <2>p. path' \in 1..Len(Paths) /\ main' \in {"joining", "resetting", "exited"}
    BY <1>7 DEF Reset, vars, TypeOK, Paths
  <2>t. TypeOK'
    BY <2>1, <2>p DEF TypeOK
  <2>2. InFlight' = InFlight
    BY <2>1 DEF InFlight
  <2>3. ClaimsAreLocked' /\ SpentWhenStopped'
    BY <2>1 DEF ClaimsAreLocked, SpentWhenStopped
  <2>4. NumbersAccounted' /\ NumbersAreDistinct' /\ ErrorsAccounted' /\ BudgetIsKept'
    BY <2>1, <2>2 DEF NumbersAccounted, NumbersAreDistinct, ErrorsAccounted, BudgetIsKept
  <2>5. ResetFollowsAllTraffic'
    BY <2>1 DEF ResetFollowsAllTraffic, Idle
  <2>6. QED
    BY <2>t, <2>3, <2>4, <2>5
<1>8. QED
  BY <1>1, <1>2, <1>3, <1>4, <1>5, <1>6, <1>7 DEF Next, WorkerStep

-----------------------------------------------------------------------------
\* The inductive invariant holds throughout every run of the load generator.
THEOREM Invariant == Spec => []IInv
<1>1. QED
  BY InitInvariant, StepInvariant, PTL DEF Spec

\* The counters, the numbers and the lock keep their types; in particular no
\* more errors are counted than requests.
THEOREM TypeCorrect == Spec => []TypeOK
<1>1. IInv => TypeOK
  BY DEF IInv
<1>2. QED
  BY <1>1, Invariant, PTL

\* However many workers share the budget, no two requests carry one number.
THEOREM DistinctNumbers == Spec => []NumbersAreDistinct
<1>1. IInv => NumbersAreDistinct
  BY DEF IInv
<1>2. QED
  BY <1>1, Invariant, PTL

\* The budget is overspent by at most one for each worker.
THEOREM KeptBudget == Spec => []BudgetIsKept
<1>1. IInv => BudgetIsKept
  BY DEF IInv
<1>2. QED
  BY <1>1, Invariant, PTL

\* The engine is never asked to reset while a request is in flight.
THEOREM ResetIsLast == Spec => []ResetFollowsAllTraffic
<1>1. IInv => ResetFollowsAllTraffic
  BY DEF IInv
<1>2. QED
  BY <1>1, Invariant, PTL

\* The closing line states as many requests as were posted.
THEOREM TrueSummary == Spec => []SummaryIsTrue
<1>1. ASSUME IInv PROVE SummaryIsTrue
  <2> SUFFICES ASSUME main # "joining" PROVE Cardinality(posted) = done /\ err <= done
    BY DEF SummaryIsTrue
  <2>1. \A w \in Workers : pc[w] # "posting"
    BY <1>1 DEF IInv, ResetFollowsAllTraffic, Idle
  <2>2. posted = 1..done
    BY <1>1, <2>1 DEF IInv, NumbersAccounted
  <2>3. done \in Nat /\ err <= done
    BY <1>1, KvLoadAssumption DEF IInv, TypeOK
  <2>4. QED
    BY <2>2, <2>3, FS_Interval
<1>2. QED
  BY <1>1, Invariant, PTL
-----------------------------------------------------------------------------
(***************************************************************************)
(* Why the load ends.  Each step lowers what is left to do, whichever      *)
(* worker takes it and however its request ends; and until the main thread *)
(* has exited somebody can take a step: the lock is never left behind by a *)
(* worker that stopped, died or went on.                                   *)
(***************************************************************************)
Count(K) == Cardinality({w \in Workers : pc[w] \in K})

\* A worker's part is 4 while it posts, 3 while it owes an error, 2 before its
\* check, 1 before its claim; a claim takes 4 from the budget's part.
WorkLeft ==
  4 * (Requests - done)
    + Count({"looping", "claiming", "posting", "failing"})
    + Count({"looping", "posting", "failing"})
    + Count({"posting", "failing"})
    + Count({"posting"})

MainLeft == CASE main = "joining" -> Len(Paths) + 1
              [] main = "resetting" -> Len(Paths) + 1 - path
              [] main = "exited" -> 0

Effort == WorkLeft + MainLeft

LockIsHeld == \A w \in lock : pc[w] = "claiming"

\* The guard of some worker's step, of the join or of the reset.
SomebodyCan ==
  \/ \E w \in Workers :
       \/ pc[w] \in {"claiming", "posting"}
       \/ pc[w] \in {"looping", "failing"} /\ lock = {}
  \/ main = "joining" /\ \A w \in Workers : Idle(w)
  \/ main = "resetting"

\* A worker that goes elsewhere leaves one place and enters another.
LEMMA Moves ==
  ASSUME TypeOK, NEW w \in Workers, NEW to, Goto(w, to), NEW K
  PROVE  /\ Count(K) \in Nat
         /\ Count(K)' = Count(K) - (IF pc[w] \in K THEN 1 ELSE 0)
                                 + (IF to \in K THEN 1 ELSE 0)
<1> DEFINE S == {v \in Workers : pc[v] \in K}
           T == {v \in Workers : pc'[v] \in K}
<1>1. S \subseteq Workers /\ IsFiniteSet(S) /\ Cardinality(S) \in Nat
  BY KvLoadAssumption, FS_Subset, FS_CardinalityType
<1>2. /\ pc'[w] = to
      /\ \A v \in Workers \ {w} : pc'[v] = pc[v]
  BY DEF Goto, TypeOK
<1>3. CASE pc[w] \in K /\ to \notin K
  <2>1. T = S \ {w} /\ w \in S
    BY <1>2, <1>3
  <2>2. Cardinality(T) = Cardinality(S) - 1
    BY <1>1, <2>1, FS_RemoveElement
  <2>3. QED
    BY <1>1, <1>3, <2>2 DEF Count
<1>4. CASE pc[w] \notin K /\ to \in K
  <2>1. T = S \cup {w} /\ w \notin S
    BY <1>2, <1>4
  <2>2. Cardinality(T) = Cardinality(S) + 1
    BY <1>1, <2>1, FS_AddElement
  <2>3. QED
    BY <1>1, <1>4, <2>2 DEF Count
<1>5. CASE (pc[w] \in K /\ to \in K) \/ (pc[w] \notin K /\ to \notin K)
  <2>1. T = S
    BY <1>2, <1>5
  <2>2. Count(K)' = Count(K) /\ Count(K) \in Nat
    BY <1>1, <2>1 DEF Count
  <2>3. QED
    BY <1>5, <2>2
<1>6. QED
  BY <1>3, <1>4, <1>5

\* The counts of the workers are numbers in every state.
LEMMA CountType ==
  ASSUME NEW K
  PROVE  Count(K) \in Nat
<1>1. {w \in Workers : pc[w] \in K} \subseteq Workers
  OBVIOUS
<1>2. QED
  BY <1>1, KvLoadAssumption, FS_Subset, FS_CardinalityType DEF Count

\* What is left to do is a natural number.
LEMMA EffortType == TypeOK => WorkLeft \in Nat /\ MainLeft \in Nat /\ Effort \in Nat
<1> SUFFICES ASSUME TypeOK PROVE WorkLeft \in Nat /\ MainLeft \in Nat /\ Effort \in Nat
  OBVIOUS
<1>1. 4 * (Requests - done) \in Nat
  BY KvLoadAssumption DEF TypeOK
<1>2. WorkLeft \in Nat
  BY <1>1, CountType DEF WorkLeft
<1>3. MainLeft \in Nat
  BY DEF MainLeft, TypeOK, Paths
<1>4. QED
  BY <1>2, <1>3 DEF Effort

\* A worker's step takes from the work that is left.
LEMMA WorkerDescends ==
  ASSUME IInv, NEW w \in Workers, WorkerStep(w)
  PROVE  WorkLeft' \in Int /\ WorkLeft' < WorkLeft /\ MainLeft' = MainLeft
<1> DEFINE A == {"looping", "claiming", "posting", "failing"}
           B == {"looping", "posting", "failing"}
           C == {"posting", "failing"}
           D == {"posting"}
           one(x, K) == IF x \in K THEN 1 ELSE 0
<1>t. TypeOK /\ Requests \in Nat /\ done \in Nat
  BY KvLoadAssumption DEF IInv, TypeOK
<1>m. MainLeft' = MainLeft
  BY DEF WorkerStep, Acquire, Claim, PostOk, PostFails, CountError, PostKills, MainLeft
<1>1. ASSUME NEW to, Goto(w, to),
             \/ /\ done' = done
                /\ \/ pc[w] = "looping" /\ to \in {"stopped", "claiming"}
                   \/ pc[w] = "posting" /\ to \in {"looping", "failing", "dead"}
                   \/ pc[w] = "failing" /\ to = "looping"
             \/ done' = done + 1 /\ pc[w] = "claiming" /\ to = "posting"
      PROVE  WorkLeft' \in Int /\ WorkLeft' < WorkLeft
  <2>1. /\ Count(A) \in Nat /\ Count(B) \in Nat /\ Count(C) \in Nat /\ Count(D) \in Nat
        /\ Count(A)' = Count(A) - one(pc[w], A) + one(to, A)
        /\ Count(B)' = Count(B) - one(pc[w], B) + one(to, B)
        /\ Count(C)' = Count(C) - one(pc[w], C) + one(to, C)
        /\ Count(D)' = Count(D) - one(pc[w], D) + one(to, D)
    BY <1>t, <1>1, Moves
  <2>2. CASE done' = done
    BY <1>t, <1>1, <2>1, <2>2 DEF WorkLeft
  <2>3. CASE done' = done + 1
    BY <1>t, <1>1, <2>1, <2>3 DEF WorkLeft
  <2>4. QED
    BY <1>1, <2>2, <2>3
<1>2. CASE Acquire(w)
  <2>1. PICK to \in {"stopped", "claiming"} : Goto(w, to)
    BY <1>2 DEF Acquire
  <2>2. pc[w] = "looping" /\ done' = done
    BY <1>2 DEF Acquire
  <2>3. QED
    BY <1>1, <1>m, <2>1, <2>2
<1>3. CASE Claim(w)
  <2>1. pc[w] = "claiming" /\ n[w] = done /\ done' = n[w] + 1 /\ Goto(w, "posting")
    BY <1>3 DEF Claim, IInv, ClaimsAreLocked
  <2>2. QED
    BY <1>1, <1>m, <2>1
<1>4. CASE PostOk(w) \/ PostFails(w) \/ PostKills(w) \/ CountError(w)
  <2>1. CASE CountError(w)
    BY <1>1, <1>m, <2>1 DEF CountError
  <2>2. CASE PostOk(w) \/ PostFails(w) \/ PostKills(w)
    <3>1. PICK to \in {"looping", "failing", "dead"} : Goto(w, to)
      BY <2>2 DEF PostOk, PostFails, PostKills
    <3>2. pc[w] = "posting" /\ done' = done
      BY <2>2 DEF PostOk, PostFails, PostKills
    <3>3. QED
      BY <1>1, <1>m, <3>1, <3>2
  <2>3. QED
    BY <1>4, <2>1, <2>2
<1>5. QED
  BY <1>m, <1>2, <1>3, <1>4 DEF WorkerStep

\* The main thread's steps take from what it has left.
LEMMA MainDescends ==
  ASSUME TypeOK, Join \/ Reset
  PROVE  MainLeft' \in Int /\ MainLeft' < MainLeft /\ WorkLeft' = WorkLeft
<1>1. WorkLeft' = WorkLeft
  BY DEF Join, Reset, WorkLeft, Count
<1>2. MainLeft' \in Int /\ MainLeft' < MainLeft
  BY DEF Join, Reset, MainLeft, TypeOK, Paths
<1>3. QED
  BY <1>1, <1>2

\* The lock is given back by the worker that took it, in its next step.
LEMMA LockStep == IInv /\ LockIsHeld /\ [Next]_vars => LockIsHeld'
<1> SUFFICES ASSUME IInv, LockIsHeld, [Next]_vars PROVE LockIsHeld'
  OBVIOUS
<1>t. TypeOK /\ ClaimsAreLocked
  BY DEF IInv
<1>1. ASSUME NEW w \in Workers, Acquire(w) \/ Claim(w) PROVE LockIsHeld'
  BY <1>t, <1>1 DEF Acquire, Claim, Goto, LockIsHeld, TypeOK
<1>2. ASSUME NEW w \in Workers, PostOk(w) \/ PostFails(w) \/ PostKills(w) \/ CountError(w)
      PROVE  LockIsHeld'
  BY <1>t, <1>2 DEF PostOk, PostFails, PostKills, CountError, Goto, LockIsHeld, TypeOK
<1>3. CASE Join \/ Reset \/ UNCHANGED vars
  BY <1>3 DEF Join, Reset, vars, LockIsHeld
<1>4. QED
  BY <1>1, <1>2, <1>3 DEF Next, WorkerStep

\* Until it has ended, some thread can go on: for every set of workers, budget,
\* and way the requests end, nobody waits for a lock that no running worker
\* holds.
THEOREM NobodyIsStuck == Spec => [](main # "exited" => SomebodyCan)
<1>1. Init => LockIsHeld
  BY DEF Init, LockIsHeld
<1>2. ASSUME IInv, LockIsHeld, main # "exited" PROVE SomebodyCan
  <2>1. TypeOK
    BY <1>2 DEF IInv
  <2>2. CASE main = "resetting"
    BY <2>2 DEF SomebodyCan
  <2>3. CASE main = "joining" /\ lock = {}
    BY <2>1, <2>3 DEF SomebodyCan, TypeOK, Idle
  <2>4. CASE lock # {}
    BY <1>2, <2>1, <2>4 DEF SomebodyCan, TypeOK, LockIsHeld
  <2>5. QED
    BY <1>2, <2>1, <2>2, <2>3, <2>4 DEF TypeOK
<1>3. QED
  BY <1>1, <1>2, Invariant, LockStep, PTL DEF Spec

\* And each step leaves less to do, so the load ends after finitely many steps
\* for every number of workers and requests.
THEOREM EveryStepCounts == Spec => [](Effort \in Nat) /\ [][Effort' < Effort]_vars
<1>1. IInv => Effort \in Nat
  BY EffortType DEF IInv
<1>2. ASSUME IInv, Next PROVE Effort' < Effort
  <2>1. WorkLeft \in Nat /\ MainLeft \in Nat
    BY <1>2, EffortType DEF IInv
  <2>2. \/ WorkLeft' \in Int /\ WorkLeft' < WorkLeft /\ MainLeft' = MainLeft
        \/ MainLeft' \in Int /\ MainLeft' < MainLeft /\ WorkLeft' = WorkLeft
    BY <1>2, WorkerDescends, MainDescends DEF Next, IInv
  <2>3. QED
    BY <2>1, <2>2 DEF Effort
<1>3. IInv /\ [Next]_vars => [Effort' < Effort]_vars
  BY <1>2
<1>4. QED
  BY <1>1, <1>3, Invariant, PTL DEF Spec
=============================================================================
