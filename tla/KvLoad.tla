------------------------------- MODULE KvLoad -------------------------------
(***************************************************************************)
(* tools/capture/kvload.py: worker threads that share one request budget   *)
(* under a lock, and the main thread that joins them and then asks the     *)
(* engine to reset its prefix cache.                                       *)
(*                                                                         *)
(* `with lock:` is split at its two ends: a worker acquires the lock and   *)
(* reads the counters in one step and writes them and releases it in the   *)
(* next, so every interleaving the lock is there to prevent is possible    *)
(* the moment it does not.                                                 *)
(***************************************************************************)
EXTENDS Integers, FiniteSets, Sequences

CONSTANTS Workers,    \* the worker threads (args.concurrency of them)
          Requests    \* args.requests

ASSUME KvLoadAssumption == IsFiniteSet(Workers) /\ Requests \in Nat

\* The two spellings of the reset endpoint, tried in order.
Paths == <<"/reset_prefix_cache", "/v1/reset_prefix_cache">>

VARIABLES
  pc,        \* where each worker is
  n,         \* the number of attempts a worker read, then the number it took
  done, err, \* the shared counters
  lock,      \* who holds the lock: at most one worker
  main,      \* "joining", "resetting" or "exited"
  path,      \* the next reset path to try
  posted     \* history: the request numbers that were posted

vars == <<pc, n, done, err, lock, main, path, posted>>

Idle(w) == pc[w] \in {"stopped", "dead"}

Init ==
  /\ pc = [w \in Workers |-> "looping"]
  /\ n = [w \in Workers |-> 0]
  /\ done = 0 /\ err = 0
  /\ lock = {}
  /\ main = "joining" /\ path = 1
  /\ posted = {}

Goto(w, where) == pc' = [pc EXCEPT ![w] = where]

-----------------------------------------------------------------------------
\* Mutant: the counters are read, and written later, without the lock.
Acquire_Unlocked(w) ==
  /\ pc[w] = "looping"
  /\ IF done + err >= Requests
     THEN Goto(w, "stopped") /\ UNCHANGED n
     ELSE Goto(w, "claiming") /\ n' = [n EXCEPT ![w] = done]
  /\ UNCHANGED <<done, err, lock, main, path, posted>>

\* Under the lock a worker reads the counters: it leaves when the budget is
\* spent, else it will add one to the number of attempts it has read.
Acquire(w) ==
  /\ pc[w] = "looping" /\ lock = {}
  /\ IF done + err >= Requests
     THEN Goto(w, "stopped") /\ UNCHANGED <<n, lock>>
     ELSE Goto(w, "claiming") /\ n' = [n EXCEPT ![w] = done] /\ lock' = {w}
  /\ UNCHANGED <<done, err, main, path, posted>>

\* Mutant: the lock is not released.
Claim_HoldsTheLock(w) ==
  /\ pc[w] = "claiming"
  /\ done' = n[w] + 1
  /\ n' = [n EXCEPT ![w] = n[w] + 1]
  /\ Goto(w, "posting")
  /\ UNCHANGED <<err, lock, main, path, posted>>

\* The claim is counted before the request is sent.
Claim(w) ==
  /\ pc[w] = "claiming"
  /\ done' = n[w] + 1
  /\ n' = [n EXCEPT ![w] = n[w] + 1]
  /\ lock' = {}
  /\ Goto(w, "posting")
  /\ UNCHANGED <<err, main, path, posted>>

\* post() returns: the engine answered.
PostOk(w) ==
  /\ pc[w] = "posting"
  /\ posted' = posted \cup {n[w]}
  /\ Goto(w, "looping")
  /\ UNCHANGED <<n, done, err, lock, main, path>>

\* post() raises URLError, OSError or TimeoutError: the error is still to be
\* counted, under the lock.
PostFails(w) ==
  /\ pc[w] = "posting"
  /\ posted' = posted \cup {n[w]}
  /\ Goto(w, "failing")
  /\ UNCHANGED <<n, done, err, lock, main, path>>

\* Mutant: a failed request is handed back to the budget.
CountError_Refunds(w) ==
  /\ pc[w] = "failing" /\ lock = {}
  /\ done' = done - 1
  /\ err' = err + 1
  /\ Goto(w, "looping")
  /\ UNCHANGED <<n, lock, main, path, posted>>

CountError(w) ==
  /\ pc[w] = "failing" /\ lock = {}
  /\ err' = err + 1
  /\ Goto(w, "looping")
  /\ UNCHANGED <<n, done, lock, main, path, posted>>

\* post() raises anything else (an http.client error while the answer is read):
\* nothing in worker() catches it and the thread ends.
PostKills(w) ==
  /\ pc[w] = "posting"
  /\ posted' = posted \cup {n[w]}
  /\ Goto(w, "dead")
  /\ UNCHANGED <<n, done, err, lock, main, path>>

\* Mutant: the main thread joins only until one worker has finished.
Join_First ==
  /\ main = "joining" /\ \E w \in Workers : Idle(w)
  /\ main' \in {"resetting", "exited"}
  /\ UNCHANGED <<pc, n, done, err, lock, path, posted>>

\* join() returns for every worker; --reset-at-end or not.
Join ==
  /\ main = "joining" /\ \A w \in Workers : Idle(w)
  /\ main' \in {"resetting", "exited"}
  /\ UNCHANGED <<pc, n, done, err, lock, path, posted>>

\* One reset attempt: a status below 300 ends the loop, anything else tries the
\* next spelling, and after the last one there is only the message.
Reset ==
  /\ main = "resetting"
  /\ \/ main' = "exited" /\ UNCHANGED path
     \/ /\ path < Len(Paths)
        /\ path' = path + 1 /\ UNCHANGED main
  /\ UNCHANGED <<pc, n, done, err, lock, posted>>

WorkerStep(w) == \/ Acquire(w) \/ Claim(w) \/ PostOk(w) \/ PostFails(w)
                 \/ CountError(w) \/ PostKills(w)

Next == (\E w \in Workers : WorkerStep(w)) \/ Join \/ Reset

Spec == Init /\ [][Next]_vars

\* post() has a timeout, so every thread keeps moving.
FairSpec == Spec /\ \A w \in Workers : WF_vars(WorkerStep(w))
                 /\ WF_vars(Join) /\ WF_vars(Reset)

-----------------------------------------------------------------------------
\* A worker that holds a number nobody has answered for yet.
InFlight == {w \in Workers : pc[w] \in {"posting", "failing"}}

TypeOK ==
  /\ pc \in [Workers -> {"looping", "claiming", "posting", "failing", "stopped", "dead"}]
  /\ n \in [Workers -> 0..Requests]
  /\ done \in 0..Requests /\ err \in 0..done
  /\ lock \in {{}} \cup {{w} : w \in Workers}
  /\ main \in {"joining", "resetting", "exited"}
  /\ path \in 1..Len(Paths)
  /\ posted \subseteq 1..Requests

(***************************************************************************)
(* No two requests carry the same number, so no two prompts share a tail   *)
(* and every request forces new blocks behind its reused prefix: a number  *)
(* in flight is nobody else's and has not been posted.                     *)
(***************************************************************************)
NumbersAreDistinct ==
  /\ \A v, w \in InFlight : n[v] = n[w] => v = w
  /\ \A w \in Workers : pc[w] = "posting" => n[w] \notin posted

(***************************************************************************)
(* The budget is one of attempts and errors together, and only a request   *)
(* that was in flight when it ran out can still overspend it: however the  *)
(* failures interleave, never by more than one for each worker.            *)
(***************************************************************************)
BudgetIsKept ==
  /\ done <= Requests
  /\ done + err + Cardinality(InFlight) <= Requests + Cardinality(Workers)

(***************************************************************************)
(* The engine is reset only after all traffic: when the main thread is     *)
(* past join() no request is in flight, and either the budget is spent or  *)
(* every worker was killed.                                                *)
(***************************************************************************)
ResetFollowsAllTraffic ==
  main # "joining" =>
    /\ \A w \in Workers : Idle(w)
    /\ done + err >= Requests \/ \A w \in Workers : pc[w] = "dead"

(***************************************************************************)
(* The closing line is true: as many requests were posted as it says were  *)
(* sent, and it reports no more errors than requests.                      *)
(***************************************************************************)
SummaryIsTrue ==
  main # "joining" => Cardinality(posted) = done /\ err <= done

(***************************************************************************)
(* The load ends: every worker stops and the main thread exits, although   *)
(* the lock is contended and requests may all fail.                        *)
(***************************************************************************)
Termination == <>(main = "exited")
=============================================================================
