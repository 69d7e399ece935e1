----------------------------- MODULE DurableQueue -----------------------------
(***************************************************************************)
(* The SQLite job queue of engine/durable_queue.py: admission, leasing,    *)
(* completion and crash recovery, called by workers of one machine that    *)
(* each have a connection of their own.  lease_next runs in an immediate   *)
(* transaction; complete reads the row and updates it in two statements of *)
(* their own, and the update names the job but not the state it expects.   *)
(***************************************************************************)
EXTENDS Naturals, TLAPS

CONSTANTS
  Jobs,         \* job ids, ordered the way ORDER BY job_id orders them
  Workers,      \* callers of lease_next and complete
  Limit,        \* max_attempts of each job
  NoJob,        \* a worker that holds nothing
  HotRecovery   \* TRUE: recover_interrupted may run while workers are busy

ASSUME JobsAssumption == Jobs \subseteq Nat /\ NoJob \notin Jobs

(* enqueue refuses any other max_attempts.                                 *)
ASSUME LimitAssumption == Limit \in [Jobs -> 1..5]

ASSUME HotRecoveryAssumption == HotRecovery \in BOOLEAN

VARIABLES
  state,     \* durable_jobs.state, "absent" before the INSERT
  attempt,   \* durable_jobs.attempt
  pc,        \* what each worker is doing
  held,      \* the job it was given
  verdict    \* the state complete has decided to write

vars == <<state, attempt, pc, held, verdict>>

Final == {"succeeded", "failed"}

States == {"absent", "queued", "running"} \cup Final

Busy(w) == pc[w] \in {"working", "completing"}

TypeOK ==
  /\ state \in [Jobs -> States]
  /\ attempt \in [Jobs -> Nat]
  /\ pc \in [Workers -> {"idle", "working", "completing"}]
  /\ held \in [Workers -> Jobs \cup {NoJob}]
  /\ verdict \in [Workers -> {"queued"} \cup Final]

Init ==
  /\ state = [j \in Jobs |-> "absent"]
  /\ attempt = [j \in Jobs |-> 0]
  /\ pc = [w \in Workers |-> "idle"]
  /\ held = [w \in Workers |-> NoJob]
  /\ verdict = [w \in Workers |-> "queued"]

-----------------------------------------------------------------------------

EnqueueAgain(j) ==
  /\ state' = [state EXCEPT ![j] = "queued"]
  /\ attempt' = [attempt EXCEPT ![j] = 0]
  /\ UNCHANGED <<pc, held, verdict>>

(* INSERT; a job that is already there is returned as it stands.           *)
Enqueue(j) ==
  /\ state[j] = "absent"
  /\ state' = [state EXCEPT ![j] = "queued"]
  /\ attempt' = [attempt EXCEPT ![j] = 0]
  /\ UNCHANGED <<pc, held, verdict>>

(* SELECT ... WHERE state = 'queued' ORDER BY job_id LIMIT 1.              *)
Queued == {j \in Jobs : state[j] = "queued"}

FirstQueued(j) == j \in Queued /\ \A k \in Queued : j <= k

LeaseWithoutClaim(w) ==
  /\ pc[w] = "idle"
  /\ \E j \in Jobs :
       /\ FirstQueued(j)
       /\ attempt' = [attempt EXCEPT ![j] = @ + 1]
       /\ held' = [held EXCEPT ![w] = j]
  /\ pc' = [pc EXCEPT ![w] = "working"]
  /\ UNCHANGED <<state, verdict>>

LeaseNext(w) ==
  /\ pc[w] = "idle"
  /\ \E j \in Jobs :
       /\ FirstQueued(j)
       /\ state' = [state EXCEPT ![j] = "running"]
       /\ attempt' = [attempt EXCEPT ![j] = @ + 1]
       /\ held' = [held EXCEPT ![w] = j]
  /\ pc' = [pc EXCEPT ![w] = "working"]
  /\ UNCHANGED verdict

-----------------------------------------------------------------------------
(* complete.                                                               *)

AfterFailureEarly(j) == IF attempt[j] + 1 < Limit[j] THEN "queued" ELSE "failed"

AfterFailureOffByOne(j) == IF attempt[j] <= Limit[j] THEN "queued" ELSE "failed"

AfterFailure(j) == IF attempt[j] < Limit[j] THEN "queued" ELSE "failed"

(* get: the job must be running, or complete raises and the worker goes on *)
(* without its job.                                                        *)
CompleteRead(w) ==
  LET found == state[held[w]] = "running" IN
  /\ pc[w] = "working"
  /\ pc' = [pc EXCEPT ![w] = IF found THEN "completing" ELSE "idle"]
  /\ held' = [held EXCEPT ![w] = IF found THEN @ ELSE NoJob]
  /\ \E v \in {"succeeded", AfterFailure(held[w])} :
       verdict' = [verdict EXCEPT ![w] = IF found THEN v ELSE @]
  /\ UNCHANGED <<state, attempt>>

(* UPDATE durable_jobs SET state = ? WHERE job_id = ?                      *)
CompleteWrite(w) ==
  /\ pc[w] = "completing"
  /\ state' = [state EXCEPT ![held[w]] = verdict[w]]
  /\ pc' = [pc EXCEPT ![w] = "idle"]
  /\ held' = [held EXCEPT ![w] = NoJob]
  /\ UNCHANGED <<attempt, verdict>>

-----------------------------------------------------------------------------

(* The worker's process dies, or its statement raises: the row stays.      *)
Crash(w) ==
  /\ Busy(w)
  /\ pc' = [pc EXCEPT ![w] = "idle"]
  /\ held' = [held EXCEPT ![w] = NoJob]
  /\ UNCHANGED <<state, attempt, verdict>>

(* One UPDATE over all running rows.                                       *)
RecoverInterrupted ==
  /\ HotRecovery \/ \A w \in Workers : ~Busy(w)
  /\ state' = [j \in Jobs |-> IF state[j] = "running" THEN AfterFailure(j) ELSE state[j]]
  /\ UNCHANGED <<attempt, pc, held, verdict>>

Next ==
  \/ \E j \in Jobs : Enqueue(j)
  \/ \E w \in Workers :
       \/ LeaseNext(w) \/ CompleteRead(w) \/ CompleteWrite(w)
       \/ Crash(w)
  \/ RecoverInterrupted

Spec == Init /\ [][Next]_vars

-----------------------------------------------------------------------------
(* Properties.                                                             *)

(* "until attempt limit": no sequence of leases, failures, crashes and     *)
(* recoveries runs a job more often than it was admitted for.              *)
AttemptLimit == \A j \in Jobs : attempt[j] <= Limit[j]

(* A lease is exclusive, and it stays valid until its worker is done: the  *)
(* row is still running when complete looks at it.                         *)
LeaseExclusive ==
  /\ \A w \in Workers : Busy(w) => state[held[w]] = "running"
  /\ \A v, w \in Workers : Busy(v) /\ Busy(w) /\ held[v] = held[w] => v = w

(* A job is given up only when it has used all its attempts.               *)
FailedIsExhausted == \A j \in Jobs : state[j] = "failed" => attempt[j] = Limit[j]

(* A finished job stays finished, also when it is enqueued again.          *)
FinalStays ==
  [][\A j \in Jobs : state[j] \in Final => state'[j] = state[j] /\ attempt'[j] = attempt[j]]_vars
-----------------------------------------------------------------------------
(* Proofs, for any number of jobs and workers, under the discipline that   *)
(* recover_interrupted runs only while no worker is busy.                  *)

Cold == HotRecovery = FALSE

(* What complete has decided to write fits the attempts left, because the  *)
(* row it read is its own until it writes.                                 *)
VerdictFits ==
  \A w \in Workers : pc[w] = "completing" =>
    /\ verdict[w] = "queued" => attempt[held[w]] < Limit[held[w]]
    /\ verdict[w] = "failed" => attempt[held[w]] = Limit[held[w]]

(* A job that may still be leased has an attempt left.                     *)
AttemptsLeft ==
  \A j \in Jobs : state[j] \in {"absent", "queued"} => attempt[j] < Limit[j]

Holds == \A w \in Workers : Busy(w) => held[w] \in Jobs

AbsentIsNew == \A j \in Jobs : state[j] = "absent" => attempt[j] = 0

QueueInv ==
  /\ TypeOK
  /\ Holds
  /\ AttemptLimit
  /\ LeaseExclusive
  /\ FailedIsExhausted
  /\ AttemptsLeft
  /\ AbsentIsNew
  /\ VerdictFits

LEMMA QueueInit == Init => QueueInv
BY LimitAssumption DEF Init, QueueInv, TypeOK, Holds, AttemptLimit, LeaseExclusive,
   FailedIsExhausted, AttemptsLeft, AbsentIsNew, VerdictFits, States, Final, Busy

LEMMA QueueStep == Cold /\ QueueInv /\ [Next]_vars => QueueInv'
<1> SUFFICES ASSUME Cold, QueueInv, [Next]_vars PROVE QueueInv'
  OBVIOUS
<1> USE LimitAssumption DEF QueueInv, TypeOK, Holds, AttemptLimit, LeaseExclusive,
    FailedIsExhausted, AttemptsLeft, AbsentIsNew, VerdictFits, States, Final, Busy, AfterFailure
<1>1. ASSUME NEW j \in Jobs, Enqueue(j) PROVE QueueInv'
  BY <1>1 DEF Enqueue
<1>2. ASSUME NEW w \in Workers, LeaseNext(w) PROVE QueueInv'
  <2>1. PICK j \in Jobs :
          /\ state[j] = "queued"
          /\ state' = [state EXCEPT ![j] = "running"]
          /\ attempt' = [attempt EXCEPT ![j] = @ + 1]
          /\ held' = [held EXCEPT ![w] = j]
    BY <1>2 DEF LeaseNext, FirstQueued, Queued
  <2>2. pc[w] = "idle" /\ pc' = [pc EXCEPT ![w] = "working"] /\ verdict' = verdict
    BY <1>2 DEF LeaseNext
  <2>3. \A v \in Workers : Busy(v) => held[v] # j
    BY <2>1
  <2> QED BY <2>1, <2>2, <2>3
<1>3. ASSUME NEW w \in Workers, CompleteRead(w) PROVE QueueInv'
  BY <1>3 DEF CompleteRead
<1>4. ASSUME NEW w \in Workers, CompleteWrite(w) PROVE QueueInv'
  BY <1>4 DEF CompleteWrite
<1>5. ASSUME NEW w \in Workers, Crash(w) PROVE QueueInv'
  BY <1>5 DEF Crash
<1>6. CASE RecoverInterrupted
  BY <1>6 DEF RecoverInterrupted, Cold
<1>7. CASE UNCHANGED vars
  BY <1>7 DEF vars
<1> QED BY <1>1, <1>2, <1>3, <1>4, <1>5, <1>6, <1>7 DEF Next

LEMMA QueueInvariant == ASSUME Cold PROVE Spec => []QueueInv
BY QueueInit, QueueStep, PTL DEF Spec

(* However leases, failures, crashes and cold recoveries interleave, no    *)
(* job runs more often than it was admitted for.                           *)
THEOREM AttemptsLimited == ASSUME Cold PROVE Spec => []AttemptLimit
<1>1. QueueInv => AttemptLimit
  BY DEF QueueInv
<1> QED BY <1>1, QueueInvariant, PTL

(* A leased job has one worker and stays running until that worker is done.*)
THEOREM LeasesExclusive == ASSUME Cold PROVE Spec => []LeaseExclusive
<1>1. QueueInv => LeaseExclusive
  BY DEF QueueInv
<1> QED BY <1>1, QueueInvariant, PTL

(* A job is given up only after its last attempt.                          *)
THEOREM FailuresExhausted == ASSUME Cold PROVE Spec => []FailedIsExhausted
<1>1. QueueInv => FailedIsExhausted
  BY DEF QueueInv
<1> QED BY <1>1, QueueInvariant, PTL

(* A finished job stays finished: complete is the only statement that could*)
(* overwrite it, and its job is running until it writes.                   *)
THEOREM FinishedStays == ASSUME Cold PROVE Spec => FinalStays
<1>1. ASSUME QueueInv, [Next]_vars
      PROVE  [\A j \in Jobs : state[j] \in Final
                => state'[j] = state[j] /\ attempt'[j] = attempt[j]]_vars
  <2> USE <1>1 DEF QueueInv, TypeOK, Holds, LeaseExclusive, Final, Busy
  <2>1. ASSUME NEW i \in Jobs, Enqueue(i), NEW j \in Jobs, state[j] \in Final
        PROVE  state'[j] = state[j] /\ attempt'[j] = attempt[j]
    BY <2>1 DEF Enqueue
  <2>2. ASSUME NEW w \in Workers, LeaseNext(w), NEW j \in Jobs, state[j] \in Final
        PROVE  state'[j] = state[j] /\ attempt'[j] = attempt[j]
    BY <2>2 DEF LeaseNext, FirstQueued, Queued
  <2>3. ASSUME NEW w \in Workers, NEW j \in Jobs, state[j] \in Final,
               \/ CompleteRead(w) \/ CompleteWrite(w) \/ Crash(w)
        PROVE  state'[j] = state[j] /\ attempt'[j] = attempt[j]
    BY <2>3 DEF CompleteRead, CompleteWrite, Crash
  <2>4. ASSUME RecoverInterrupted, NEW j \in Jobs, state[j] \in Final
        PROVE  state'[j] = state[j] /\ attempt'[j] = attempt[j]
    BY <2>4 DEF RecoverInterrupted
  <2> QED BY <2>1, <2>2, <2>3, <2>4 DEF Next
<1> QED BY <1>1, QueueInvariant, PTL DEF Spec, FinalStays
=============================================================================
