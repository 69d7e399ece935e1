-------------------------- MODULE PreviewJobsProofs --------------------------
(***************************************************************************)
(* Proofs about PreviewJobs for any number of handlers, requests, attempts,*)
(* failed deliveries and restarts.                                         *)
(***************************************************************************)
EXTENDS PreviewJobs, FiniteSetTheorems, TLAPS

ActiveIsOpen == \A j \in Jobs : active[j] <=> job[j] \in Open

(* No handler rejects or cancels a job.                                    *)
Reached == \A j \in Jobs : job[j] \in {"absent", "succeeded", "failed"} \cup Open

(* What the database says by itself, whoever is at work.                   *)
RowsInv ==
  /\ job \in [Jobs -> JobStates]
  /\ active \in [Jobs -> BOOLEAN]
  /\ events \in [Jobs -> Seq(JobStates)]
  /\ AttemptsInOrder
  /\ EventsTellTheState
  /\ ActiveIsOpen
  /\ Reached

(* What a handler remembers fits the rows: its job is where its own last   *)
(* call left it, and an ordinal it was given follows existing ones.        *)
HandlerFits(t) ==
  /\ pc[t] # "idle" => req[t] \in Requests
  /\ pc[t] = "creating" => \A m \in 1..(ord[t] - 1) : job[<<req[t], m>>] # "absent"
  /\ pc[t] = "created" => job[Mine(t)] = "requested"
  /\ pc[t] = "admitted" => job[Mine(t)] = "admitted"
  /\ pc[t] \in {"running", "produced", "delivered", "failing"} => job[Mine(t)] = "running"
  /\ pc[t] = "delivered" => Mine(t) \in delivered

PreviewInv ==
  /\ TypeOK
  /\ RowsInv
  /\ \A t \in Threads : HandlerFits(t)
  /\ OneDriverPerRequest
  /\ SucceededIsDelivered

-----------------------------------------------------------------------------
(* The rows.                                                               *)

LEMMA AllowedStates ==
  /\ \A s \in JobStates : Allowed(s) \subseteq JobStates \ {"absent", "requested"}
  /\ \A s \in JobStates : Allowed(s) # {} => s \in Open
BY DEF Allowed, JobStates, Open, Terminal

(* A legal transition of a row keeps the table consistent.                 *)
LEMMA TransitionKeepsRows ==
  ASSUME RowsInv, NEW j \in Jobs, NEW s \in {"admitted", "running", "succeeded", "failed"},
         s \in Allowed(job[j]),
         job' = [job EXCEPT ![j] = s],
         active' = [active EXCEPT ![j] = s \notin Terminal],
         events' = [events EXCEPT ![j] = Append(@, s)]
  PROVE  RowsInv'
<1> USE DEF RowsInv
<1>1. s \in JobStates /\ job[j] \in Open /\ s # "absent"
  BY AllowedStates DEF JobStates, Open, Terminal
<1>2. (job \in [Jobs -> JobStates] /\ active \in [Jobs -> BOOLEAN] /\ events \in [Jobs -> Seq(JobStates)])'
  BY <1>1
<1>3. AttemptsInOrder'
  <2> SUFFICES ASSUME NEW r \in Requests, NEW n \in Existing(r)', NEW m \in 1..(n - 1)
               PROVE  job'[<<r, m>>] \in Terminal
    BY DEF AttemptsInOrder
  <2>0. n \in 1..MaxAttempts /\ m \in 1..MaxAttempts /\ <<r, n>> \in Jobs
    BY PreviewAssumption DEF Existing, Jobs
  <2>1. n \in Existing(r)
    BY <1>1, <2>0 DEF Existing, Open
  <2>2. job[<<r, m>>] \in Terminal
    BY <2>1 DEF AttemptsInOrder
  <2>3. <<r, m>> # j
    BY <2>2, <1>1 DEF Open, Terminal
  <2> QED BY <2>0, <2>2, <2>3 DEF Jobs
<1>4. EventsTellTheState'
  <2> SUFFICES ASSUME NEW i \in Jobs, job'[i] # "absent"
               PROVE  /\ events'[i] # << >>
                      /\ events'[i][1] = "requested"
                      /\ events'[i][Len(events'[i])] = job'[i]
                      /\ \A k \in 2..Len(events'[i]) : events'[i][k] \in Allowed(events'[i][k - 1])
                      /\ active'[i] <=> job'[i] \in Open
    BY DEF EventsTellTheState
  <2>1. CASE i # j
    BY <2>1 DEF EventsTellTheState
  <2>2. CASE i = j
    <3>1. /\ events[j] \in Seq(JobStates) /\ events[j] # << >> /\ events[j][1] = "requested"
          /\ events[j][Len(events[j])] = job[j]
          /\ \A k \in 2..Len(events[j]) : events[j][k] \in Allowed(events[j][k - 1])
      BY <1>1 DEF EventsTellTheState, Open
    <3>2. events'[j] = Append(events[j], s) /\ job'[j] = s
      OBVIOUS
    <3>3. Len(events[j]) \in Nat /\ Len(events[j]) > 0 /\ Len(events'[j]) = Len(events[j]) + 1
      BY <3>1, <3>2
    <3>4. ASSUME NEW k \in 2..Len(events'[j]) PROVE events'[j][k] \in Allowed(events'[j][k - 1])
      <4>1. CASE k = Len(events[j]) + 1
        BY <4>1, <3>1, <3>2, <3>3
      <4>2. CASE k # Len(events[j]) + 1
        BY <4>2, <3>1, <3>2, <3>3
      <4> QED BY <4>1, <4>2
    <3>5. active'[j] <=> job'[j] \in Open
      BY DEF Terminal, Open
    <3> QED BY <2>2, <3>1, <3>2, <3>3, <3>4, <3>5
  <2> QED BY <2>1, <2>2
<1>5. ActiveIsOpen' /\ Reached'
  BY <1>1 DEF ActiveIsOpen, Reached, Open, Terminal
<1> QED BY <1>2, <1>3, <1>4, <1>5

(* So does the insertion of the next attempt of a request that has none    *)
(* active.                                                                 *)
LEMMA InsertionKeepsRows ==
  ASSUME RowsInv, NEW r \in Requests, NEW n \in 1..MaxAttempts,
         job[<<r, n>>] = "absent", ~ActiveJob(r),
         \A m \in 1..(n - 1) : job[<<r, m>>] # "absent",
         job' = [job EXCEPT ![<<r, n>>] = "requested"],
         active' = [active EXCEPT ![<<r, n>>] = TRUE],
         events' = [events EXCEPT ![<<r, n>>] = <<"requested">>]
  PROVE  RowsInv'
<1> USE DEF RowsInv
<1>0. <<r, n>> \in Jobs /\ "requested" \in JobStates
  BY DEF Jobs, JobStates, Open
<1>1. <<"requested">> \in Seq(JobStates)
  BY <1>0
<1>2. (job \in [Jobs -> JobStates] /\ active \in [Jobs -> BOOLEAN] /\ events \in [Jobs -> Seq(JobStates)])'
  BY <1>0, <1>1
<1>3. AttemptsInOrder'
  <2> SUFFICES ASSUME NEW q \in Requests, NEW k \in Existing(q)', NEW m \in 1..(k - 1)
               PROVE  job'[<<q, m>>] \in Terminal
    BY DEF AttemptsInOrder
  <2>0. k \in 1..MaxAttempts /\ m \in 1..MaxAttempts /\ <<q, k>> \in Jobs /\ <<q, m>> \in Jobs
    BY PreviewAssumption DEF Existing, Jobs
  <2>1. CASE k \in Existing(q)
    <3>1. job[<<q, m>>] \in Terminal
      BY <2>1 DEF AttemptsInOrder
    <3>2. <<q, m>> # <<r, n>>
      BY <3>1 DEF Terminal
    <3> QED BY <3>1, <3>2, <2>0
  <2>2. CASE k \notin Existing(q)
    <3>1. <<q, k>> = <<r, n>>
      BY <2>2, <2>0 DEF Existing
    <3>2. job[<<q, m>>] # "absent"
      BY <3>1
    <3>3. ~active[<<q, m>>]
      BY <3>1, <3>2, <2>0 DEF ActiveJob, Existing
    <3>4. job[<<q, m>>] \in Terminal
      BY <3>2, <3>3, <2>0 DEF ActiveIsOpen, JobStates
    <3>5. <<q, m>> # <<r, n>>
      BY <3>2
    <3> QED BY <3>4, <3>5, <2>0
  <2> QED BY <2>1, <2>2
<1>4. EventsTellTheState'
  <2> SUFFICES ASSUME NEW i \in Jobs, job'[i] # "absent"
               PROVE  /\ events'[i] # << >>
                      /\ events'[i][1] = "requested"
                      /\ events'[i][Len(events'[i])] = job'[i]
                      /\ \A k \in 2..Len(events'[i]) : events'[i][k] \in Allowed(events'[i][k - 1])
                      /\ active'[i] <=> job'[i] \in Open
    BY DEF EventsTellTheState
  <2>1. CASE i # <<r, n>>
    BY <2>1 DEF EventsTellTheState
  <2>2. CASE i = <<r, n>>
    BY <2>2, <1>0 DEF Open
  <2> QED BY <2>1, <2>2
<1>5. ActiveIsOpen' /\ Reached'
  BY <1>0 DEF ActiveIsOpen, Reached, Open
<1> QED BY <1>2, <1>3, <1>4, <1>5

-----------------------------------------------------------------------------
(* The handlers.                                                           *)

(* The transition a handler makes is legal, because nobody else moves its  *)
(* job: the exception of transition_preview_job is never raised.           *)
LEMMA TransitionIsLegal ==
  ASSUME PreviewInv, NEW t \in Threads,
         NEW s \in {"admitted", "running", "succeeded", "failed"},
         \/ pc[t] = "created" /\ s = "admitted"
         \/ pc[t] = "admitted" /\ s = "running"
         \/ pc[t] = "delivered" /\ s = "succeeded"
         \/ pc[t] = "failing" /\ s = "failed"
  PROVE  Mine(t) \in Jobs /\ s \in Allowed(job[Mine(t)]) /\ job[Mine(t)] \in Open
<1>1. HandlerFits(t) /\ req[t] \in Requests /\ ord[t] \in 1..MaxAttempts
  BY DEF PreviewInv, HandlerFits, TypeOK
<1> QED BY <1>1 DEF HandlerFits, Allowed, Open, Mine, Jobs

(* When a handler moves its job, the other handlers notice nothing.        *)
LEMMA TransitionKeepsOthers ==
  ASSUME PreviewInv, NEW t \in Threads, NEW u \in Threads, u # t, pc[t] \in Driving,
         NEW s \in JobStates \ {"absent"},
         Mine(t) \in Jobs, job[Mine(t)] \in Open,
         job' = [job EXCEPT ![Mine(t)] = s],
         pc'[u] = pc[u], req'[u] = req[u], ord' = ord, delivered \subseteq delivered'
  PROVE  HandlerFits(u)'
<1>1. HandlerFits(u) /\ job \in [Jobs -> JobStates] /\ ord[u] \in 1..MaxAttempts
  BY DEF PreviewInv, TypeOK
<1>2. Mine(u)' = Mine(u)
  BY DEF Mine
<1>3. CASE pc[u] \in Driving
  <2>1. req[u] # req[t] /\ req[u] \in Requests
    BY <1>1, <1>3 DEF PreviewInv, OneDriverPerRequest, HandlerFits, Driving
  <2>2. Mine(u) # Mine(t)
    BY <2>1 DEF Mine
  <2>3. Mine(u) \in Jobs
    BY <2>1, <1>1 DEF Mine, Jobs
  <2>4. job'[Mine(u)] = job[Mine(u)]
    BY <2>2, <2>3, <1>1
  <2> QED BY <1>1, <1>2, <1>3, <2>4 DEF HandlerFits, Driving
<1>4. CASE pc[u] \notin Driving
  <2>1. \A j \in Jobs : job[j] # "absent" => job'[j] # "absent"
    BY <1>1
  <2>2. ASSUME pc[u] = "creating", NEW m \in 1..(ord[u] - 1)
        PROVE  job'[<<req[u], m>>] # "absent"
    <3>1. <<req[u], m>> \in Jobs
      BY <2>2, <1>1, PreviewAssumption DEF HandlerFits, Jobs
    <3> QED BY <3>1, <2>1, <2>2, <1>1 DEF HandlerFits
  <2> QED BY <1>1, <1>4, <2>2 DEF HandlerFits, Driving
<1> QED BY <1>3, <1>4

LEMMA TransitionKeepsInv ==
  ASSUME PreviewInv, NEW t \in Threads,
         NEW s \in {"admitted", "running", "succeeded", "failed"},
         \/ pc[t] = "created" /\ s = "admitted" /\ pc' = [pc EXCEPT ![t] = "admitted"] /\ req' = req
         \/ pc[t] = "admitted" /\ s = "running" /\ pc' = [pc EXCEPT ![t] = "running"] /\ req' = req
         \/ pc[t] = "delivered" /\ s = "succeeded" /\ Return(t)
         \/ pc[t] = "failing" /\ s = "failed" /\ Return(t),
         Transition(t, s), delivered' = delivered, ord' = ord, UNCHANGED bounds
  PROVE  PreviewInv'
<1>1. Mine(t) \in Jobs /\ s \in Allowed(job[Mine(t)]) /\ job[Mine(t)] \in Open
  BY TransitionIsLegal
<1>2. /\ job' = [job EXCEPT ![Mine(t)] = s]
      /\ active' = [active EXCEPT ![Mine(t)] = s \notin Terminal]
      /\ events' = [events EXCEPT ![Mine(t)] = Append(@, s)]
  BY <1>1 DEF Transition
<1>3. RowsInv'
  BY <1>1, <1>2, TransitionKeepsRows DEF PreviewInv
<1>4. TypeOK'
  BY <1>3 DEF PreviewInv, RowsInv, TypeOK, Return, Phases, Driving, bounds
<1>5. s \in JobStates \ {"absent"} /\ pc[t] \in Driving
  BY DEF JobStates, Open, Terminal, Driving
<1>6. \A u \in Threads \ {t} : pc'[u] = pc[u] /\ req'[u] = req[u]
  BY DEF PreviewInv, TypeOK, Return
<1>7. ASSUME NEW u \in Threads PROVE HandlerFits(u)'
  <2>1. CASE u # t
    BY <2>1, <1>1, <1>2, <1>5, <1>6, TransitionKeepsOthers
  <2>2. CASE u = t
    <3>1. pc[t] \in Driving => HandlerFits(t) /\ req[t] \in Requests
      BY DEF PreviewInv, HandlerFits, Driving
    <3>2. job'[Mine(t)] = s
      BY <1>1, <1>2 DEF PreviewInv, TypeOK
    <3>3. pc'[t] = "idle" \/ (pc'[t] = s /\ s \in {"admitted", "running"} /\ req'[t] = req[t])
      BY DEF PreviewInv, TypeOK, Return
    <3> QED BY <2>2, <3>1, <3>2, <3>3, <1>5 DEF HandlerFits, Mine
  <2> QED BY <2>1, <2>2
<1>8. OneDriverPerRequest'
  <2>1. pc'[t] \in Driving => pc[t] \in Driving /\ req'[t] = req[t]
    <3>1. CASE Return(t)
      BY <3>1 DEF PreviewInv, TypeOK, Return, Driving
    <3>2. CASE ~Return(t)
      BY <3>2, <1>5
    <3> QED BY <3>1, <3>2
  <2>2. \A u \in Threads : pc'[u] \in Driving => pc[u] \in Driving /\ req'[u] = req[u]
    BY <2>1, <1>6
  <2> QED BY <2>2 DEF PreviewInv, OneDriverPerRequest
<1>9. SucceededIsDelivered'
  <2>1. s = "succeeded" => Mine(t) \in delivered
    BY DEF PreviewInv, HandlerFits
  <2> QED BY <2>1, <1>2 DEF PreviewInv, SucceededIsDelivered, TypeOK
<1> QED BY <1>3, <1>4, <1>7, <1>8, <1>9 DEF PreviewInv

(* A step of one handler that leaves the rows alone.                       *)
LEMMA LocalStepKeepsInv ==
  ASSUME PreviewInv, NEW t \in Threads, UNCHANGED rows, TypeOK', HandlerFits(t)',
         \A u \in Threads \ {t} : pc'[u] = pc[u] /\ req'[u] = req[u] /\ ord'[u] = ord[u],
         delivered \subseteq delivered',
         pc'[t] \in Driving => pc[t] \in Driving /\ req'[t] = req[t]
  PROVE  PreviewInv'
<1>1. RowsInv'
  BY DEF PreviewInv, RowsInv, rows, AttemptsInOrder, Existing, EventsTellTheState, ActiveIsOpen, Reached
<1>2. ASSUME NEW u \in Threads PROVE HandlerFits(u)'
  BY DEF PreviewInv, HandlerFits, rows, Mine
<1>3. OneDriverPerRequest'
  BY DEF PreviewInv, OneDriverPerRequest
<1>4. SucceededIsDelivered'
  BY DEF PreviewInv, SucceededIsDelivered, rows
<1> QED BY <1>1, <1>2, <1>3, <1>4 DEF PreviewInv

LEMMA CreationKeepsInv ==
  ASSUME PreviewInv, NEW t \in Threads, CreateJob(t),
         job[Mine(t)] = "absent", ~ActiveJob(req[t])
  PROVE  PreviewInv'
<1>1. /\ HandlerFits(t) /\ req[t] \in Requests /\ ord[t] \in 1..MaxAttempts
      /\ Mine(t) = <<req[t], ord[t]>> /\ Mine(t) \in Jobs
  BY DEF PreviewInv, HandlerFits, TypeOK, CreateJob, Mine, Jobs
<1>2. /\ pc[t] = "creating" /\ pc' = [pc EXCEPT ![t] = "created"]
      /\ job' = [job EXCEPT ![Mine(t)] = "requested"]
      /\ active' = [active EXCEPT ![Mine(t)] = TRUE]
      /\ events' = [events EXCEPT ![Mine(t)] = <<"requested">>]
      /\ delivered' = delivered /\ req' = req /\ ord' = ord /\ UNCHANGED bounds
  BY DEF CreateJob, Goto
<1>3. RowsInv'
  BY <1>1, <1>2, InsertionKeepsRows DEF PreviewInv, HandlerFits
<1>4. TypeOK'
  BY <1>2, <1>3 DEF PreviewInv, RowsInv, TypeOK, Phases, Driving, bounds
(* Whoever works on a job of the request would make it active.             *)
<1>5. ASSUME NEW u \in Threads, pc[u] \in Driving PROVE req[u] # req[t]
  <2>1. Mine(u) \in Jobs /\ job[Mine(u)] \in Open /\ ord[u] \in 1..MaxAttempts
    BY <1>5 DEF PreviewInv, HandlerFits, TypeOK, Driving, Mine, Jobs, Open
  <2>2. active[Mine(u)] /\ job[Mine(u)] # "absent"
    BY <2>1 DEF PreviewInv, RowsInv, ActiveIsOpen, Open
  <2> QED BY <2>1, <2>2 DEF ActiveJob, Existing, Mine
<1>6. ASSUME NEW u \in Threads PROVE HandlerFits(u)'
  <2>1. HandlerFits(u) /\ Mine(u)' = Mine(u) /\ ord[u] \in 1..MaxAttempts
    BY <1>2 DEF PreviewInv, Mine, TypeOK
  <2>2. CASE u = t
    BY <2>2, <1>1, <1>2, <2>1 DEF HandlerFits, PreviewInv, TypeOK
  <2>3. CASE u # t /\ pc[u] \in Driving
    <3>1. Mine(u) \in Jobs /\ Mine(u) # Mine(t)
      BY <2>1, <2>3, <1>5 DEF HandlerFits, Driving, Mine, Jobs
    <3>2. job'[Mine(u)] = job[Mine(u)]
      BY <3>1, <1>2 DEF PreviewInv, TypeOK
    <3> QED BY <2>1, <2>3, <3>2, <1>2 DEF HandlerFits, Driving, PreviewInv, TypeOK
  <2>4. CASE u # t /\ pc[u] \notin Driving
    <3>1. ASSUME pc[u] = "creating", NEW m \in 1..(ord[u] - 1)
          PROVE  job'[<<req[u], m>>] # "absent"
      <4>1. <<req[u], m>> \in Jobs
        BY <3>1, <2>1, PreviewAssumption DEF HandlerFits, Jobs
      <4> QED BY <4>1, <2>1, <3>1, <1>2 DEF HandlerFits, PreviewInv, TypeOK
    <3> QED BY <2>1, <2>4, <3>1, <1>2 DEF HandlerFits, Driving, PreviewInv, TypeOK
  <2> QED BY <2>2, <2>3, <2>4
<1>7. OneDriverPerRequest'
  BY <1>2, <1>5 DEF PreviewInv, OneDriverPerRequest, TypeOK
<1>8. SucceededIsDelivered'
  BY <1>2 DEF PreviewInv, SucceededIsDelivered, TypeOK
<1> QED BY <1>3, <1>4, <1>6, <1>7, <1>8 DEF PreviewInv

LEMMA PreviewInit == Init => PreviewInv
<1> SUFFICES ASSUME Init PROVE PreviewInv
  OBVIOUS
<1>1. << >> \in Seq(JobStates)
  OBVIOUS
<1>2. TypeOK
  BY <1>1, PreviewAssumption DEF Init, TypeOK, JobStates, Phases
<1>3. RowsInv
  BY <1>2 DEF Init, TypeOK, RowsInv, AttemptsInOrder, Existing, Jobs, EventsTellTheState, ActiveIsOpen,
     Reached, Open
<1> QED BY <1>2, <1>3 DEF Init, PreviewInv, HandlerFits, OneDriverPerRequest, Driving, SucceededIsDelivered

LEMMA PreviewStep == PreviewInv /\ [Next]_vars => PreviewInv'
<1> SUFFICES ASSUME PreviewInv, [Next]_vars PROVE PreviewInv'
  OBVIOUS
<1>0. TypeOK /\ \A t \in Threads : HandlerFits(t)
  BY DEF PreviewInv
<1> USE DEF Phases, Driving
<1>1. ASSUME NEW t \in Threads, NEW r \in Requests, Resolve(t, r) PROVE PreviewInv'
  <2>1. TypeOK' /\ HandlerFits(t)'
    BY <1>0, <1>1 DEF TypeOK, HandlerFits, Resolve, Goto, rows, bounds
  <2> QED BY <1>0, <1>1, <2>1, LocalStepKeepsInv DEF Resolve, Goto, TypeOK
<1>2. ASSUME NEW t \in Threads, CheckActive(t) \/ NumberBeyondBound(t) \/ CheckConflict(t) PROVE PreviewInv'
  <2>1. TypeOK' /\ HandlerFits(t)'
    BY <1>0, <1>2 DEF TypeOK, HandlerFits, CheckActive, NumberBeyondBound, CheckConflict, Return, Goto,
       rows, bounds
  <2> QED BY <1>0, <1>2, <2>1, LocalStepKeepsInv DEF CheckActive, NumberBeyondBound, CheckConflict,
             Return, Goto, TypeOK
<1>3. ASSUME NEW t \in Threads, Number(t) PROVE PreviewInv'
  <2>1. PICK n \in 1..MaxAttempts : NextAttempt(req[t], n) /\ ord' = [ord EXCEPT ![t] = n]
    BY <1>3 DEF Number
  <2>2. req[t] \in Requests /\ pc' = [pc EXCEPT ![t] = "creating"] /\ req' = req /\ delivered' = delivered
        /\ UNCHANGED rows /\ UNCHANGED bounds
    BY <1>0, <1>3 DEF Number, Goto, HandlerFits
  <2>3. ASSUME NEW m \in 1..(n - 1) PROVE job[<<req[t], m>>] # "absent"
    <3>1. n - 1 \in Existing(req[t]) /\ m \in 1..MaxAttempts
      BY <2>1, PreviewAssumption DEF NextAttempt
    <3>2. m = n - 1 \/ m \in 1..(n - 1 - 1)
      BY <2>1, PreviewAssumption
    <3>3. m \in 1..(n - 1 - 1) => job[<<req[t], m>>] \in Terminal
      BY <3>1, <2>2 DEF PreviewInv, RowsInv, AttemptsInOrder
    <3> QED BY <3>1, <3>2, <3>3 DEF Existing, Terminal
  <2>4. TypeOK'
    BY <1>0, <2>1, <2>2 DEF TypeOK, rows, bounds
  <2>5. HandlerFits(t)'
    BY <1>0, <2>1, <2>2, <2>3 DEF HandlerFits, TypeOK, rows
  <2>6. \A u \in Threads \ {t} : pc'[u] = pc[u] /\ req'[u] = req[u] /\ ord'[u] = ord[u]
    BY <1>0, <2>1, <2>2 DEF TypeOK
  <2>7. pc'[t] = "creating"
    BY <1>0, <2>2 DEF TypeOK
  <2> QED BY <2>2, <2>4, <2>5, <2>6, <2>7, LocalStepKeepsInv
<1>4. ASSUME NEW t \in Threads, CreateJob(t) PROVE PreviewInv'
  <2>1. CASE job[Mine(t)] = "absent" /\ ~ActiveJob(req[t])
    BY <1>4, <2>1, CreationKeepsInv
  <2>2. CASE job[Mine(t)] # "absent" \/ ActiveJob(req[t])
    <3>1. pc' = [pc EXCEPT ![t] = "conflicted"] /\ UNCHANGED rows /\ req' = req /\ ord' = ord
          /\ delivered' = delivered /\ UNCHANGED bounds /\ req[t] \in Requests
      BY <1>0, <1>4, <2>2 DEF CreateJob, Goto, HandlerFits
    <3>2. TypeOK' /\ HandlerFits(t)'
      BY <1>0, <3>1 DEF TypeOK, HandlerFits, rows, bounds
    <3> QED BY <1>0, <3>1, <3>2, LocalStepKeepsInv DEF TypeOK
  <2> QED BY <2>1, <2>2
<1>5. ASSUME NEW t \in Threads, AdmitJob(t) PROVE PreviewInv'
  BY <1>5, TransitionKeepsInv DEF AdmitJob, Goto
<1>6. ASSUME NEW t \in Threads, StartJob(t) PROVE PreviewInv'
  BY <1>6, TransitionKeepsInv DEF StartJob, Goto
<1>7. ASSUME NEW t \in Threads, Execute(t) \/ Deliver(t) \/ DeliverRaises(t) PROVE PreviewInv'
  <2>1. Mine(t) \in Jobs
    BY <1>0, <1>7 DEF TypeOK, HandlerFits, Execute, Deliver, DeliverRaises, Goto, Mine, Jobs
  <2>2. TypeOK'
    <3>1. CASE Execute(t)
      BY <1>0, <3>1 DEF TypeOK, Execute, Goto, rows, bounds
    <3>2. CASE Deliver(t)
      BY <1>0, <2>1, <3>2 DEF TypeOK, Deliver, Goto, rows, bounds
    <3>3. CASE DeliverRaises(t)
      BY <1>0, <3>3, PreviewAssumption DEF TypeOK, DeliverRaises, Return, rows
    <3> QED BY <1>7, <3>1, <3>2, <3>3
  <2>3. HandlerFits(t)'
    BY <1>0, <1>7 DEF TypeOK, HandlerFits, Execute, Deliver, DeliverRaises, Return, Goto, rows, Mine
  <2>4. UNCHANGED rows /\ ord' = ord /\ delivered \subseteq delivered'
        /\ \A u \in Threads \ {t} : pc'[u] = pc[u] /\ req'[u] = req[u]
    BY <1>0, <1>7 DEF TypeOK, Execute, Deliver, DeliverRaises, Return, Goto
  <2>5. pc'[t] \in Driving => pc[t] \in Driving /\ req'[t] = req[t]
    BY <1>0, <1>7 DEF TypeOK, Execute, Deliver, DeliverRaises, Return, Goto
  <2> QED BY <2>2, <2>3, <2>4, <2>5, LocalStepKeepsInv
<1>8. ASSUME NEW t \in Threads, Succeed(t) PROVE PreviewInv'
  BY <1>8, TransitionKeepsInv DEF Succeed
<1>9. ASSUME NEW t \in Threads, Fail(t) PROVE PreviewInv'
  BY <1>9, TransitionKeepsInv DEF Fail
<1>10. CASE Restart \/ UNCHANGED vars
  <2>1. TypeOK'
    BY <1>0, <1>10, PreviewAssumption DEF TypeOK, Restart, vars, rows
  <2>2. RowsInv' /\ SucceededIsDelivered'
    BY <1>10 DEF PreviewInv, RowsInv, SucceededIsDelivered, Restart, vars, rows, AttemptsInOrder, Existing,
       EventsTellTheState, ActiveIsOpen, Reached
  <2>3. \A t \in Threads : HandlerFits(t)'
    BY <1>0, <1>10 DEF HandlerFits, Restart, vars, rows, Mine
  <2>4. OneDriverPerRequest'
    BY <1>10 DEF PreviewInv, OneDriverPerRequest, Restart, vars
  <2> QED BY <2>1, <2>2, <2>3, <2>4 DEF PreviewInv
<1> QED BY <1>1, <1>2, <1>3, <1>4, <1>5, <1>6, <1>7, <1>8, <1>9, <1>10 DEF Next, Handle

LEMMA PreviewInvariant == Spec => []PreviewInv
BY PreviewInit, PreviewStep, PTL DEF Spec

-----------------------------------------------------------------------------

(* However requests overlap and whenever the process restarts, a request   *)
(* has one series of attempts, at most one of them worked on, by one       *)
(* handler.                                                                *)
THEOREM AttemptsOneAtATime == Spec => []OneAttemptAtATime
<1>1. PreviewInv => OneAttemptAtATime
  BY DEF PreviewInv, RowsInv, OneAttemptAtATime
<1> QED BY <1>1, PreviewInvariant, PTL

(* Each step of a job is on record once, in the order of the lifecycle, and*)
(* a job that succeeded has its preview in place.                          *)
THEOREM TruthTold == Spec => []JobsTellTheTruth
<1>1. PreviewInv => JobsTellTheTruth
  BY DEF PreviewInv, RowsInv, JobsTellTheTruth
<1> QED BY <1>1, PreviewInvariant, PTL

-----------------------------------------------------------------------------
(* The tables as a history of each request.                                *)

Attempts(r) == Cardinality(Existing(r))

HistoryOf(r) == [n \in 1..Attempts(r) |-> Status(<<r, n>>)]

(* The ordinals of a request are 1, 2, ... without a gap.                  *)
Contiguous ==
  \A r \in Requests :
    Attempts(r) \in 0..MaxAttempts /\ Existing(r) = 1..Attempts(r)

LEMMA OrdinalsAreContiguous == RowsInv => Contiguous
<1> SUFFICES ASSUME RowsInv, NEW r \in Requests
             PROVE  Attempts(r) \in 0..MaxAttempts /\ Existing(r) = 1..Attempts(r)
  BY DEF Contiguous
<1>1. /\ IsFiniteSet(1..MaxAttempts) /\ Cardinality(1..MaxAttempts) = MaxAttempts
      /\ Existing(r) \in SUBSET (1..MaxAttempts)
  BY PreviewAssumption, FS_Interval DEF Existing
<1>2. IsFiniteSet(Existing(r)) /\ Attempts(r) \in 0..MaxAttempts
  BY <1>1, FS_Subset, FS_CardinalityType, PreviewAssumption DEF Attempts
<1>3. ASSUME NEW n \in Existing(r) PROVE n <= Attempts(r)
  <2>1. n \in Nat /\ n \in 1..MaxAttempts
    BY <1>1
  <2>2. ASSUME NEW m \in 1..n PROVE m \in Existing(r)
    <3>1. m = n \/ m \in 1..(n - 1)
      BY <2>1
    <3>2. m \in 1..(n - 1) => job[<<r, m>>] \in Terminal
      BY DEF RowsInv, AttemptsInOrder
    <3>3. m \in 1..MaxAttempts
      BY <2>1, PreviewAssumption
    <3> QED BY <3>1, <3>2, <3>3 DEF Existing, Terminal
  <2>3. 1..n \in SUBSET Existing(r) /\ Cardinality(1..n) = n
    BY <2>1, <2>2, FS_Interval
  <2> QED BY <1>2, <2>3, FS_Subset DEF Attempts
<1>4. Existing(r) \in SUBSET (1..Attempts(r))
  BY <1>1, <1>2, <1>3
<1>5. IsFiniteSet(1..Attempts(r)) /\ Cardinality(1..Attempts(r)) = Attempts(r)
  BY <1>2, FS_Interval
<1>6. Existing(r) = 1..Attempts(r)
  BY <1>4, <1>5, FS_Subset DEF Attempts
<1> QED BY <1>2, <1>6

LEMMA OrdinalsStayContiguous == RowsInv' => Contiguous'
BY OrdinalsAreContiguous, PTL

LEMMA HistoryType ==
  ASSUME PreviewInv, NEW r \in Requests
  PROVE  /\ HistoryOf(r) \in Seq({"open", "succeeded", "failed"})
         /\ Len(HistoryOf(r)) = Attempts(r)
         /\ \A n \in 1..Attempts(r) : HistoryOf(r)[n] = Status(<<r, n>>)
<1>1. Attempts(r) \in Nat /\ Existing(r) = 1..Attempts(r)
  BY OrdinalsAreContiguous DEF PreviewInv, Contiguous
<1>2. ASSUME NEW n \in 1..Attempts(r) PROVE Status(<<r, n>>) \in {"open", "succeeded", "failed"}
  <2>1. n \in Existing(r) /\ <<r, n>> \in Jobs
    BY <1>1 DEF Existing, Jobs
  <2> QED BY <2>1 DEF PreviewInv, RowsInv, Reached, Existing, Status
<1>3. HistoryOf(r) \in [1..Attempts(r) -> {"open", "succeeded", "failed"}]
  BY <1>2 DEF HistoryOf
<1>4. HistoryOf(r) \in Seq({"open", "succeeded", "failed"})
  BY <1>1, <1>3
<1> QED BY <1>1, <1>3, <1>4 DEF HistoryOf

(* A step that neither creates nor ends a job of a request leaves its      *)
(* history alone.                                                          *)
LEMMA HiddenStep ==
  ASSUME PreviewInv, NEW r \in Requests,
         \A n \in 1..MaxAttempts : /\ job'[<<r, n>>] = "absent" <=> job[<<r, n>>] = "absent"
                                   /\ Status(<<r, n>>)' = Status(<<r, n>>)
  PROVE  HistoryOf(r)' = HistoryOf(r)
<1>1. Existing(r)' = Existing(r)
  BY DEF Existing
<1>2. Attempts(r)' = Attempts(r)
  BY <1>1 DEF Attempts
<1>3. 1..Attempts(r) \subseteq 1..MaxAttempts
  BY OrdinalsAreContiguous, PreviewAssumption DEF PreviewInv, Contiguous
<1>4. [n \in 1..Attempts(r) |-> Status(<<r, n>>)'] = [n \in 1..Attempts(r) |-> Status(<<r, n>>)]
  BY <1>3
<1> QED BY <1>2, <1>4 DEF HistoryOf

LEMMA AppendedSequence ==
  ASSUME NEW S, NEW h \in Seq(S), NEW e
  PROVE  Append(h, e) = [m \in 1..(Len(h) + 1) |-> IF m = Len(h) + 1 THEN e ELSE h[m]]
<1> DEFINE a == Append(h, e)
<1>1. h \in Seq(S \cup {e}) /\ e \in S \cup {e}
  OBVIOUS
<1>2. a \in Seq(S \cup {e}) /\ Len(a) = Len(h) + 1
  BY <1>1
<1>3. a = [m \in 1..Len(a) |-> a[m]]
  <2>1. a \in [1..Len(a) -> S \cup {e}]
    <3> HIDE DEF a
    <3> QED BY <1>2
  <2>2. ASSUME NEW D, NEW R, NEW f \in [D -> R] PROVE f = [m \in D |-> f[m]]
    OBVIOUS
  <2> HIDE DEF a
  <2> QED BY <2>1, <2>2
<1>4. \A m \in 1..(Len(h) + 1) : a[m] = IF m = Len(h) + 1 THEN e ELSE h[m]
  BY <1>1
<1> QED BY <1>2, <1>3, <1>4

(* The creation of a job starts an attempt.                                *)
LEMMA CreationStarts ==
  ASSUME PreviewInv, PreviewInv', NEW r \in Requests, NEW n \in 1..MaxAttempts,
         job[<<r, n>>] = "absent", ~ActiveJob(r),
         job' = [job EXCEPT ![<<r, n>>] = "requested"]
  PROVE  /\ HistoryOf(r) = << >> \/ HistoryOf(r)[Len(HistoryOf(r))] # "open"
         /\ HistoryOf(r)' = Append(HistoryOf(r), "open")
         /\ \A q \in Requests \ {r} : HistoryOf(q)' = HistoryOf(q)
<1>1. /\ Attempts(r) \in Nat /\ Existing(r) = 1..Attempts(r)
      /\ Attempts(r)' \in Nat /\ Existing(r)' = 1..Attempts(r)'
  BY OrdinalsAreContiguous, OrdinalsStayContiguous DEF PreviewInv, Contiguous
<1>2. \A q \in Requests, m \in 1..MaxAttempts :
        job'[<<q, m>>] = IF q = r /\ m = n THEN "requested" ELSE job[<<q, m>>]
  BY DEF PreviewInv, TypeOK, Jobs
<1>3. Existing(r)' = Existing(r) \cup {n} /\ n \notin Existing(r)
  BY <1>2 DEF Existing
<1>4. n = Attempts(r) + 1 /\ Attempts(r)' = Attempts(r) + 1
  <2>1. n \in 1..Attempts(r)' /\ n \notin 1..Attempts(r) /\ n \in Nat
    BY <1>1, <1>3, PreviewAssumption
  <2>2. Attempts(r) + 1 \in 1..Attempts(r)'
    BY <1>1, <2>1
  <2>3. Attempts(r) + 1 = n
    BY <1>1, <1>3, <2>2
  <2>4. Attempts(r)' \in 1..Attempts(r)' /\ Attempts(r)' >= n
    BY <1>1, <2>1
  <2>5. Attempts(r)' = n
    BY <1>1, <1>3, <2>3, <2>4
  <2> QED BY <2>3, <2>5
<1>5. ASSUME HistoryOf(r) # << >> PROVE HistoryOf(r)[Len(HistoryOf(r))] # "open"
  <2>1. Attempts(r) \in 1..Attempts(r) /\ Attempts(r) \in Existing(r)
    BY <1>1, <1>5, HistoryType
  <2>2. ~active[<<r, Attempts(r)>>] /\ <<r, Attempts(r)>> \in Jobs
    BY <2>1 DEF ActiveJob, Existing, Jobs
  <2>3. job[<<r, Attempts(r)>>] \notin Open
    BY <2>2 DEF PreviewInv, RowsInv, ActiveIsOpen
  <2>4. job[<<r, Attempts(r)>>] \in Terminal \cup {"absent"}
    BY <2>2, <2>3 DEF PreviewInv, RowsInv, JobStates
  <2>5. HistoryOf(r)[Attempts(r)] = job[<<r, Attempts(r)>>]
    BY <2>1, <2>3, HistoryType DEF Status
  <2> QED BY <2>1, <2>4, <2>5, HistoryType DEF Terminal
<1>6. HistoryOf(r)' = Append(HistoryOf(r), "open")
  <2>1. HistoryOf(r)' = [m \in 1..(Attempts(r) + 1) |-> Status(<<r, m>>)']
    BY <1>4 DEF HistoryOf
  <2>2. \A m \in 1..Attempts(r) : Status(<<r, m>>)' = HistoryOf(r)[m]
    BY <1>1, <1>2, <1>4, HistoryType DEF Status, Existing
  <2>3. Status(<<r, n>>)' = "open"
    BY <1>2 DEF Status, Open
  <2>4. HistoryOf(r) \in Seq({"open", "succeeded", "failed"}) /\ Len(HistoryOf(r)) = Attempts(r)
    BY HistoryType
  <2>5. Append(HistoryOf(r), "open")
          = [m \in 1..(Attempts(r) + 1) |-> IF m = Attempts(r) + 1 THEN "open" ELSE HistoryOf(r)[m]]
    BY <2>4, AppendedSequence
  <2>6. \A m \in 1..(Attempts(r) + 1) :
          Status(<<r, m>>)' = IF m = Attempts(r) + 1 THEN "open" ELSE HistoryOf(r)[m]
    BY <1>1, <1>4, <2>2, <2>3
  <2> QED BY <2>1, <2>5, <2>6
<1>7. ASSUME NEW q \in Requests \ {r} PROVE HistoryOf(q)' = HistoryOf(q)
  BY <1>2, HiddenStep DEF Status
<1> QED BY <1>5, <1>6, <1>7

(* The end of a job ends the newest attempt.                               *)
LEMMA EndingEnds ==
  ASSUME PreviewInv, PreviewInv', NEW r \in Requests, NEW n \in 1..MaxAttempts,
         NEW s \in {"succeeded", "failed"}, job[<<r, n>>] \in Open,
         job' = [job EXCEPT ![<<r, n>>] = s]
  PROVE  /\ HistoryOf(r) # << >> /\ HistoryOf(r)[Len(HistoryOf(r))] = "open"
         /\ HistoryOf(r)' = [HistoryOf(r) EXCEPT ![Len(HistoryOf(r))] = s]
         /\ \A q \in Requests \ {r} : HistoryOf(q)' = HistoryOf(q)
<1>1. Attempts(r) \in Nat /\ Existing(r) = 1..Attempts(r)
  BY OrdinalsAreContiguous DEF PreviewInv, Contiguous
<1>2. \A q \in Requests, m \in 1..MaxAttempts :
        job'[<<q, m>>] = IF q = r /\ m = n THEN s ELSE job[<<q, m>>]
  BY DEF PreviewInv, TypeOK, Jobs
<1>3. n \in Existing(r) /\ Existing(r)' = Existing(r)
  BY <1>2 DEF Existing, Open
<1>4. Attempts(r)' = Attempts(r)
  BY <1>3 DEF Attempts
<1>5. n = Attempts(r)
  <2>1. ASSUME n < Attempts(r) PROVE FALSE
    <3>1. Attempts(r) \in Existing(r) /\ n \in 1..(Attempts(r) - 1)
      BY <1>1, <1>3, <2>1
    <3>2. job[<<r, n>>] \in Terminal
      BY <3>1 DEF PreviewInv, RowsInv, AttemptsInOrder
    <3> QED BY <3>2 DEF Open, Terminal
  <2> QED BY <1>1, <1>3, <2>1
<1>6. HistoryOf(r) # << >> /\ HistoryOf(r)[Len(HistoryOf(r))] = "open"
  BY <1>1, <1>3, <1>5, HistoryType DEF Status
<1>7. HistoryOf(r)' = [HistoryOf(r) EXCEPT ![Len(HistoryOf(r))] = s]
  <2>1. HistoryOf(r)' = [m \in 1..Attempts(r) |-> Status(<<r, m>>)']
    BY <1>4 DEF HistoryOf
  <2>2. \A m \in 1..Attempts(r) : Status(<<r, m>>)' = IF m = n THEN s ELSE HistoryOf(r)[m]
    BY <1>1, <1>2, HistoryType DEF Status, Open, Existing
  <2>3. HistoryOf(r) = [m \in 1..Attempts(r) |-> Status(<<r, m>>)] /\ Len(HistoryOf(r)) = n
    BY <1>5, HistoryType DEF HistoryOf
  <2> QED BY <1>1, <1>3, <2>1, <2>2, <2>3
<1>8. ASSUME NEW q \in Requests \ {r} PROVE HistoryOf(q)' = HistoryOf(q)
  BY <1>2, HiddenStep DEF Status
<1> QED BY <1>6, <1>7, <1>8

-----------------------------------------------------------------------------
(* The implementation.                                                     *)

histories == [r \in Requests |-> HistoryOf(r)]

-----------------------------------------------------------------------------
(* The implementation.                                                     *)

LEMMA AbstractInit == Init => Abstract!Init
<1> SUFFICES ASSUME Init PROVE Abstract!Init
  OBVIOUS
<1>1. \A r \in Requests : Existing(r) = {}
  BY DEF Init, Existing, Jobs
<1>2. ASSUME NEW r \in Requests
      PROVE  [n \in 1..Cardinality(Existing(r)) |-> Status(<<r, n>>)] = << >>
  <2>1. Cardinality(Existing(r)) = 0
    BY <1>1, FS_EmptySet
  <2>2. 1..0 = {}
    OBVIOUS
  <2> QED BY <2>1, <2>2
<1> QED BY <1>2 DEF Abstract!Init

(* Other steps than the creation and the end of a job are not seen.        *)
LEMMA HiddenSteps ==
  ASSUME PreviewInv, UNCHANGED rows \/ \E t \in Threads : AdmitJob(t) \/ StartJob(t)
  PROVE  \A r \in Requests : HistoryOf(r)' = HistoryOf(r)
<1> SUFFICES ASSUME NEW r \in Requests PROVE HistoryOf(r)' = HistoryOf(r)
  OBVIOUS
<1>1. CASE UNCHANGED rows
  BY <1>1, HiddenStep DEF rows, Status
<1>2. ASSUME NEW i \in Jobs, NEW s \in Open, job[i] \in Open, job' = [job EXCEPT ![i] = s]
      PROVE  HistoryOf(r)' = HistoryOf(r)
  <2>1. \A j \in Jobs : job'[j] = IF j = i THEN s ELSE job[j]
    BY <1>2 DEF PreviewInv, TypeOK
  <2>2. \A n \in 1..MaxAttempts : <<r, n>> \in Jobs
    BY DEF Jobs
  <2> QED BY <1>2, <2>1, <2>2, HiddenStep DEF Status, Open
<1>3. ASSUME NEW t \in Threads, AdmitJob(t) PROVE HistoryOf(r)' = HistoryOf(r)
  <2>1. pc[t] = "created" /\ Transition(t, "admitted")
    BY <1>3 DEF AdmitJob, Goto
  <2>2. Mine(t) \in Jobs /\ "admitted" \in Allowed(job[Mine(t)]) /\ job[Mine(t)] \in Open
    BY <2>1, TransitionIsLegal
  <2> QED BY <1>2, <2>1, <2>2 DEF Transition, Open
<1>4. ASSUME NEW t \in Threads, StartJob(t) PROVE HistoryOf(r)' = HistoryOf(r)
  <2>1. pc[t] = "admitted" /\ Transition(t, "running")
    BY <1>4 DEF StartJob, Goto
  <2>2. Mine(t) \in Jobs /\ "running" \in Allowed(job[Mine(t)]) /\ job[Mine(t)] \in Open
    BY <2>1, TransitionIsLegal
  <2> QED BY <1>2, <2>1, <2>2 DEF Transition, Open
<1> QED BY <1>1, <1>3, <1>4

LEMMA AbstractStep ==
  ASSUME PreviewInv, PreviewInv', [Next]_vars
  PROVE  [Abstract!Next]_([r \in Requests |-> HistoryOf(r)])
<1> DEFINE h == [r \in Requests |-> HistoryOf(r)]
<1>1. ASSUME UNCHANGED rows \/ \E t \in Threads : AdmitJob(t) \/ StartJob(t) PROVE h' = h
  BY <1>1, HiddenSteps
<1>2. ASSUME NEW t \in Threads, CreateJob(t), ~UNCHANGED rows
      PROVE  \E r \in Requests : Abstract!Start(r)
  <2>1. /\ req[t] \in Requests /\ ord[t] \in 1..MaxAttempts /\ Mine(t) = <<req[t], ord[t]>>
        /\ job[Mine(t)] = "absent" /\ ~ActiveJob(req[t])
        /\ job' = [job EXCEPT ![Mine(t)] = "requested"]
    BY <1>2 DEF PreviewInv, HandlerFits, TypeOK, CreateJob, Mine
  <2>2. /\ HistoryOf(req[t]) = << >> \/ HistoryOf(req[t])[Len(HistoryOf(req[t]))] # "open"
        /\ \A q \in Requests :
             h'[q] = IF q = req[t] THEN Append(h[q], "open") ELSE h[q]
    BY <2>1, CreationStarts
  <2>3. h' = [h EXCEPT ![req[t]] = Append(@, "open")]
    BY <2>2
  <2> QED BY <2>1, <2>2, <2>3 DEF Abstract!Start, Abstract!Ended, HistoryOf, Attempts
<1>3. ASSUME NEW t \in Threads, NEW s \in {"succeeded", "failed"},
             Mine(t) \in Jobs, job[Mine(t)] \in Open, pc[t] # "idle",
             job' = [job EXCEPT ![Mine(t)] = s]
      PROVE  \E r \in Requests : Abstract!End(r)
  <2>1. req[t] \in Requests /\ ord[t] \in 1..MaxAttempts /\ Mine(t) = <<req[t], ord[t]>>
    BY <1>3 DEF PreviewInv, HandlerFits, TypeOK, Mine
  <2>2. /\ HistoryOf(req[t]) # << >> /\ HistoryOf(req[t])[Len(HistoryOf(req[t]))] = "open"
        /\ \A q \in Requests :
             h'[q] = IF q = req[t] THEN [h[q] EXCEPT ![Len(h[q])] = s] ELSE h[q]
    BY <1>3, <2>1, EndingEnds
  <2>3. h' = [h EXCEPT ![req[t]] = [@ EXCEPT ![Len(@)] = s]]
    BY <2>2
  <2> QED BY <2>1, <2>2, <2>3 DEF Abstract!End, Abstract!Ended, Abstract!Outcomes, HistoryOf, Attempts
<1>4. ASSUME NEW t \in Threads, Succeed(t) \/ Fail(t) PROVE \E r \in Requests : Abstract!End(r)
  <2>1. CASE Succeed(t)
    <3>1. pc[t] = "delivered" /\ Transition(t, "succeeded")
      BY <2>1 DEF Succeed
    <3>2. Mine(t) \in Jobs /\ "succeeded" \in Allowed(job[Mine(t)]) /\ job[Mine(t)] \in Open
      BY <3>1, TransitionIsLegal
    <3> QED BY <1>3, <3>1, <3>2 DEF Transition
  <2>2. CASE Fail(t)
    <3>1. pc[t] = "failing" /\ Transition(t, "failed")
      BY <2>2 DEF Fail
    <3>2. Mine(t) \in Jobs /\ "failed" \in Allowed(job[Mine(t)]) /\ job[Mine(t)] \in Open
      BY <3>1, TransitionIsLegal
    <3> QED BY <1>3, <3>1, <3>2 DEF Transition
  <2> QED BY <1>4, <2>1, <2>2
<1>5. \/ UNCHANGED rows
      \/ \E t \in Threads : AdmitJob(t) \/ StartJob(t) \/ CreateJob(t) \/ Succeed(t) \/ Fail(t)
  BY DEF Next, Handle, Resolve, CheckActive, Number, NumberBeyondBound, CheckConflict, Execute,
     Deliver, DeliverRaises, Restart, vars, rows
<1> QED BY <1>1, <1>2, <1>4, <1>5 DEF Abstract!Next, HistoryOf, Attempts

(* The tables of the preview jobs implement the history that is promised of *)
(* each request: an attempt begins only after the newest has ended, and an *)
(* end is never revised.                                                   *)
THEOREM PreviewJobsImplement == Spec => ImplementsHistory
<1>1. Init => Abstract!Init
  BY AbstractInit
<1>2. PreviewInv /\ PreviewInv' /\ [Next]_vars
        => [Abstract!Next]_([r \in Requests |->
                               [n \in 1..Cardinality(Existing(r)) |-> Status(<<r, n>>)]])
  BY AbstractStep DEF HistoryOf, Attempts
<1> QED BY <1>1, <1>2, PreviewInvariant, PTL DEF Spec, ImplementsHistory, Abstract!Spec
=============================================================================
