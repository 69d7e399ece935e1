------------------------------ MODULE PreviewJobs ------------------------------
(***************************************************************************)
(* Preview requests of the Studio API: request_preview in                  *)
(* application/studio_workflow_service.py over the preview tables of       *)
(* infrastructure/sqlite_project_repository.py and the delivery folders of *)
(* infrastructure/preview_adapters.py.                                     *)
(*                                                                         *)
(* The route handlers are threads of one process.  Every repository call   *)
(* is atomic (one connection under one lock), and request_preview makes    *)
(* many of them, so requests interleave between the calls.  A job is       *)
(* <<request hash, attempt ordinal>>; its id is derived from the two.      *)
(***************************************************************************)
EXTENDS Naturals, Sequences, FiniteSets

CONSTANTS
  Threads,       \* request handlers of the thread pool
  Requests,      \* preview request hashes
  NoRequest,     \* an idle handler
  MaxAttempts,   \* bound on the attempts per request that are explored
  MaxFaults,     \* bound on the deliveries that raise OSError
  MaxRestarts    \* bound on the restarts of the process

ASSUME PreviewAssumption ==
  /\ NoRequest \notin Requests
  /\ MaxAttempts \in Nat \ {0}
  /\ MaxFaults \in Nat
  /\ MaxRestarts \in Nat

VARIABLES
  job,        \* the state of each row of studio_preview_jobs, or "absent"
  active,     \* its active column
  events,     \* studio_preview_job_events: the states in ordinal order
  delivered,  \* the jobs whose delivery folder is in place
  pc,         \* where each handler is in request_preview
  req,        \* the request hash it has resolved
  ord,        \* the attempt ordinal it was given
  faults, restarts

vars == <<job, active, events, delivered, pc, req, ord, faults, restarts>>

rows   == <<job, active, events>>
bounds == <<faults, restarts>>

Jobs == Requests \X (1..MaxAttempts)

Terminal == {"succeeded", "failed", "cancelled", "rejected_pre_admission"}

Open == {"requested", "admitted", "running"}

JobStates == {"absent"} \cup Open \cup Terminal

Driving == {"created", "admitted", "running", "produced", "delivered", "failing"}

Phases == {"idle", "resolved", "numbering", "creating", "conflicted"} \cup Driving

(* The job a handler works on.                                             *)
Mine(t) == <<req[t], ord[t]>>

TypeOK ==
  /\ job \in [Jobs -> JobStates]
  /\ active \in [Jobs -> BOOLEAN]
  /\ events \in [Jobs -> Seq(JobStates)]
  /\ delivered \subseteq Jobs
  /\ pc \in [Threads -> Phases]
  /\ req \in [Threads -> Requests \cup {NoRequest}]
  /\ ord \in [Threads -> 1..MaxAttempts]
  /\ faults \in 0..MaxFaults
  /\ restarts \in 0..MaxRestarts

Init ==
  /\ job = [j \in Jobs |-> "absent"]
  /\ active = [j \in Jobs |-> FALSE]
  /\ events = [j \in Jobs |-> << >>]
  /\ delivered = {}
  /\ pc = [t \in Threads |-> "idle"]
  /\ req = [t \in Threads |-> NoRequest]
  /\ ord = [t \in Threads |-> 1]
  /\ faults = 0
  /\ restarts = 0

-----------------------------------------------------------------------------
(* Queries of the repository.                                              *)

Existing(r) == {n \in 1..MaxAttempts : job[<<r, n>>] # "absent"}

(* get_active_preview_job: SELECT ... WHERE active = 1.                    *)
ActiveJob(r) == \E n \in Existing(r) : active[<<r, n>>]

(* next_preview_attempt: MAX(attempt_ordinal) + 1.                         *)
NextAttempt(r, n) ==
  \/ Existing(r) = {} /\ n = 1
  \/ n - 1 \in Existing(r) /\ \A m \in Existing(r) : m <= n - 1

(* The transitions transition_preview_job allows.                          *)
Allowed(s) ==
  CASE s = "requested" -> {"admitted", "rejected_pre_admission"}
    [] s = "admitted"  -> {"running", "cancelled", "failed"}
    [] s = "running"   -> {"succeeded", "failed", "cancelled"}
    [] OTHER           -> {}

-----------------------------------------------------------------------------
(* request_preview, one repository call at a time.                         *)

Return(t) ==
  /\ pc' = [pc EXCEPT ![t] = "idle"]
  /\ req' = [req EXCEPT ![t] = NoRequest]

Goto(t, from, to) ==
  /\ pc[t] = from
  /\ pc' = [pc EXCEPT ![t] = to]

(* The project, the review and the render input are resolved; a request    *)
(* that fails there touches nothing.                                       *)
Resolve(t, r) ==
  /\ Existing(r) # 1..MaxAttempts
  /\ Goto(t, "idle", "resolved")
  /\ req' = [req EXCEPT ![t] = r]
  /\ UNCHANGED <<rows, delivered, ord, bounds>>

(* An active job of the same request is returned as it is.                 *)
CheckActive(t) ==
  /\ pc[t] = "resolved"
  /\ IF ActiveJob(req[t])
     THEN Return(t)
     ELSE Goto(t, "resolved", "numbering") /\ UNCHANGED req
  /\ UNCHANGED <<rows, delivered, ord, bounds>>

Number(t) ==
  /\ Goto(t, "numbering", "creating")
  /\ \E n \in 1..MaxAttempts :
       NextAttempt(req[t], n) /\ ord' = [ord EXCEPT ![t] = n]
  /\ UNCHANGED <<rows, delivered, req, bounds>>

(* All attempts that are explored have been used up meanwhile.             *)
NumberBeyondBound(t) ==
  /\ pc[t] = "numbering"
  /\ Existing(req[t]) = 1..MaxAttempts
  /\ Return(t)
  /\ UNCHANGED <<rows, delivered, ord, bounds>>

CreateJobRetrying(t) ==
  /\ pc[t] = "creating"
  /\ IF job[Mine(t)] # "absent" \/ ActiveJob(req[t])
     THEN UNCHANGED <<pc, rows>>
     ELSE /\ Goto(t, "creating", "created")
          /\ job' = [job EXCEPT ![Mine(t)] = "requested"]
          /\ active' = [active EXCEPT ![Mine(t)] = TRUE]
          /\ events' = [events EXCEPT ![Mine(t)] = <<"requested">>]
  /\ UNCHANGED <<delivered, req, ord, bounds>>

CreateJobAdopting(t) ==
  /\ pc[t] = "creating"
  /\ Goto(t, "creating", "created")
  /\ IF job[Mine(t)] # "absent" \/ ActiveJob(req[t])
     THEN UNCHANGED rows
     ELSE /\ job' = [job EXCEPT ![Mine(t)] = "requested"]
          /\ active' = [active EXCEPT ![Mine(t)] = TRUE]
          /\ events' = [events EXCEPT ![Mine(t)] = <<"requested">>]
  /\ UNCHANGED <<delivered, req, ord, bounds>>

(* INSERT with active = 1 and the first event.  The primary key refuses a  *)
(* second row of the ordinal, the partial unique index a second active row.*)
CreateJob(t) ==
  /\ pc[t] = "creating"
  /\ IF job[Mine(t)] # "absent" \/ ActiveJob(req[t])
     THEN Goto(t, "creating", "conflicted") /\ UNCHANGED rows
     ELSE /\ Goto(t, "creating", "created")
          /\ job' = [job EXCEPT ![Mine(t)] = "requested"]
          /\ active' = [active EXCEPT ![Mine(t)] = TRUE]
          /\ events' = [events EXCEPT ![Mine(t)] = <<"requested">>]
  /\ UNCHANGED <<delivered, req, ord, bounds>>

(* The loser returns the winner's job, or RENDER_REQUEST_CONFLICT when that*)
(* one has ended by now.                                                   *)
CheckConflict(t) ==
  /\ pc[t] = "conflicted"
  /\ Return(t)
  /\ UNCHANGED <<rows, delivered, ord, bounds>>

(* transition_preview_job: an event is appended with every state, and the  *)
(* active column follows from the state; a transition that is not allowed  *)
(* is an exception.                                                        *)
TransitionSilent(t, s) ==
  IF s \in Allowed(job[Mine(t)])
  THEN /\ job' = [job EXCEPT ![Mine(t)] = s]
       /\ active' = [active EXCEPT ![Mine(t)] = s \notin Terminal]
       /\ UNCHANGED events
  ELSE UNCHANGED rows

TransitionReleasing(t, s) ==
  IF s \in Allowed(job[Mine(t)])
  THEN /\ job' = [job EXCEPT ![Mine(t)] = s]
       /\ active' = [active EXCEPT ![Mine(t)] = s = "admitted"]
       /\ events' = [events EXCEPT ![Mine(t)] = Append(@, s)]
  ELSE UNCHANGED rows

Transition(t, s) ==
  IF s \in Allowed(job[Mine(t)])
  THEN /\ job' = [job EXCEPT ![Mine(t)] = s]
       /\ active' = [active EXCEPT ![Mine(t)] = s \notin Terminal]
       /\ events' = [events EXCEPT ![Mine(t)] = Append(@, s)]
  ELSE UNCHANGED rows

AdmitJob(t) ==
  /\ Goto(t, "created", "admitted")
  /\ Transition(t, "admitted")
  /\ UNCHANGED <<delivered, req, ord, bounds>>

StartJob(t) ==
  /\ Goto(t, "admitted", "running")
  /\ Transition(t, "running")
  /\ UNCHANGED <<delivered, req, ord, bounds>>

(* preview_executor.execute; whatever it raises becomes a failed outcome.  *)
Execute(t) ==
  /\ pc[t] = "running"
  /\ \E outcome \in {"produced", "failing"} : Goto(t, "running", outcome)
  /\ UNCHANGED <<rows, delivered, req, ord, bounds>>

DeliverNothing(t) ==
  /\ pc[t] = "produced"
  /\ Goto(t, "produced", "delivered")
  /\ UNCHANGED <<rows, delivered, req, ord, bounds>>

(* FilePreviewDelivery.put: staged, then renamed into a folder of the job's*)
(* own; a folder that exists, or frames that the manifest does not declare,*)
(* are a ValueError.                                                       *)
Deliver(t) ==
  /\ pc[t] = "produced"
  /\ \/ /\ Mine(t) \notin delivered
        /\ Goto(t, "produced", "delivered")
        /\ delivered' = delivered \cup {Mine(t)}
     \/ /\ Goto(t, "produced", "failing")
        /\ UNCHANGED delivered
  /\ UNCHANGED <<rows, req, ord, bounds>>

(* An OSError of put is not caught: the handler ends, the job stays.       *)
DeliverRaises(t) ==
  /\ pc[t] = "produced"
  /\ faults < MaxFaults
  /\ faults' = faults + 1
  /\ Return(t)
  /\ UNCHANGED <<rows, delivered, ord, restarts>>

Succeed(t) ==
  /\ pc[t] = "delivered"
  /\ Transition(t, "succeeded")
  /\ Return(t)
  /\ UNCHANGED <<delivered, ord, bounds>>

Fail(t) ==
  /\ pc[t] = "failing"
  /\ Transition(t, "failed")
  /\ Return(t)
  /\ UNCHANGED <<delivered, ord, bounds>>

(* The process restarts: all handlers are gone, the database and the       *)
(* delivery folders stay.  Nothing looks at the jobs that were open.       *)
Restart ==
  /\ restarts < MaxRestarts
  /\ restarts' = restarts + 1
  /\ pc' = [t \in Threads |-> "idle"]
  /\ req' = [t \in Threads |-> NoRequest]
  /\ UNCHANGED <<rows, delivered, ord, faults>>

-----------------------------------------------------------------------------

Handle(t) ==
  \/ CheckActive(t) \/ Number(t) \/ NumberBeyondBound(t) \/ CreateJob(t)
  \/ CheckConflict(t) \/ AdmitJob(t) \/ StartJob(t) \/ Execute(t)
  \/ Deliver(t) \/ Succeed(t) \/ Fail(t)

Next ==
  \/ \E t \in Threads : \E r \in Requests : Resolve(t, r)
  \/ \E t \in Threads : Handle(t) \/ DeliverRaises(t)
  \/ Restart

Spec == Init /\ [][Next]_vars

(* A handler thread that has begun keeps running.                          *)
FairSpec == Spec /\ \A t \in Threads : WF_vars(Handle(t))

-----------------------------------------------------------------------------
(* Properties.                                                             *)

(* "There may be at most one non-terminal job for a request hash", and an  *)
(* attempt is numbered after one that has ended: the ordinals of a request *)
(* are 1, 2, ... and all but the last are terminal.                        *)
AttemptsInOrder ==
  \A r \in Requests : \A n \in Existing(r) :
    \A m \in 1..(n - 1) : job[<<r, m>>] \in Terminal

(* "A duplicate active request ... never starts a second process": two     *)
(* handlers never work on one job, nor on two jobs of one request.         *)
OneDriverPerRequest ==
  \A t, u \in Threads :
    pc[t] \in Driving /\ pc[u] \in Driving /\ req[t] = req[u] => t = u

(* However requests overlap, a request has one series of attempts with at  *)
(* most one of them worked on, by one handler.                             *)
OneAttemptAtATime == AttemptsInOrder /\ OneDriverPerRequest

(* Each step of a job is on record, once and in the order of the           *)
(* lifecycle, and the active column says whether the job has ended.        *)
EventsTellTheState ==
  \A j \in Jobs : job[j] # "absent" =>
    /\ events[j] # << >>
    /\ events[j][1] = "requested"
    /\ events[j][Len(events[j])] = job[j]
    /\ \A i \in 2..Len(events[j]) : events[j][i] \in Allowed(events[j][i - 1])
    /\ active[j] <=> job[j] \in Open

(* "A result without all three is not successful": a job that succeeded    *)
(* has its preview in place, also after any number of restarts.            *)
SucceededIsDelivered == \A j \in Jobs : job[j] = "succeeded" => j \in delivered

(* What the studio shows of a job is what happened to it.                  *)
JobsTellTheTruth == EventsTellTheState /\ SucceededIsDelivered

(* Every handler answers its request, however requests overlap.            *)
RequestsAnswered == \A t \in Threads : pc[t] # "idle" ~> pc[t] = "idle"

(* Without a restart and without an OSError every job comes to an end.     *)
JobsEnd ==
  [](restarts = 0 /\ faults = 0) =>
    \A j \in Jobs : job[j] \in Open ~> job[j] \in Terminal

(* Every handler answers, and what it began comes to an end.               *)
RequestsFinish == RequestsAnswered /\ JobsEnd

(* The tables implement the abstract history of each request.              *)
Status(j) == IF job[j] \in Open THEN "open" ELSE job[j]

Abstract == INSTANCE PreviewHistory WITH
  history <- [r \in Requests |->
                [n \in 1..Cardinality(Existing(r)) |-> Status(<<r, n>>)]]

ImplementsHistory == Abstract!Spec

-----------------------------------------------------------------------------
(* "A user may explicitly request a new attempt only after a terminal      *)
(* result", so each attempt must come to one while the process lives.      *)
EveryAttemptEnds == \A j \in Jobs : job[j] = "running" ~> job[j] \in Terminal
=============================================================================
