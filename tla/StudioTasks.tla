------------------------------ MODULE StudioTasks ------------------------------
(***************************************************************************)
(* Manual tasks of one Studio project: create_task, submit_task_response,  *)
(* approve_task and create_repair of                                       *)
(* application/studio_workflow_service.py over the task tables of          *)
(* infrastructure/sqlite_project_repository.py.                            *)
(*                                                                         *)
(* A route handler is a thread; each repository call is atomic and the     *)
(* handlers interleave between their calls.  A task id is a hash of what   *)
(* identifies the task, the parent it repairs and a clock that counts      *)
(* seconds, so it is modelled as the sequence of just these.               *)
(***************************************************************************)
EXTENDS Naturals, Sequences, FiniteSets

CONSTANTS
  Threads,      \* request handlers of the thread pool
  Requests,     \* what a client asks a task about (family and topic)
  IdentityOf,   \* the part of a request that enters the task id: the topic of
                \* a research task, nothing of the topic of a planner task
  Responses,    \* payloads a client may submit, by their hash
  Accepts,      \* what validate_response says of each
  Nothing,      \* a null value
  MaxSecond,    \* bound on the clock
  MaxEvents     \* bound on the rows of studio_task_events

StudioConstants ==
  /\ Nothing \notin Requests \cup Responses
  /\ Accepts \in [Responses -> BOOLEAN]
  /\ MaxSecond \in Nat /\ MaxEvents \in Nat

VARIABLES
  tasks,      \* studio_tasks: rows [id, request]
  events,     \* studio_task_events in event_id order
  clock,      \* now_utc in whole seconds
  pc,         \* where each handler is
  id,         \* the task it works on
  about,      \* the request of the task it creates
  seen        \* the response it has read

tables == <<tasks, events>>
local  == <<id, about, seen>>
vars   == <<tables, clock, pc, local>>

Statuses == {"waiting", "valid", "repair_required", "approved"}

Phases == {"idle", "storing", "stored", "judging", "approving", "repairing"}

-----------------------------------------------------------------------------
(* What the repository answers.                                            *)

RootId(q) == <<IdentityOf[q], clock>>

Stored(i) == {x \in tasks : x.id = i}

Rows(i) == {k \in 1..Len(events) : events[k].task = i}

IsLast(i, k) == k \in Rows(i) /\ \A j \in Rows(i) : j <= k

(* get_task: the last event tells the status; a task without one waits.    *)
HasStatus(i, s) ==
  /\ Stored(i) # {}
  /\ \/ Rows(i) = {} /\ s = "waiting"
     \/ \E k \in Rows(i) : IsLast(i, k) /\ events[k].status = s

LastResponse(i, r) == \E k \in Rows(i) : IsLast(i, k) /\ events[k].response = r

Record(i, s, r) ==
  events' = Append(events, [task |-> i, status |-> s, response |-> r])

-----------------------------------------------------------------------------

TypeOK ==
  /\ \A x \in tasks : x.request \in Requests /\ Len(x.id) >= 2
  /\ \A k \in 1..Len(events) :
       /\ events[k].status \in Statuses
       /\ events[k].response \in Responses \cup {Nothing}
       /\ Stored(events[k].task) # {}
  /\ clock \in 0..MaxSecond
  /\ pc \in [Threads -> Phases]
  /\ about \in [Threads -> Requests \cup {Nothing}]
  /\ seen \in [Threads -> Responses \cup {Nothing}]

Init ==
  /\ tasks = {}
  /\ events = << >>
  /\ clock = 0
  /\ pc = [t \in Threads |-> "idle"]
  /\ id = [t \in Threads |-> << >>]
  /\ about = [t \in Threads |-> Nothing]
  /\ seen = [t \in Threads |-> Nothing]

Goto(t, from, to) ==
  /\ pc[t] = from
  /\ pc' = [pc EXCEPT ![t] = to]

(* A handler that answers forgets what it has read.                        *)
Return(t) ==
  /\ pc' = [pc EXCEPT ![t] = "idle"]
  /\ id' = [id EXCEPT ![t] = << >>]
  /\ about' = [about EXCEPT ![t] = Nothing]
  /\ seen' = [seen EXCEPT ![t] = Nothing]

(* Every handler in flight may still append one event.                     *)
RoomForEvent ==
  Len(events) + Cardinality({t \in Threads : pc[t] # "idle"}) < MaxEvents

-----------------------------------------------------------------------------
(* create_task and create_repair.                                          *)

CreateTask(t, q) ==
  /\ RoomForEvent
  /\ Goto(t, "idle", "storing")
  /\ id' = [id EXCEPT ![t] = RootId(q)]
  /\ about' = [about EXCEPT ![t] = q]
  /\ UNCHANGED <<tables, clock, seen>>

RepairReadUnchecked(t, i) ==
  /\ RoomForEvent
  /\ Stored(i) # {}
  /\ Goto(t, "idle", "repairing")
  /\ id' = [id EXCEPT ![t] = i]
  /\ \E x \in Stored(i) : about' = [about EXCEPT ![t] = x.request]
  /\ UNCHANGED <<tables, clock, seen>>

RepairRead(t, i) ==
  /\ RoomForEvent
  /\ HasStatus(i, "repair_required")
  /\ Goto(t, "idle", "repairing")
  /\ id' = [id EXCEPT ![t] = i]
  /\ \E x \in Stored(i) : about' = [about EXCEPT ![t] = x.request]
  /\ UNCHANGED <<tables, clock, seen>>

(* The repair is about the topic of its parent and names it.               *)
RepairCreate(t) ==
  /\ Goto(t, "repairing", "storing")
  /\ id' = [id EXCEPT ![t] = Append(@, clock)]
  /\ UNCHANGED <<tables, clock, about, seen>>

PutTaskAnyContent(t) ==
  /\ pc[t] = "storing"
  /\ Goto(t, "storing", "stored")
  /\ tasks' = tasks \cup {[id |-> id[t], request |-> about[t]]}
  /\ UNCHANGED <<events, clock, local>>

(* put_task: INSERT; a row of that id must hold the same payload, or a     *)
(* ValueError ends the handler.                                            *)
PutTask(t) ==
  /\ pc[t] = "storing"
  /\ IF \A x \in Stored(id[t]) : x.request = about[t]
     THEN /\ Goto(t, "storing", "stored")
          /\ tasks' = tasks \cup {[id |-> id[t], request |-> about[t]]}
          /\ UNCHANGED local
     ELSE /\ Return(t)
          /\ UNCHANGED tasks
  /\ UNCHANGED <<events, clock>>

(* Also for a task that was there already.                                 *)
RecordWaiting(t) ==
  /\ pc[t] = "stored"
  /\ Record(id[t], "waiting", Nothing)
  /\ Return(t)
  /\ UNCHANGED <<tasks, clock>>

-----------------------------------------------------------------------------
(* submit_task_response and approve_task: the status is read, and the      *)
(* event that depends on it is written by another call.                    *)

SubmitRead(t, i) ==
  /\ RoomForEvent
  /\ HasStatus(i, "waiting")
  /\ Goto(t, "idle", "judging")
  /\ id' = [id EXCEPT ![t] = i]
  /\ UNCHANGED <<tables, clock, about, seen>>

Verdict(r) == IF Accepts[r] THEN "valid" ELSE "repair_required"

SubmitRecord(t, r) ==
  /\ pc[t] = "judging"
  /\ Record(id[t], Verdict(r), r)
  /\ Return(t)
  /\ UNCHANGED <<tasks, clock>>

ApproveReadAnswered(t, i) ==
  /\ RoomForEvent
  /\ HasStatus(i, "valid") \/ HasStatus(i, "repair_required")
  /\ Goto(t, "idle", "approving")
  /\ id' = [id EXCEPT ![t] = i]
  /\ \E r \in Responses :
       LastResponse(i, r) /\ seen' = [seen EXCEPT ![t] = r]
  /\ UNCHANGED <<tables, clock, about>>

ApproveRead(t, i) ==
  /\ RoomForEvent
  /\ HasStatus(i, "valid")
  /\ Goto(t, "idle", "approving")
  /\ id' = [id EXCEPT ![t] = i]
  /\ \E r \in Responses :
       LastResponse(i, r) /\ seen' = [seen EXCEPT ![t] = r]
  /\ UNCHANGED <<tables, clock, about>>

ApproveRecord(t) ==
  /\ pc[t] = "approving"
  /\ Record(id[t], "approved", seen[t])
  /\ Return(t)
  /\ UNCHANGED <<tasks, clock>>

-----------------------------------------------------------------------------

Tick ==
  /\ clock < MaxSecond
  /\ clock' = clock + 1
  /\ UNCHANGED <<tables, pc, local>>

(* The process restarts: handlers are gone, committed rows stay.           *)
Restart ==
  /\ pc' = [t \in Threads |-> "idle"]
  /\ id' = [t \in Threads |-> << >>]
  /\ about' = [t \in Threads |-> Nothing]
  /\ seen' = [t \in Threads |-> Nothing]
  /\ UNCHANGED <<tables, clock>>

TaskStep(t) ==
  \/ \E q \in Requests : CreateTask(t, q)
  \/ \E x \in tasks : RepairRead(t, x.id) \/ SubmitRead(t, x.id) \/ ApproveRead(t, x.id)
  \/ RepairCreate(t) \/ PutTask(t) \/ RecordWaiting(t) \/ ApproveRecord(t)
  \/ \E r \in Responses : SubmitRecord(t, r)

Next == Tick \/ Restart \/ \E t \in Threads : TaskStep(t)

Spec == Init /\ [][Next]_vars

-----------------------------------------------------------------------------
(* Properties.                                                             *)

(* "Only a valid task result can be approved": whatever was submitted,     *)
(* repaired or created again in between, an approval names a response that *)
(* the validator had accepted for this very task.                          *)
ApprovedWasValid ==
  \A k \in 1..Len(events) : events[k].status = "approved" =>
    \E j \in 1..(k - 1) :
      /\ events[j].task = events[k].task
      /\ events[j].status = "valid"
      /\ events[j].response = events[k].response
      /\ Accepts[events[k].response]

(* A replacement task exists only for a task that was rejected before, and *)
(* it is about the same request as that task.                              *)
RepairOnlyOfRejected ==
  \A x \in tasks : Len(x.id) > 2 =>
    LET parent == SubSeq(x.id, 1, Len(x.id) - 1) IN
    /\ \E k \in Rows(parent) : events[k].status = "repair_required"
    /\ \E y \in Stored(parent) : y.request = x.request

(* "Stable ID, canonical content hash": two requests whose ids coincide    *)
(* never share a task, whoever comes first.                                *)
OneContentPerTask == \A x, y \in tasks : x.id = y.id => x = y
=============================================================================
