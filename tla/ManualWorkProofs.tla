--------------------------- MODULE ManualWorkProofs ---------------------------
(***************************************************************************)
(* What manual work leaves behind, for any number of handlers, importers   *)
(* and planners, any requests and responses, wherever one of them stops.   *)
(* The Studio's handlers read in one call and write in another, and so do  *)
(* the importers of the claim store and the planners: in all three parts   *)
(* what was read is kept as a fact about tables that no other actor can    *)
(* take back, because rows are only added and a row never changes.         *)
(***************************************************************************)
EXTENDS ManualWork, FiniteSetTheorems, TLAPS

(* What the id of a task is made of.                                       *)
Marks == {IdentityOf[q] : q \in Requests} \cup Nat
Ids == {i \in Seq(Marks) : Len(i) >= 2}

EventRows == [task : Ids, status : Studio!Statuses, response : Responses \cup {Nothing}]

Parent(i) == SubSeq(i, 1, Len(i) - 1)

(* What the tables tell, as functions of their rows.                       *)
Rejected(i, ev) == \E k \in 1 .. Len(ev) : ev[k].task = i /\ ev[k].status = "repair_required"
Valid(i, r, ev, n) ==
  \E j \in 1 .. n : ev[j].task = i /\ ev[j].status = "valid" /\ ev[j].response = r
Asks(i, q, ts) == \E y \in ts : y.id = i /\ y.request = q

Tables(ts, ev) ==
  /\ ts \subseteq [id : Ids, request : Requests]
  /\ ev \in Seq(EventRows)
  /\ \A x, y \in ts : x.id = y.id => x = y
  /\ \A x \in ts : Len(x.id) > 2 => Rejected(Parent(x.id), ev) /\ Asks(Parent(x.id), x.request, ts)
  /\ \A k \in 1 .. Len(ev) : ev[k].status = "valid" => Accepts[ev[k].response]
  /\ \A k \in 1 .. Len(ev) : ev[k].status = "approved" =>
       Valid(ev[k].task, ev[k].response, ev, k - 1)

(* What a handler in phase p, with the task i, the request q and the       *)
(* response r that it has read, relies on.                                 *)
Relies(p, i, q, r, ts, ev) ==
  /\ p # "idle" => i \in Ids
  /\ p \in {"repairing", "storing"} => q \in Requests
  /\ p = "repairing" => Rejected(i, ev) /\ Asks(i, q, ts)
  /\ p = "storing" /\ Len(i) > 2 => Rejected(Parent(i), ev) /\ Asks(Parent(i), q, ts)
  /\ p = "approving" => r \in Responses /\ Valid(i, r, ev, Len(ev))

StudioInv ==
  /\ clock \in Nat
  /\ pc \in [Threads -> Studio!Phases]
  /\ id = [t \in Threads |-> id[t]]
  /\ about = [t \in Threads |-> about[t]]
  /\ seen = [t \in Threads |-> seen[t]]
  /\ Tables(tasks, events)
  /\ \A t \in Threads : Relies(pc[t], id[t], about[t], seen[t], tasks, events)

-----------------------------------------------------------------------------
(* Rows are only added.                                                    *)

LEMMA OneMoreRow ==
  ASSUME NEW ev \in Seq(EventRows), NEW row \in EventRows
  PROVE  /\ Append(ev, row) \in Seq(EventRows)
         /\ Len(ev) \in Nat /\ Len(Append(ev, row)) = Len(ev) + 1
         /\ \A k \in 1 .. Len(ev) : Append(ev, row)[k] = ev[k]
         /\ Append(ev, row)[Len(ev) + 1] = row
OBVIOUS

LEMMA StillTrue ==
  ASSUME NEW ev \in Seq(EventRows), NEW row \in EventRows, NEW i, NEW r
  PROVE  /\ Rejected(i, ev) => Rejected(i, Append(ev, row))
         /\ \A n \in 0 .. Len(ev) : \A m \in Nat :
              n <= m /\ Valid(i, r, ev, n) => Valid(i, r, Append(ev, row), m)
<1> DEFINE ew == Append(ev, row)
<1>1. /\ Len(ev) \in Nat /\ Len(ew) = Len(ev) + 1
      /\ \A k \in 1 .. Len(ev) : ew[k] = ev[k]
  BY OneMoreRow
<1> HIDE DEF ew
<1>2. Rejected(i, ev) => Rejected(i, ew)
  BY <1>1 DEF Rejected
<1>3. \A n \in 0 .. Len(ev) : \A m \in Nat : n <= m /\ Valid(i, r, ev, n) => Valid(i, r, ew, m)
  <2> SUFFICES ASSUME NEW n \in 0 .. Len(ev), NEW m \in Nat, n <= m, Valid(i, r, ev, n)
               PROVE  Valid(i, r, ew, m)
    OBVIOUS
  <2>1. PICK j \in 1 .. n : ev[j].task = i /\ ev[j].status = "valid" /\ ev[j].response = r
    BY DEF Valid
  <2>2. j \in 1 .. Len(ev) /\ j \in 1 .. m
    BY <1>1
  <2> QED BY <1>1, <2>1, <2>2 DEF Valid
<1> QED BY <1>2, <1>3 DEF ew

(* An event that the tables can hold: an approval after the verdict it     *)
(* names.                                                                  *)
LEMMA RecordEvent ==
  ASSUME NEW ts, NEW ev, Tables(ts, ev), NEW row \in EventRows,
         row.status = "valid" => Accepts[row.response],
         row.status = "approved" => Valid(row.task, row.response, ev, Len(ev))
  PROVE  Tables(ts, Append(ev, row))
<1> DEFINE ew == Append(ev, row)
<1>1. ev \in Seq(EventRows)
  BY DEF Tables
<1>2. /\ ew \in Seq(EventRows)
      /\ Len(ev) \in Nat /\ Len(ew) = Len(ev) + 1
      /\ \A k \in 1 .. Len(ev) : ew[k] = ev[k]
      /\ ew[Len(ev) + 1] = row
  BY <1>1, OneMoreRow
<1>3. \A i : Rejected(i, ev) => Rejected(i, ew)
  BY <1>1, StillTrue
<1>4. \A i, r : \A n \in 0 .. Len(ev) : Valid(i, r, ev, n) => Valid(i, r, ew, n)
  BY <1>1, StillTrue
<1> HIDE DEF ew
<1>5. \A k \in 1 .. Len(ew) : k \in 1 .. Len(ev) \/ k = Len(ev) + 1
  BY <1>2
<1>6. \A k \in 1 .. Len(ew) : ew[k].status = "valid" => Accepts[ew[k].response]
  BY <1>2, <1>5 DEF Tables
<1>7. ASSUME NEW k \in 1 .. Len(ew), ew[k].status = "approved"
      PROVE  Valid(ew[k].task, ew[k].response, ew, k - 1)
  <2>1. CASE k \in 1 .. Len(ev)
    <3>1. Valid(ev[k].task, ev[k].response, ev, k - 1) /\ k - 1 \in 0 .. Len(ev) /\ ew[k] = ev[k]
      BY <1>2, <1>7, <2>1 DEF Tables
    <3> QED BY <1>4, <3>1
  <2>2. CASE k = Len(ev) + 1
    <3>1. ew[k] = row /\ k - 1 = Len(ev) /\ Len(ev) \in 0 .. Len(ev)
      BY <1>2, <2>2
    <3> QED BY <1>4, <1>7, <3>1
  <2> QED BY <1>5, <2>1, <2>2
<1>8. \A x \in ts : Len(x.id) > 2 => Rejected(Parent(x.id), ew) /\ Asks(Parent(x.id), x.request, ts)
  BY <1>3 DEF Tables
<1>9. Tables(ts, ew)
  BY <1>2, <1>6, <1>7, <1>8 DEF Tables
<1> QED BY <1>9 DEF ew

(* A task that the tables can hold: a repair of a task that was rejected,  *)
(* and no other content under an id that is taken.                         *)
LEMMA StoreTask ==
  ASSUME NEW ts, NEW ev, Tables(ts, ev), NEW i \in Ids, NEW q \in Requests,
         Len(i) > 2 => Rejected(Parent(i), ev) /\ Asks(Parent(i), q, ts),
         \A x \in ts : x.id = i => x.request = q
  PROVE  Tables(ts \cup {[id |-> i, request |-> q]}, ev)
<1> DEFINE new == [id |-> i, request |-> q]
           us == ts \cup {new}
<1>1. new \in [id : Ids, request : Requests] /\ new.id = i /\ new.request = q
  OBVIOUS
<1>2. ts \subseteq [id : Ids, request : Requests]
  BY DEF Tables
<1>3. \A x \in ts : x.id = i => x = new
  BY <1>2
<1> HIDE DEF new
<1>4. \A x, y \in us : x.id = y.id => x = y
  BY <1>1, <1>3 DEF Tables
<1>5. \A j, p : Asks(j, p, ts) => Asks(j, p, us)
  BY DEF Asks
<1>6. \A x \in us : Len(x.id) > 2 => Rejected(Parent(x.id), ev) /\ Asks(Parent(x.id), x.request, us)
  BY <1>1, <1>5 DEF Tables
<1>7. us \subseteq [id : Ids, request : Requests]
  BY <1>1, <1>2
<1>8. Tables(us, ev)
  BY <1>4, <1>6, <1>7 DEF Tables
<1> QED BY <1>8 DEF new

(* What a handler has read stays true whatever is added.                   *)
LEMMA StillRelies ==
  ASSUME NEW ts, NEW us, NEW ev \in Seq(EventRows), NEW ew, NEW p, NEW i, NEW q, NEW r,
         Relies(p, i, q, r, ts, ev), ts \subseteq us,
         ew = ev \/ \E row \in EventRows : ew = Append(ev, row)
  PROVE  Relies(p, i, q, r, us, ew)
<1>1. \A j : Rejected(j, ev) => Rejected(j, ew)
  BY StillTrue
<1>2. \A j : Asks(j, q, ts) => Asks(j, q, us)
  BY DEF Asks
<1>3. Valid(i, r, ev, Len(ev)) => Valid(i, r, ew, Len(ew))
  <2>1. CASE ew = ev
    BY <2>1
  <2>2. ASSUME NEW row \in EventRows, ew = Append(ev, row)
        PROVE  Valid(i, r, ev, Len(ev)) => Valid(i, r, ew, Len(ew))
    <3>1. Len(ev) \in 0 .. Len(ev) /\ Len(ew) \in Nat /\ Len(ev) <= Len(ew)
      BY <2>2, OneMoreRow
    <3> QED BY <2>2, <3>1, StillTrue
  <2> QED BY <2>1, <2>2
<1> QED BY <1>1, <1>2, <1>3 DEF Relies

(* A step of one handler that adds what the tables can hold and leaves the *)
(* handler with what it relies on.                                         *)
LEMMA OneHandlerMoves ==
  ASSUME StudioInv, NEW t \in Threads,
         clock' = clock, pc' \in [Threads -> Studio!Phases],
         id' = [u \in Threads |-> id'[u]], about' = [u \in Threads |-> about'[u]],
         seen' = [u \in Threads |-> seen'[u]],
         \A u \in Threads \ {t} :
           pc'[u] = pc[u] /\ id'[u] = id[u] /\ about'[u] = about[u] /\ seen'[u] = seen[u],
         tasks \subseteq tasks',
         events' = events \/ \E row \in EventRows : events' = Append(events, row),
         Tables(tasks', events'),
         Relies(pc'[t], id'[t], about'[t], seen'[t], tasks', events')
  PROVE  StudioInv'
<1>1. events \in Seq(EventRows)
  BY DEF StudioInv, Tables
<1>2. \A u \in Threads \ {t} : Relies(pc[u], id[u], about[u], seen[u], tasks', events')
  BY <1>1, StillRelies DEF StudioInv
<1>3. \A u \in Threads : Relies(pc'[u], id'[u], about'[u], seen'[u], tasks', events')
  BY <1>2
<1> QED BY <1>3 DEF StudioInv

LEMMA HandlersOwn ==
  ASSUME StudioInv, NEW t \in Threads, Studio!TaskStep(t)
  PROVE  /\ clock' = clock /\ pc' \in [Threads -> Studio!Phases]
         /\ id' = [u \in Threads |-> id'[u]] /\ about' = [u \in Threads |-> about'[u]]
         /\ seen' = [u \in Threads |-> seen'[u]]
         /\ \A u \in Threads \ {t} :
              pc'[u] = pc[u] /\ id'[u] = id[u] /\ about'[u] = about[u] /\ seen'[u] = seen[u]
<1> USE DEF StudioInv, Studio!Goto, Studio!Return, Studio!Phases, Studio!local
<1>1. ASSUME NEW q \in Requests, Studio!CreateTask(t, q)
      PROVE  /\ clock' = clock /\ pc' \in [Threads -> Studio!Phases]
             /\ id' = [u \in Threads |-> id'[u]] /\ about' = [u \in Threads |-> about'[u]]
             /\ seen' = [u \in Threads |-> seen'[u]]
             /\ \A u \in Threads \ {t} :
                  pc'[u] = pc[u] /\ id'[u] = id[u] /\ about'[u] = about[u] /\ seen'[u] = seen[u]
  BY <1>1 DEF Studio!CreateTask
<1>2. ASSUME NEW x \in tasks, Studio!RepairRead(t, x.id) \/ Studio!SubmitRead(t, x.id) \/ Studio!ApproveRead(t, x.id)
      PROVE  /\ clock' = clock /\ pc' \in [Threads -> Studio!Phases]
             /\ id' = [u \in Threads |-> id'[u]] /\ about' = [u \in Threads |-> about'[u]]
             /\ seen' = [u \in Threads |-> seen'[u]]
             /\ \A u \in Threads \ {t} :
                  pc'[u] = pc[u] /\ id'[u] = id[u] /\ about'[u] = about[u] /\ seen'[u] = seen[u]
  BY <1>2 DEF Studio!RepairRead, Studio!SubmitRead, Studio!ApproveRead
<1>3. CASE Studio!RepairCreate(t) \/ Studio!PutTask(t)
  BY <1>3 DEF Studio!RepairCreate, Studio!PutTask
<1>4. CASE Studio!RecordWaiting(t) \/ Studio!ApproveRecord(t) \/ \E r \in Responses : Studio!SubmitRecord(t, r)
  BY <1>4 DEF Studio!RecordWaiting, Studio!ApproveRecord, Studio!SubmitRecord
<1> QED BY <1>1, <1>2, <1>3, <1>4 DEF Studio!TaskStep

-----------------------------------------------------------------------------
(* The steps of a handler.                                                 *)

LEMMA ParentOfRepair ==
  ASSUME NEW i \in Ids, NEW n \in Nat
  PROVE  /\ Append(i, n) \in Ids /\ Len(Append(i, n)) > 2 /\ Parent(Append(i, n)) = i
<1>1. i \in Seq(Marks) /\ n \in Marks /\ Len(i) \in Nat /\ Len(i) >= 2
  BY DEF Ids, Marks
<1>2. /\ Append(i, n) \in Seq(Marks) /\ Len(Append(i, n)) = Len(i) + 1
      /\ \A k \in 1 .. Len(i) : Append(i, n)[k] = i[k]
  BY <1>1, AppendProperties
<1>3. \A k \in 1 .. Len(i) : Append(i, n)[k] \in Marks
  BY <1>1, <1>2, ElementOfSeq
<1>4. /\ SubSeq(Append(i, n), 1, Len(i)) \in Seq(Marks)
      /\ Len(SubSeq(Append(i, n), 1, Len(i))) = Len(i)
      /\ \A k \in 1 .. Len(i) : SubSeq(Append(i, n), 1, Len(i))[k] = Append(i, n)[k]
  BY <1>1, <1>3, SubSeqProperties
<1>5. SubSeq(Append(i, n), 1, Len(i)) = i
  BY <1>1, <1>2, <1>4, SeqEqual
<1> QED BY <1>1, <1>2, <1>5 DEF Parent, Ids

LEMMA CreateStep ==
  ASSUME StudioInv, NEW t \in Threads, NEW q \in Requests, Studio!CreateTask(t, q)
  PROVE  StudioInv'
<1>1. /\ tasks' = tasks /\ events' = events
      /\ pc'[t] = "storing" /\ id'[t] = <<IdentityOf[q], clock>> /\ about'[t] = q
  BY DEF Studio!CreateTask, Studio!Goto, Studio!RootId, Studio!tables, StudioInv
<1>2. <<IdentityOf[q], clock>> \in Ids /\ ~(Len(<<IdentityOf[q], clock>>) > 2)
  BY DEF Ids, Marks, StudioInv
<1>3. Relies(pc'[t], id'[t], about'[t], seen'[t], tasks', events')
  BY <1>1, <1>2 DEF Relies
<1>4. Tables(tasks', events')
  BY <1>1 DEF StudioInv
<1>5. Studio!TaskStep(t)
  BY DEF Studio!TaskStep
<1> QED BY <1>1, <1>3, <1>4, <1>5, HandlersOwn, OneHandlerMoves

(* The three handlers that read the status of a task: what the last event  *)
(* says is what some event says.                                           *)
LEMMA ReadStep ==
  ASSUME StudioInv, NEW t \in Threads, NEW x \in tasks,
         Studio!RepairRead(t, x.id) \/ Studio!SubmitRead(t, x.id) \/ Studio!ApproveRead(t, x.id)
  PROVE  StudioInv'
<1>1. x.id \in Ids /\ x.request \in Requests /\ events \in Seq(EventRows)
  BY DEF StudioInv, Tables
<1>2. /\ tasks' = tasks /\ events' = events /\ id'[t] = x.id
      /\ pc'[t] \in {"repairing", "judging", "approving"}
  BY DEF Studio!RepairRead, Studio!SubmitRead, Studio!ApproveRead, Studio!Goto, Studio!tables, StudioInv
<1>3. ASSUME pc'[t] = "repairing"
      PROVE  Rejected(x.id, events) /\ about'[t] \in Requests /\ Asks(x.id, about'[t], tasks)
  <2>1. Studio!RepairRead(t, x.id)
    BY <1>3 DEF Studio!SubmitRead, Studio!ApproveRead, Studio!Goto, StudioInv
  <2>2. PICK k \in Studio!Rows(x.id) : events[k].status = "repair_required"
    BY <2>1 DEF Studio!RepairRead, Studio!HasStatus, Studio!IsLast
  <2>3. PICK y \in Studio!Stored(x.id) : about'[t] = y.request
    BY <2>1 DEF Studio!RepairRead, StudioInv
  <2> QED BY <2>2, <2>3 DEF Studio!Rows, Studio!Stored, Rejected, Asks, StudioInv, Tables
<1>4. ASSUME pc'[t] = "approving"
      PROVE  seen'[t] \in Responses /\ Valid(x.id, seen'[t], events, Len(events))
  <2>1. Studio!ApproveRead(t, x.id)
    BY <1>4 DEF Studio!RepairRead, Studio!SubmitRead, Studio!Goto, StudioInv
  <2>2. PICK k \in Studio!Rows(x.id) : Studio!IsLast(x.id, k) /\ events[k].status = "valid"
    BY <2>1 DEF Studio!ApproveRead, Studio!HasStatus
  <2>3. PICK r \in Responses : Studio!LastResponse(x.id, r) /\ seen'[t] = r
    BY <2>1 DEF Studio!ApproveRead, StudioInv
  <2>4. PICK j \in Studio!Rows(x.id) : Studio!IsLast(x.id, j) /\ events[j].response = r
    BY <2>3 DEF Studio!LastResponse
  <2>5. k = j
    <3>1. k \in 1 .. Len(events) /\ j \in 1 .. Len(events) /\ Len(events) \in Nat /\ j <= k /\ k <= j
      BY <1>1, <2>2, <2>4 DEF Studio!IsLast, Studio!Rows
    <3> QED BY <3>1
  <2> QED BY <2>2, <2>3, <2>4, <2>5 DEF Studio!Rows, Valid
<1>5. Relies(pc'[t], id'[t], about'[t], seen'[t], tasks', events')
  BY <1>1, <1>2, <1>3, <1>4 DEF Relies
<1>6. Tables(tasks', events')
  BY <1>2 DEF StudioInv
<1>7. Studio!TaskStep(t)
  BY DEF Studio!TaskStep
<1> QED BY <1>2, <1>5, <1>6, <1>7, HandlersOwn, OneHandlerMoves

LEMMA RepairStep ==
  ASSUME StudioInv, NEW t \in Threads, Studio!RepairCreate(t)
  PROVE  StudioInv'
<1>1. /\ tasks' = tasks /\ events' = events /\ pc[t] = "repairing"
      /\ pc'[t] = "storing" /\ id'[t] = Append(id[t], clock) /\ about'[t] = about[t]
  BY DEF Studio!RepairCreate, Studio!Goto, Studio!tables, StudioInv
<1>2. /\ id[t] \in Ids /\ about[t] \in Requests
      /\ Rejected(id[t], events) /\ Asks(id[t], about[t], tasks)
  BY <1>1 DEF StudioInv, Relies
<1>3. id'[t] \in Ids /\ Parent(id'[t]) = id[t]
  BY <1>1, <1>2, ParentOfRepair DEF StudioInv
<1>4. Relies(pc'[t], id'[t], about'[t], seen'[t], tasks', events')
  BY <1>1, <1>2, <1>3 DEF Relies
<1>5. Tables(tasks', events')
  BY <1>1 DEF StudioInv
<1>6. Studio!TaskStep(t)
  BY DEF Studio!TaskStep
<1> QED BY <1>1, <1>4, <1>5, <1>6, HandlersOwn, OneHandlerMoves

LEMMA PutStep ==
  ASSUME StudioInv, NEW t \in Threads, Studio!PutTask(t)
  PROVE  StudioInv'
<1>1. Studio!TaskStep(t) /\ events' = events /\ pc[t] = "storing"
  BY DEF Studio!TaskStep, Studio!PutTask
<1>2. /\ id[t] \in Ids /\ about[t] \in Requests
      /\ Len(id[t]) > 2 => Rejected(Parent(id[t]), events) /\ Asks(Parent(id[t]), about[t], tasks)
  BY <1>1 DEF StudioInv, Relies
<1>3. CASE /\ \A x \in Studio!Stored(id[t]) : x.request = about[t]
           /\ Studio!Goto(t, "storing", "stored")
           /\ tasks' = tasks \cup {[id |-> id[t], request |-> about[t]]}
           /\ UNCHANGED Studio!local
  <2>1. \A x \in tasks : x.id = id[t] => x.request = about[t]
    BY <1>3 DEF Studio!Stored
  <2>2. Tables(tasks', events')
    BY <1>1, <1>2, <1>3, <2>1, StoreTask DEF StudioInv
  <2>3. Relies(pc'[t], id'[t], about'[t], seen'[t], tasks', events')
    BY <1>2, <1>3 DEF Relies, Studio!Goto, Studio!local, StudioInv
  <2> QED BY <1>1, <1>3, <2>2, <2>3, HandlersOwn, OneHandlerMoves
<1>4. CASE Studio!Return(t) /\ UNCHANGED tasks
  <2>1. Relies(pc'[t], id'[t], about'[t], seen'[t], tasks', events')
    BY <1>4 DEF Relies, Studio!Return, StudioInv
  <2>2. Tables(tasks', events')
    BY <1>1, <1>4 DEF StudioInv
  <2> QED BY <1>1, <1>4, <2>1, <2>2, HandlersOwn, OneHandlerMoves
<1> QED BY <1>3, <1>4 DEF Studio!PutTask

(* The events: a verdict is the validator's, and an approval repeats the   *)
(* verdict the handler had read.                                           *)
LEMMA RecordStep ==
  ASSUME StudioInv, NEW t \in Threads, NEW s \in Studio!Statuses, NEW r \in Responses \cup {Nothing},
         Studio!TaskStep(t), pc[t] # "idle", Studio!Record(id[t], s, r), Studio!Return(t), tasks' = tasks,
         s = "valid" => Accepts[r],
         s = "approved" => Valid(id[t], r, events, Len(events))
  PROVE  StudioInv'
<1> DEFINE row == [task |-> id[t], status |-> s, response |-> r]
<1>1. row \in EventRows /\ row.task = id[t] /\ row.status = s /\ row.response = r
  BY DEF StudioInv, Relies, EventRows
<1>2. events' = Append(events, row)
  BY DEF Studio!Record
<1> HIDE DEF row
<1>3. Tables(tasks', events')
  BY <1>1, <1>2, RecordEvent DEF StudioInv
<1>4. Relies(pc'[t], id'[t], about'[t], seen'[t], tasks', events')
  BY DEF Relies, Studio!Return, StudioInv
<1> QED BY <1>1, <1>2, <1>3, <1>4, HandlersOwn, OneHandlerMoves

LEMMA HandlerStep ==
  ASSUME StudioInv, NEW t \in Threads, Studio!TaskStep(t)
  PROVE  StudioInv'
<1>1. CASE Studio!RecordWaiting(t)
  BY <1>1, RecordStep DEF Studio!RecordWaiting, Studio!Statuses
<1>2. CASE Studio!ApproveRecord(t)
  <2>1. seen[t] \in Responses /\ Valid(id[t], seen[t], events, Len(events))
    BY <1>2 DEF StudioInv, Relies, Studio!ApproveRecord
  <2> QED BY <1>2, <2>1, RecordStep DEF Studio!ApproveRecord, Studio!Statuses
<1>3. ASSUME NEW r \in Responses, Studio!SubmitRecord(t, r) PROVE StudioInv'
  <2>1. Studio!Verdict(r) \in Studio!Statuses /\ Studio!Verdict(r) # "approved"
        /\ (Studio!Verdict(r) = "valid" => Accepts[r])
    BY DEF Studio!Verdict, Studio!Statuses
  <2> QED BY <1>3, <2>1, RecordStep DEF Studio!SubmitRecord
<1> QED BY <1>1, <1>2, <1>3, CreateStep, ReadStep, RepairStep, PutStep DEF Studio!TaskStep

LEMMA StudioInitially == Studio!Init => StudioInv
<1> SUFFICES ASSUME Studio!Init PROVE StudioInv
  OBVIOUS
<1>1. tasks = {} /\ events = << >> /\ clock = 0
  BY DEF Studio!Init
<1>2. Tables(tasks, events)
  <2>1. events \in Seq(EventRows) /\ Len(events) = 0
    BY <1>1
  <2> QED BY <1>1, <2>1 DEF Tables
<1> QED BY <1>1, <1>2 DEF Studio!Init, StudioInv, Relies, Studio!Phases

LEMMA StudioStep == StudioInv /\ [Studio!Next]_studioVars => StudioInv'
<1> SUFFICES ASSUME StudioInv, [Studio!Next]_studioVars PROVE StudioInv'
  OBVIOUS
<1>1. CASE Studio!Tick
  BY <1>1 DEF Studio!Tick, Studio!tables, Studio!local, StudioInv
<1>2. CASE Studio!Restart
  BY <1>2 DEF Studio!Restart, Studio!tables, StudioInv, Relies, Studio!Phases
<1>3. CASE UNCHANGED studioVars
  BY <1>3 DEF studioVars, StudioInv
<1> QED BY <1>1, <1>2, <1>3, HandlerStep DEF Studio!Next

(* Whatever the handlers interleave and whenever the process restarts, an  *)
(* approval names a response accepted for that task, a repair is of a task *)
(* that was rejected and about the same, and an id has one content.        *)
THEOREM StudioTasksAreSound == WorkSpec => []StudioTasksHold
<1>1. WorkInit => StudioInv
  BY StudioInitially DEF WorkInit
<1>2. [WorkNext]_<<inStudio, studioVars, researchVars, planVars>> => [Studio!Next]_studioVars
  BY DEF WorkNext
<1>3. StudioInv => StudioTasksHold
  <2> SUFFICES ASSUME StudioInv PROVE StudioTasksHold
    OBVIOUS
  <2>1. Studio!OneContentPerTask
    BY DEF StudioInv, Tables, Studio!OneContentPerTask
  <2>2. Studio!ApprovedWasValid
    <3> SUFFICES ASSUME NEW k \in 1 .. Len(events), events[k].status = "approved"
                 PROVE  \E j \in 1 .. (k - 1) :
                          /\ events[j].task = events[k].task /\ events[j].status = "valid"
                          /\ events[j].response = events[k].response /\ Accepts[events[k].response]
      BY DEF Studio!ApprovedWasValid
    <3>1. PICK j \in 1 .. (k - 1) : /\ events[j].task = events[k].task /\ events[j].status = "valid"
                                    /\ events[j].response = events[k].response
      BY DEF StudioInv, Tables, Valid
    <3>2. j \in 1 .. Len(events)
      BY DEF StudioInv, Tables
    <3> QED BY <3>1, <3>2 DEF StudioInv, Tables
  <2>3. Studio!RepairOnlyOfRejected
    BY DEF StudioInv, Tables, Studio!RepairOnlyOfRejected, Studio!Rows, Studio!Stored, Rejected, Asks, Parent
  <2> QED BY <2>1, <2>2, <2>3 DEF StudioTasksHold
<1> QED BY <1>1, <1>2, <1>3, StudioStep, PTL DEF WorkSpec
-----------------------------------------------------------------------------
(* What research gateways accept.                                          *)

(* What binding a capture asks of its package.                             *)
LEMMA CaptureAccepted ==
  ASSUME NEW project, NEW url, NEW p, FirstFault(BindingRows(project, url, p)) = Fine
  PROVE  /\ p.url = url
         /\ \A i \in DOMAIN p.regions : p.regions[i].fits
         /\ Cardinality(Paths(p.regions)) = Len(p.regions)
         /\ PlanOf(p).access \in Usable
<1> DEFINE a1 == ~\E r \in rows : r.kind = "candidate" /\ r.body.url = url /\ r.project = project
           a2 == p.url # url
           b1 == p.adapter \notin Adapters
           b2 == p.wrong # {}
           b3 == \/ \E i \in DOMAIN p.regions : ~p.regions[i].fits
                 \/ Cardinality(Paths(p.regions)) # Len(p.regions)
           b4 == Blocked(p.access) /\ p.snapshot # ""
           b5 == Fallbacks[p.access] = "snapshot_evidence" /\ p.snapshot = ""
           c1 == PlanOf(p).access \notin Usable \/ p.text = << >>
           a == << <<a1, "SOURCE_CAPTURE_BINDING_INVALID">>, <<a2, "SOURCE_CAPTURE_BINDING_INVALID">> >>
           b == << <<b1, "ADAPTER_UNAVAILABLE">>, <<b2, "SOURCE_PACKAGE_INVALID">>,
                   <<b3, "SOURCE_PACKAGE_INVALID">>, <<b4, "CHALLENGE_SNAPSHOT_FORBIDDEN">>,
                   <<b5, "SNAPSHOT_REQUIRED">> >>
           c == << <<c1, "SOURCE_CAPTURE_UNUSABLE">> >>
<1>1. BindingRows(project, url, p) = Then(Then(a, b), c)
  BY DEF BindingRows, CaptureRows, Then
<1> HIDE DEF a1, a2, b1, b2, b3, b4, b5, c1
<1>2. Chain(a, 2) /\ (~a[2][1] => ~a2)
  BY DEF Chain, Fine
<1>3. Chain(b, 5) /\ (~b[3][1] => ~b3)
  BY DEF Chain, Fine
<1>4. Chain(c, 1) /\ (~c[1][1] => ~c1)
  BY DEF Chain, Fine
<1> HIDE DEF a, b, c
<1> DEFINE ab == Then(a, b)
<1>5. /\ Chain(ab, 7)
      /\ \A i \in 1 .. 2 : ab[i] = a[i]
      /\ \A i \in 1 .. 5 : ab[2 + i] = b[i]
  <2>1. 2 \in Nat /\ 5 \in Nat /\ 2 + 5 = 7
    OBVIOUS
  <2> QED BY <1>2, <1>3, <2>1, ChainThen
<1> HIDE DEF ab
<1>6. /\ Chain(Then(ab, c), 8)
      /\ \A i \in 1 .. 7 : Then(ab, c)[i] = ab[i]
      /\ \A i \in 1 .. 1 : Then(ab, c)[7 + i] = c[i]
  <2>1. 7 \in Nat /\ 1 \in Nat /\ 7 + 1 = 8
    OBVIOUS
  <2> QED BY <1>4, <1>5, <2>1, ChainThen
<1>7. \A i \in 1 .. 8 : ~Then(ab, c)[i][1]
  BY <1>1, <1>6, Accepted DEF ab
<1>8. ~a[2][1] /\ ~b[3][1] /\ ~c[1][1]
  <2>1. Then(ab, c)[2] = a[2] /\ Then(ab, c)[5] = b[3] /\ Then(ab, c)[8] = c[1]
    <3>1. ab[2] = a[2] /\ ab[2 + 3] = b[3] /\ Then(ab, c)[7 + 1] = c[1]
      BY <1>5, <1>6
    <3>2. Then(ab, c)[2] = ab[2] /\ Then(ab, c)[5] = ab[5]
      BY <1>6
    <3> QED BY <3>1, <3>2
  <2> QED BY <1>7, <2>1
<1> QED BY <1>2, <1>3, <1>4, <1>8 DEF a2, b3, c1

(* A page that could be read is planned with all its regions; only of a    *)
(* snapshot need the place not be found.                                   *)
LEMMA ReadPage ==
  ASSUME NEW p, PlanOf(p).access \in Usable
  PROVE  /\ PlanOf(p).package = p /\ PlanOf(p).crops = p.regions
         /\ PlanOf(p).fallback \in {"no_fallback", "snapshot_evidence"}
         /\ PlanOf(p).access # "snapshot_available" => Occurrences(p.text, p.target) = 1
<1>1. ~(Fallbacks[p.access] = "no_fallback" /\ Target(p) = "")
  BY DEF PlanOf, Usable
<1>2. PlanOf(p).access = p.access /\ p.access \in Usable
  BY <1>1 DEF PlanOf
<1>3. Fallbacks[p.access] = IF p.access = "snapshot_available" THEN "snapshot_evidence" ELSE "no_fallback"
  BY <1>2 DEF Usable, Fallbacks
<1>4. p.access # "snapshot_available" => Occurrences(p.text, p.target) = 1
  BY <1>1, <1>3 DEF Target
<1> QED BY <1>1, <1>2, <1>3, <1>4 DEF PlanOf

LEMMA CaptureIsEvidence ==
  ASSUME NEW project, NEW url, NEW p, FirstFault(BindingRows(project, url, p)) = Fine
  PROVE  WordsFound(SourceOf(project, p)) /\ ShownWhereRead(PlanOf(p))
<1> DEFINE plan == PlanOf(p)
<1>1. /\ \A i \in DOMAIN p.regions : p.regions[i].fits
      /\ Cardinality(Paths(p.regions)) = Len(p.regions)
      /\ plan.access \in Usable
  BY CaptureAccepted
<1>2. /\ plan.package = p /\ plan.crops = p.regions
      /\ plan.fallback \in {"no_fallback", "snapshot_evidence"}
      /\ plan.access # "snapshot_available" => Occurrences(p.text, p.target) = 1
  BY <1>1, ReadPage
<1>3. WordsFound(SourceOf(project, p))
  BY <1>1, <1>2 DEF WordsFound, SourceOf
<1> HIDE DEF plan
<1> DEFINE shown(asked) == IF asked = << >> THEN plan.crops ELSE asked
           a1 == Blocked(plan.access)
           a2 == plan.fallback = "block_planner"
           b1(asked) == shown(asked) = << >> \/ \E i \in DOMAIN shown(asked) : ~shown(asked)[i].fits
           b2(asked) == Cardinality(Paths(shown(asked))) # Len(shown(asked))
           b3(asked) == \E i \in DOMAIN shown(asked) :
                           \A j \in DOMAIN plan.crops : plan.crops[j] # shown(asked)[i]
           a == << <<a1, "CHALLENGE_CANNOT_RENDER">>, <<a2, "PLANNER_BLOCKED">> >>
           b(asked) == << <<b1(asked), "EVIDENCE_REGION_REQUIRED">>,
                          <<b2(asked), "EVIDENCE_REGION_DUPLICATE">>,
                          <<b3(asked), "EVIDENCE_REGION_UNVERIFIED">> >>
<1>4. \A asked : TreatmentRows(plan, asked) = Then(a, b(asked))
  BY <1>2 DEF TreatmentRows, Then
<1>5. ~a1 /\ ~a2
  BY <1>1, <1>2 DEF Blocked, Usable, plan
<1>6. plan.crops # << >> => ~b1(<< >>) /\ ~b2(<< >>) /\ ~b3(<< >>)
  BY <1>1, <1>2
<1>7. ASSUME NEW r, ~b3(<<r>>) PROVE r \in Range(plan.package.regions)
  <2>1. <<r>> # << >> /\ 1 \in DOMAIN <<r>> /\ <<r>>[1] = r
    OBVIOUS
  <2>2. \E j \in DOMAIN plan.crops : plan.crops[j] = r
    BY <1>7, <2>1
  <2> QED BY <1>2, <2>2 DEF Range
<1> HIDE DEF a1, a2, b1, b2, b3
<1>8. Chain(a, 2) /\ \A asked : Chain(b(asked), 3)
  BY DEF Chain, Fine
<1>9. /\ a[1][1] = a1 /\ a[2][1] = a2
      /\ \A asked : b(asked)[1][1] = b1(asked) /\ b(asked)[2][1] = b2(asked) /\ b(asked)[3][1] = b3(asked)
  OBVIOUS
<1> HIDE DEF a, b
<1>10. ASSUME NEW asked
       PROVE  FirstFault(TreatmentRows(plan, asked)) = Fine <=>
                ~a1 /\ ~a2 /\ ~b1(asked) /\ ~b2(asked) /\ ~b3(asked)
  <2> DEFINE t == Then(a, b(asked))
  <2>1. Chain(t, 5) /\ (\A i \in 1 .. 2 : t[i] = a[i]) /\ \A i \in 1 .. 3 : t[2 + i] = b(asked)[i]
    <3>1. 2 \in Nat /\ 3 \in Nat /\ 2 + 3 = 5
      OBVIOUS
    <3> QED BY <1>8, <3>1, ChainThen
  <2> HIDE DEF t
  <2>2. FirstFault(t) = Fine <=> \A i \in 1 .. 5 : ~t[i][1]
    BY <2>1, Accepted
  <2>3. t[1] = a[1] /\ t[2] = a[2] /\ t[3] = b(asked)[1] /\ t[4] = b(asked)[2] /\ t[5] = b(asked)[3]
    <3>1. t[2 + 1] = b(asked)[1] /\ t[2 + 2] = b(asked)[2] /\ t[2 + 3] = b(asked)[3]
      BY <2>1
    <3> QED BY <2>1, <3>1
  <2>4. \A i \in 1 .. 5 : i = 1 \/ i = 2 \/ i = 3 \/ i = 4 \/ i = 5
    OBVIOUS
  <2>5. (\A i \in 1 .. 5 : ~t[i][1]) <=> ~t[1][1] /\ ~t[2][1] /\ ~t[3][1] /\ ~t[4][1] /\ ~t[5][1]
    BY <2>4
  <2>6. TreatmentRows(plan, asked) = t
    BY <1>4 DEF t
  <2> QED BY <1>9, <2>2, <2>3, <2>5, <2>6
<1>11. ShownWhereRead(plan)
  BY <1>1, <1>5, <1>6, <1>7, <1>10 DEF ShownWhereRead, plan
<1> QED BY <1>3, <1>11 DEF plan

-----------------------------------------------------------------------------
(* The claim store.  Records are only added, so what loads goes on loading.*)

LEMMA LoadsStay ==
  ASSUME NEW S, NEW T, S \subseteq T
  PROVE  /\ \A kind : Bodies(S, kind) \subseteq Bodies(T, kind)
         /\ \A s : SourceLoads(S, s) => SourceLoads(T, s)
         /\ \A f : FactLoads(S, f) => FactLoads(T, f)
         /\ \A c : ClaimLoads(S, c) => ClaimLoads(T, c)
         /\ \A r : Exports(S, r) => Exports(T, r)
<1>1. \A kind : Bodies(S, kind) \subseteq Bodies(T, kind)
  BY DEF Bodies
<1>2. \A s : SourceLoads(S, s) => SourceLoads(T, s)
  BY <1>1 DEF SourceLoads
<1>3. \A f : FactLoads(S, f) => FactLoads(T, f)
  BY <1>1, <1>2 DEF FactLoads
<1>4. \A c : ClaimLoads(S, c) => ClaimLoads(T, c)
  BY <1>1, <1>3 DEF ClaimLoads
<1>5. \A r : Exports(S, r) => Exports(T, r)
  BY <1>2, <1>3, <1>4 DEF Exports
<1> QED BY <1>1, <1>2, <1>3, <1>4, <1>5

(* What a record has to be besides loading.                                *)
Proper(r) ==
  /\ r.kind = "source" => WordsFound(r.body)
  /\ r.kind = "source_capture_plan" => ShownWhereRead(r.body)
  /\ r.kind = "fact" => r.body.source.project = r.body.project

LEMMA StoreGrows ==
  ASSUME NEW S, NEW T, SoundStore(S), S \subseteq T, IsFiniteSet(T),
         \A r \in T : r \in S \/ (Exports(T, r) /\ Proper(r))
  PROVE  SoundStore(T)
<1>1. \A r \in T : Exports(T, r)
  BY LoadsStay DEF SoundStore
<1>2. \A r \in S : Proper(r)
  BY DEF SoundStore, EvidenceIn, Bodies, Proper
<1>3. \A r \in T : Proper(r)
  BY <1>2
<1>4. EvidenceIn(T)
  BY <1>3 DEF EvidenceIn, Bodies, Proper
<1>5. \A f \in Bodies(T, "fact") : f.source.project = f.project
  BY <1>3 DEF Bodies, Proper
<1> QED BY <1>1, <1>4, <1>5 DEF SoundStore

(* One record more, or none where it is there.                             *)
LEMMA RecordPut ==
  ASSUME SoundStore(rows), NEW kind, NEW project, NEW body,
         \A T : /\ rows \subseteq T /\ body \in Bodies(T, kind)
                => Exports(T, [kind |-> kind, project |-> project, body |-> body]),
         Proper([kind |-> kind, project |-> project, body |-> body])
  PROVE  /\ SoundStore(With(kind, project, body))
         /\ rows \subseteq With(kind, project, body)
         /\ body \in Bodies(With(kind, project, body), kind)
<1> DEFINE r == [kind |-> kind, project |-> project, body |-> body]
           T == rows \cup {r}
<1>1. body \in Bodies(T, kind)
  BY DEF Bodies
<1>2. Exports(T, r)
  BY <1>1
<1>3. IsFiniteSet(T)
  BY FS_AddElement DEF SoundStore
<1>4. \A q \in T : q \in rows \/ (Exports(T, q) /\ Proper(q))
  BY <1>2
<1>5. rows \subseteq T
  OBVIOUS
<1> HIDE DEF T
<1>6. SoundStore(T)
  BY <1>3, <1>4, <1>5, StoreGrows
<1> QED BY <1>1, <1>6, <1>5 DEF With, Has, Stored, T

(* A task, a candidate and an edge whose ends load.                        *)
LEMMA PlainPut ==
  ASSUME SoundStore(rows), NEW kind \in {"task", "candidate", "claim_source_edge"},
         NEW project, NEW body,
         kind = "claim_source_edge" => ClaimLoads(rows, body.claim) /\ FactLoads(rows, body.fact)
  PROVE  /\ SoundStore(With(kind, project, body))
         /\ rows \subseteq With(kind, project, body)
         /\ body \in Bodies(With(kind, project, body), kind)
<1> DEFINE r == [kind |-> kind, project |-> project, body |-> body]
<1>1. Proper(r)
  BY DEF Proper
<1>2. ASSUME NEW T, rows \subseteq T PROVE Exports(T, r)
  <2>1. kind = "claim_source_edge" => ClaimLoads(T, body.claim) /\ FactLoads(T, body.fact)
    BY <1>2, LoadsStay
  <2> QED BY <2>1 DEF Exports
<1> HIDE DEF r
<1> QED BY <1>1, <1>2, RecordPut DEF r

LEMMA PlanPut ==
  ASSUME SoundStore(rows), NEW project, NEW plan, ShownWhereRead(plan)
  PROVE  /\ SoundStore(With("source_capture_plan", project, plan))
         /\ rows \subseteq With("source_capture_plan", project, plan)
         /\ plan \in Bodies(With("source_capture_plan", project, plan), "source_capture_plan")
<1> DEFINE r == [kind |-> "source_capture_plan", project |-> project, body |-> plan]
<1>1. Proper(r) /\ \A T : Exports(T, r)
  BY DEF Proper, Exports
<1> HIDE DEF r
<1> QED BY <1>1, RecordPut DEF r

LEMMA SourcePut ==
  ASSUME SoundStore(rows), NEW project, NEW s, WordsFound(s),
         s.plan \in Bodies(rows, "source_capture_plan"), s.plan.package.url = s.url
  PROVE  SoundStore(With("source", project, s)) /\ rows \subseteq With("source", project, s)
<1> DEFINE r == [kind |-> "source", project |-> project, body |-> s]
<1>1. Proper(r)
  BY DEF Proper
<1>2. ASSUME NEW T, rows \subseteq T, s \in Bodies(T, "source") PROVE Exports(T, r)
  BY <1>2, LoadsStay DEF Exports, SourceLoads
<1> HIDE DEF r
<1> QED BY <1>1, <1>2, RecordPut DEF r

LEMMA FactPut ==
  ASSUME SoundStore(rows), NEW project, NEW f, SourceLoads(rows, f.source),
         f.source.project = f.project
  PROVE  /\ SoundStore(With("fact", project, f)) /\ rows \subseteq With("fact", project, f)
         /\ f \in Bodies(With("fact", project, f), "fact")
<1> DEFINE r == [kind |-> "fact", project |-> project, body |-> f]
<1>1. Proper(r)
  BY DEF Proper
<1>2. ASSUME NEW T, rows \subseteq T, f \in Bodies(T, "fact") PROVE Exports(T, r)
  BY <1>2, LoadsStay DEF Exports, FactLoads
<1> HIDE DEF r
<1> QED BY <1>1, <1>2, RecordPut DEF r

(* A claim whose facts load and are of its project: so are their sources,  *)
(* which a fact shares its project with.                                   *)
LEMMA ClaimPut ==
  ASSUME SoundStore(rows), NEW project, NEW c,
         \A f \in c.facts \cup c.against : FactLoads(rows, f) /\ f.project = c.project
  PROVE  /\ SoundStore(With("claim", project, c)) /\ rows \subseteq With("claim", project, c)
         /\ c \in Bodies(With("claim", project, c), "claim")
         /\ ClaimLoads(With("claim", project, c), c)
<1> DEFINE r == [kind |-> "claim", project |-> project, body |-> c]
<1>1. Proper(r)
  BY DEF Proper
<1>2. \A f \in c.facts \cup c.against : f.source.project = c.project
  BY DEF FactLoads, SoundStore
<1>3. ASSUME NEW T, rows \subseteq T, c \in Bodies(T, "claim") PROVE Exports(T, r) /\ ClaimLoads(T, c)
  <2>1. ClaimLoads(T, c)
    BY <1>2, <1>3, LoadsStay DEF ClaimLoads
  <2> QED BY <2>1 DEF Exports
<1> HIDE DEF r
<1> QED BY <1>1, <1>3, RecordPut DEF r

-----------------------------------------------------------------------------
(* Comparing claims.                                                       *)

LEMMA ImageIsFinite ==
  ASSUME NEW S, IsFiniteSet(S), NEW f, f = [x \in S |-> f[x]]
  PROVE  IsFiniteSet({f[x] : x \in S})
<1> DEFINE T == {f[x] : x \in S}
<1>1. f \in Surjection(S, T)
  BY DEF Surjection
<1> QED BY <1>1, FS_Surjection

LEMMA AtMostOne ==
  ASSUME NEW S, IsFiniteSet(S), Cardinality(S) <= 1, NEW x \in S, NEW y \in S
  PROVE  x = y
<1>1. Cardinality(S) \in Nat
  BY FS_CardinalityType
<1>2. Cardinality(S) # 0
  BY FS_EmptySet
<1>3. PICK z : S = {z}
  BY <1>1, <1>2, FS_Singleton
<1> QED BY <1>3

LEMMA ClaimsAreFinite ==
  ASSUME SoundStore(rows), NEW claims \in SUBSET Stored("claim")
  PROVE  IsFiniteSet(claims) /\ IsFiniteSet({c.project : c \in claims})
<1>1. IsFiniteSet(Stored("claim"))
  <2> DEFINE S == {q \in rows : q.kind = "claim"}
             f == [r \in S |-> r.body]
  <2>1. IsFiniteSet(S)
    BY FS_Subset DEF SoundStore
  <2>2. IsFiniteSet({f[r] : r \in S})
    BY <2>1, ImageIsFinite
  <2>3. {f[r] : r \in S} = Stored("claim")
    BY DEF Stored, Bodies
  <2> QED BY <2>2, <2>3
<1>2. IsFiniteSet(claims)
  BY <1>1, FS_Subset
<1>3. IsFiniteSet({c.project : c \in claims})
  <2> DEFINE f == [c \in claims |-> c.project]
  <2>1. IsFiniteSet({f[c] : c \in claims})
    BY <1>2, ImageIsFinite
  <2>2. {f[c] : c \in claims} = {c.project : c \in claims}
    OBVIOUS
  <2> QED BY <2>1, <2>2
<1> QED BY <1>2, <1>3

(* Finitely many records that load more.                                   *)
LEMMA RecordsPut ==
  ASSUME SoundStore(rows), NEW new, IsFiniteSet(new),
         NEW T, T = rows \cup new,
         \A r \in new : Proper(r) /\ Exports(rows, r)
  PROVE  SoundStore(T) /\ rows \subseteq T
<1>1. IsFiniteSet(T) /\ rows \subseteq T
  BY FS_Union DEF SoundStore
<1>2. \A r \in new : Exports(T, r)
  BY <1>1, LoadsStay
<1> QED BY <1>1, <1>2, StoreGrows

LEMMA ContradictionsPut ==
  ASSUME SoundStore(rows), NEW claims \in SUBSET Stored("claim"), Contradict(claims)
  PROVE  SoundStore(rows') /\ rows \subseteq rows'
<1> DEFINE pairs == {cd \in claims \X claims : Clash(cd[1], cd[2])}
           f == [pair \in pairs |-> ContradictionOf({pair[1], pair[2]})]
           found == {f[pair] : pair \in pairs}
           g == [x \in found |-> [kind |-> "contradiction", project |-> x.left.project, body |-> x]]
<1>1. IsFiniteSet(claims) /\ IsFiniteSet({c.project : c \in claims})
  BY ClaimsAreFinite
<1>2. IsFiniteSet(found)
  <2>1. IsFiniteSet(claims \X claims)
    BY <1>1, FS_Product
  <2>2. IsFiniteSet(pairs)
    BY <2>1, FS_Subset
  <2> HIDE DEF pairs
  <2> QED BY <2>2, ImageIsFinite
<1>3. ASSUME NEW x \in found
      PROVE  /\ x.left \in claims /\ x.right \in claims
  <2>1. PICK pair \in claims \X claims : Clash(pair[1], pair[2]) /\ x = ContradictionOf({pair[1], pair[2]})
    OBVIOUS
  <2> DEFINE p == {pair[1], pair[2]}
             c == CHOOSE z \in p : TRUE
             d == CHOOSE z \in p : z # c
  <2>2. p \subseteq claims /\ pair[1] # pair[2] /\ x = ContradictionOf(p)
    BY <2>1 DEF Clash
  <2>3. c \in p
    OBVIOUS
  <2>4. \E z \in p : z # c
    BY <2>2
  <2>5. d \in p
    BY <2>4
  <2>6. x.left = c /\ x.right = d
    BY <2>2 DEF ContradictionOf
  <2> QED BY <2>2, <2>3, <2>5, <2>6
<1>4. /\ \A c \in claims : ClaimLoads(rows, c)
      /\ \A c, d \in claims : c.project = d.project
  BY <1>1, AtMostOne DEF Contradict
<1>5. \A x \in found : Proper(g[x]) /\ Exports(rows, g[x])
  BY <1>3, <1>4 DEF Proper, Exports
<1>6. PICK done \in SUBSET found : rows' = rows \cup {g[x] : x \in done}
  <2>1. found = {ContradictionOf({pair[1], pair[2]}) : pair \in pairs}
    OBVIOUS
  <2>2. \E done \in SUBSET {x \in found : x.kind \in Kinds} :
          rows' = rows \cup {[kind |-> "contradiction", project |-> x.left.project, body |-> x] : x \in done}
    BY <2>1 DEF Contradict
  <2>3. \A x \in found : g[x] = [kind |-> "contradiction", project |-> x.left.project, body |-> x]
    OBVIOUS
  <2> HIDE DEF found, g
  <2>4. PICK done \in SUBSET {x \in found : x.kind \in Kinds} :
          rows' = rows \cup {[kind |-> "contradiction", project |-> x.left.project, body |-> x] : x \in done}
    BY <2>2
  <2>5. \A x \in done : g[x] = [kind |-> "contradiction", project |-> x.left.project, body |-> x]
    BY <2>3
  <2>6. {[kind |-> "contradiction", project |-> x.left.project, body |-> x] : x \in done} = {g[x] : x \in done}
    BY <2>5
  <2> QED BY <2>4, <2>6
<1> HIDE DEF found, g
<1>7. IsFiniteSet({g[x] : x \in done})
  <2> DEFINE h == [x \in done |-> g[x]]
  <2>1. IsFiniteSet(done)
    BY <1>2, FS_Subset
  <2>2. h = [x \in done |-> h[x]]
    OBVIOUS
  <2>3. IsFiniteSet({h[x] : x \in done})
    <3> HIDE DEF h
    <3> QED BY <2>1, <2>2, ImageIsFinite
  <2>4. {h[x] : x \in done} = {g[x] : x \in done}
    OBVIOUS
  <2> QED BY <2>3, <2>4
<1> QED BY <1>5, <1>6, <1>7, RecordsPut

LEMMA ChroniclesPut ==
  ASSUME SoundStore(rows), NEW claims \in SUBSET Stored("claim"), Chronicle(claims)
  PROVE  SoundStore(rows') /\ rows \subseteq rows'
<1>1. IsFiniteSet(claims) /\ \A c \in claims : ClaimLoads(rows, c)
  BY ClaimsAreFinite DEF Chronicle
<1>2. PICK order \in SetToSeqs(claims) : \E done \in 0 .. Len(order) :
          rows' = rows \cup {[kind |-> "chronology", project |-> order[n].project,
                              body |-> [claim |-> order[n], ordinal |-> n - 1]] : n \in 1 .. done}
  BY DEF Chronicle
<1>3. Cardinality(claims) \in Nat /\ order \in [1 .. Cardinality(claims) -> claims]
  BY <1>1, <1>2, FS_CardinalityType DEF SetToSeqs
<1>4. Len(order) = Cardinality(claims)
  BY <1>3, SeqDef, LenProperties
<1>5. PICK done \in 0 .. Len(order) :
          rows' = rows \cup {[kind |-> "chronology", project |-> order[n].project,
                              body |-> [claim |-> order[n], ordinal |-> n - 1]] : n \in 1 .. done}
  BY <1>2
<1> DEFINE g == [n \in 1 .. done |-> [kind |-> "chronology", project |-> order[n].project,
                                      body |-> [claim |-> order[n], ordinal |-> n - 1]]]
<1>6. \A n \in 1 .. done : order[n] \in claims
  BY <1>3, <1>4, <1>5
<1>7. \A n \in 1 .. done : Proper(g[n]) /\ Exports(rows, g[n])
  BY <1>1, <1>6 DEF Proper, Exports
<1>8. IsFiniteSet({g[n] : n \in 1 .. done})
  <2>1. IsFiniteSet(1 .. done)
    BY <1>3, <1>4, FS_Interval
  <2> QED BY <2>1, ImageIsFinite
<1>9. rows' = rows \cup {g[n] : n \in 1 .. done}
  BY <1>5
<1> HIDE DEF g
<1> QED BY <1>7, <1>8, <1>9, RecordsPut

-----------------------------------------------------------------------------
(* What an importer knows to be stored by the step it has reached.         *)

(* An item is stored, but for edges that are still to be put.              *)
Kept(S, t, x, edges) ==
  CASE t.type = "source_discovery" -> [url |-> x.url] \in Bodies(S, "candidate")
    [] t.type = "source_extraction" -> FactOf(t, x) \in Bodies(S, "fact")
    [] OTHER -> \E c \in Bodies(S, "claim") :
          /\ c.task = t /\ c.type = x.type /\ c.status = x.status /\ Quotes(c.facts) = x.cites
          /\ EdgesOf(c) \subseteq Bodies(S, "claim_source_edge") \cup edges

IsSequence(items) == Len(items) \in Nat /\ DOMAIN items = 1 .. Len(items)

Parts == {"step", "task", "payload", "next", "known", "edges"}

Working == {"put", "accept", "record", "terminal"}

Knows(S, step, task, payload, next, edges) ==
  /\ next \in Nat
  /\ \A e \in edges : ClaimLoads(S, e.claim) /\ FactLoads(S, e.fact)
  /\ step = "source" =>
       /\ WordsFound(payload) /\ payload.plan \in Bodies(S, "source_capture_plan")
       /\ payload.plan.package.url = payload.url
  /\ step \in Working =>
       /\ IsSequence(payload.items)
       /\ \A n \in DOMAIN payload.items : n < next => Kept(S, task, payload.items[n], edges)
       /\ task.type = "source_discovery" /\ step = "put" =>
            Revision(task, "accepted") \in Bodies(S, "task")
       /\ task.type # "source_discovery" /\ step # "put" =>
            edges = {} /\ next > Len(payload.items)

Progress(m, S) ==
  /\ m = [part \in Parts |-> m[part]]
  /\ Knows(S, m.step, m.task, m.payload, m.next, m.edges)

StoredIn(S, t, payload) == \A n \in DOMAIN payload.items : Kept(S, t, payload.items[n], {})

Whole(S, done, answers) ==
  /\ \A x \in done : StoredIn(S, x[1], x[2]) /\ Revision(x[1], "accepted") \in Bodies(S, "task")
  /\ \A r \in answers : r.accepted /\ r.task.type # "source_discovery" => StoredIn(S, r.task, r.payload)

ResearchInv ==
  /\ SoundStore(rows)
  /\ agenda.importers \subseteq Importers
  /\ \A topic \in agenda.topics : \A items \in Results[topic.type] : items \in Seq(Range(items))
  /\ importer = [i \in Importers |-> importer[i]]
  /\ \A i \in Importers : Progress(importer[i], rows)
  /\ Whole(rows, taken, responses)
  /\ OneOnRecord

LEMMA ProgressStays ==
  ASSUME NEW S, NEW T, S \subseteq T
  PROVE  /\ \A t, x : \A A, B : A \subseteq (Bodies(T, "claim_source_edge") \cup B) /\ Kept(S, t, x, A) =>
              Kept(T, t, x, B)
         /\ \A m : Progress(m, S) => Progress(m, T)
         /\ \A done, answers : Whole(S, done, answers) => Whole(T, done, answers)
<1>1. \A kind : Bodies(S, kind) \subseteq Bodies(T, kind)
  BY LoadsStay
<1>2. ASSUME NEW t, NEW x, NEW A, NEW B, A \subseteq (Bodies(T, "claim_source_edge") \cup B),
             Kept(S, t, x, A)
      PROVE  Kept(T, t, x, B)
  <2>1. CASE t.type = "source_discovery"
    BY <1>1, <1>2, <2>1 DEF Kept
  <2>2. CASE t.type = "source_extraction"
    BY <1>1, <1>2, <2>2 DEF Kept
  <2>3. CASE t.type \notin {"source_discovery", "source_extraction"}
    BY <1>1, <1>2, <2>3 DEF Kept
  <2> QED BY <2>1, <2>2, <2>3
<1>3. \A t, x, A : Kept(S, t, x, A) => Kept(T, t, x, A)
  BY <1>2
<1>4. ASSUME NEW m, Progress(m, S) PROVE Progress(m, T)
  <2> DEFINE knows(U) == Knows(U, m.step, m.task, m.payload, m.next, m.edges)
  <2>1. \A e \in m.edges : ClaimLoads(T, e.claim) /\ FactLoads(T, e.fact)
    BY <1>4, LoadsStay DEF Progress, Knows
  <2>2. knows(S)
    BY <1>4 DEF Progress
  <2>3. knows(T)
    BY <1>1, <1>3, <2>1, <2>2 DEF Knows
  <2> QED BY <1>4, <2>3 DEF Progress
<1>5. \A done, answers : Whole(S, done, answers) => Whole(T, done, answers)
  <2>1. \A t, payload : StoredIn(S, t, payload) => StoredIn(T, t, payload)
    BY <1>3 DEF StoredIn
  <2> QED BY <1>1, <2>1 DEF Whole
<1> QED BY <1>2, <1>4, <1>5

(* An importer steps, and the store grows.                                 *)
LEMMA ImporterMoves ==
  ASSUME ResearchInv, NEW i \in Importers, NEW m, importer' = [importer EXCEPT ![i] = m],
         UNCHANGED agenda, rows \subseteq rows', SoundStore(rows'), Progress(m, rows'),
         Whole(rows', taken', responses'), OneOnRecord'
  PROVE  ResearchInv'
<1>1. importer' = [j \in Importers |-> importer'[j]]
  BY DEF ResearchInv
<1>2. ASSUME NEW j \in Importers PROVE Progress(importer'[j], rows')
  <2>1. CASE j = i
    BY <2>1 DEF ResearchInv
  <2>2. CASE j # i
    <3>1. importer'[j] = importer[j]
      BY <2>2 DEF ResearchInv
    <3> QED BY <3>1, ProgressStays DEF ResearchInv
  <2> QED BY <2>1, <2>2
<1> QED BY <1>1, <1>2 DEF ResearchInv

(* The same, with nothing recorded and nothing taken.                      *)
LEMMA ImporterPuts ==
  ASSUME ResearchInv, NEW i \in Importers, NEW m, importer' = [importer EXCEPT ![i] = m],
         UNCHANGED <<agenda, responses, taken>>, rows \subseteq rows', SoundStore(rows'),
         Progress(m, rows')
  PROVE  ResearchInv'
<1>1. Whole(rows', taken', responses')
  BY ProgressStays DEF ResearchInv
<1>2. OneOnRecord'
  BY DEF ResearchInv, OneOnRecord
<1> QED BY <1>1, <1>2, ImporterMoves

(* No importer steps.                                                      *)
LEMMA StoreOnly ==
  ASSUME ResearchInv, UNCHANGED <<agenda, responses, taken, importer>>, rows \subseteq rows',
         SoundStore(rows')
  PROVE  ResearchInv'
<1>1. Whole(rows', taken', responses')
  BY ProgressStays DEF ResearchInv
<1>2. \A i \in Importers : Progress(importer'[i], rows')
  BY ProgressStays DEF ResearchInv
<1> QED BY <1>1, <1>2 DEF ResearchInv, OneOnRecord

LEMMA FreeRests == \A S : Progress(Free, S)
BY DEF Progress, Knows, Free, Parts, Working

(* A step that stores nothing.                                             *)
LEMMA TurnTo ==
  ASSUME NEW S, NEW m, Progress(m, S), NEW step,
         \/ step \notin Working \cup {"source"}
         \/ /\ step \in Working /\ m.step \in Working
            /\ m.task.type = "source_discovery" /\ step = "put" =>
                  m.step = "put" \/ Revision(m.task, "accepted") \in Bodies(S, "task")
            /\ m.task.type # "source_discovery" /\ step # "put" =>
                  m.step # "put" \/ (m.edges = {} /\ m.next > Len(m.payload.items))
  PROVE  Progress([m EXCEPT !.step = step], S)
<1> DEFINE k == [m EXCEPT !.step = step]
<1>1. /\ k = [part \in Parts |-> k[part]] /\ k.step = step /\ k.task = m.task
      /\ k.payload = m.payload /\ k.next = m.next /\ k.edges = m.edges
  BY DEF Progress, Parts
<1> HIDE DEF k
<1>2. Knows(S, m.step, m.task, m.payload, m.next, m.edges)
  BY DEF Progress
<1>3. Knows(S, step, m.task, m.payload, m.next, m.edges)
  <2>1. CASE step \notin Working \cup {"source"}
    BY <1>2, <2>1 DEF Knows
  <2>2. CASE step \in Working /\ m.step \in Working
    <3>1. step # "source"
      BY <2>2 DEF Working
    <3> QED BY <1>2, <2>2, <3>1 DEF Knows
  <2> QED BY <2>1, <2>2
<1> QED BY <1>1, <1>3 DEF Progress, k

(* The next item is stored, but for the edges of its claim.                *)
LEMMA ItemPut ==
  ASSUME NEW S, NEW T, S \subseteq T, NEW m, Progress(m, S), m.step = "put", m.edges = {},
         NEW edges, \A e \in edges : ClaimLoads(T, e.claim) /\ FactLoads(T, e.fact),
         Kept(T, m.task, m.payload.items[m.next], edges)
  PROVE  Progress([m EXCEPT !.next = @ + 1, !.edges = edges], T)
<1> DEFINE k == [m EXCEPT !.next = @ + 1, !.edges = edges]
<1>1. /\ k = [part \in Parts |-> k[part]] /\ k.step = "put" /\ k.task = m.task
      /\ k.payload = m.payload /\ k.next = m.next + 1 /\ k.edges = edges
  BY DEF Progress, Parts
<1> HIDE DEF k
<1>2. Knows(S, "put", m.task, m.payload, m.next, {})
  BY DEF Progress
<1>3. m.next \in Nat /\ IsSequence(m.payload.items)
  BY <1>2 DEF Knows, Working
<1>4. ASSUME NEW n \in DOMAIN m.payload.items, n < m.next + 1
      PROVE  Kept(T, m.task, m.payload.items[n], edges)
  <2>1. n < m.next \/ n = m.next
    BY <1>3, <1>4 DEF IsSequence
  <2>2. n < m.next => Kept(S, m.task, m.payload.items[n], {})
    BY <1>2 DEF Knows, Working
  <2>3. {} \subseteq (Bodies(T, "claim_source_edge") \cup edges)
    OBVIOUS
  <2> QED BY <2>1, <2>2, <2>3, ProgressStays
<1>5. m.task.type = "source_discovery" => Revision(m.task, "accepted") \in Bodies(T, "task")
  BY <1>2, LoadsStay DEF Knows, Working
<1>6. Knows(T, "put", m.task, m.payload, m.next + 1, edges)
  BY <1>3, <1>4, <1>5 DEF Knows
<1> QED BY <1>1, <1>6 DEF Progress, k

LEMMA NothingMore ==
  ASSUME NEW S, NEW m, Progress(m, S), m.edges = {}
  PROVE  [m EXCEPT !.next = @ + 1] = [m EXCEPT !.next = @ + 1, !.edges = {}]
<1>1. m = [part \in Parts |-> m[part]]
  BY DEF Progress
<1> QED BY <1>1 DEF Parts

(* A response that may be imported is a sequence of items.                 *)
LEMMA StartImportStep ==
  ASSUME ResearchInv, NEW i \in Importers, UNCHANGED agenda, StartImport(i)
  PROVE  ResearchInv'
<1> DEFINE step(t, payload) == IF FirstFault(ImportRows(t, payload)) # Fine THEN "reject"
                               ELSE IF t.type = "source_discovery" THEN "accept"
                               ELSE "put"
<1>1. PICK t \in Stored("task") :
        /\ t.topic \in agenda.topics
        /\ \E payload \in Payloads(t) : \E known : importer' = [importer EXCEPT ![i] =
              [Free EXCEPT !.task = t, !.payload = payload, !.known = known,
                  !.step = step(t, payload)]]
  BY DEF StartImport
<1>2. PICK payload \in Payloads(t) : \E known : importer' = [importer EXCEPT ![i] =
        [Free EXCEPT !.task = t, !.payload = payload, !.known = known, !.step = step(t, payload)]]
  BY <1>1
<1>3. PICK known : importer' = [importer EXCEPT ![i] =
        [Free EXCEPT !.task = t, !.payload = payload, !.known = known, !.step = step(t, payload)]]
  BY <1>2
<1> DEFINE at == step(t, payload)
<1>4. /\ at \in {"reject", "accept", "put"}
      /\ at = "accept" => t.type = "source_discovery"
      /\ at = "put" => t.type # "source_discovery"
  OBVIOUS
<1> HIDE DEF step
<1> DEFINE m == [Free EXCEPT !.task = t, !.payload = payload, !.known = known, !.step = at]
<1>5. importer' = [importer EXCEPT ![i] = m] /\ UNCHANGED <<rows, responses, taken>>
  BY <1>3 DEF StartImport
<1> HIDE DEF at
<1>6. IsSequence(payload.items)
  <2>1. CASE payload = Garbage
    BY <2>1 DEF Garbage, IsSequence
  <2>2. CASE payload # Garbage
    <3>1. PICK items \in Results[t.topic.type] : payload = [task |-> t, items |-> items]
      BY <1>2, <2>2 DEF Payloads
    <3>2. items \in Seq(Range(items))
      BY <1>1, <3>1 DEF ResearchInv
    <3> QED BY <3>1, <3>2, LenProperties DEF IsSequence
  <2> QED BY <2>1, <2>2
<1>7. /\ m = [part \in Parts |-> m[part]] /\ m.step = at /\ m.task = t /\ m.payload = payload
      /\ m.next = 1 /\ m.edges = {}
  BY DEF Free, Parts
<1> HIDE DEF m
<1>8. \A n \in DOMAIN payload.items : ~(n < 1)
  BY <1>6 DEF IsSequence
<1>9. Progress(m, rows)
  <2>1. Knows(rows, at, t, payload, 1, {})
    BY <1>4, <1>6, <1>8 DEF Knows, Working
  <2> QED BY <1>7, <2>1 DEF Progress
<1> QED BY <1>5, <1>9, ImporterPuts DEF ResearchInv

LEMMA SpanAccepted ==
  ASSUME NEW t, NEW x, FirstFault(SpanRows(t, x)) = Fine
  PROVE  SourceLoads(rows, x.source) /\ x.source.project = t.topic.project
<1> DEFINE a1 == ~SourceLoads(rows, x.source)
           a2 == x.source.project # t.topic.project
           a3 == x.from >= x.to \/ x.to > Len(x.source.text)
           a4 == SubSeq(x.source.text, x.from + 1, x.to) # x.text
           a == << <<a1, "SOURCE_UNKNOWN">>, <<a2, "SOURCE_LINEAGE_INVALID">>,
                   <<a3, "SOURCE_SPAN_INVALID">>, <<a4, "SOURCE_SPAN_INVALID">> >>
<1>1. SpanRows(t, x) = a
  BY DEF SpanRows
<1> HIDE DEF a1, a2, a3, a4
<1>2. Chain(a, 4) /\ (~a[1][1] => ~a1) /\ (~a[2][1] => ~a2)
  BY DEF Chain, Fine
<1> HIDE DEF a
<1>3. \A i \in 1 .. 4 : ~a[i][1]
  BY <1>1, <1>2, Accepted
<1> QED BY <1>2, <1>3 DEF a1, a2

LEMMA ClaimAccepted ==
  ASSUME NEW t, NEW x, NEW known, FirstFault(ClaimRows(t, x, known)) = Fine
  PROVE  /\ x.cites \cup x.against \subseteq Quotes(known)
         /\ \A f \in Quoting(known, x.cites \cup x.against) :
              FactLoads(rows, f) /\ f.project = t.topic.project
<1> DEFINE q == Quoting(known, x.cites \cup x.against)
           a1 == x.cites = {} \/ x.cites \cap x.against # {}
           a2 == ~(x.cites \cup x.against \subseteq Quotes(known))
           a3 == \E f \in q : ~FactLoads(rows, f)
           a4 == \E f \in q : f.project # t.topic.project
           a5 == x.start # None /\ x.end # None /\ x.start.day > x.end.day
           a == << <<a1, "CLAIM_FACT_REFERENCE_INVALID">>, <<a2, "CLAIM_FACT_REFERENCE_INVALID">>,
                   <<a3, "FACT_UNKNOWN">>, <<a4, "SOURCE_LINEAGE_INVALID">>,
                   <<a5, "CLAIM_TIME_INVALID">> >>
<1>1. ClaimRows(t, x, known) = a
  BY DEF ClaimRows
<1> HIDE DEF a1, a2, a3, a4, a5
<1>2. Chain(a, 5) /\ (~a[2][1] => ~a2) /\ (~a[3][1] => ~a3) /\ (~a[4][1] => ~a4)
  BY DEF Chain, Fine
<1> HIDE DEF a
<1>3. \A i \in 1 .. 5 : ~a[i][1]
  BY <1>1, <1>2, Accepted
<1>4. ~a[2][1] /\ ~a[3][1] /\ ~a[4][1]
  BY <1>3
<1>5. ~a2 /\ ~a3 /\ ~a4
  BY <1>2, <1>4
<1> QED BY <1>5 DEF a2, a3, a4

(* The claim made of an item quotes what the item cites.                   *)
LEMMA ClaimQuotes ==
  ASSUME NEW t, NEW x, NEW known, FirstFault(ClaimRows(t, x, known)) = Fine
  PROVE  LET c == ClaimOf(t, x, known) IN
         /\ c.task = t /\ c.type = x.type /\ c.status = x.status /\ Quotes(c.facts) = x.cites
         /\ c.project = t.topic.project
         /\ \A f \in c.facts \cup c.against : FactLoads(rows, f) /\ f.project = c.project
<1> DEFINE c == ClaimOf(t, x, known)
<1>1. /\ c.task = t /\ c.type = x.type /\ c.status = x.status /\ c.project = t.topic.project
      /\ c.facts = Quoting(known, x.cites) /\ c.against = Quoting(known, x.against)
  BY DEF ClaimOf
<1> HIDE DEF c
<1>2. \A f \in c.facts \cup c.against : f \in Quoting(known, x.cites \cup x.against)
  BY <1>1 DEF Quoting
<1>3. Quotes(c.facts) = x.cites
  <2> DEFINE words(f) == SubSeq(f.source.text, f.from + 1, f.to)
  <2>1. /\ Quotes(c.facts) = {words(f) : f \in c.facts} /\ Quotes(known) = {words(f) : f \in known}
        /\ c.facts = {f \in known : words(f) \in x.cites}
    BY <1>1 DEF Quotes, Quoting
  <2>2. x.cites \subseteq Quotes(known)
    BY ClaimAccepted
  <2> HIDE DEF words
  <2> QED BY <2>1, <2>2
<1>4. \A f \in c.facts \cup c.against : FactLoads(rows, f) /\ f.project = t.topic.project
  BY <1>2, ClaimAccepted
<1> QED BY <1>1, <1>3, <1>4 DEF c

-----------------------------------------------------------------------------
(* The steps of an importer.                                               *)

LEMMA CandidateStep ==
  ASSUME ResearchInv, NEW i \in Importers, UNCHANGED agenda, PutRecord(i), PutCandidate(i)
  PROVE  ResearchInv'
<1> DEFINE m == importer[i]
           x == Item(i)
           k == [m EXCEPT !.next = @ + 1, !.edges = {}]
<1>1. Progress(m, rows) /\ m.step = "put" /\ m.edges = {}
  BY DEF ResearchInv, PutRecord, At
<1>2. /\ SoundStore(rows') /\ rows \subseteq rows'
      /\ [url |-> x.url] \in Bodies(rows', "candidate")
  BY PlainPut DEF ResearchInv, PutCandidate
<1>3. Kept(rows', m.task, x, {})
  BY <1>2 DEF Kept, PutCandidate, TaskOf
<1>4. importer' = [importer EXCEPT ![i] = k]
  <2>1. importer' = [importer EXCEPT ![i] = [m EXCEPT !.next = @ + 1]]
    BY DEF PutCandidate
  <2> QED BY <1>1, <2>1, NothingMore
<1>5. Progress(k, rows')
  BY <1>1, <1>2, <1>3, ItemPut DEF Item
<1> HIDE DEF k
<1> QED BY <1>2, <1>4, <1>5, ImporterPuts DEF PutRecord

LEMMA RejectStep ==
  ASSUME ResearchInv, NEW i \in Importers, UNCHANGED <<agenda, rows, responses, taken>>,
         Goes(i, "reject")
  PROVE  ResearchInv'
<1> DEFINE k == [importer[i] EXCEPT !.step = "reject"]
<1>1. importer' = [importer EXCEPT ![i] = k]
  BY DEF Goes
<1>2. Progress(k, rows)
  BY TurnTo DEF ResearchInv, Working
<1> HIDE DEF k
<1> QED BY <1>1, <1>2, ImporterPuts DEF ResearchInv

LEMMA FactStep ==
  ASSUME ResearchInv, NEW i \in Importers, UNCHANGED agenda, PutRecord(i), PutFact(i)
  PROVE  ResearchInv'
<1> DEFINE m == importer[i]
           x == Item(i)
           k == [m EXCEPT !.next = @ + 1, !.edges = {}]
<1>1. Progress(m, rows) /\ m.step = "put" /\ m.edges = {} /\ m.task.type = "source_extraction"
  BY DEF ResearchInv, PutRecord, At, PutFact, TaskOf
<1>2. CASE FirstFault(SpanRows(TaskOf(i), x)) # Fine
  BY <1>2, RejectStep DEF PutFact, PutRecord
<1>3. CASE FirstFault(SpanRows(TaskOf(i), x)) = Fine
  <2> DEFINE f == FactOf(m.task, x)
  <2>1. /\ rows' = With("fact", m.task.topic.project, f)
        /\ importer' = [importer EXCEPT ![i] = [m EXCEPT !.next = @ + 1]]
    BY <1>3 DEF PutFact, TaskOf
  <2>2. SourceLoads(rows, f.source) /\ f.source.project = f.project
    BY <1>3, SpanAccepted DEF FactOf, TaskOf
  <2> HIDE DEF f
  <2>3. SoundStore(rows') /\ rows \subseteq rows' /\ f \in Bodies(rows', "fact")
    BY <2>1, <2>2, FactPut DEF ResearchInv
  <2>4. Kept(rows', m.task, x, {})
    BY <1>1, <2>3 DEF Kept, f
  <2>5. importer' = [importer EXCEPT ![i] = k]
    BY <1>1, <2>1, NothingMore
  <2>6. Progress(k, rows')
    BY <1>1, <2>3, <2>4, ItemPut DEF Item
  <2> HIDE DEF k
  <2> QED BY <2>3, <2>5, <2>6, ImporterPuts DEF PutRecord
<1> QED BY <1>2, <1>3

LEMMA ClaimStep ==
  ASSUME ResearchInv, NEW i \in Importers, UNCHANGED agenda, PutRecord(i), PutClaim(i)
  PROVE  ResearchInv'
<1> DEFINE m == importer[i]
           x == Item(i)
           c == ClaimOf(m.task, x, m.known)
           k == [m EXCEPT !.next = @ + 1, !.edges = EdgesOf(c)]
<1>1. Progress(m, rows) /\ m.step = "put" /\ m.edges = {} /\ m.task.type = "claim_normalization"
  BY DEF ResearchInv, PutRecord, At, PutClaim, TaskOf
<1>2. CASE FirstFault(ClaimRows(TaskOf(i), x, m.known)) # Fine
  BY <1>2, RejectStep DEF PutClaim, PutRecord
<1>3. CASE FirstFault(ClaimRows(TaskOf(i), x, m.known)) = Fine
  <2>1. /\ rows' = With("claim", m.task.topic.project, c)
        /\ importer' = [importer EXCEPT ![i].next = @ + 1, ![i].edges = EdgesOf(c)]
    BY <1>3 DEF PutClaim, TaskOf
  <2>2. importer' = [importer EXCEPT ![i] = k]
    BY <2>1 DEF ResearchInv
  <2>3. /\ c.task = m.task /\ c.type = x.type /\ c.status = x.status /\ Quotes(c.facts) = x.cites
        /\ \A f \in c.facts \cup c.against : FactLoads(rows, f) /\ f.project = c.project
    BY <1>3, ClaimQuotes DEF TaskOf
  <2> HIDE DEF c
  <2>4. /\ SoundStore(rows') /\ rows \subseteq rows' /\ c \in Bodies(rows', "claim")
        /\ ClaimLoads(rows', c)
    BY <2>1, <2>3, ClaimPut DEF ResearchInv
  <2>5. \A e \in EdgesOf(c) : ClaimLoads(rows', e.claim) /\ FactLoads(rows', e.fact)
    <3>1. \A e \in EdgesOf(c) : e.claim = c /\ e.fact \in c.facts \cup c.against
      BY DEF EdgesOf
    <3> QED BY <2>3, <2>4, <3>1, LoadsStay
  <2>6. Kept(rows', m.task, x, EdgesOf(c))
    BY <1>1, <2>3, <2>4 DEF Kept
  <2>7. Progress(k, rows')
    BY <1>1, <2>4, <2>5, <2>6, ItemPut DEF Item
  <2> HIDE DEF k
  <2> QED BY <2>2, <2>4, <2>7, ImporterPuts DEF PutRecord
<1> QED BY <1>2, <1>3

LEMMA EdgeStep ==
  ASSUME ResearchInv, NEW i \in Importers, UNCHANGED agenda, PutEdge(i)
  PROVE  ResearchInv'
<1> DEFINE m == importer[i]
<1>1. PICK e \in m.edges :
        /\ rows' = With("claim_source_edge", TaskOf(i).topic.project, e)
        /\ importer' = [importer EXCEPT ![i].edges = @ \ {e}]
  BY DEF PutEdge
<1> DEFINE k == [m EXCEPT !.edges = @ \ {e}]
<1>2. importer' = [importer EXCEPT ![i] = k]
  BY <1>1
<1>3. m.step = "put" /\ Progress(m, rows)
  BY DEF PutEdge, At, ResearchInv
<1>4. Knows(rows, "put", m.task, m.payload, m.next, m.edges)
  BY <1>3 DEF Progress
<1>5. ClaimLoads(rows, e.claim) /\ FactLoads(rows, e.fact)
  BY <1>1, <1>4 DEF Knows
<1>6. SoundStore(rows') /\ rows \subseteq rows' /\ e \in Bodies(rows', "claim_source_edge")
  BY <1>1, <1>5, PlainPut DEF ResearchInv
<1>7. m.edges \subseteq (Bodies(rows', "claim_source_edge") \cup (m.edges \ {e}))
  BY <1>6
<1>8. \A n \in DOMAIN m.payload.items : n < m.next =>
        Kept(rows', m.task, m.payload.items[n], m.edges \ {e})
  <2>1. \A n \in DOMAIN m.payload.items : n < m.next => Kept(rows, m.task, m.payload.items[n], m.edges)
    BY <1>4 DEF Knows, Working
  <2> DEFINE A == m.edges
             B == m.edges \ {e}
  <2>2. \A t, x : Kept(rows, t, x, A) => Kept(rows', t, x, B)
    <3>1. A \subseteq (Bodies(rows', "claim_source_edge") \cup B)
      BY <1>7
    <3> HIDE DEF A, B
    <3> QED BY <1>6, <3>1, ProgressStays
  <2> QED BY <2>1, <2>2
<1>9. \A d \in m.edges \ {e} : ClaimLoads(rows', d.claim) /\ FactLoads(rows', d.fact)
  BY <1>4, <1>6, LoadsStay DEF Knows
<1>10. m.task.type = "source_discovery" => Revision(m.task, "accepted") \in Bodies(rows', "task")
  BY <1>4, <1>6, LoadsStay DEF Knows, Working
<1>11. Knows(rows', "put", m.task, m.payload, m.next, m.edges \ {e})
  BY <1>4, <1>8, <1>9, <1>10 DEF Knows, Working
<1>12. /\ k = [part \in Parts |-> k[part]] /\ k.step = "put" /\ k.task = m.task
       /\ k.payload = m.payload /\ k.next = m.next /\ k.edges = m.edges \ {e}
  BY <1>3 DEF Progress, Parts
<1> HIDE DEF k
<1>13. Progress(k, rows')
  BY <1>11, <1>12 DEF Progress
<1> QED BY <1>2, <1>6, <1>13, ImporterPuts DEF PutEdge

(* When all items are put, the response is stored.                         *)
LEMMA AllStoredNow ==
  ASSUME NEW S, NEW m, Progress(m, S), m.step \in Working, m.edges = {},
         m.next > Len(m.payload.items)
  PROVE  StoredIn(S, m.task, m.payload)
<1>1. Knows(S, m.step, m.task, m.payload, m.next, {})
  BY DEF Progress
<1>2. \A n \in DOMAIN m.payload.items : n < m.next
  BY <1>1 DEF Knows, IsSequence
<1> QED BY <1>1, <1>2 DEF Knows, StoredIn

(* An import returns.                                                      *)
LEMMA ImportReturns ==
  ASSUME ResearchInv, NEW i \in Importers, UNCHANGED <<agenda, responses>>, Frees(i),
         taken' = taken \cup {<<TaskOf(i), importer[i].payload>>},
         rows \subseteq rows', SoundStore(rows'),
         StoredIn(rows', TaskOf(i), importer[i].payload),
         Revision(TaskOf(i), "accepted") \in Bodies(rows', "task")
  PROVE  ResearchInv'
<1>1. Whole(rows', taken, responses)
  BY ProgressStays DEF ResearchInv
<1>2. Whole(rows', taken', responses')
  BY <1>1 DEF Whole
<1>3. OneOnRecord'
  BY DEF ResearchInv, OneOnRecord
<1> QED BY <1>2, <1>3, FreeRests, ImporterMoves DEF Frees

LEMMA AllPutStep ==
  ASSUME ResearchInv, NEW i \in Importers, UNCHANGED agenda, AllPut(i)
  PROVE  ResearchInv'
<1> DEFINE m == importer[i]
<1>1. /\ m.step = "put" /\ m.edges = {} /\ m.next > Len(m.payload.items)
      /\ Progress(m, rows) /\ SoundStore(rows) /\ UNCHANGED <<rows, responses>>
  BY DEF AllPut, At, ResearchInv
<1>2. CASE TaskOf(i).type = "source_discovery"
  <2>1. Knows(rows, "put", m.task, m.payload, m.next, {})
    BY <1>1 DEF Progress
  <2>2. Revision(m.task, "accepted") \in Bodies(rows, "task")
    BY <1>2, <2>1 DEF Knows, Working, TaskOf
  <2>3. StoredIn(rows, m.task, m.payload)
    BY <1>1, AllStoredNow DEF Working
  <2>4. Frees(i) /\ taken' = taken \cup {<<TaskOf(i), importer[i].payload>>}
    BY <1>2 DEF AllPut
  <2> QED BY <1>1, <2>2, <2>3, <2>4, ImportReturns DEF TaskOf
<1>3. CASE TaskOf(i).type # "source_discovery"
  <2> DEFINE k == [m EXCEPT !.step = "accept"]
  <2>1. importer' = [importer EXCEPT ![i] = k] /\ UNCHANGED taken
    BY <1>3 DEF AllPut, Goes
  <2>2. Progress(k, rows)
    BY <1>1, <1>3, TurnTo DEF Working, TaskOf
  <2> HIDE DEF k
  <2> QED BY <1>1, <2>1, <2>2, ImporterPuts
<1> QED BY <1>2, <1>3

LEMMA AcceptStep ==
  ASSUME ResearchInv, NEW i \in Importers, UNCHANGED agenda, Accept(i)
  PROVE  ResearchInv'
<1> DEFINE m == importer[i]
           k == [m EXCEPT !.step = "record"]
<1>1. m.step = "accept" /\ Progress(m, rows) /\ SoundStore(rows) /\ UNCHANGED <<rows, responses, taken>>
  BY DEF Accept, At, ResearchInv
<1>2. Goes(i, "reject") \/ Goes(i, "record")
  BY DEF Accept
<1>3. CASE Goes(i, "reject")
  BY <1>1, <1>3, RejectStep
<1>4. CASE Goes(i, "record")
  <2>1. importer' = [importer EXCEPT ![i] = k]
    BY <1>4 DEF Goes
  <2>2. Progress(k, rows)
    BY <1>1, TurnTo DEF Working
  <2> HIDE DEF k
  <2> QED BY <1>1, <2>1, <2>2, ImporterPuts
<1> QED BY <1>2, <1>3, <1>4

(* At most one accepted response of a task is on record: the second is     *)
(* ignored.                                                                *)
LEMMA RecordOne ==
  ASSUME ResearchInv, NEW t, NEW payload, NEW accepted \in BOOLEAN,
         responses' = Recorded(t, payload, accepted), UNCHANGED <<rows, taken>>,
         accepted /\ t.type # "source_discovery" => StoredIn(rows, t, payload)
  PROVE  Whole(rows', taken', responses') /\ OneOnRecord'
<1> DEFINE new == [task |-> t, payload |-> payload, accepted |-> accepted]
<1>1. CASE Ignored(t, payload, accepted)
  BY <1>1 DEF Recorded, ResearchInv, OneOnRecord
<1>2. CASE ~Ignored(t, payload, accepted)
  <2>1. responses' = responses \cup {new}
    BY <1>2 DEF Recorded
  <2>2. new.task = t /\ new.payload = payload /\ new.accepted = accepted
    OBVIOUS
  <2> HIDE DEF new
  <2>3. accepted => \A r \in responses : r.task = t => ~r.accepted
    BY <1>2 DEF Ignored
  <2>4. OneOnRecord'
    BY <2>1, <2>2, <2>3 DEF ResearchInv, OneOnRecord
  <2>5. Whole(rows', taken', responses')
    BY <2>1, <2>2 DEF ResearchInv, Whole
  <2> QED BY <2>4, <2>5
<1> QED BY <1>1, <1>2

LEMMA RecordAcceptedStep ==
  ASSUME ResearchInv, NEW i \in Importers, UNCHANGED agenda, RecordAccepted(i)
  PROVE  ResearchInv'
<1> DEFINE m == importer[i]
           k == [m EXCEPT !.step = "terminal"]
<1>1. m.step = "record" /\ Progress(m, rows) /\ SoundStore(rows) /\ UNCHANGED <<rows, taken>>
  BY DEF RecordAccepted, At, ResearchInv
<1>2. m.task.type # "source_discovery" => StoredIn(rows, m.task, m.payload)
  <2> SUFFICES ASSUME m.task.type # "source_discovery" PROVE StoredIn(rows, m.task, m.payload)
    OBVIOUS
  <2>1. m.edges = {} /\ m.next > Len(m.payload.items)
    BY <1>1 DEF Progress, Knows, Working
  <2> QED BY <1>1, <2>1, AllStoredNow DEF Working
<1>3. Whole(rows', taken', responses') /\ OneOnRecord'
  BY <1>1, <1>2, RecordOne DEF RecordAccepted, TaskOf
<1>4. importer' = [importer EXCEPT ![i] = k]
  BY DEF RecordAccepted, Goes
<1>5. Progress(k, rows)
  BY <1>1, TurnTo DEF Working
<1> HIDE DEF k
<1> QED BY <1>1, <1>3, <1>4, <1>5, ImporterMoves

LEMMA RecordRejectedStep ==
  ASSUME ResearchInv, NEW i \in Importers, UNCHANGED agenda, RecordRejected(i)
  PROVE  ResearchInv'
<1> DEFINE k == [importer[i] EXCEPT !.step = "rejected"]
<1>1. Whole(rows', taken', responses') /\ OneOnRecord'
  BY RecordOne DEF RecordRejected, TaskOf
<1>2. importer' = [importer EXCEPT ![i] = k] /\ SoundStore(rows) /\ UNCHANGED <<rows, taken>>
  BY DEF RecordRejected, Goes, ResearchInv
<1>3. Progress(k, rows)
  BY TurnTo DEF Working, ResearchInv
<1> HIDE DEF k
<1> QED BY <1>1, <1>2, <1>3, ImporterMoves

(* A task revision is put.                                                 *)
LEMMA TaskPut ==
  ASSUME SoundStore(rows), NEW t, PutTask(t)
  PROVE  SoundStore(rows') /\ rows \subseteq rows' /\ t \in Bodies(rows', "task")
<1>1. rows' = With("task", t.topic.project, t)
  BY DEF PutTask
<1> QED BY <1>1, PlainPut

LEMMA PutAcceptedStep ==
  ASSUME ResearchInv, NEW i \in Importers, UNCHANGED agenda, PutAccepted(i)
  PROVE  ResearchInv'
<1> DEFINE m == importer[i]
           k == [m EXCEPT !.step = "put"]
<1>1. m.step = "terminal" /\ Progress(m, rows) /\ UNCHANGED responses
  BY DEF PutAccepted, At, ResearchInv
<1>2. /\ SoundStore(rows') /\ rows \subseteq rows'
      /\ Revision(m.task, "accepted") \in Bodies(rows', "task")
  BY TaskPut DEF PutAccepted, ResearchInv, TaskOf
<1>3. Progress(m, rows')
  BY <1>1, <1>2, ProgressStays
<1>4. CASE TaskOf(i).type = "source_discovery"
  <2>1. importer' = [importer EXCEPT ![i] = k] /\ UNCHANGED taken
    BY <1>4 DEF PutAccepted, Goes
  <2>2. Progress(k, rows')
    BY <1>1, <1>2, <1>3, TurnTo DEF Working
  <2> HIDE DEF k
  <2> QED BY <1>1, <1>2, <2>1, <2>2, ImporterPuts
<1>5. CASE TaskOf(i).type # "source_discovery"
  <2>1. Frees(i) /\ taken' = taken \cup {<<TaskOf(i), m.payload>>}
    BY <1>5 DEF PutAccepted
  <2>2. m.edges = {} /\ m.next > Len(m.payload.items)
    BY <1>1, <1>5 DEF Progress, Knows, Working, TaskOf
  <2>3. StoredIn(rows', m.task, m.payload)
    BY <1>1, <1>3, <2>2, AllStoredNow DEF Working
  <2> QED BY <1>1, <1>2, <2>1, <2>3, ImportReturns DEF TaskOf
<1> QED BY <1>4, <1>5

LEMMA PutRejectedStep ==
  ASSUME ResearchInv, NEW i \in Importers, UNCHANGED agenda, PutRejected(i)
  PROVE  ResearchInv'
<1>1. SoundStore(rows') /\ rows \subseteq rows'
  BY TaskPut DEF PutRejected, ResearchInv
<1> QED BY <1>1, FreeRests, ImporterPuts DEF PutRejected, Frees

(* The plan comes first, the source when the plan is there.                *)
LEMMA BindStep ==
  ASSUME ResearchInv, NEW i \in Importers, UNCHANGED agenda, BindCapture(i)
  PROVE  ResearchInv'
<1>1. PICK c \in Stored("candidate") : \E p \in Packages : \E project :
        /\ FirstFault(BindingRows(project, c.url, p)) = Fine
        /\ rows' = With("source_capture_plan", project, PlanOf(p))
        /\ importer' = [importer EXCEPT ![i] =
              [Free EXCEPT !.step = "source", !.payload = SourceOf(project, p)]]
  BY DEF BindCapture
<1>2. PICK p \in Packages : \E project :
        /\ FirstFault(BindingRows(project, c.url, p)) = Fine
        /\ rows' = With("source_capture_plan", project, PlanOf(p))
        /\ importer' = [importer EXCEPT ![i] =
              [Free EXCEPT !.step = "source", !.payload = SourceOf(project, p)]]
  BY <1>1
<1>3. PICK project :
        /\ FirstFault(BindingRows(project, c.url, p)) = Fine
        /\ rows' = With("source_capture_plan", project, PlanOf(p))
        /\ importer' = [importer EXCEPT ![i] =
              [Free EXCEPT !.step = "source", !.payload = SourceOf(project, p)]]
  BY <1>2
<1> DEFINE k == [Free EXCEPT !.step = "source", !.payload = SourceOf(project, p)]
           s == SourceOf(project, p)
<1>4. importer' = [importer EXCEPT ![i] = k]
  BY <1>3
<1>5. WordsFound(s) /\ ShownWhereRead(PlanOf(p)) /\ PlanOf(p).package = p
  BY <1>3, CaptureIsEvidence, CaptureAccepted, ReadPage
<1>6. s.plan = PlanOf(p) /\ s.url = p.url
  BY DEF SourceOf
<1> HIDE DEF s
<1>7. /\ SoundStore(rows') /\ rows \subseteq rows'
      /\ PlanOf(p) \in Bodies(rows', "source_capture_plan")
  BY <1>3, <1>5, PlanPut DEF ResearchInv
<1>8. /\ k = [part \in Parts |-> k[part]] /\ k.step = "source" /\ k.payload = s
      /\ k.next = 1 /\ k.edges = {}
  BY DEF Free, Parts, s
<1> HIDE DEF k
<1>9. Knows(rows', "source", k.task, s, 1, {})
  BY <1>5, <1>6, <1>7 DEF Knows, Working
<1>10. Progress(k, rows')
  BY <1>8, <1>9 DEF Progress
<1> QED BY <1>4, <1>7, <1>10, ImporterPuts DEF BindCapture

LEMMA SourceStep ==
  ASSUME ResearchInv, NEW i \in Importers, UNCHANGED agenda, PutSource(i)
  PROVE  ResearchInv'
<1> DEFINE s == importer[i].payload
<1>1. Progress(importer[i], rows) /\ importer[i].step = "source"
  BY DEF PutSource, At, ResearchInv
<1>2. WordsFound(s) /\ s.plan \in Bodies(rows, "source_capture_plan") /\ s.plan.package.url = s.url
  BY <1>1 DEF Progress, Knows
<1>3. SoundStore(rows') /\ rows \subseteq rows'
  BY <1>2, SourcePut DEF PutSource, ResearchInv
<1> QED BY <1>3, FreeRests, ImporterPuts DEF PutSource, Frees

LEMMA ImporterKeeps ==
  ASSUME ResearchInv, NEW i \in Importers, UNCHANGED agenda, ImporterStep(i)
  PROVE  ResearchInv'
<1>1. CASE PutRecord(i)
  BY <1>1, CandidateStep, FactStep, ClaimStep DEF PutRecord
<1>2. CASE ImporterStops(i)
  <2>1. SoundStore(rows) /\ UNCHANGED <<rows, responses, taken>>
    BY <1>2 DEF ImporterStops, ResearchInv
  <2> QED BY <1>2, <2>1, FreeRests, ImporterPuts DEF ImporterStops, Frees
<1> QED BY <1>1, <1>2, StartImportStep, EdgeStep, AllPutStep, AcceptStep, RecordAcceptedStep,
           PutAcceptedStep, RecordRejectedStep, PutRejectedStep, BindStep, SourceStep
        DEF ImporterStep

LEMMA ResearchStep == ResearchInv /\ [ResearchNext]_researchVars => ResearchInv'
<1> SUFFICES ASSUME ResearchInv, [ResearchNext]_researchVars PROVE ResearchInv'
  OBVIOUS
<1>1. CASE UNCHANGED researchVars
  BY <1>1 DEF researchVars, ResearchInv, OneOnRecord
<1> SUFFICES ASSUME ResearchNext PROVE ResearchInv'
  BY <1>1
<1>2. UNCHANGED agenda
  BY DEF ResearchNext
<1>3. ASSUME NEW topic \in agenda.topics, CreateTask(topic) PROVE ResearchInv'
  BY <1>2, <1>3, TaskPut, StoreOnly DEF CreateTask, ResearchInv
<1>4. ASSUME NEW t, RepairTask(t) PROVE ResearchInv'
  BY <1>2, <1>4, TaskPut, StoreOnly DEF RepairTask, ResearchInv
<1>5. ASSUME NEW t, NEW a, ReviseTask(t, a) PROVE ResearchInv'
  BY <1>2, <1>5, TaskPut, StoreOnly DEF ReviseTask, ResearchInv
<1>6. ASSUME NEW i \in agenda.importers, ImporterStep(i) PROVE ResearchInv'
  <2>1. i \in Importers
    BY DEF ResearchInv
  <2> QED BY <1>2, <1>6, <2>1, ImporterKeeps
<1>7. ASSUME NEW claims \in SUBSET Stored("claim"), Contradict(claims) PROVE ResearchInv'
  <2>1. SoundStore(rows') /\ rows \subseteq rows'
    BY <1>7, ContradictionsPut DEF ResearchInv
  <2> QED BY <1>2, <1>7, <2>1, StoreOnly DEF Contradict
<1>8. ASSUME NEW claims \in SUBSET Stored("claim"), Chronicle(claims) PROVE ResearchInv'
  <2>1. SoundStore(rows') /\ rows \subseteq rows'
    BY <1>8, ChroniclesPut DEF ResearchInv
  <2> QED BY <1>2, <1>8, <2>1, StoreOnly DEF Chronicle
<1> QED BY <1>3, <1>4, <1>5, <1>6, <1>7, <1>8 DEF ResearchNext

LEMMA ResearchIsSound == ResearchInv => ResearchHolds
<1> SUFFICES ASSUME ResearchInv PROVE ResearchHolds
  OBVIOUS
<1>1. LineageHolds /\ SourcesAreEvidence /\ OneOnRecord
  BY DEF ResearchInv, SoundStore, LineageHolds, SourcesAreEvidence
<1>2. ASSUME NEW t, NEW payload, StoredIn(rows, t, payload) PROVE AllStored(t, payload)
  BY <1>2 DEF StoredIn, Kept, AllStored, Has, Stored
<1>3. AcceptedIsWhole
  BY <1>2 DEF ResearchInv, Whole, AcceptedIsWhole, Has, Stored
<1> QED BY <1>1, <1>3 DEF ResearchHolds

-----------------------------------------------------------------------------
(* The planner.  Records, tasks and responses are only added; what a       *)
(* planner has put by the step it has reached is what an accepted task is  *)
(* owed.                                                                   *)

Closed(p, topic) == p.claims \cup p.evidence \subseteq Held(topic.context, "claim_evidence")

Owed(records, topic, items) == \A p \in Range(items) : p \in records /\ Closed(p, topic)

Backed(t, topic, answers, records) ==
  \E r \in answers : r.task = t /\ Owed(records, topic, r.payload.items)

Askable(t) == PlanTask(t) /\ (t.type = "repair" \/ Proposes(t.type))

PlannerParts == {"step", "task", "payload", "accepts", "next"}

Holds(step, t, items, next, records, answers) ==
  /\ step \in {"put", "record"} => IsSequence(items)
  /\ step = "put" =>
       \A n \in DOMAIN items :
          /\ NamesClaims(items[n])
          /\ n < next => items[n] \in records /\ Closed(items[n], t.logical)
  /\ step = "record" => Owed(records, t.logical, items)
  /\ step = "terminal" => Backed(t, t.logical, answers, records)

Planned(m, records, answers) ==
  /\ m = [part \in PlannerParts |-> m[part]]
  /\ m.next \in Nat \ {0}
  /\ m.step # "idle" => Askable(m.task)
  /\ m.step = "put" => m.accepts
  /\ m.accepts => Holds(m.step, m.task, m.payload.items, m.next, records, answers)

TasksHold(ts, records, answers) ==
  \A t \in ts :
    /\ Askable(t)
    /\ t.status = "accepted" => Backed(t.supersedes, t.logical, answers, records)

PlannerInv ==
  /\ planning # None => /\ planning.planners \subseteq Planners
                        /\ \A topic \in planning.topics : Proposes(topic.type)
  /\ Hierarchy(plans)
  /\ planner = [i \in Planners |-> planner[i]]
  /\ \A i \in Planners : Planned(planner[i], plans, planResponses)
  /\ TasksHold(planTasks, plans, planResponses)

LEMMA PlansStay ==
  ASSUME NEW records, NEW more, records \subseteq more, NEW answers, NEW further,
         answers \subseteq further
  PROVE  /\ \A t, topic : Backed(t, topic, answers, records) => Backed(t, topic, further, more)
         /\ \A m : Planned(m, records, answers) => Planned(m, more, further)
         /\ \A ts : TasksHold(ts, records, answers) => TasksHold(ts, more, further)
<1>1. \A topic, items : Owed(records, topic, items) => Owed(more, topic, items)
  BY DEF Owed
<1>2. \A t, topic : Backed(t, topic, answers, records) => Backed(t, topic, further, more)
  BY <1>1 DEF Backed
<1>3. \A step, t, items, next :
        Holds(step, t, items, next, records, answers) => Holds(step, t, items, next, more, further)
  BY <1>1, <1>2 DEF Holds
<1>4. \A m : Planned(m, records, answers) => Planned(m, more, further)
  BY <1>3 DEF Planned
<1>5. \A ts : TasksHold(ts, records, answers) => TasksHold(ts, more, further)
  BY <1>2 DEF TasksHold
<1> QED BY <1>2, <1>4, <1>5

(* What the policy and the contract of a record ask of it.                 *)
Sober(r) ==
  /\ r.kind = "outline" => r.chapters # 0
  /\ r.kind \in {"chapter_brief", "narrative_beat"} => r.ms # 0
  /\ r.kind = "sequence_plan" => r.ms \in Nat

LEMMA PolicyChecks ==
  ASSUME NEW r
  PROVE  /\ Chain(PolicyRows(r), 5)
         /\ (\A i \in 1 .. 5 : ~PolicyRows(r)[i][1]) => Sober(r)
<1> DEFINE b1 == r.odd
           b2 == r.kind = "planner_asset_brief" /\ r.shows /\ r.evidence = {}
           b3 == r.kind = "sequence_plan" /\
                   (\/ r.ms \notin Policy.least .. Policy.most
                    \/ r.claims = {} \/ Cardinality(r.claims) > Policy.claims
                    \/ Cardinality(r.briefs) > Policy.briefs)
           c1 == r.kind = "outline" /\ r.chapters = 0
           c2 == r.kind \in {"chapter_brief", "narrative_beat"} /\ (r.claims = {} \/ r.ms = 0)
           b == << <<b1, "PLANNER_STORE_POLICY_INVALID">>, <<b2, "PLANNER_STORE_POLICY_INVALID">>,
                   <<b3, "PLANNER_STORE_POLICY_INVALID">> >>
           c == << <<c1, "PLANNER_STORE_SEMANTIC_INVALID">>,
                   <<c2, "PLANNER_STORE_SEMANTIC_INVALID">> >>
<1>1. PolicyRows(r) = Then(b, c)
  BY DEF PolicyRows, SemanticRows, Then
<1>2. ~b3 /\ ~c1 /\ ~c2 => Sober(r)
  <2>1. \A n : n \in Policy.least .. Policy.most => n \in Nat
    BY PlanningAssumption
  <2> QED BY <2>1 DEF Sober
<1> HIDE DEF b1, b2, b3, c1, c2
<1>3. Chain(b, 3) /\ (~b[3][1] => ~b3)
  BY DEF Chain, Fine
<1>4. Chain(c, 2) /\ (~c[1][1] => ~c1) /\ (~c[2][1] => ~c2)
  BY DEF Chain, Fine
<1> HIDE DEF b, c
<1>5. /\ Chain(Then(b, c), 5) /\ \A i \in 1 .. 3 : Then(b, c)[i] = b[i]
      /\ \A i \in 1 .. 2 : Then(b, c)[3 + i] = c[i]
  <2>1. 3 + 2 = 5 /\ 3 \in Nat /\ 2 \in Nat
    OBVIOUS
  <2> QED BY <1>3, <1>4, <2>1, ChainThen
<1>6. ASSUME \A i \in 1 .. 5 : ~Then(b, c)[i][1] PROVE ~b3 /\ ~c1 /\ ~c2
  <2>1. Then(b, c)[3] = b[3] /\ Then(b, c)[3 + 1] = c[1] /\ Then(b, c)[3 + 2] = c[2]
    BY <1>5
  <2>2. ~Then(b, c)[3][1] /\ ~Then(b, c)[3 + 1][1] /\ ~Then(b, c)[3 + 2][1]
    BY <1>6
  <2> QED BY <1>3, <1>4, <2>1, <2>2
<1> QED BY <1>1, <1>2, <1>5, <1>6

(* What a record is asked when it is put.                                  *)
LEMMA PlanChecks ==
  ASSUME NEW r
  PROVE  /\ Chain(PlanRows(r), 10)
         /\ (\A i \in 1 .. 10 : ~PlanRows(r)[i][1]) => Sober(r)
         /\ ~PlanRows(r)[8][1] =>
              r.parent = None \/ (r.parent \in plans /\ r.parent.project = r.project)
         /\ ~PlanRows(r)[9][1] =>
              r.prior = None \/ (r.prior \in plans /\ r.prior.kind = r.kind)
<1> DEFINE a1 == (r.kind = "outline") # (r.parent = None)
           d1 == r.status # "accepted"
           d2 == r.parent # None /\ (\/ r.parent \notin plans \/ r.parent.project # r.project
                                     \/ r.parent.kind # ParentKind[r.kind])
           d3 == r.prior # None /\ (\/ r.prior \notin plans \/ r.prior.kind # r.kind
                                    \/ r.prior.project # r.project)
           e1 == r.version # r.prior.version + 1
           e2 == r.version # 1
           a == << <<a1, "PLANNER_STORE_INVALID">> >>
           b == PolicyRows(r)
           d == << <<d1, "PLANNER_STORE_STATUS_INVALID">>, <<d2, "PLANNER_STORE_PARENT_INVALID">>,
                   <<d3, "PLANNER_STORE_SUCCESSOR_INVALID">> >>
           e == IF r.prior # None
                THEN << <<e1, "PLANNER_STORE_SUCCESSOR_INVALID">> >>
                ELSE << <<e2, "PLANNER_STORE_INITIAL_VERSION_INVALID">> >>
<1>1. PlanRows(r) = Then(Then(Then(a, b), d), e)
  BY DEF PlanRows, Then
<1> HIDE DEF a1, d1, d2, d3, e1, e2
<1>2. Chain(a, 1)
  BY DEF Chain, Fine
<1>3. Chain(d, 3) /\ (~d[2][1] => ~d2) /\ (~d[3][1] => ~d3)
  BY DEF Chain, Fine
<1>4. Chain(e, 1)
  BY DEF Chain, Fine
<1> HIDE DEF a, b, d, e
<1> DEFINE ab == Then(a, b)
           abd == Then(ab, d)
<1>5. 1 + 5 = 6 /\ 6 + 3 = 9 /\ 9 + 1 = 10
  OBVIOUS
<1>6. Chain(b, 5) /\ ((\A i \in 1 .. 5 : ~b[i][1]) => Sober(r))
  BY PolicyChecks DEF b
<1>7. Chain(ab, 6) /\ \A i \in 1 .. 5 : ab[1 + i] = b[i]
  BY <1>2, <1>5, <1>6, ChainThen
<1> HIDE DEF ab
<1>8. /\ Chain(abd, 9) /\ \A i \in 1 .. 6 : abd[i] = ab[i]
      /\ \A i \in 1 .. 3 : abd[6 + i] = d[i]
  BY <1>3, <1>5, <1>7, ChainThen
<1> HIDE DEF abd
<1>9. Chain(Then(abd, e), 10) /\ \A i \in 1 .. 9 : Then(abd, e)[i] = abd[i]
  BY <1>4, <1>5, <1>8, ChainThen
<1>10. PlanRows(r) = Then(abd, e)
  BY <1>1 DEF abd, ab
<1>11. PlanRows(r)[8] = d[2] /\ PlanRows(r)[9] = d[3]
  <2>1. abd[6 + 2] = d[2] /\ abd[6 + 3] = d[3]
    BY <1>8
  <2> QED BY <1>9, <1>10, <2>1
<1>12. \A i \in 1 .. 5 : 1 + i \in 1 .. 10 /\ PlanRows(r)[1 + i] = b[i]
  <2>1. \A i \in 1 .. 5 : 1 + i \in 1 .. 6 /\ 1 + i \in 1 .. 9 /\ 1 + i \in 1 .. 10
    OBVIOUS
  <2> QED BY <1>7, <1>8, <1>9, <1>10, <2>1
<1>13. (\A i \in 1 .. 10 : ~PlanRows(r)[i][1]) => Sober(r)
  BY <1>6, <1>12
<1> QED BY <1>3, <1>9, <1>10, <1>11, <1>13 DEF d2, d3

LEMMA RecordHangs ==
  ASSUME Hierarchy(plans), NEW r, ~PlanRows(r)[8][1], ~PlanRows(r)[9][1]
  PROVE  Hierarchy(plans \cup {r})
BY PlanChecks DEF Hierarchy

LEMMA PlanAccepted ==
  ASSUME Hierarchy(plans), NEW r, FirstFault(PlanRows(r)) = Fine
  PROVE  Hierarchy(plans \cup {r}) /\ Sober(r)
<1>1. \A i \in 1 .. 10 : ~PlanRows(r)[i][1]
  BY PlanChecks, Accepted
<1>2. ~PlanRows(r)[8][1] /\ ~PlanRows(r)[9][1]
  BY <1>1
<1> QED BY <1>1, <1>2, PlanChecks, RecordHangs

LEMMA ProposalAccepted ==
  ASSUME Hierarchy(plans), NEW t, NEW r, FirstFault(ClosureRows(t, r) \o PlanRows(r)) = Fine
  PROVE  Hierarchy(plans \cup {r}) /\ Closed(r, t.logical) /\ Sober(r)
<1> DEFINE topic == t.logical
           a1 == r.project # topic.project
           a2 == r.parent # topic.parent
           a3 == ~(r.claims \cup r.evidence \subseteq Held(topic.context, "claim_evidence"))
           a4 == ~(r.caps \subseteq Held(topic.context, "template_capability"))
           a5 == ~(r.handoff \subseteq Held(topic.context, "continuity"))
           a0 == ~(topic.context \subseteq SnapshotsOf(topic.project))
           a == << <<a0, "PLANNER_SNAPSHOT_REFERENCE_INVALID">>,
                   <<a1, "PLANNER_RESPONSE_IMPORT_INVALID">>, <<a2, "PLANNER_RESPONSE_PARENT_INVALID">>,
                   <<a3, "PLANNER_RESPONSE_CLOSURE_INVALID">>, <<a4, "PLANNER_RESPONSE_CLOSURE_INVALID">>,
                   <<a5, "PLANNER_RESPONSE_CLOSURE_INVALID">> >>
           b == PlanRows(r)
<1>1. ClosureRows(t, r) \o PlanRows(r) = Then(a, b)
  <2>1. ClosureRows(t, r) = a
    BY DEF ClosureRows
  <2> QED BY <2>1 DEF Then
<1> HIDE DEF a0, a1, a2, a3, a4, a5
<1>2. Chain(a, 6) /\ (~a[4][1] => ~a3)
  BY DEF Chain, Fine
<1>3. Chain(b, 10)
  BY PlanChecks
<1> HIDE DEF a, b
<1>4. /\ Chain(Then(a, b), 16)
      /\ \A i \in 1 .. 6 : Then(a, b)[i] = a[i]
      /\ \A i \in 1 .. 10 : Then(a, b)[6 + i] = b[i]
  <2>1. 6 \in Nat /\ 10 \in Nat
    OBVIOUS
  <2>2. Chain(Then(a, b), 6 + 10)
    BY <1>2, <1>3, <2>1, ChainThen
  <2>3. \A i \in 1 .. 6 : Then(a, b)[i] = a[i]
    BY <1>2, <1>3, <2>1, ChainThen
  <2>4. \A i \in 1 .. 10 : Then(a, b)[6 + i] = b[i]
    BY <1>2, <1>3, <2>1, ChainThen
  <2> QED BY <2>2, <2>3, <2>4
<1>5. \A i \in 1 .. 16 : ~Then(a, b)[i][1]
  BY <1>1, <1>4, Accepted
<1>6. ~a[4][1] /\ ~b[8][1] /\ ~b[9][1]
  <2>1. Then(a, b)[6 + 8] = b[8] /\ Then(a, b)[6 + 9] = b[9] /\ Then(a, b)[4] = a[4]
    BY <1>4
  <2> QED BY <1>5, <2>1
<1>7. Closed(r, t.logical)
  BY <1>2, <1>6 DEF a3, Closed
<1>8. \A i \in 1 .. 10 : ~b[i][1]
  <2> SUFFICES ASSUME NEW i \in 1 .. 10 PROVE ~b[i][1]
    OBVIOUS
  <2>1. 6 + i \in 1 .. 16 /\ Then(a, b)[6 + i] = b[i]
    BY <1>4
  <2> QED BY <1>5, <2>1
<1>9. Sober(r)
  BY <1>8, PlanChecks DEF b
<1> QED BY <1>6, <1>7, <1>9, RecordHangs DEF b

-----------------------------------------------------------------------------
(* The steps of a planner.                                                 *)

(* A planner steps, and records, tasks and responses are added that keep   *)
(* the promises.                                                           *)
LEMMA PlannerMoves ==
  ASSUME PlannerInv, NEW i \in Planners, NEW m, planner' = [planner EXCEPT ![i] = m],
         UNCHANGED planning, Hierarchy(plans'), plans \subseteq plans',
         planResponses \subseteq planResponses', Planned(m, plans', planResponses'),
         TasksHold(planTasks', plans', planResponses')
  PROVE  PlannerInv'
<1>1. planner' = [j \in Planners |-> planner'[j]]
  BY DEF PlannerInv
<1>2. ASSUME NEW j \in Planners PROVE Planned(planner'[j], plans', planResponses')
  <2>1. CASE j = i
    BY <2>1 DEF PlannerInv
  <2>2. CASE j # i
    <3>1. planner'[j] = planner[j]
      BY <2>2 DEF PlannerInv
    <3> QED BY <3>1, PlansStay DEF PlannerInv
  <2> QED BY <2>1, <2>2
<1> QED BY <1>1, <1>2 DEF PlannerInv

LEMMA PlannerIdles == \A records, answers : Planned(Unoccupied, records, answers)
BY DEF Planned, Unoccupied, PlannerParts

LEMMA PlannerLeaves ==
  ASSUME PlannerInv, NEW i \in Planners, Leaves(i), UNCHANGED <<planning, plans, planResponses>>,
         TasksHold(planTasks', plans, planResponses)
  PROVE  PlannerInv'
<1>1. Hierarchy(plans) /\ plans' = plans /\ planResponses' = planResponses
  BY DEF PlannerInv
<1> QED BY <1>1, PlannerIdles, PlannerMoves DEF Leaves

LEMMA SubmitStep ==
  ASSUME PlannerInv, NEW i \in Planners, Submit(i)
  PROVE  PlannerInv'
<1> DEFINE step(accepts) == IF accepts THEN "put" ELSE "record"
<1>1. PICK t \in planTasks : \E payload \in PlanPayloads(t) : \E accepts \in BOOLEAN :
        /\ accepts => FirstFault(ResponseRows(t, payload)) = Fine
        /\ planner' = [planner EXCEPT ![i] =
              [Unoccupied EXCEPT !.task = t, !.payload = payload, !.accepts = accepts,
                  !.step = step(accepts)]]
  BY DEF Submit
<1>2. PICK payload \in PlanPayloads(t) : \E accepts \in BOOLEAN :
        /\ accepts => FirstFault(ResponseRows(t, payload)) = Fine
        /\ planner' = [planner EXCEPT ![i] =
              [Unoccupied EXCEPT !.task = t, !.payload = payload, !.accepts = accepts,
                  !.step = step(accepts)]]
  BY <1>1
<1>3. PICK accepts \in BOOLEAN :
        /\ accepts => FirstFault(ResponseRows(t, payload)) = Fine
        /\ planner' = [planner EXCEPT ![i] =
              [Unoccupied EXCEPT !.task = t, !.payload = payload, !.accepts = accepts,
                  !.step = step(accepts)]]
  BY <1>2
<1> DEFINE at == step(accepts)
           m == [Unoccupied EXCEPT !.task = t, !.payload = payload, !.accepts = accepts, !.step = at]
<1>4. planner' = [planner EXCEPT ![i] = m]
  BY <1>3
<1>5. at \in {"put", "record"} /\ (accepts <=> at = "put")
  OBVIOUS
<1> HIDE DEF step, at
<1>6. /\ m = [part \in PlannerParts |-> m[part]] /\ m.step = at /\ m.task = t /\ m.payload = payload
      /\ m.next = 1 /\ m.accepts = accepts
  BY DEF Unoccupied, PlannerParts
<1> HIDE DEF m
<1>7. Askable(t)
  BY DEF PlannerInv, TasksHold
<1>8. IsSequence(payload.items) /\ \A n \in DOMAIN payload.items : NamesClaims(payload.items[n])
  <2>1. CASE payload = Garbage
    BY <2>1 DEF Garbage, IsSequence
  <2>2. CASE payload # Garbage
    <3>1. PICK items \in Proposals[t.type] : payload = [task |-> t, items |-> items] /\ t.type # "repair"
      BY <1>2, <2>2 DEF PlanPayloads
    <3>2. items \in Seq(Range(items)) /\ \A n \in DOMAIN items : NamesClaims(items[n])
      BY <1>7, <3>1 DEF Askable, Proposes
    <3> QED BY <3>1, <3>2, LenProperties DEF IsSequence
  <2> QED BY <2>1, <2>2
<1>9. accepts => Holds(at, t, payload.items, 1, plans, planResponses)
  BY <1>5, <1>8 DEF Holds, IsSequence
<1>10. Planned(m, plans, planResponses)
  BY <1>5, <1>6, <1>7, <1>9 DEF Planned
<1>11. UNCHANGED <<planning, plans, planTasks, planResponses>> /\ Hierarchy(plans)
       /\ TasksHold(planTasks, plans, planResponses)
  BY DEF Submit, PlannerInv
<1> QED BY <1>4, <1>10, <1>11, PlannerMoves

LEMMA ProposedStep ==
  ASSUME PlannerInv, NEW i \in Planners, PutProposed(i)
  PROVE  PlannerInv'
<1> DEFINE m == planner[i]
           r == Proposed(i)
           k == [m EXCEPT !.next = @ + 1]
           fault == FirstFault(ClosureRows(m.task, r) \o PlanRows(r))
<1>1. /\ m.step = "put" /\ Planned(m, plans, planResponses)
      /\ UNCHANGED <<planning, planTasks, planResponses>>
      /\ Hierarchy(plans) /\ TasksHold(planTasks, plans, planResponses)
  BY DEF PutProposed, Stands, PlannerInv
<1>2. CASE fault # Fine
  <2>1. Leaves(i) /\ UNCHANGED plans
    BY <1>2 DEF PutProposed
  <2> QED BY <1>1, <2>1, PlannerLeaves
<1>3. CASE fault = Fine
  <2>1. plans' = plans \cup {r} /\ planner' = [planner EXCEPT ![i] = k]
    BY <1>3 DEF PutProposed
  <2>2. Hierarchy(plans') /\ Closed(r, m.task.logical) /\ plans \subseteq plans' /\ r \in plans'
    BY <1>1, <1>3, <2>1, ProposalAccepted
  <2>3. /\ k = [part \in PlannerParts |-> k[part]] /\ k.step = "put" /\ k.task = m.task
        /\ k.payload = m.payload /\ k.next = m.next + 1 /\ k.accepts = m.accepts
    BY <1>1 DEF Planned, PlannerParts
  <2>4. r = m.payload.items[m.next]
    BY DEF Proposed
  <2> HIDE DEF k, r
  <2>5. Holds("put", m.task, m.payload.items, m.next, plans, planResponses) /\ m.next \in Nat
    BY <1>1 DEF Planned
  <2>6. ASSUME NEW n \in DOMAIN m.payload.items, n < m.next + 1
        PROVE  m.payload.items[n] \in plans' /\ Closed(m.payload.items[n], m.task.logical)
    <3>1. n < m.next \/ n = m.next
      BY <2>5, <2>6 DEF Holds, IsSequence
    <3> QED BY <2>2, <2>4, <2>5, <3>1 DEF Holds
  <2>7. Holds("put", m.task, m.payload.items, m.next + 1, plans', planResponses)
    BY <2>5, <2>6 DEF Holds
  <2>8. Planned(k, plans', planResponses)
    BY <1>1, <2>3, <2>5, <2>7 DEF Planned
  <2>9. TasksHold(planTasks, plans', planResponses)
    BY <1>1, <2>2, PlansStay
  <2> QED BY <1>1, <2>1, <2>2, <2>8, <2>9, PlannerMoves
<1> QED BY <1>2, <1>3

LEMMA AllProposedStep ==
  ASSUME PlannerInv, NEW i \in Planners, AllProposed(i)
  PROVE  PlannerInv'
<1> DEFINE m == planner[i]
           k == [m EXCEPT !.step = "record"]
<1>1. /\ m.step = "put" /\ Planned(m, plans, planResponses) /\ m.next > Len(m.payload.items)
      /\ UNCHANGED <<planning, plans, planTasks, planResponses>>
      /\ Hierarchy(plans) /\ TasksHold(planTasks, plans, planResponses)
  BY DEF AllProposed, Stands, PlannerInv
<1>2. Leaves(i) \/ Turns(i, "record")
  BY DEF AllProposed
<1>3. CASE Leaves(i)
  BY <1>1, <1>3, PlannerLeaves
<1>4. CASE Turns(i, "record")
  <2>1. planner' = [planner EXCEPT ![i] = k]
    BY <1>4 DEF Turns
  <2>2. /\ k = [part \in PlannerParts |-> k[part]] /\ k.step = "record" /\ k.task = m.task
        /\ k.payload = m.payload /\ k.next = m.next /\ k.accepts = m.accepts
    BY <1>1 DEF Planned, PlannerParts
  <2> HIDE DEF k
  <2>3. m.accepts /\ Holds("put", m.task, m.payload.items, m.next, plans, planResponses) /\ m.next \in Nat
    BY <1>1 DEF Planned
  <2>4. \A n \in DOMAIN m.payload.items : n < m.next
    BY <1>1, <2>3 DEF Holds, IsSequence
  <2>5. Owed(plans, m.task.logical, m.payload.items)
    BY <2>3, <2>4 DEF Holds, Owed, Range
  <2>6. Holds("record", m.task, m.payload.items, m.next, plans, planResponses)
    BY <2>3, <2>5 DEF Holds
  <2>7. Planned(k, plans, planResponses)
    BY <1>1, <2>2, <2>6 DEF Planned
  <2> QED BY <1>1, <2>1, <2>7, PlannerMoves
<1> QED BY <1>2, <1>3, <1>4

LEMMA RecordResponseStep ==
  ASSUME PlannerInv, NEW i \in Planners, RecordResponse(i)
  PROVE  PlannerInv'
<1> DEFINE m == planner[i]
           k == [m EXCEPT !.step = "terminal"]
<1>1. /\ m.step = "record" /\ Planned(m, plans, planResponses)
      /\ UNCHANGED <<planning, plans, planTasks>>
      /\ Hierarchy(plans) /\ TasksHold(planTasks, plans, planResponses)
      /\ planner' = [planner EXCEPT ![i] = k]
  BY DEF RecordResponse, Stands, Turns, PlannerInv
<1>2. /\ planResponses \subseteq planResponses'
      /\ \E r \in planResponses' : r.task = m.task /\ r.payload = m.payload
  <2>1. CASE \E r \in planResponses : r.task = m.task /\ r.payload = m.payload
    BY <2>1 DEF RecordResponse
  <2>2. CASE ~\E r \in planResponses : r.task = m.task /\ r.payload = m.payload
    <3> DEFINE new == [task |-> m.task, payload |-> m.payload, accepted |-> m.accepts]
    <3>1. planResponses' = planResponses \cup {new}
      BY <2>2 DEF RecordResponse
    <3>2. new.task = m.task /\ new.payload = m.payload
      OBVIOUS
    <3> HIDE DEF new
    <3> QED BY <3>1, <3>2
  <2> QED BY <2>1, <2>2
<1>3. /\ k = [part \in PlannerParts |-> k[part]] /\ k.step = "terminal" /\ k.task = m.task
      /\ k.payload = m.payload /\ k.next = m.next /\ k.accepts = m.accepts
  BY <1>1 DEF Planned, PlannerParts
<1> HIDE DEF k
<1>4. m.accepts => Owed(plans, m.task.logical, m.payload.items)
  BY <1>1 DEF Planned, Holds
<1>5. m.accepts => Backed(m.task, m.task.logical, planResponses', plans)
  BY <1>2, <1>4 DEF Backed
<1>6. m.accepts => Holds("terminal", m.task, m.payload.items, m.next, plans, planResponses')
  BY <1>5 DEF Holds
<1>7. Planned(k, plans, planResponses')
  BY <1>1, <1>3, <1>6 DEF Planned
<1>8. TasksHold(planTasks, plans, planResponses')
  BY <1>1, <1>2, PlansStay
<1> QED BY <1>1, <1>2, <1>7, <1>8, PlannerMoves

(* One revision more.                                                      *)
LEMMA TaskAdded ==
  ASSUME PlannerInv, NEW t, PutPlanTask(t), Askable(t),
         t.status = "accepted" => Backed(t.supersedes, t.logical, planResponses, plans)
  PROVE  TasksHold(planTasks', plans, planResponses)
BY DEF PutPlanTask, PlannerInv, TasksHold

TaskParts == {"logical", "type", "status", "attempt", "supersedes"}

LEMMA TaskShape == \A t : PlanTask(t) <=> t = [part \in TaskParts |-> t[part]]
BY DEF PlanTask, TaskParts

LEMMA RevisionOfTask ==
  ASSUME NEW t, PlanTask(t), NEW status
  PROVE  LET r == Revision(t, status) IN
         /\ PlanTask(r) /\ r.status = status /\ r.type = t.type /\ r.logical = t.logical
         /\ r.supersedes = t /\ r.attempt = t.attempt
<1> DEFINE r == Revision(t, status)
<1>1. t = [part \in TaskParts |-> t[part]]
  BY TaskShape
<1>2. /\ r = [part \in TaskParts |-> r[part]] /\ r.status = status /\ r.type = t.type
      /\ r.logical = t.logical /\ r.supersedes = t /\ r.attempt = t.attempt
  BY <1>1 DEF Revision, TaskParts
<1> HIDE DEF r
<1> QED BY <1>2, TaskShape DEF r

LEMMA TerminalStep ==
  ASSUME PlannerInv, NEW i \in Planners, PutTerminal(i)
  PROVE  PlannerInv'
<1> DEFINE m == planner[i]
           status == IF m.accepts THEN "accepted" ELSE "rejected"
           r == Revision(m.task, status)
<1>1. /\ m.step = "terminal" /\ Planned(m, plans, planResponses)
      /\ UNCHANGED <<planning, plans, planResponses>> /\ Leaves(i) /\ PutPlanTask(r)
  BY DEF PutTerminal, Stands, PlannerInv
<1>2. Askable(m.task)
  BY <1>1 DEF Planned
<1>3. /\ PlanTask(r) /\ r.status = status /\ r.type = m.task.type /\ r.logical = m.task.logical
      /\ r.supersedes = m.task
  BY <1>2, RevisionOfTask DEF Askable
<1>4. m.accepts => Backed(m.task, m.task.logical, planResponses, plans)
  BY <1>1 DEF Planned, Holds
<1>5. status = "accepted" => m.accepts
  OBVIOUS
<1> HIDE DEF r, status
<1>6. TasksHold(planTasks', plans, planResponses)
  BY <1>1, <1>2, <1>3, <1>4, <1>5, TaskAdded DEF Askable
<1> QED BY <1>1, <1>6, PlannerLeaves

(* Tasks that no planner puts.                                             *)
LEMMA TasksOnly ==
  ASSUME PlannerInv, NEW t, PutPlanTask(t), Askable(t), t.status # "accepted",
         UNCHANGED <<planning, plans, planResponses, planner>>
  PROVE  PlannerInv'
<1>1. TasksHold(planTasks', plans, planResponses)
  BY TaskAdded
<1> QED BY <1>1 DEF PlannerInv

LEMMA CreatePlanStep ==
  ASSUME PlannerInv, planning # None, NEW topic \in planning.topics, CreatePlanTask(topic)
  PROVE  PlannerInv'
<1> DEFINE t == PlanTaskOf(topic)
<1>1. Askable(t) /\ t.status = "created"
  BY DEF PlannerInv, PlanTaskOf, Askable, PlanTask
<1> HIDE DEF t
<1> QED BY <1>1, TasksOnly DEF CreatePlanTask, t

LEMMA RevisePlanStep ==
  ASSUME PlannerInv, NEW t \in planTasks, NEW a \in Advances, RevisePlanTask(t, a[2])
  PROVE  PlannerInv'
<1> DEFINE r == Revision(t, a[2])
<1>1. Askable(t) /\ a[2] # "accepted"
  BY PlanningAssumption DEF PlannerInv, TasksHold
<1>2. Askable(r) /\ r.status # "accepted"
  BY <1>1, RevisionOfTask DEF Askable
<1> HIDE DEF r
<1> QED BY <1>2, TasksOnly DEF RevisePlanTask, r

LEMMA RepairPlanStep ==
  ASSUME PlannerInv, NEW t \in planTasks, RepairPlanTask(t)
  PROVE  PlannerInv'
<1> DEFINE q == Revision(t, "created")
           r == [q EXCEPT !.type = "repair", !.attempt = @ + 1]
<1>1. PlanTask(q) /\ q.status = "created"
  BY RevisionOfTask DEF PlannerInv, TasksHold, Askable
<1> HIDE DEF q
<1>2. r = [part \in TaskParts |-> r[part]] /\ r.status = "created" /\ r.type = "repair"
  BY <1>1, TaskShape DEF TaskParts
<1> HIDE DEF r
<1>3. Askable(r) /\ r.status # "accepted"
  BY <1>2, TaskShape DEF Askable
<1> QED BY <1>3, TasksOnly DEF RepairPlanTask, r, q

LEMMA PlanningStep ==
  ASSUME PlannerInv, planning # None, PlanningNext
  PROVE  PlannerInv'
<1>1. ASSUME NEW i \in planning.planners, PlannerStep(i) PROVE PlannerInv'
  <2>1. i \in Planners
    BY DEF PlannerInv
  <2>2. CASE PlannerStops(i)
    <3>1. Leaves(i) /\ UNCHANGED <<planning, plans, planTasks, planResponses>>
      BY <2>2 DEF PlannerStops
    <3> QED BY <2>1, <3>1, PlannerLeaves DEF PlannerInv
  <2> QED BY <1>1, <2>1, <2>2, SubmitStep, ProposedStep, AllProposedStep, RecordResponseStep,
             TerminalStep DEF PlannerStep
<1>2. ASSUME NEW r, PutBrief(r) PROVE PlannerInv'
  <2>1. /\ Hierarchy(plans') /\ plans \subseteq plans'
        /\ UNCHANGED <<planning, planTasks, planResponses, planner>>
    BY <1>2, PlanAccepted DEF PutBrief, PlannerInv
  <2>2. \A i \in Planners : Planned(planner[i], plans', planResponses)
    BY <2>1, PlansStay DEF PlannerInv
  <2>3. TasksHold(planTasks, plans', planResponses)
    BY <2>1, PlansStay DEF PlannerInv
  <2> QED BY <2>1, <2>2, <2>3 DEF PlannerInv
<1>3. ASSUME NEW project, Assemble(project) PROVE PlannerInv'
  BY <1>3 DEF Assemble, PlannerInv
<1>4. ASSUME NEW s, PutContinuity(s) PROVE PlannerInv'
  BY <1>4 DEF PutContinuity, PlannerInv
<1>5. ASSUME NEW project, NEW kind, TakeSnapshot(kind, project) PROVE PlannerInv'
  BY <1>5 DEF TakeSnapshot, PlannerInv
<1> QED BY <1>1, <1>2, <1>3, <1>4, <1>5, CreatePlanStep, RevisePlanStep, RepairPlanStep
        DEF PlanningNext

LEMMA PlansAreOwed == PlannerInv => HierarchyHolds /\ AcceptedPlansAreStored
<1> SUFFICES ASSUME PlannerInv PROVE HierarchyHolds /\ AcceptedPlansAreStored
  OBVIOUS
<1>1. HierarchyHolds
  BY DEF PlannerInv, HierarchyHolds
<1>2. AcceptedPlansAreStored
  <2> SUFFICES ASSUME NEW t \in planTasks, t.status = "accepted"
               PROVE  \E r \in planResponses :
                        /\ r.task = t.supersedes /\ Range(r.payload.items) \subseteq plans
                        /\ \A p \in Range(r.payload.items) :
                              p.claims \cup p.evidence \subseteq Held(t.logical.context, "claim_evidence")
    BY DEF AcceptedPlansAreStored
  <2>1. PICK r \in planResponses : r.task = t.supersedes /\ Owed(plans, t.logical, r.payload.items)
    BY DEF PlannerInv, TasksHold, Backed
  <2> QED BY <2>1 DEF Owed, Closed
<1> QED BY <1>1, <1>2

-----------------------------------------------------------------------------
(* The times of records add up, whatever the order they are taken in.      *)

LEMMA LeastNumber ==
  ASSUME NEW T \in SUBSET Nat, T # {}
  PROVE  \E i \in T : \A j \in T : i <= j
<1> DEFINE R == OpToRel(<, Nat)
<1>1. IsWellFoundedOn(R, Nat)
  BY NatLessThanWellFounded
<1>2. \A i, j \in Nat : j < i => <<j, i>> \in R
  BY DEF OpToRel
<1> HIDE DEF R
<1>3. PICK i \in T : \A j \in T : ~(<<j, i>> \in R)
  BY <1>1, WFMin
<1>4. \A j \in T : ~(j < i) /\ i \in Nat /\ j \in Nat
  BY <1>2, <1>3
<1> QED BY <1>4

(* Among the parts of a finite set that are wrong in some way one has no   *)
(* wrong part of its own.                                                  *)
LEMMA SmallestPart ==
  ASSUME NEW T, IsFiniteSet(T), NEW Bad \in SUBSET SUBSET T, Bad # {}
  PROVE  \E s \in Bad : \A t \in SUBSET s : t # s => t \notin Bad
<1> DEFINE N == {Cardinality(s) : s \in Bad}
<1>1. \A s \in SUBSET T : IsFiniteSet(s) /\ Cardinality(s) \in Nat
  BY FS_Subset, FS_CardinalityType
<1>2. PICK n \in N : \A j \in N : n <= j
  <2>1. N \in SUBSET Nat /\ N # {}
    BY <1>1
  <2> HIDE DEF N
  <2> QED BY <2>1, LeastNumber
<1>3. PICK s \in Bad : n = Cardinality(s)
  OBVIOUS
<1>4. ASSUME NEW t \in SUBSET s, t # s, t \in Bad PROVE FALSE
  <2>1. IsFiniteSet(s) /\ Cardinality(s) \in Nat /\ Cardinality(t) \in Nat
    BY <1>1, <1>4
  <2>2. Cardinality(t) < Cardinality(s)
    BY <1>4, <2>1, FS_Subset
  <2>3. n <= Cardinality(t)
    BY <1>2, <1>4
  <2> QED BY <1>3, <2>1, <2>2, <2>3
<1> QED BY <1>4

(* The member that a sum takes next.                                       *)
NextOf(s) == CHOOSE x \in s : TRUE

LEMMA NextIsMember == \A s : s # {} => NextOf(s) \in s
BY DEF NextOf

(* f adds the times of every part of T up, one record after the other.     *)
Adds(f, T) ==
  f = [s \in SUBSET T |-> IF s = {} THEN 0 ELSE NextOf(s).ms + f[s \ {NextOf(s)}]]

LEMMA TotalAdds == \A T : Total(T) = (CHOOSE f : Adds(f, T))[T]
<1> SUFFICES ASSUME NEW T PROVE Total(T) = (CHOOSE f : Adds(f, T))[T]
  OBVIOUS
<1> QED BY DEF Total, MapThenSumSet, MapThenFoldSet, Adds, NextOf

LEMMA SumsAgree ==
  ASSUME NEW T, IsFiniteSet(T), NEW U \in SUBSET T, NEW f, NEW g, Adds(f, T), Adds(g, U)
  PROVE  \A s \in SUBSET U : f[s] = g[s]
<1> DEFINE Bad == {s \in SUBSET U : f[s] # g[s]}
<1> SUFFICES ASSUME Bad # {} PROVE FALSE
  OBVIOUS
<1>1. PICK s \in Bad : \A t \in SUBSET s : t # s => t \notin Bad
  <2>1. Bad \in SUBSET SUBSET T
    OBVIOUS
  <2> HIDE DEF Bad
  <2> QED BY <2>1, SmallestPart
<1> DEFINE c == NextOf(s)
<1>2. /\ f[s] = IF s = {} THEN 0 ELSE c.ms + f[s \ {c}]
      /\ g[s] = IF s = {} THEN 0 ELSE c.ms + g[s \ {c}]
  BY DEF Adds
<1>3. CASE s = {}
  BY <1>2, <1>3
<1>4. CASE s # {}
  <2>1. c \in s
    BY <1>4, NextIsMember
  <2>2. s \ {c} \in SUBSET U /\ s \ {c} \notin Bad
    BY <1>1, <2>1
  <2> QED BY <1>2, <1>4, <2>2
<1> QED BY <1>3, <1>4

LEMMA SumsExist ==
  ASSUME NEW T, IsFiniteSet(T)
  PROVE  \E f : Adds(f, T)
<1> DEFINE Bad == {s \in SUBSET T : ~\E f : Adds(f, s)}
<1> SUFFICES ASSUME Bad # {} PROVE FALSE
  OBVIOUS
<1>1. PICK s \in Bad : \A t \in SUBSET s : t # s => t \notin Bad
  <2>1. Bad \in SUBSET SUBSET T
    OBVIOUS
  <2> HIDE DEF Bad
  <2> QED BY <2>1, SmallestPart
<1> DEFINE f(t) == CHOOSE f : Adds(f, t)
           rest(t) == t \ {NextOf(t)}
           v(t) == IF t = {} THEN 0 ELSE NextOf(t).ms + f(rest(t))[rest(t)]
           F == [t \in SUBSET s |-> v(t)]
<1>2. \A t \in SUBSET s : t # s => Adds(f(t), t)
  <2>1. \A t \in SUBSET s : t # s => \E g : Adds(g, t)
    BY <1>1
  <2> QED BY <2>1
<1>3. \A t \in SUBSET s : t # {} => rest(t) \in SUBSET t /\ rest(t) # s
  BY NextIsMember
<1>4. ASSUME NEW t \in SUBSET s, t # s PROVE f(t)[t] = v(t)
  <2>1. Adds(f(t), t) /\ t \in SUBSET t
    BY <1>2, <1>4
  <2>2. f(t)[t] = IF t = {} THEN 0 ELSE NextOf(t).ms + f(t)[rest(t)]
    <3> HIDE DEF f
    <3> QED BY <2>1 DEF Adds
  <2>3. CASE t # {}
    <3>1. Adds(f(rest(t)), rest(t)) /\ rest(t) \in SUBSET t
      BY <1>2, <1>3, <2>3
    <3>2. IsFiniteSet(t) /\ rest(t) \in SUBSET rest(t)
      BY FS_Subset
    <3>3. f(t)[rest(t)] = f(rest(t))[rest(t)]
      <4> HIDE DEF f, rest
      <4> QED BY <2>1, <3>1, <3>2, SumsAgree
    <3> HIDE DEF f, rest
    <3> QED BY <2>2, <2>3, <3>3
  <2> HIDE DEF f, rest
  <2> QED BY <2>2, <2>3
<1>5. \A t \in SUBSET s : F[t] = v(t)
  <2> HIDE DEF v
  <2> QED OBVIOUS
<1>6. \A t \in SUBSET s : F[t] = IF t = {} THEN 0 ELSE NextOf(t).ms + F[rest(t)]
  <2> SUFFICES ASSUME NEW t \in SUBSET s
               PROVE  F[t] = IF t = {} THEN 0 ELSE NextOf(t).ms + F[rest(t)]
    OBVIOUS
  <2>1. F[t] = IF t = {} THEN 0 ELSE NextOf(t).ms + f(rest(t))[rest(t)]
    <3>1. F[t] = v(t)
      BY <1>5
    <3> HIDE DEF F, f, rest
    <3> QED BY <3>1
  <2>2. t # {} => F[rest(t)] = f(rest(t))[rest(t)]
    <3>1. t # {} => rest(t) \in SUBSET s /\ rest(t) # s
      BY <1>3
    <3> HIDE DEF F, f, rest, v
    <3> QED BY <1>4, <1>5, <3>1
  <2> HIDE DEF F, f, rest
  <2> QED BY <2>1, <2>2
<1>7. Adds(F, s)
  <2>1. F = [t \in SUBSET s |-> F[t]]
    OBVIOUS
  <2> HIDE DEF F
  <2> QED BY <1>6, <2>1 DEF Adds
<1> QED BY <1>1, <1>7

LEMMA TotalUnfolds ==
  ASSUME NEW T, IsFiniteSet(T)
  PROVE  Total(T) = IF T = {} THEN 0 ELSE NextOf(T).ms + Total(T \ {NextOf(T)})
<1> DEFINE f(t) == CHOOSE f : Adds(f, t)
           u == T \ {NextOf(T)}
<1>1. IsFiniteSet(u) /\ u \in SUBSET T /\ u \in SUBSET u
  BY FS_Subset
<1>2. Adds(f(T), T) /\ Adds(f(u), u)
  BY <1>1, SumsExist
<1>3. f(T)[u] = f(u)[u]
  <2> HIDE DEF f, u
  <2> QED BY <1>1, <1>2, SumsAgree
<1>4. f(T)[T] = IF T = {} THEN 0 ELSE NextOf(T).ms + f(T)[u]
  <2> HIDE DEF f
  <2> QED BY <1>2 DEF Adds
<1>5. Total(T) = f(T)[T] /\ Total(u) = f(u)[u]
  BY TotalAdds
<1> QED BY <1>3, <1>4, <1>5

(* Finitely many records that take some time each.                         *)
Timed(T) == IsFiniteSet(T) /\ \A x \in T : x.ms \in Nat

LEMMA TimedParts == \A T : Timed(T) => \A s \in SUBSET T : Timed(s)
BY FS_Subset DEF Timed

LEMMA TotalIsNat == ASSUME NEW T, Timed(T) PROVE Total(T) \in Nat
<1> DEFINE Bad == {s \in SUBSET T : Total(s) \notin Nat}
<1> SUFFICES ASSUME Bad # {} PROVE FALSE
  OBVIOUS
<1>1. PICK s \in Bad : \A t \in SUBSET s : t # s => t \notin Bad
  <2>1. Bad \in SUBSET SUBSET T /\ IsFiniteSet(T)
    BY DEF Timed
  <2> HIDE DEF Bad
  <2> QED BY <2>1, SmallestPart
<1> DEFINE c == NextOf(s)
<1>2. Timed(s)
  BY TimedParts
<1>3. Total(s) = IF s = {} THEN 0 ELSE c.ms + Total(s \ {c})
  BY <1>2, TotalUnfolds DEF Timed
<1>4. CASE s # {}
  <2>1. c \in s /\ c.ms \in Nat
    BY <1>2, <1>4, NextIsMember DEF Timed
  <2>2. Total(s \ {c}) \in Nat
    BY <1>1, <2>1
  <2> HIDE DEF c
  <2> QED BY <1>3, <1>4, <2>1, <2>2
<1> QED BY <1>3, <1>4

(* Any record may be added last.                                           *)
LEMMA TotalTakes ==
  ASSUME NEW T, Timed(T)
  PROVE  \A x \in T : Total(T) = x.ms + Total(T \ {x})
<1> DEFINE Right(s) == \A x \in s : Total(s) = x.ms + Total(s \ {x})
           Bad == {s \in SUBSET T : ~Right(s)}
<1> SUFFICES ASSUME Bad # {} PROVE FALSE
  OBVIOUS
<1>1. PICK s \in Bad : \A t \in SUBSET s : t # s => t \notin Bad
  <2>1. Bad \in SUBSET SUBSET T /\ IsFiniteSet(T)
    BY DEF Timed
  <2> HIDE DEF Bad
  <2> QED BY <2>1, SmallestPart
<1>2. PICK x \in s : Total(s) # x.ms + Total(s \ {x})
  OBVIOUS
<1> DEFINE c == NextOf(s)
<1>3. c \in s /\ Timed(s)
  BY <1>2, NextIsMember, TimedParts
<1>4. Total(s) = c.ms + Total(s \ {c})
  BY <1>2, <1>3, TotalUnfolds DEF Timed
<1> HIDE DEF c
<1>5. c # x
  BY <1>2, <1>4
<1>6. Right(s \ {c}) /\ Right(s \ {x})
  BY <1>1, <1>3
<1>7. (s \ {c}) \ {x} = (s \ {x}) \ {c}
  OBVIOUS
<1> DEFINE rest == Total((s \ {c}) \ {x})
<1>8. Total(s \ {c}) = x.ms + rest /\ Total(s \ {x}) = c.ms + rest
  BY <1>3, <1>5, <1>6, <1>7
<1>9. rest \in Nat /\ x.ms \in Nat /\ c.ms \in Nat
  <2>1. Timed((s \ {c}) \ {x})
    BY <1>3, TimedParts
  <2> QED BY <1>3, <2>1, TotalIsNat DEF Timed
<1> HIDE DEF rest
<1> QED BY <1>2, <1>4, <1>8, <1>9

(* Two sets that have nothing in common.                                   *)
LEMMA TotalOfBoth ==
  ASSUME NEW A, NEW B, Timed(A), Timed(B), A \cap B = {}
  PROVE  Total(A \cup B) = Total(A) + Total(B)
<1> DEFINE Right(s) == Total(A \cup s) = Total(A) + Total(s)
           Bad == {s \in SUBSET B : ~Right(s)}
<1> SUFFICES ASSUME Bad # {} PROVE FALSE
  OBVIOUS
<1>1. PICK s \in Bad : \A t \in SUBSET s : t # s => t \notin Bad
  <2>1. Bad \in SUBSET SUBSET B /\ IsFiniteSet(B)
    BY DEF Timed
  <2> HIDE DEF Bad
  <2> QED BY <2>1, SmallestPart
<1>2. Timed(s) /\ Timed(A \cup s) /\ Total(A) \in Nat
  <2>1. Timed(s)
    BY TimedParts
  <2>2. Timed(A \cup s)
    BY <2>1, FS_Union DEF Timed
  <2> QED BY <2>1, <2>2, TotalIsNat
<1>3. CASE s = {}
  <2>1. Total(s) = 0 /\ A \cup s = A
    BY <1>2, <1>3, TotalUnfolds DEF Timed
  <2> QED BY <1>2, <2>1
<1>4. CASE s # {}
  <2>1. PICK x \in s : TRUE
    BY <1>4
  <2> DEFINE t == s \ {x}
  <2>2. t \in SUBSET B /\ Right(t)
    BY <1>1, <2>1
  <2>3. Total(s) = x.ms + Total(t) /\ x.ms \in Nat
    BY <1>2, <2>1, TotalTakes DEF Timed
  <2>4. (A \cup s) \ {x} = A \cup t /\ x \in A \cup s
    BY <2>1
  <2>5. Total(A \cup s) = x.ms + Total(A \cup t)
    BY <1>2, <2>4, TotalTakes
  <2>6. Total(t) \in Nat
    BY <1>2, TimedParts, TotalIsNat
  <2> HIDE DEF t
  <2>7. Total(A \cup s) = Total(A) + Total(s)
    BY <1>2, <2>2, <2>3, <2>5, <2>6
  <2> QED BY <2>7
<1> QED BY <1>3, <1>4

(* Records that take the time of their children take it together.          *)
LEMMA TotalOfChildren ==
  ASSUME NEW D, Timed(D), NEW P, IsFiniteSet(P), NEW kids,
         \A p \in P : kids[p] \subseteq D /\ p.ms = Total(kids[p]),
         \A p, q \in P : p # q => kids[p] \cap kids[q] = {}
  PROVE  Timed(P) /\ Total(P) = Total(UNION {kids[p] : p \in P})
<1> DEFINE all(s) == UNION {kids[p] : p \in s}
           Bad == {s \in SUBSET P : Total(s) # Total(all(s))}
<1>1. \A p \in P : Timed(kids[p])
  BY TimedParts
<1>2. Timed(P)
  BY <1>1, TotalIsNat DEF Timed
<1> SUFFICES ASSUME Bad # {} PROVE FALSE
  BY <1>2
<1>3. PICK s \in Bad : \A t \in SUBSET s : t # s => t \notin Bad
  <2>1. Bad \in SUBSET SUBSET P
    OBVIOUS
  <2> HIDE DEF Bad
  <2> QED BY <2>1, SmallestPart
<1>4. s \in SUBSET P /\ Timed(s)
  BY <1>2, TimedParts
<1>5. CASE s = {}
  <2>1. all(s) = s
    BY <1>5
  <2> QED BY <1>3, <2>1
<1>6. CASE s # {}
  <2>1. PICK x \in s : TRUE
    BY <1>6
  <2> DEFINE t == s \ {x}
  <2>2. Total(t) = Total(all(t))
    BY <1>3, <1>4, <2>1
  <2>3. Total(s) = x.ms + Total(t)
    BY <1>4, TotalTakes
  <2>4. all(s) = all(t) \cup kids[x] /\ all(t) \cap kids[x] = {}
    BY <1>4, <2>1
  <2>5. Timed(all(t)) /\ Timed(kids[x])
    <3>1. all(t) \in SUBSET D
      BY <1>4
    <3> HIDE DEF all
    <3> QED BY <1>1, <1>4, <3>1, TimedParts
  <2>6. Total(all(s)) = Total(all(t)) + Total(kids[x]) /\ Total(all(t)) \in Nat
    <3> HIDE DEF all, t
    <3> QED BY <2>4, <2>5, TotalOfBoth, TotalIsNat
  <2>7. x.ms = Total(kids[x]) /\ x.ms \in Nat
    BY <1>4 DEF Timed
  <2>8. Total(s) = Total(all(s))
    <3> HIDE DEF all, t
    <3> QED BY <2>2, <2>3, <2>6, <2>7
  <2> QED BY <1>3, <2>8
<1> QED BY <1>5, <1>6

-----------------------------------------------------------------------------
(* Assembly.  What a plan is used for is decided by the records it reads:  *)
(* one outline, whose chapters, beats and plans are numbered and take      *)
(* their time, and four snapshots.                                         *)

LEMMA AssemblyChecks ==
  ASSUME NEW project, NEW context, FirstFault(AssemblyRows(project, context)) = Fine
  PROVE  /\ context \subseteq snapshots /\ \A s \in context : s.project = project
         /\ Cardinality(OfKind("outline", project)) = 1
         /\ InOrder(Chapters(project))
         /\ \A o \in OfKind("outline", project) : o.chapters = Cardinality(Chapters(project))
         /\ \A c \in Chapters(project) : Fills("narrative_beat", c)
         /\ \A b \in Beats(project) : Fills("sequence_plan", b)
         /\ \A p \in Sequences(project) : ClosedPlan(context, p)
<1> DEFINE a1 == \/ ~(context \subseteq snapshots) \/ {s.kind : s \in context} # ContextKinds
                 \/ \E s \in context : s.project # project
           a2 == Cardinality(OfKind("outline", project)) # 1
           a3 == \/ ~InOrder(Chapters(project))
                 \/ \E o \in OfKind("outline", project) : o.chapters # Cardinality(Chapters(project))
           b1 == \E c \in Chapters(project) : ~Fills("narrative_beat", c)
           b2 == \E b \in Beats(project) : ~Fills("sequence_plan", b)
           b3 == \E p \in Sequences(project) : ~ClosedPlan(context, p)
           rs == << <<a1, "PLANNER_ASSEMBLY_SNAPSHOT_INVALID">>,
                    <<a2, "PLANNER_ASSEMBLY_OUTLINE_INVALID">>,
                    <<a3, "PLANNER_ASSEMBLY_ORDER_INVALID">>,
                    <<b1, "PLANNER_ASSEMBLY_BEAT_INVALID">>,
                    <<b2, "PLANNER_ASSEMBLY_SEQUENCE_INVALID">>,
                    <<b3, "PLANNER_ASSEMBLY_CLOSURE_INVALID">> >>
<1>1. AssemblyRows(project, context) = rs
  BY DEF AssemblyRows
<1>2. /\ ~a1 => context \subseteq snapshots /\ \A s \in context : s.project = project
      /\ ~a3 => /\ InOrder(Chapters(project))
                /\ \A o \in OfKind("outline", project) : o.chapters = Cardinality(Chapters(project))
      /\ ~b1 => \A c \in Chapters(project) : Fills("narrative_beat", c)
      /\ ~b2 => \A b \in Beats(project) : Fills("sequence_plan", b)
      /\ ~b3 => \A p \in Sequences(project) : ClosedPlan(context, p)
  OBVIOUS
<1>3. ~a2 => Cardinality(OfKind("outline", project)) = 1
  OBVIOUS
<1> HIDE DEF a1, a2, a3, b1, b2, b3
<1>4. Chain(rs, 6)
  BY DEF Chain, Fine
<1>5. /\ rs[1][1] = a1 /\ rs[2][1] = a2 /\ rs[3][1] = a3
      /\ rs[4][1] = b1 /\ rs[5][1] = b2 /\ rs[6][1] = b3
  OBVIOUS
<1> HIDE DEF rs
<1>6. \A i \in 1 .. 6 : ~rs[i][1]
  BY <1>1, <1>4, Accepted
<1>7. ~rs[1][1] /\ ~rs[2][1] /\ ~rs[3][1] /\ ~rs[4][1] /\ ~rs[5][1] /\ ~rs[6][1]
  BY <1>6
<1>8. ~a1 /\ ~a2 /\ ~a3 /\ ~b1 /\ ~b2 /\ ~b3
  BY <1>5, <1>7, Zenon
<1> QED BY <1>2, <1>3, <1>8

LEMMA PlacesAreFinite ==
  \A N \in Nat : /\ IsFiniteSet(1 .. N) /\ Cardinality(1 .. N) = N
                 /\ IsFiniteSet(0 .. N - 1) /\ Cardinality(0 .. N - 1) = N
<1> SUFFICES ASSUME NEW N \in Nat
             PROVE  /\ IsFiniteSet(1 .. N) /\ Cardinality(1 .. N) = N
                    /\ IsFiniteSet(0 .. N - 1) /\ Cardinality(0 .. N - 1) = N
  OBVIOUS
<1>1. IsFiniteSet(1 .. N) /\ Cardinality(1 .. N) = IF 1 > N THEN 0 ELSE N - 1 + 1
  BY FS_Interval
<1>2. /\ IsFiniteSet(0 .. N - 1)
      /\ Cardinality(0 .. N - 1) = IF 0 > N - 1 THEN 0 ELSE (N - 1) - 0 + 1
  BY FS_Interval
<1> QED BY <1>1, <1>2

(* Records that are numbered from 0 have numbers of their own.             *)
LEMMA NumbersApart ==
  ASSUME NEW S, IsFiniteSet(S), InOrder(S)
  PROVE  /\ \A c \in S : c.order \in Nat
         /\ \A c, d \in S : c.order = d.order => c = d
<1> DEFINE N == Cardinality(S)
           f == [c \in S |-> c.order]
<1>1. N \in Nat
  BY FS_CardinalityType
<1>2. {c.order : c \in S} = 0 .. N - 1
  BY DEF InOrder
<1> HIDE DEF N
<1>3. \A c \in S : c.order \in Nat
  BY <1>1, <1>2
<1>4. f \in Surjection(S, 0 .. N - 1)
  BY <1>2 DEF Surjection
<1>5. IsFiniteSet(0 .. N - 1) /\ Cardinality(0 .. N - 1) = N
  BY <1>1, PlacesAreFinite
<1>6. f \in Injection(S, 0 .. N - 1)
  <2> HIDE DEF f
  <2> QED BY <1>4, <1>5, FS_Surjection DEF N
<1>7. \A c, d \in S : c.order = d.order => c = d
  BY <1>6 DEF Injection, IsInjective
<1> QED BY <1>3, <1>7

(* Where Sooner sorts a finite set, every place is taken by one, and each  *)
(* takes a place.                                                          *)
LEMMA PlacesAreTaken ==
  ASSUME NEW S, IsFiniteSet(S), \A p \in S : ~Sooner(p, p),
         \A p, q, r \in S : Sooner(p, q) /\ Sooner(q, r) => Sooner(p, r),
         \A p, q \in S : p # q => Sooner(p, q) \/ Sooner(q, p)
  PROVE  Range([n \in 1 .. Cardinality(S) |->
                  CHOOSE p \in S : Cardinality({q \in S : Sooner(q, p)}) = n - 1]) = S
<1> DEFINE N == Cardinality(S)
           Before(p) == {q \in S : Sooner(q, p)}
           rank == [p \in S |-> Cardinality(Before(p)) + 1]
           at(n) == CHOOSE p \in S : Cardinality(Before(p)) = n - 1
           line == [n \in 1 .. N |-> at(n)]
<1>1. N \in Nat
  BY FS_CardinalityType
<1>2. ASSUME NEW p \in S
      PROVE  /\ IsFiniteSet(Before(p)) /\ Cardinality(Before(p)) \in Nat
             /\ Cardinality(Before(p)) < N
  <2>1. Before(p) \in SUBSET S /\ Before(p) # S
    OBVIOUS
  <2> HIDE DEF Before
  <2>2. IsFiniteSet(Before(p)) /\ Cardinality(Before(p)) \in Nat
    BY <2>1, FS_Subset, FS_CardinalityType
  <2>3. Cardinality(Before(p)) <= N /\ Cardinality(Before(p)) # N
    BY <2>1, FS_Subset
  <2> QED BY <1>1, <2>2, <2>3
<1>3. ASSUME NEW p \in S, NEW q \in S, Sooner(p, q)
      PROVE  Cardinality(Before(p)) < Cardinality(Before(q))
  <2>1. Before(p) \in SUBSET Before(q) /\ p \in Before(q) /\ p \notin Before(p)
    BY <1>3
  <2> HIDE DEF Before
  <2>2. Before(p) # Before(q)
    BY <2>1
  <2>3. /\ Cardinality(Before(p)) <= Cardinality(Before(q))
        /\ Cardinality(Before(p)) # Cardinality(Before(q))
    BY <1>2, <2>1, <2>2, FS_Subset
  <2> QED BY <1>2, <2>3
<1>4. \A p, q \in S : Cardinality(Before(p)) = Cardinality(Before(q)) => p = q
  <2> SUFFICES ASSUME NEW p \in S, NEW q \in S, p # q
               PROVE  Cardinality(Before(p)) # Cardinality(Before(q))
    OBVIOUS
  <2>1. Sooner(p, q) \/ Sooner(q, p)
    OBVIOUS
  <2> HIDE DEF Before
  <2> QED BY <1>2, <1>3, <2>1
<1> HIDE DEF Before
<1>5. \A p \in S : rank[p] = Cardinality(Before(p)) + 1 /\ rank[p] \in 1 .. N
  BY <1>1, <1>2
<1>6. rank \in Injection(S, 1 .. N)
  <2>1. \A p, q \in S : rank[p] = rank[q] => p = q
    <3> SUFFICES ASSUME NEW p \in S, NEW q \in S, rank[p] = rank[q] PROVE p = q
      OBVIOUS
    <3>1. Cardinality(Before(p)) = Cardinality(Before(q))
      BY <1>2, <1>5
    <3> QED BY <1>4, <3>1
  <2>2. rank \in [S -> 1 .. N]
    <3>1. DOMAIN rank = S /\ rank = [p \in S |-> rank[p]]
      OBVIOUS
    <3> HIDE DEF rank
    <3> QED BY <1>5, <3>1
  <2> HIDE DEF rank
  <2> QED BY <2>1, <2>2 DEF Injection, IsInjective
<1> HIDE DEF rank
<1>7. rank \in Surjection(S, 1 .. N)
  <2>1. IsFiniteSet(1 .. N) /\ Cardinality(1 .. N) = N
    BY <1>1, PlacesAreFinite
  <2> HIDE DEF N
  <2> QED BY <1>6, <2>1, FS_Injection DEF N
<1>8. \A n \in 1 .. N : \E p \in S : Cardinality(Before(p)) = n - 1
  <2> SUFFICES ASSUME NEW n \in 1 .. N PROVE \E p \in S : Cardinality(Before(p)) = n - 1
    OBVIOUS
  <2>1. PICK p \in S : rank[p] = n
    BY <1>7 DEF Surjection
  <2> QED BY <1>1, <1>2, <1>5, <2>1
<1>9. \A n \in 1 .. N : line[n] \in S
  BY <1>8
<1>10. ASSUME NEW p \in S PROVE \E n \in 1 .. N : line[n] = p
  <2> DEFINE n == rank[p]
  <2>1. n \in 1 .. N /\ n - 1 = Cardinality(Before(p))
    BY <1>1, <1>2, <1>5
  <2> HIDE DEF n
  <2>2. at(n) \in S /\ Cardinality(Before(at(n))) = Cardinality(Before(p))
    BY <2>1
  <2>3. at(n) = p
    <3> HIDE DEF at
    <3> QED BY <1>4, <2>2
  <2> QED BY <2>1, <2>3
<1>11. DOMAIN line = 1 .. N
  OBVIOUS
<1>12. Range(line) = S
  <2> HIDE DEF line, N
  <2> QED BY <1>9, <1>10, <1>11 DEF Range
<1> QED BY <1>12 DEF Before

(* The chapters, beats and plans of a project are records that hang on     *)
(* each other.                                                             *)
LEMMA PlansOfProject ==
  ASSUME NEW project
  PROVE  /\ \A c \in Chapters(project) :
              c \in plans /\ c.kind = "chapter_brief" /\ c.parent \in OfKind("outline", project)
         /\ \A b \in Beats(project) :
              /\ b \in plans /\ b.kind = "narrative_beat" /\ b.parent \in Chapters(project)
              /\ b \in Children("narrative_beat", b.parent)
         /\ \A p \in Sequences(project) :
              /\ p \in plans /\ p.kind = "sequence_plan" /\ p.parent \in Beats(project)
              /\ p \in Children("sequence_plan", p.parent)
BY DEF Chapters, Beats, Sequences, Children, OfKind

LEMMA PlansAreSorted ==
  ASSUME IsFiniteSet(plans), NEW project, InOrder(Chapters(project)),
         \A c \in Chapters(project) : InOrder(Children("narrative_beat", c)),
         \A b \in Beats(project) : InOrder(Children("sequence_plan", b))
  PROVE  Range(Ordered(project)) = Sequences(project)
<1> DEFINE S == Sequences(project)
<1>1. /\ \A c \in Chapters(project) : c.order \in Nat
      /\ \A c, d \in Chapters(project) : c.order = d.order => c = d
  <2>1. IsFiniteSet(Chapters(project))
    BY PlansOfProject, FS_Subset
  <2> QED BY <2>1, NumbersApart
<1>2. ASSUME NEW c \in Chapters(project)
      PROVE  /\ \A b \in Children("narrative_beat", c) : b.order \in Nat
             /\ \A b, d \in Children("narrative_beat", c) : b.order = d.order => b = d
  <2>1. IsFiniteSet(Children("narrative_beat", c))
    BY FS_Subset DEF Children, OfKind
  <2> QED BY <2>1, NumbersApart
<1>3. ASSUME NEW b \in Beats(project)
      PROVE  /\ \A p \in Children("sequence_plan", b) : p.order \in Nat
             /\ \A p, q \in Children("sequence_plan", b) : p.order = q.order => p = q
  <2>1. IsFiniteSet(Children("sequence_plan", b))
    BY FS_Subset DEF Children, OfKind
  <2> QED BY <2>1, NumbersApart
<1>4. \A p \in S : /\ p.order \in Nat /\ p.parent \in Beats(project)
                   /\ p \in Children("sequence_plan", p.parent)
  BY <1>3, PlansOfProject
<1>5. \A b \in Beats(project) : /\ b.order \in Nat /\ b.parent \in Chapters(project)
                                /\ b \in Children("narrative_beat", b.parent)
  BY <1>2, PlansOfProject
<1>6. IsFiniteSet(S)
  BY PlansOfProject, FS_Subset
<1>7. Ordered(project) = [n \in 1 .. Cardinality(S) |->
                            CHOOSE p \in S : Cardinality({q \in S : Sooner(q, p)}) = n - 1]
  BY DEF Ordered
<1> HIDE DEF S
<1>8. \A p \in S : /\ p.order \in Nat /\ p.parent.order \in Nat /\ p.parent.parent.order \in Nat
  BY <1>1, <1>4, <1>5
<1>9. \A p \in S : ~Sooner(p, p)
  BY <1>8 DEF Sooner
<1>10. \A p, q, r \in S : Sooner(p, q) /\ Sooner(q, r) => Sooner(p, r)
  BY <1>8 DEF Sooner
<1>11. ASSUME NEW p \in S, NEW q \in S, p # q PROVE Sooner(p, q) \/ Sooner(q, p)
  <2> DEFINE b == p.parent
             c == q.parent
  <2>1. CASE b = c
    <3>1. p.order # q.order
      BY <1>3, <1>4, <1>11, <2>1
    <3> QED BY <1>8, <2>1, <3>1 DEF Sooner
  <2>2. CASE b # c /\ b.parent = c.parent
    <3>1. b.order # c.order
      BY <1>2, <1>4, <1>5, <2>2
    <3> QED BY <1>8, <2>2, <3>1 DEF Sooner
  <2>3. CASE b.parent # c.parent
    <3>1. b.parent.order # c.parent.order
      BY <1>1, <1>4, <1>5, <2>3
    <3> QED BY <1>8, <3>1 DEF Sooner
  <2> QED BY <2>1, <2>2, <2>3
<1> QED BY <1>6, <1>7, <1>9, <1>10, <1>11, PlacesAreTaken DEF S

(* Nothing takes no time: what takes some has a child, and the chapters,   *)
(* the beats and the plans of a project take the same.                     *)
LEMMA PlansFill ==
  ASSUME IsFiniteSet(plans), \A r \in plans : Sober(r), NEW project,
         \A c \in Chapters(project) : Fills("narrative_beat", c),
         \A b \in Beats(project) : Fills("sequence_plan", b)
  PROVE  /\ {p.parent : p \in Sequences(project)} = Beats(project)
         /\ {b.parent : b \in Beats(project)} = Chapters(project)
         /\ Total(Sequences(project)) = Total(Chapters(project))
<1> DEFINE C == Chapters(project)
           B == Beats(project)
           S == Sequences(project)
           beats == [c \in C |-> Children("narrative_beat", c)]
           parts == [b \in B |-> Children("sequence_plan", b)]
<1>1. B = UNION {beats[c] : c \in C} /\ S = UNION {parts[b] : b \in B}
  BY DEF Beats, Sequences
<1>2. /\ \A c \in C : c.ms = Total(beats[c]) /\ \A b \in beats[c] : b.parent = c
      /\ \A b \in B : b.ms = Total(parts[b]) /\ \A p \in parts[b] : p.parent = b
  BY DEF Fills, Children
<1>3. IsFiniteSet(C) /\ IsFiniteSet(B) /\ Timed(S)
  <2>1. C \in SUBSET plans /\ B \in SUBSET plans /\ S \in SUBSET plans
    BY PlansOfProject
  <2>2. \A p \in S : p.ms \in Nat
    BY PlansOfProject DEF Sober
  <2> QED BY <2>1, <2>2, FS_Subset DEF Timed
<1>4. (\A c \in C : c.ms # 0) /\ \A b \in B : b.ms # 0
  BY PlansOfProject DEF Sober
<1> HIDE DEF C, B, S, beats, parts
<1>5. Total({}) = 0
  BY FS_EmptySet, TotalUnfolds
<1>6. (\A c \in C : beats[c] # {}) /\ \A b \in B : parts[b] # {}
  BY <1>2, <1>4, <1>5
<1>7. {p.parent : p \in S} = B
  <2>1. \A p \in S : p.parent \in B
    BY <1>1, <1>2
  <2>2. \A b \in B : \E p \in S : p.parent = b
    BY <1>1, <1>2, <1>6
  <2> QED BY <2>1, <2>2
<1>8. {b.parent : b \in B} = C
  <2>1. \A b \in B : b.parent \in C
    BY <1>1, <1>2
  <2>2. \A c \in C : \E b \in B : b.parent = c
    BY <1>1, <1>2, <1>6
  <2> QED BY <2>1, <2>2
<1>9. Timed(B) /\ Total(B) = Total(S)
  <2>1. \A b \in B : parts[b] \subseteq S /\ b.ms = Total(parts[b])
    BY <1>1, <1>2
  <2>2. \A a, b \in B : a # b => parts[a] \cap parts[b] = {}
    BY <1>2
  <2> QED BY <1>1, <1>3, <2>1, <2>2, TotalOfChildren
<1>10. Total(C) = Total(B)
  <2>1. \A c \in C : beats[c] \subseteq B /\ c.ms = Total(beats[c])
    BY <1>1, <1>2
  <2>2. \A a, c \in C : a # c => beats[a] \cap beats[c] = {}
    BY <1>2
  <2> QED BY <1>1, <1>3, <1>9, <2>1, <2>2, TotalOfChildren
<1> QED BY <1>7, <1>8, <1>9, <1>10 DEF C, B, S

(* What a context of sound snapshots holds loads from the store.           *)
LEMMA ContextLoads ==
  ASSUME NEW context, NEW project,
         \A s \in context : SoundSnapshot(rows, s) /\ s.project = project,
         \A c \in Bodies(rows, "claim") : IsClaim(c),
         \A f \in Bodies(rows, "fact") : ~IsClaim(f),
         NEW x \in Held(context, "claim_evidence")
  PROVE  /\ IsClaim(x) => ClaimLoads(rows, x) /\ x.project = project
         /\ ~IsClaim(x) => FactLoads(rows, x)
<1>1. PICK s \in context : s.kind = "claim_evidence" /\ x \in s.holds
  BY DEF Held
<1>2. PICK claims \in SUBSET Bodies(rows, "claim") :
        /\ s.holds = Evidence(claims)
        /\ \A c \in claims : ClaimLoads(rows, c) /\ c.project = s.project
  BY <1>1 DEF SoundSnapshot
<1>3. CASE x \in claims
  BY <1>2, <1>3
<1>4. CASE x \notin claims
  <2>1. PICK c \in claims : x \in c.facts
    BY <1>1, <1>2, <1>4 DEF Evidence
  <2>2. FactLoads(rows, x)
    BY <1>2, <2>1 DEF ClaimLoads
  <2>3. ~IsClaim(x)
    BY <2>2 DEF FactLoads
  <2> QED BY <2>2, <2>3
<1> QED BY <1>3, <1>4

(* What assembly rests on: the records are finitely many and what the      *)
(* policy asks, they cite claims as claims and facts as facts, and a       *)
(* snapshot of claims was taken of this store.                             *)
GroundInv ==
  /\ planning = None => requests = {}
  /\ planning # None =>
       /\ IsFiniteSet(plans)
       /\ \A r \in plans : Sober(r) /\ NamesClaims(r)
       /\ \A s \in snapshots : SoundSnapshot(rows, s)
       /\ \A c \in Bodies(rows, "claim") : IsClaim(c)
       /\ \A f \in Bodies(rows, "fact") : ~IsClaim(f)
       /\ RequestsRestOnEvidence

LEMMA AssembledRests ==
  ASSUME GroundInv, planning # None, NEW project, NEW context,
         FirstFault(AssemblyRows(project, context)) = Fine,
         NEW q, q.project = project, q.sequence = Ordered(project)
  PROVE  RestsOnEvidence(q)
<1> DEFINE C == Chapters(project)
           B == Beats(project)
           S == Sequences(project)
<1>1. /\ context \subseteq snapshots /\ \A s \in context : s.project = project
      /\ Cardinality(OfKind("outline", project)) = 1
      /\ InOrder(C)
      /\ \A o \in OfKind("outline", project) : o.chapters = Cardinality(C)
      /\ \A c \in C : Fills("narrative_beat", c)
      /\ \A b \in B : Fills("sequence_plan", b)
      /\ \A p \in S : ClosedPlan(context, p)
  BY AssemblyChecks
<1>2. IsFiniteSet(plans) /\ \A r \in plans : Sober(r) /\ NamesClaims(r)
  BY DEF GroundInv
<1>3. Range(q.sequence) = S
  BY <1>1, <1>2, PlansAreSorted DEF Fills
<1>4. {p.parent : p \in S} = B /\ {b.parent : b \in B} = C /\ Total(S) = Total(C)
  BY <1>1, <1>2, PlansFill
<1>5. Cardinality({c.parent : c \in C}) = 1
  <2>1. IsFiniteSet(OfKind("outline", project))
    BY <1>2, FS_Subset DEF OfKind
  <2>2. PICK o : OfKind("outline", project) = {o}
    BY <1>1, <2>1, FS_Singleton
  <2>3. o.chapters # 0 /\ o.chapters = Cardinality(C)
    BY <1>1, <1>2, <2>2 DEF OfKind, Sober
  <2>4. C # {}
    BY <2>3, FS_EmptySet
  <2>5. \A c \in C : c.parent = o
    BY <2>2, PlansOfProject
  <2>6. {c.parent : c \in C} = {o}
    <3> HIDE DEF C
    <3> QED BY <2>4, <2>5
  <2> QED BY <2>6, FS_Singleton
<1>6. ASSUME NEW p \in S
      PROVE  /\ \A x \in p.claims : ClaimLoads(rows, x) /\ x.project = project
             /\ \A x \in p.evidence \cup UNION {b.evidence : b \in p.briefs} : FactLoads(rows, x)
  <2> DEFINE held == Held(context, "claim_evidence")
  <2>1. /\ p.claims \cup p.evidence \subseteq held
        /\ \A b \in p.briefs : b \in plans /\ b.evidence \subseteq held
    BY <1>1 DEF ClosedPlan
  <2>2. p \in plans
    BY PlansOfProject
  <2>3. \A x \in held : /\ IsClaim(x) => ClaimLoads(rows, x) /\ x.project = project
                        /\ ~IsClaim(x) => FactLoads(rows, x)
    <3>1. \A s \in context : SoundSnapshot(rows, s) /\ s.project = project
      BY <1>1 DEF GroundInv
    <3> HIDE DEF held
    <3>2. ASSUME NEW x \in held
          PROVE  /\ IsClaim(x) => ClaimLoads(rows, x) /\ x.project = project
                 /\ ~IsClaim(x) => FactLoads(rows, x)
      BY <3>1, <3>2, ContextLoads DEF GroundInv, held
    <3> QED BY <3>2
  <2> HIDE DEF held
  <2> QED BY <1>2, <2>1, <2>2, <2>3 DEF NamesClaims
<1> HIDE DEF C, B, S
<1>7. RestsOnEvidence(q) <=>
        /\ Cardinality({c.parent : c \in C}) = 1 /\ Total(S) = Total(C)
        /\ \A p \in S :
              /\ \A x \in p.claims : ClaimLoads(rows, x) /\ x.project = q.project
              /\ \A x \in p.evidence \cup UNION {b.evidence : b \in p.briefs} : FactLoads(rows, x)
  BY <1>3, <1>4 DEF RestsOnEvidence
<1> QED BY <1>4, <1>5, <1>6, <1>7

LEMMA GroundKeeps ==
  ASSUME GroundInv, planning # None, UNCHANGED <<planning, rows>>,
         plans' = plans \/ \E r : plans' = plans \cup {r} /\ Sober(r) /\ NamesClaims(r),
         \A s \in snapshots' : s \in snapshots \/ SoundSnapshot(rows, s),
         \A q \in requests' : q \in requests \/ RestsOnEvidence(q)
  PROVE  GroundInv'
<1>1. IsFiniteSet(plans') /\ \A r \in plans' : Sober(r) /\ NamesClaims(r)
  BY FS_AddElement DEF GroundInv
<1>2. \A s \in snapshots' : SoundSnapshot(rows', s)
  BY DEF GroundInv
<1>3. RequestsRestOnEvidence'
  <2>1. \A q \in requests' : RestsOnEvidence(q)
    BY DEF GroundInv, RequestsRestOnEvidence
  <2> QED BY <2>1 DEF RequestsRestOnEvidence, RestsOnEvidence
<1> QED BY <1>1, <1>2, <1>3 DEF GroundInv

LEMMA GroundStep ==
  ASSUME PlannerInv, GroundInv, planning # None, PlanningNext, UNCHANGED researchVars
  PROVE  GroundInv'
<1>1. UNCHANGED rows
  BY DEF researchVars
<1>2. ASSUME UNCHANGED <<planning, plans, snapshots, requests>> PROVE GroundInv'
  BY <1>1, <1>2, GroundKeeps
<1>3. ASSUME NEW i \in planning.planners, PutProposed(i) PROVE GroundInv'
  <2> DEFINE m == planner[i]
             r == Proposed(i)
             fault == FirstFault(ClosureRows(m.task, r) \o PlanRows(r))
  <2>1. UNCHANGED <<planning, snapshots, requests>>
    BY <1>3 DEF PutProposed
  <2>2. CASE fault # Fine
    <3>1. UNCHANGED plans
      BY <1>3, <2>2 DEF PutProposed
    <3> QED BY <1>2, <2>1, <3>1
  <2>3. CASE fault = Fine
    <3>1. plans' = plans \cup {r}
      BY <1>3, <2>3 DEF PutProposed
    <3>2. i \in Planners /\ Hierarchy(plans)
      BY DEF PlannerInv
    <3>3. Sober(r)
      BY <2>3, <3>2, ProposalAccepted
    <3>4. /\ m.step = "put" /\ m.next <= Len(m.payload.items) /\ m.next \in Nat /\ m.next # 0
          /\ Holds("put", m.task, m.payload.items, m.next, plans, planResponses)
      BY <1>3, <3>2 DEF PutProposed, Stands, PlannerInv, Planned
    <3>5. m.next \in DOMAIN m.payload.items /\ r = m.payload.items[m.next]
      BY <3>4 DEF Holds, IsSequence, Proposed
    <3>6. NamesClaims(r)
      BY <3>4, <3>5 DEF Holds
    <3> HIDE DEF r
    <3> QED BY <1>1, <2>1, <3>1, <3>3, <3>6, GroundKeeps
  <2> QED BY <2>2, <2>3
<1>4. ASSUME NEW r \in Briefs, PutBrief(r) PROVE GroundInv'
  <2>1. plans' = plans \cup {r} /\ UNCHANGED <<planning, snapshots, requests>>
    BY <1>4 DEF PutBrief
  <2>2. Sober(r) /\ NamesClaims(r)
    BY <1>4, PlanAccepted, PlanningAssumption DEF PutBrief, PlannerInv
  <2> QED BY <1>1, <2>1, <2>2, GroundKeeps
<1>5. ASSUME NEW kind, NEW project, TakeSnapshot(kind, project) PROVE GroundInv'
  <2>1. PICK holds \in Produced(kind, project) :
          snapshots' = snapshots \cup {[kind |-> kind, project |-> project, holds |-> holds]}
    BY <1>5 DEF TakeSnapshot
  <2> DEFINE s == [kind |-> kind, project |-> project, holds |-> holds]
  <2>2. SoundSnapshot(rows, s)
    <3> SUFFICES ASSUME kind = "claim_evidence" PROVE SoundSnapshot(rows, s)
      BY DEF SoundSnapshot
    <3>1. PICK claims \in SUBSET {c \in Stored("claim") : ClaimLoads(rows, c) /\ c.project = project} :
            holds = Evidence(claims)
      BY DEF Produced
    <3>2. claims \in SUBSET Bodies(rows, "claim")
      BY <3>1 DEF Stored
    <3> QED BY <3>1, <3>2 DEF SoundSnapshot
  <2> HIDE DEF s
  <2>3. UNCHANGED <<planning, plans, requests>> /\ snapshots' = snapshots \cup {s}
    BY <1>5, <2>1 DEF TakeSnapshot, s
  <2> QED BY <1>1, <2>2, <2>3, GroundKeeps
<1>6. ASSUME NEW project, Assemble(project) PROVE GroundInv'
  <2>1. PICK context \in kSubset(4, snapshots) :
          /\ FirstFault(AssemblyRows(project, context)) = Fine
          /\ requests' = requests \cup
                {[project |-> project, context |-> context, sequence |-> Ordered(project)]}
    BY <1>6 DEF Assemble
  <2> DEFINE q == [project |-> project, context |-> context, sequence |-> Ordered(project)]
  <2>2. q.project = project /\ q.sequence = Ordered(project)
    OBVIOUS
  <2>3. UNCHANGED <<planning, plans, snapshots>> /\ requests' = requests \cup {q}
    BY <1>6, <2>1 DEF Assemble
  <2> HIDE DEF q
  <2>4. RestsOnEvidence(q)
    BY <2>1, <2>2, AssembledRests
  <2> QED BY <1>1, <2>3, <2>4, GroundKeeps
<1>7. ASSUME NEW i \in planning.planners, PlannerStep(i), ~PutProposed(i)
      PROVE  UNCHANGED <<planning, plans, snapshots, requests>>
  BY <1>7 DEF PlannerStep, Submit, AllProposed, RecordResponse, PutTerminal, PlannerStops
<1>8. ASSUME NEW t, NEW status,
             \/ CreatePlanTask(t) \/ RepairPlanTask(t) \/ RevisePlanTask(t, status)
             \/ PutContinuity(t)
      PROVE  UNCHANGED <<planning, plans, snapshots, requests>>
  BY <1>8 DEF CreatePlanTask, RepairPlanTask, RevisePlanTask, PutContinuity
<1> QED BY <1>2, <1>3, <1>4, <1>5, <1>6, <1>7, <1>8 DEF PlanningNext

-----------------------------------------------------------------------------
(* A behaviour is one of research, one of planning or one of the Studio.   *)

LEMMA GroundInitially == WorkInit => GroundInv
<1> SUFFICES ASSUME WorkInit PROVE GroundInv
  OBVIOUS
<1>1. requests = {}
  BY DEF WorkInit, PlannerInit, EngineRests
<1>2. CASE planning = None
  BY <1>1, <1>2 DEF GroundInv
<1>3. CASE planning # None
  <2>1. PlanningStarts
    BY <1>3 DEF WorkInit, PlannerInit, EngineRests, NothingPlanned
  <2>2. PICK p \in Plannings : rows = p.rows /\ plans = p.plans /\ snapshots = p.snapshots
    BY <2>1 DEF PlanningStarts
  <2>3. ASSUME NEW r \in plans PROVE Sober(r) /\ NamesClaims(r)
    <3>1. FirstFault(PolicyRows(r)) = Fine /\ NamesClaims(r)
      BY <2>2, PlanningAssumption DEF SoundPlans
    <3>2. \A i \in 1 .. 5 : ~PolicyRows(r)[i][1]
      BY <3>1, PolicyChecks, Accepted
    <3> QED BY <3>1, <3>2, PolicyChecks
  <2>4. IsFiniteSet(plans)
    BY <2>2, PlanningAssumption DEF SoundPlans
  <2>5. /\ \A s \in snapshots : SoundSnapshot(rows, s)
        /\ \A c \in Bodies(rows, "claim") : IsClaim(c)
        /\ \A f \in Bodies(rows, "fact") : ~IsClaim(f)
    BY <2>2, PlanningAssumption
  <2> QED BY <1>1, <1>3, <2>3, <2>4, <2>5 DEF GroundInv, RequestsRestOnEvidence
<1> QED BY <1>2, <1>3

LEMMA WorkInitially == WorkInit => ResearchInv /\ PlannerInv
<1> SUFFICES ASSUME WorkInit PROVE ResearchInv /\ PlannerInv
  OBVIOUS
<1>1. responses = {} /\ taken = {} /\ importer = [i \in Importers |-> Free]
      /\ planResponses = {} /\ planner = [i \in Planners |-> Unoccupied]
  BY DEF WorkInit, PlannerInit, ResearchInit, PlanningStarts, EngineRests
<1>2. Whole(rows, taken, responses) /\ OneOnRecord /\ \A i \in Importers : Progress(importer[i], rows)
  BY <1>1, FreeRests DEF Whole, OneOnRecord
<1>3. /\ SoundStore(rows) /\ agenda.importers \subseteq Importers
      /\ \A topic \in agenda.topics : \A items \in Results[topic.type] : items \in Seq(Range(items))
  <2>1. CASE ResearchInit
    BY <2>1, AgendaAssumption DEF ResearchInit
  <2>2. CASE PlanningStarts
    BY <2>2, PlanningAssumption DEF PlanningStarts
  <2>3. CASE EngineRests
    <3>1. SoundStore({})
      BY FS_EmptySet DEF SoundStore, EvidenceIn, Bodies
    <3> QED BY <2>3, <3>1 DEF EngineRests
  <2> QED BY <2>1, <2>2, <2>3 DEF WorkInit, PlannerInit
<1>4. \A i \in Planners : Planned(planner[i], plans, planResponses)
  BY <1>1, PlannerIdles
<1>5. /\ planning # None => /\ planning.planners \subseteq Planners
                            /\ \A topic \in planning.topics : Proposes(topic.type)
      /\ Hierarchy(plans) /\ TasksHold(planTasks, plans, planResponses)
  <2>1. CASE NothingPlanned
    BY <2>1 DEF NothingPlanned, Hierarchy, TasksHold
  <2>2. CASE PlanningStarts
    <3>1. PICK p \in Plannings :
            /\ planning = [topics |-> p.topics, surveys |-> p.surveys,
                           planners |-> p.planners, repairs |-> p.repairs]
            /\ plans = p.plans /\ planTasks = p.planTasks
      BY <2>2 DEF PlanningStarts
    <3>2. Hierarchy(plans) /\ TasksHold(planTasks, plans, planResponses)
      BY <3>1, PlanningAssumption DEF SoundPlans, TasksHold, Askable
    <3> QED BY <3>1, <3>2, PlanningAssumption
  <2> QED BY <2>1, <2>2 DEF WorkInit, PlannerInit, EngineRests
<1> QED BY <1>1, <1>2, <1>3, <1>4, <1>5 DEF ResearchInv, PlannerInv

LEMMA EngineKeeps ==
  ASSUME ResearchInv, PlannerInv, GroundInv,
         [WorkNext]_<<inStudio, studioVars, researchVars, planVars>>
  PROVE  ResearchInv' /\ PlannerInv' /\ GroundInv'
<1>1. ASSUME UNCHANGED researchVars PROVE ResearchInv'
  BY <1>1, ResearchStep
<1>2. ASSUME UNCHANGED planVars PROVE PlannerInv'
  BY <1>2 DEF planVars, PlannerInv
<1>3. CASE PlannerNext
  <2>1. ResearchInv' /\ PlannerInv'
    BY <1>1, <1>2, <1>3, ResearchStep, PlanningStep DEF PlannerNext
  <2>2. CASE planning = None
    BY <1>3, <2>1, <2>2 DEF PlannerNext, planVars, GroundInv
  <2>3. CASE planning # None
    BY <1>3, <2>1, <2>3, GroundStep DEF PlannerNext
  <2> QED BY <2>2, <2>3
<1>4. CASE ~PlannerNext
  <2>1. UNCHANGED <<researchVars, planVars>>
    BY <1>4 DEF WorkNext
  <2>2. ResearchInv' /\ PlannerInv'
    BY <1>1, <1>2, <2>1
  <2>3. CASE planning = None
    BY <2>1, <2>2, <2>3 DEF planVars, GroundInv
  <2>4. CASE planning # None
    <3>1. UNCHANGED <<planning, rows, plans, snapshots, requests>>
      BY <2>1 DEF planVars, researchVars
    <3> QED BY <2>2, <2>4, <3>1, GroundKeeps
  <2> QED BY <2>3, <2>4
<1> QED BY <1>3, <1>4

(* However many importers work on a claim store and wherever they stop:    *)
(* every record loads down to the captured text, a source is evidence, an  *)
(* accepted response is stored as a whole, and a task has one on record.   *)
THEOREM ResearchIsWhole == WorkSpec => []ResearchHolds
<1>1. WorkInit => ResearchInv /\ PlannerInv /\ GroundInv
  BY WorkInitially, GroundInitially
<1>2. /\ ResearchInv /\ PlannerInv /\ GroundInv
      /\ [WorkNext]_<<inStudio, studioVars, researchVars, planVars>>
      => ResearchInv' /\ PlannerInv' /\ GroundInv'
  BY EngineKeeps
<1> QED BY <1>1, <1>2, ResearchIsSound, PTL DEF WorkSpec

(* However many planners answer tasks and wherever they stop: a record     *)
(* hangs on its parent and its predecessor, an accepted task has a         *)
(* response whose records are all stored and cite only what its context    *)
(* held, and a request that is assembled names plans that fill the         *)
(* chapters of one outline, all of whose claims and facts load from the    *)
(* claim store.                                                            *)
THEOREM PlansAreGrounded == WorkSpec => []PlansHold
<1>1. WorkInit => ResearchInv /\ PlannerInv /\ GroundInv
  BY WorkInitially, GroundInitially
<1>2. /\ ResearchInv /\ PlannerInv /\ GroundInv
      /\ [WorkNext]_<<inStudio, studioVars, researchVars, planVars>>
      => ResearchInv' /\ PlannerInv' /\ GroundInv'
  BY EngineKeeps
<1>3. PlannerInv /\ GroundInv => PlansHold
  BY PlansAreOwed DEF GroundInv, RequestsRestOnEvidence, PlansHold
<1> QED BY <1>1, <1>2, <1>3, PTL DEF WorkSpec
=============================================================================
