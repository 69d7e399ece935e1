---------------------------- MODULE PlannerStore ----------------------------
(***************************************************************************)
(* The planner over the claims of ResearchStore: planning records with     *)
(* their parents and versions, context snapshots and continuity states     *)
(* (planner/store.py, contracts.py, snapshots.py), the tasks whose answers *)
(* propose records (gateway.py), and the request that is assembled from    *)
(* them (assembly.py).  Records, tasks and responses are committed one by  *)
(* one, and a planner may stop between two.  A record is its content.      *)
(***************************************************************************)
EXTENDS ResearchStore

CONSTANTS
    Planners,
    Plannings,    \* [topics, surveys, planners, repairs, rows, plans, planTasks, snapshots]:
                  \* the tasks of a behaviour, each a [type, project, parent, context],
                  \* the projects whose context changes in it, who takes part, the bound
                  \* on the attempts at a task, and what there is
    Proposals,    \* of each task type, the sequences of records a response may propose,
                  \* as functions of the task's parent: sets of [parent |-> .., ..]
    Briefs,       \* asset briefs that are put without a task
    States,       \* [number, project]: continuity states, by the order of their ids
    Families, Capabilities,   \* what the asset catalog and the template registry hold
    Policy,       \* the planner policy: bounds of a sequence plan
    MaxSnapshots  \* bound on the snapshots

VARIABLES
    planning,       \* the first four of the behaviour, None in one of research
    plans,          \* phase10_records
    snapshots,      \* phase10_snapshots: [kind, project, holds]
    states,         \* phase10_continuity
    planTasks,      \* phase10_tasks
    planResponses,  \* phase10_task_responses: [task, payload, accepted]
    planner,        \* of each planner: [step, task, payload, accepts, next]
    requests        \* assembly requests: [project, context, sequence]

planVars == <<planning, plans, snapshots, states, planTasks, planResponses, planner, requests>>

Unoccupied == [step |-> "idle", task |-> None, payload |-> None, accepts |-> FALSE, next |-> 1]

NothingPlanned ==
    /\ planning = None /\ plans = {} /\ snapshots = {} /\ states = {} /\ planTasks = {}

PlanningStarts ==
    /\ \E p \in Plannings :
          /\ planning = [topics |-> p.topics, surveys |-> p.surveys,
                         planners |-> p.planners, repairs |-> p.repairs]
          /\ rows = p.rows /\ plans = p.plans /\ planTasks = p.planTasks
          /\ snapshots = p.snapshots /\ states = {}
    /\ agenda = [topics |-> {}, compares |-> FALSE, importers |-> {}]
    /\ responses = {} /\ taken = {} /\ importer = [i \in Importers |-> Free]

PlannerInit ==
    /\ \/ ResearchInit /\ NothingPlanned
       \/ PlanningStarts
    /\ planResponses = {} /\ requests = {}
    /\ planner = [i \in Planners |-> Unoccupied]

-----------------------------------------------------------------------------
(* Records. *)

\* What a record of a kind is a child of.
ParentKind ==
    [outline |-> None, chapter_brief |-> "outline", narrative_beat |-> "chapter_brief",
     planner_asset_brief |-> "narrative_beat", sequence_plan |-> "narrative_beat"]

\* The record is what its type builds; the two continuity states of a plan are
\* never compared.
SemanticRows(r) ==
    << <<r.kind = "outline" /\ r.chapters = 0, "PLANNER_STORE_SEMANTIC_INVALID">>,
       <<r.kind \in {"chapter_brief", "narrative_beat"} /\ (r.claims = {} \/ r.ms = 0),
            "PLANNER_STORE_SEMANTIC_INVALID">> >>

\* What the policy allows; odd is a token it does not name.
PolicyRows(r) ==
    << <<r.odd, "PLANNER_STORE_POLICY_INVALID">>,
       <<r.kind = "planner_asset_brief" /\ r.shows /\ r.evidence = {},
            "PLANNER_STORE_POLICY_INVALID">>,
       <<r.kind = "sequence_plan" /\
            (\/ r.ms \notin Policy.least .. Policy.most
             \/ r.claims = {} \/ Cardinality(r.claims) > Policy.claims
             \/ Cardinality(r.briefs) > Policy.briefs), "PLANNER_STORE_POLICY_INVALID">> >>
    \o SemanticRows(r)

\* Parents are not looked up.
PlanRowsOfAnyParent(r) ==
    << <<(r.kind = "outline") # (r.parent = None), "PLANNER_STORE_INVALID">> >>
    \o PolicyRows(r)
    \o << <<r.status # "accepted", "PLANNER_STORE_STATUS_INVALID">> >>

\* put: parent and predecessor are looked up by id and hash.
PlanRows(r) ==
    << <<(r.kind = "outline") # (r.parent = None), "PLANNER_STORE_INVALID">> >>
    \o PolicyRows(r)
    \o << <<r.status # "accepted", "PLANNER_STORE_STATUS_INVALID">>,
          <<r.parent # None /\ (\/ r.parent \notin plans \/ r.parent.project # r.project
                                \/ r.parent.kind # ParentKind[r.kind]),
               "PLANNER_STORE_PARENT_INVALID">>,
          <<r.prior # None /\ (\/ r.prior \notin plans \/ r.prior.kind # r.kind
                               \/ r.prior.project # r.project),
               "PLANNER_STORE_SUCCESSOR_INVALID">> >>
    \o IF r.prior # None
       THEN << <<r.version # r.prior.version + 1, "PLANNER_STORE_SUCCESSOR_INVALID">> >>
       ELSE << <<r.version # 1, "PLANNER_STORE_INITIAL_VERSION_INVALID">> >>

\* A caller puts an asset brief of a beat.
PutBrief(r) ==
    /\ FirstFault(PlanRows(r)) = Fine
    /\ plans' = plans \cup {r}
    /\ UNCHANGED <<planning, snapshots, states, planTasks, planResponses, planner, requests>>

-----------------------------------------------------------------------------
(* Context snapshots. *)

\* continuity_pairs: the two with the greatest ids.
LatestStates(project) ==
    LET own == {s \in states : s.project = project} IN
    {s \in own : Cardinality({q \in own : q.number > s.number}) < 2}

Evidence(claims) == claims \cup UNION {c.facts : c \in claims}

\* What a snapshot of a kind may hold: some claims of the store with their
\* facts, the families, the capabilities, the latest states.
Produced(kind, project) ==
    CASE kind = "claim_evidence" ->
            {Evidence(claims) : claims \in
                SUBSET {c \in Stored("claim") : ClaimLoads(rows, c) /\ c.project = project} \ {{}}}
      [] kind = "asset_catalog" -> {Families} \ {{}}
      [] kind = "template_capability" -> {Capabilities} \ {{}}
      [] kind = "continuity" -> {LatestStates(project)}

ContextKinds == {"claim_evidence", "asset_catalog", "template_capability", "continuity"}

\* persist.
TakeSnapshot(kind, project) ==
    /\ Cardinality(snapshots) < MaxSnapshots
    /\ \E holds \in Produced(kind, project) :
          snapshots' = snapshots \cup {[kind |-> kind, project |-> project, holds |-> holds]}
    /\ UNCHANGED <<planning, plans, states, planTasks, planResponses, planner, requests>>

PutContinuity(s) ==
    /\ states' = states \cup {s}
    /\ UNCHANGED <<planning, plans, snapshots, planTasks, planResponses, planner, requests>>

\* What the snapshots of a kind in a context hold.
Held(context, kind) == UNION {s.holds : s \in {x \in context : x.kind = kind}}

-----------------------------------------------------------------------------
(* Tasks. *)

RequiredContext ==
    [outline |-> {}, chapter_brief |-> {"claim_evidence"},
     narrative_beats |-> {"claim_evidence"}, sequence_plan |-> ContextKinds]

\* create: one snapshot of each kind the type asks for.
PlanTaskOf(topic) ==
    [logical |-> topic, type |-> topic.type, status |-> "created", attempt |-> 0,
     supersedes |-> None]

CreateRows(topic) ==
    << <<\/ {s.kind : s \in topic.context} # RequiredContext[topic.type]
         \/ Cardinality({s.kind : s \in topic.context}) # Cardinality(topic.context),
            "PLANNER_TASK_CONTEXT_SCOPE_INVALID">> >>

\* A rejected task may be taken up again, also as a repair.
PlanAfter == [After EXCEPT !.rejected = @ \cup {"created"}]

\* PlannerTaskStore.put.
PlanTaskRows(t) ==
    IF t.supersedes = None
    THEN << <<t.status # "created" \/ t.attempt # 0, "PLANNER_TASK_INITIAL_INVALID">> >>
    ELSE << <<t.supersedes \notin planTasks, "PLANNER_TASK_UNKNOWN">>,
            <<\/ t.status \notin PlanAfter[t.supersedes.status]
              \/ t.logical # t.supersedes.logical
              \/ /\ t.type # t.supersedes.type
                 /\ ~(/\ t.supersedes.status = "rejected" /\ t.type = "repair"
                      /\ t.attempt = t.supersedes.attempt + 1),
                 "PLANNER_TASK_TRANSITION_INVALID">> >>

PutPlanTask(t) ==
    /\ FirstFault(PlanTaskRows(t)) = Fine
    /\ planTasks' = planTasks \cup {t}

CreatePlanTask(topic) ==
    /\ FirstFault(CreateRows(topic)) = Fine
    /\ PutPlanTask(PlanTaskOf(topic))
    /\ UNCHANGED <<planning, plans, snapshots, states, planResponses, planner, requests>>

\* revise.
RevisePlanTask(t, status) ==
    /\ <<t.status, status>> \in Advances
    /\ PutPlanTask(Revision(t, status))
    /\ UNCHANGED <<planning, plans, snapshots, states, planResponses, planner, requests>>

\* PlannerRepairBuilder: the repair supersedes the task that was rejected.
RepairPlanTask(t) ==
    /\ t.status = "rejected" /\ t.attempt < planning.repairs
    /\ PutPlanTask([Revision(t, "created") EXCEPT !.type = "repair", !.attempt = @ + 1])
    /\ UNCHANGED <<planning, plans, snapshots, states, planResponses, planner, requests>>

-----------------------------------------------------------------------------
(* Responses. *)

PlanPayloads(t) ==
    {Garbage} \cup
    (IF t.type = "repair" THEN {} ELSE {[task |-> t, items |-> x] : x \in Proposals[t.type]})

Stands(i, step) == planner[i].step = step
Turns(i, step) == planner' = [planner EXCEPT ![i].step = step]
Leaves(i) == planner' = [planner EXCEPT ![i] = Unoccupied]
Proposed(i) == planner[i].payload.items[planner[i].next]

\* validate_response and the type, before the first record.
ResponseRows(t, payload) ==
    << <<payload.task # t, "PLANNER_RESPONSE_INVALID">>,
       <<t.type = "repair" \/ payload.items = << >>, "PLANNER_RESPONSE_IMPORT_INVALID">> >>

\* submit_response: what the caller accepts is imported first.
Submit(i) ==
    /\ Stands(i, "idle")
    /\ \E t \in {q \in planTasks : q.status = "response_submitted"} :
       \E payload \in PlanPayloads(t), accepts \in BOOLEAN :
          /\ accepts => FirstFault(ResponseRows(t, payload)) = Fine
          /\ planner' = [planner EXCEPT ![i] =
                [Unoccupied EXCEPT !.task = t, !.payload = payload, !.accepts = accepts,
                    !.step = IF accepts THEN "put" ELSE "record"]]
    /\ UNCHANGED <<planning, plans, snapshots, states, planTasks, planResponses, requests>>

\* The snapshots a task may name: those that are stored for its project.
SnapshotsOf(project) == {s \in snapshots : s.project = project}

\* Any claim may be cited.
ClosureRowsOfTask(t, r) ==
    << <<~(t.logical.context \subseteq SnapshotsOf(t.logical.project)),
            "PLANNER_SNAPSHOT_REFERENCE_INVALID">>,
       <<r.project # t.logical.project, "PLANNER_RESPONSE_IMPORT_INVALID">>,
       <<r.parent # t.logical.parent, "PLANNER_RESPONSE_PARENT_INVALID">> >>

\* A proposed record belongs to the task and cites what its context holds.
ClosureRows(t, r) ==
    LET topic == t.logical IN
    << <<~(topic.context \subseteq SnapshotsOf(topic.project)),
            "PLANNER_SNAPSHOT_REFERENCE_INVALID">>,
       <<r.project # topic.project, "PLANNER_RESPONSE_IMPORT_INVALID">>,
       <<r.parent # topic.parent, "PLANNER_RESPONSE_PARENT_INVALID">>,
       <<~(r.claims \cup r.evidence \subseteq Held(topic.context, "claim_evidence")),
            "PLANNER_RESPONSE_CLOSURE_INVALID">>,
       <<~(r.caps \subseteq Held(topic.context, "template_capability")),
            "PLANNER_RESPONSE_CLOSURE_INVALID">>,
       <<~(r.handoff \subseteq Held(topic.context, "continuity")),
            "PLANNER_RESPONSE_CLOSURE_INVALID">> >>

\* PlannerResultImporter, record by record; one that is refused raises, and
\* leaves the ones before it and no response.
PutProposed(i) ==
    /\ Stands(i, "put") /\ planner[i].next <= Len(planner[i].payload.items)
    /\ IF FirstFault(ClosureRows(planner[i].task, Proposed(i)) \o PlanRows(Proposed(i))) = Fine
       THEN /\ plans' = plans \cup {Proposed(i)}
            /\ planner' = [planner EXCEPT ![i].next = @ + 1]
       ELSE Leaves(i) /\ UNCHANGED plans
    /\ UNCHANGED <<planning, snapshots, states, planTasks, planResponses, requests>>

\* Another response may have been accepted: then this one raises.
AllProposed(i) ==
    /\ Stands(i, "put") /\ planner[i].next > Len(planner[i].payload.items)
    /\ IF \E r \in planResponses :
             r.task = planner[i].task /\ r.accepted /\ r.payload # planner[i].payload
       THEN Leaves(i)
       ELSE Turns(i, "record")
    /\ UNCHANGED <<planning, plans, snapshots, states, planTasks, planResponses, requests>>

\* A response that is on record stays as it was judged.
RecordResponse(i) ==
    /\ Stands(i, "record")
    /\ planResponses' =
          IF \E r \in planResponses : r.task = planner[i].task /\ r.payload = planner[i].payload
          THEN planResponses
          ELSE planResponses \cup {[task |-> planner[i].task, payload |-> planner[i].payload,
                                    accepted |-> planner[i].accepts]}
    /\ Turns(i, "terminal")
    /\ UNCHANGED <<planning, plans, snapshots, states, planTasks, requests>>

PutTerminal(i) ==
    /\ Stands(i, "terminal")
    /\ PutPlanTask(Revision(planner[i].task, IF planner[i].accepts THEN "accepted" ELSE "rejected"))
    /\ Leaves(i)
    /\ UNCHANGED <<planning, plans, snapshots, states, planResponses, requests>>

PlannerStops(i) ==
    /\ ~Stands(i, "idle") /\ Leaves(i)
    /\ UNCHANGED <<planning, plans, snapshots, states, planTasks, planResponses, requests>>

-----------------------------------------------------------------------------
(* Assembly. *)

OfKind(kind, project) == {r \in plans : r.kind = kind /\ r.project = project}
Children(kind, r) == {c \in OfKind(kind, r.project) : c.parent = r}
InOrder(children) == {c.order : c \in children} = 0 .. Cardinality(children) - 1
Total(children) == MapThenSumSet(LAMBDA c : c.ms, children)

NumbersOnly(kind, r) == InOrder(Children(kind, r))

\* The children of a record are numbered and take its time.
Fills(kind, r) == InOrder(Children(kind, r)) /\ r.ms = Total(Children(kind, r))

ClosedPlan(context, p) ==
    LET held == Held(context, "claim_evidence") IN
    /\ p.claims \cup p.evidence \subseteq held
    /\ p.caps \subseteq Held(context, "template_capability")
    /\ p.handoff \subseteq Held(context, "continuity")
    /\ \A b \in p.briefs : b \in plans /\ b.parent = p.parent /\ b.evidence \subseteq held

Chapters(project) == UNION {Children("chapter_brief", o) : o \in OfKind("outline", project)}
Beats(project) == UNION {Children("narrative_beat", c) : c \in Chapters(project)}
Sequences(project) == UNION {Children("sequence_plan", b) : b \in Beats(project)}

AssemblyRows(project, context) ==
    LET outlines == OfKind("outline", project)
        chapters == Chapters(project)
        beats == Beats(project) IN
    << <<~(context \subseteq snapshots) \/ {s.kind : s \in context} # ContextKinds
         \/ \E s \in context : s.project # project, "PLANNER_ASSEMBLY_SNAPSHOT_INVALID">>,
       <<Cardinality(outlines) # 1, "PLANNER_ASSEMBLY_OUTLINE_INVALID">>,
       <<~InOrder(chapters) \/ \E o \in outlines : o.chapters # Cardinality(chapters),
            "PLANNER_ASSEMBLY_ORDER_INVALID">>,
       <<\E c \in chapters : ~Fills("narrative_beat", c), "PLANNER_ASSEMBLY_BEAT_INVALID">>,
       <<\E b \in beats : ~Fills("sequence_plan", b), "PLANNER_ASSEMBLY_SEQUENCE_INVALID">>,
       <<\E p \in Sequences(project) : ~ClosedPlan(context, p), "PLANNER_ASSEMBLY_CLOSURE_INVALID">> >>

\* In the order of chapters, then of beats, then of their own.
Sooner(p, q) ==
    LET b == p.parent
        c == q.parent IN
    \/ b.parent.order < c.parent.order
    \/ b.parent = c.parent /\ b.order < c.order
    \/ b = c /\ p.order < q.order

\* The plans, each after those that come sooner.
Ordered(project) ==
    LET sequences == Sequences(project) IN
    [n \in 1 .. Cardinality(sequences) |->
        CHOOSE p \in sequences : Cardinality({q \in sequences : Sooner(q, p)}) = n - 1]

Assemble(project) ==
    /\ \E context \in kSubset(4, snapshots) :
          /\ FirstFault(AssemblyRows(project, context)) = Fine
          /\ requests' = requests \cup
                {[project |-> project, context |-> context, sequence |-> Ordered(project)]}
    /\ UNCHANGED <<planning, plans, snapshots, states, planTasks, planResponses, planner>>

PlannerStep(i) ==
    \/ Submit(i) \/ PutProposed(i) \/ AllProposed(i)
    \/ RecordResponse(i) \/ PutTerminal(i) \/ PlannerStops(i)

PlanningNext ==
    \/ \E topic \in planning.topics : CreatePlanTask(topic) \/ Assemble(topic.project)
    \/ \E t \in planTasks :
          RepairPlanTask(t) \/ \E a \in Advances : RevisePlanTask(t, a[2])
    \/ \E i \in planning.planners : PlannerStep(i)
    \/ \E r \in Briefs : PutBrief(r)
    \/ \E s \in {x \in States : x.project \in planning.surveys} : PutContinuity(s)
    \/ \E project \in planning.surveys, kind \in ContextKinds : TakeSnapshot(kind, project)

\* The planner reads the claim store and does not write it.
PlannerNext ==
    \/ planning = None /\ ResearchNext /\ UNCHANGED planVars
    \/ planning # None /\ PlanningNext /\ UNCHANGED researchVars

PlannerSpec == PlannerInit /\ [][PlannerNext]_<<researchVars, planVars>>

-----------------------------------------------------------------------------
(* Properties. *)

\* Every record hangs on its parent and on its predecessor, in its project.
Hierarchy(records) ==
    \A r \in records :
        /\ r.parent # None => r.parent \in records /\ r.parent.project = r.project
        /\ r.prior # None => r.prior \in records /\ r.prior.kind = r.kind
HierarchyHolds == Hierarchy(plans)

\* A task is accepted with a response whose records are all stored, and cite
\* only what its context held.
AcceptedPlansAreStored ==
    \A t \in planTasks : t.status = "accepted" =>
        \E r \in planResponses :
            /\ r.task = t.supersedes /\ Range(r.payload.items) \subseteq plans
            /\ \A p \in Range(r.payload.items) :
                  p.claims \cup p.evidence \subseteq Held(t.logical.context, "claim_evidence")

\* A request names plans of one outline that fill its chapters, and whatever
\* they cite loads from the claim store, down to the captured text.
RestsOnEvidence(q) ==
    LET used == Range(q.sequence)
        beats == {p.parent : p \in used}
        chapters == {b.parent : b \in beats} IN
    /\ Cardinality({c.parent : c \in chapters}) = 1
    /\ Total(used) = Total(chapters)
    /\ \A p \in used :
          /\ \A x \in p.claims : ClaimLoads(rows, x) /\ x.project = q.project
          /\ \A x \in p.evidence \cup UNION {b.evidence : b \in p.briefs} : FactLoads(rows, x)
RequestsRestOnEvidence == \A q \in requests : RestsOnEvidence(q)

PlansHold == HierarchyHolds /\ AcceptedPlansAreStored /\ RequestsRestOnEvidence

PlanTask(t) ==
    t = [logical |-> t.logical, type |-> t.type, status |-> t.status, attempt |-> t.attempt,
         supersedes |-> t.supersedes]

\* The ids of claims and of facts are told apart: a claim has facts.
IsClaim(x) == "facts" \in DOMAIN x
NamesClaims(r) == (\A x \in r.claims : IsClaim(x)) /\ \A x \in r.evidence : ~IsClaim(x)

Proposes(type) ==
    \A items \in Proposals[type] :
        items \in Seq(Range(items)) /\ \A n \in DOMAIN items : NamesClaims(items[n])

\* A snapshot of claims that were in the store.
SoundSnapshot(store, s) ==
    s.kind = "claim_evidence" =>
        \E claims \in SUBSET Bodies(store, "claim") :
            /\ s.holds = Evidence(claims)
            /\ \A c \in claims : ClaimLoads(store, c) /\ c.project = s.project

\* Records that have been put with what the policy asks of them.
SoundPlans(records) ==
    /\ IsFiniteSet(records) /\ Hierarchy(records)
    /\ \A r \in records : FirstFault(PolicyRows(r)) = Fine /\ NamesClaims(r)

\* A behaviour starts from sound stores with no task accepted, and only an answer
\* that is submitted makes an accepted revision: callers make the others.
ASSUME PlanningAssumption ==
    /\ Policy.least \in Nat /\ Policy.most \in Nat
    /\ \A a \in Advances : a[2] # "accepted"
    /\ \A r \in Briefs : NamesClaims(r)
    /\ \A p \in Plannings :
          /\ SoundStore(p.rows) /\ SoundPlans(p.plans) /\ p.planners \subseteq Planners
          /\ \A c \in Bodies(p.rows, "claim") : IsClaim(c)
          /\ \A f \in Bodies(p.rows, "fact") : ~IsClaim(f)
          /\ \A s \in p.snapshots : SoundSnapshot(p.rows, s)
          /\ \A topic \in p.topics : Proposes(topic.type)
          /\ \A t \in p.planTasks : PlanTask(t) /\ t.status # "accepted" /\ Proposes(t.type)
=============================================================================
