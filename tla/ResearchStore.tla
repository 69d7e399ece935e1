---------------------------- MODULE ResearchStore ---------------------------
(***************************************************************************)
(* Research: what a captured source is worth, and then the store that      *)
(* responses are imported into.                                            *)
(*                                                                         *)
(* The research protocol: task revisions (research/gateway.py) and the     *)
(* claim store (research/store.py), a SQLite file that several importers   *)
(* use.  A task is created, packaged, answered; the answer is imported     *)
(* record by record, each in a transaction of its own, and an importer may *)
(* stop between any two.  A record is its content: the id is a hash.       *)
(* One policy snapshot per project.                                        *)
(***************************************************************************)
EXTENDS Refusals, FiniteSetsExt, SequencesExt

-----------------------------------------------------------------------------
(* What a source package that somebody captured is worth as evidence:      *)
(* the replay adapters, the treatment planner and the primary source gate  *)
(* of acquisition/source_engine.py.  A text is a sequence of words, one of *)
(* which the package may point at; "" is no word and no snapshot.          *)

CONSTANTS Adapters   \* the adapters of the registry

\* What is done with a package of each access status.
Fallbacks ==
    [accessible              |-> "no_fallback",
     text_found              |-> "no_fallback",
     snapshot_available      |-> "snapshot_evidence",
     challenge_detected      |-> "manual_capture_package",
     paywall_detected        |-> "manual_capture_package",
     cookie_wall_detected    |-> "manual_capture_package",
     authentication_required |-> "manual_capture_package",
     manual_capture_required |-> "manual_capture_package",
     text_not_found          |-> "text_only_evidence",
     unavailable             |-> "block_planner"]

Blocked(status) ==
    status \in {"challenge_detected", "paywall_detected", "cookie_wall_detected",
                "authentication_required"}

Usable == {"accessible", "text_found", "snapshot_available"}

\* A region: [path, text, fits], fits where it is a box inside the page.
Paths(regions) == {regions[i].path : i \in DOMAIN regions}

CaptureRows(p) ==
    << <<p.adapter \notin Adapters, "ADAPTER_UNAVAILABLE">>,
       <<p.wrong # {}, "SOURCE_PACKAGE_INVALID">>,
       <<\/ \E i \in DOMAIN p.regions : ~p.regions[i].fits
         \/ Cardinality(Paths(p.regions)) # Len(p.regions), "SOURCE_PACKAGE_INVALID">>,
       <<Blocked(p.access) /\ p.snapshot # "", "CHALLENGE_SNAPSHOT_FORBIDDEN">>,
       <<Fallbacks[p.access] = "snapshot_evidence" /\ p.snapshot = "", "SNAPSHOT_REQUIRED">> >>

Occurrences(text, word) == Cardinality({i \in DOMAIN text : text[i] = word})

\* The first region of that text, wherever else it stands.
FirstTarget(p) ==
    LET found == {i \in DOMAIN p.regions : p.regions[i].text = p.target} IN
    IF p.target = "" \/ found = {} THEN "" ELSE p.regions[Min(found)].path

\* The region the package points at: its text stands once in the document and
\* in one region.
Target(p) ==
    LET found == {i \in DOMAIN p.regions : p.regions[i].text = p.target} IN
    IF p.target # "" /\ Occurrences(p.text, p.target) = 1 /\ Cardinality(found) = 1
    THEN p.regions[Min(found)].path
    ELSE ""

\* The capture plan: an accessible page without its target is only text.
PlanOf(p) ==
    LET missing  == Fallbacks[p.access] = "no_fallback" /\ Target(p) = ""
        fallback == IF missing THEN "text_only_evidence" ELSE Fallbacks[p.access]
        crops    == IF fallback \in {"no_fallback", "snapshot_evidence"} THEN p.regions ELSE << >> IN
    [package |-> p, access |-> IF missing THEN "text_not_found" ELSE p.access,
     fallback |-> fallback, crops |-> crops,
     focus |-> IF crops = << >> THEN "" ELSE Target(p)]

\* What may be shown of a plan, all of it or the regions asked for.
TreatmentRows(plan, asked) ==
    LET shown == IF asked = << >> THEN plan.crops ELSE asked IN
    << <<Blocked(plan.access), "CHALLENGE_CANNOT_RENDER">>,
       <<plan.fallback = "block_planner", "PLANNER_BLOCKED">> >>
    \o IF plan.fallback \in {"text_only_evidence", "manual_capture_package"} THEN << >>
       ELSE << <<shown = << >> \/ \E i \in DOMAIN shown : ~shown[i].fits, "EVIDENCE_REGION_REQUIRED">>,
               <<Cardinality(Paths(shown)) # Len(shown), "EVIDENCE_REGION_DUPLICATE">>,
               <<\E i \in DOMAIN shown : \A j \in DOMAIN plan.crops : plan.crops[j] # shown[i],
                    "EVIDENCE_REGION_UNVERIFIED">> >>

\* The planner goes on when every source type the policy demands is there.
GateIsOpen(mandatory, plans) ==
    mandatory \subseteq
        {plan.package.type : plan \in {q \in plans :
             q.access \in Usable /\ q.fallback \in {"no_fallback", "snapshot_evidence"}}}

-----------------------------------------------------------------------------
(* The research protocol: task revisions (research/gateway.py) and the     *)
(* claim store (research/store.py), a SQLite file that several importers   *)
(* use.  A task is created, packaged, answered; the answer is imported     *)
(* record by record, each in a transaction of its own, and an importer may *)
(* stop between any two.  A record is its content: the id is a hash.       *)
(* One policy snapshot per project.                                        *)

CONSTANTS
    Importers,
    Agendas,     \* [topics, compares, importers, rows]: the logical tasks of a
                 \* behaviour, each a [name, type, project], whether it compares
                 \* claims, who imports, and the records it starts with
    Answered,    \* the statuses of the tasks that callers import responses for
    Packages,    \* captured source packages
    Results,     \* of each task type, what a response may contain: sequences of items
    Advances,    \* <<from, to>>: the revisions callers make
    Kinds        \* contradiction kinds the policy allows

VARIABLES
    agenda,      \* [topics, compares, importers] of the behaviour
    rows,        \* phase9_records: [kind, project, body]
    responses,   \* phase9_responses: [task, payload, accepted]
    importer,    \* of each importer: [step, task, payload, next, known, edges]
    taken        \* <<task, payload>> of every import that returned

researchVars == <<agenda, rows, responses, importer, taken>>

Free == [step |-> "idle", task |-> None, payload |-> None, next |-> 1, known |-> {}, edges |-> {}]

ResearchInit ==
    /\ \E a \in Agendas :
          /\ agenda = [topics |-> a.topics, compares |-> a.compares, importers |-> a.importers]
          /\ rows = a.rows
    /\ responses = {} /\ taken = {}
    /\ importer = [i \in Importers |-> Free]

-----------------------------------------------------------------------------
(* Records. *)

Bodies(store, kind) == {r.body : r \in {q \in store : q.kind = kind}}
Stored(kind) == Bodies(rows, kind)
Has(kind, body) == body \in Stored(kind)

\* _put: a record that is there stays, under the project that brought it.
With(kind, project, body) ==
    IF Has(kind, body) THEN rows ELSE rows \cup {[kind |-> kind, project |-> project, body |-> body]}

\* source(): the plan it was captured with is there.
SourceLoads(store, s) ==
    /\ s \in Bodies(store, "source") /\ s.plan \in Bodies(store, "source_capture_plan")
    /\ s.plan.package.url = s.url

FactLoads(store, f) == f \in Bodies(store, "fact") /\ SourceLoads(store, f.source)

ClaimLoads(store, c) ==
    /\ c \in Bodies(store, "claim")
    /\ \A f \in c.facts \cup c.against :
          FactLoads(store, f) /\ f.project = c.project /\ f.source.project = c.project

\* export_jsonl reads every record again with what it refers to.
Exports(store, r) ==
    CASE r.kind = "source" -> SourceLoads(store, r.body)
      [] r.kind = "fact" -> FactLoads(store, r.body)
      [] r.kind = "claim" -> ClaimLoads(store, r.body)
      [] r.kind = "claim_source_edge" ->
            ClaimLoads(store, r.body.claim) /\ FactLoads(store, r.body.fact)
      [] r.kind = "contradiction" ->
            /\ ClaimLoads(store, r.body.left) /\ ClaimLoads(store, r.body.right)
            /\ r.body.left.project = r.body.right.project
      [] r.kind = "chronology" -> ClaimLoads(store, r.body.claim)
      [] OTHER -> TRUE

-----------------------------------------------------------------------------
(* Task revisions. *)

\* [topic, type, status, attempt, parent, supersedes, prompt]; prompt is "pack"
\* when it is the one of the domain pack.
NewTask(topic) ==
    [topic |-> topic, type |-> topic.type, status |-> "created", attempt |-> 0,
     parent |-> None, supersedes |-> None, prompt |-> "pack"]

RepairOf(t) ==
    [t EXCEPT !.type = "repair", !.status = "created", !.attempt = @ + 1,
              !.parent = t, !.supersedes = None, !.prompt = "repair"]

Revision(t, status) == [t EXCEPT !.status = status, !.supersedes = t]

\* What may follow a status.
After ==
    [created            |-> {"package_ready", "superseded"},
     package_ready      |-> {"response_submitted", "superseded"},
     response_submitted |-> {"accepted", "rejected", "superseded"},
     rejected           |-> {"package_ready", "superseded"},
     accepted           |-> {},
     superseded         |-> {}]

\* put_task.
TaskRows(t) ==
    IF t.supersedes # None
    THEN << <<~Has("task", t.supersedes), "TASK_UNKNOWN">>,
            <<\/ t.status \notin After[t.supersedes.status]
              \/ <<t.topic, t.type, t.prompt>> #
                 <<t.supersedes.topic, t.supersedes.type, t.supersedes.prompt>>,
                 "TASK_TRANSITION_INVALID">> >>
    ELSE IF t.parent # None
    THEN << <<~Has("task", t.parent), "TASK_UNKNOWN">>,
            <<\/ t.type # "repair" \/ t.parent.status # "rejected"
              \/ t.attempt # t.parent.attempt + 1 \/ t.topic.project # t.parent.topic.project,
                 "REPAIR_PARENT_INVALID">> >>
    ELSE << <<t.status # "created" \/ t.attempt # 0, "TASK_INITIAL_STATE_INVALID">> >>

PutTask(t) ==
    /\ FirstFault(TaskRows(t)) = Fine
    /\ rows' = With("task", t.topic.project, t)

CreateTask(topic) ==
    PutTask(NewTask(topic)) /\ UNCHANGED <<responses, importer, taken>>

\* revise_task asks the pack for the prompt again, so the revision of a repair
\* task, whose prompt is its own, is refused.
ReviseTask(t, status) ==
    /\ t.prompt = "pack" /\ <<t.status, status>> \in Advances
    /\ PutTask(Revision(t, status))
    /\ UNCHANGED <<responses, importer, taken>>

\* RepairTaskBuilder.
RepairTask(t) ==
    PutTask(RepairOf(t)) /\ UNCHANGED <<responses, importer, taken>>

-----------------------------------------------------------------------------
(* What a response may say. *)

Garbage == [task |-> None, items |-> << >>]
Payloads(t) == {Garbage} \cup {[task |-> t, items |-> x] : x \in Results[t.topic.type]}

\* _stored_task, response() and discovery(): before the first record.
ImportRows(t, payload) ==
    << <<t.type = "repair", "RESULT_IMPORT_TASK_TYPE_INVALID">>,
       <<~Has("task", t) \/ t.status # "response_submitted", "TASK_RESPONSE_BINDING_INVALID">>,
       <<payload.task # t, "RESPONSE_BINDING_INVALID">>,
       <<t.type = "source_discovery" /\
            Cardinality({payload.items[n].url : n \in DOMAIN payload.items}) # Len(payload.items),
            "DISCOVERY_RESULT_INVALID">> >>

\* An extracted item: [source, from, to, text].  The source is taken as known.
SpanRowsAnySource(t, x) ==
    << <<x.from >= x.to \/ x.to > Len(x.source.text), "SOURCE_SPAN_INVALID">>,
       <<SubSeq(x.source.text, x.from + 1, x.to) # x.text, "SOURCE_SPAN_INVALID">> >>

\* Its span is the text, from a source of the project.
SpanRows(t, x) ==
    << <<~SourceLoads(rows, x.source), "SOURCE_UNKNOWN">>,
       <<x.source.project # t.topic.project, "SOURCE_LINEAGE_INVALID">>,
       <<x.from >= x.to \/ x.to > Len(x.source.text), "SOURCE_SPAN_INVALID">>,
       <<SubSeq(x.source.text, x.from + 1, x.to) # x.text, "SOURCE_SPAN_INVALID">> >>

FactOf(t, x) ==
    [project |-> t.topic.project, task |-> t, source |-> x.source, from |-> x.from, to |-> x.to]

\* A proposed claim: [type, status, cites, against, start, end]; it cites words,
\* which the caller's facts have to quote.
Quoting(known, words) == {f \in known : SubSeq(f.source.text, f.from + 1, f.to) \in words}
Quotes(known) == {SubSeq(f.source.text, f.from + 1, f.to) : f \in known}

\* The facts the caller holds are taken at their word.
ClaimRowsAsKnown(t, x, known) ==
    << <<x.cites = {} \/ x.cites \cap x.against # {}, "CLAIM_FACT_REFERENCE_INVALID">>,
       <<~(x.cites \cup x.against \subseteq Quotes(known)), "CLAIM_FACT_REFERENCE_INVALID">> >>

ClaimRows(t, x, known) ==
    << <<x.cites = {} \/ x.cites \cap x.against # {}, "CLAIM_FACT_REFERENCE_INVALID">>,
       <<~(x.cites \cup x.against \subseteq Quotes(known)), "CLAIM_FACT_REFERENCE_INVALID">>,
       <<\E f \in Quoting(known, x.cites \cup x.against) : ~FactLoads(rows, f), "FACT_UNKNOWN">>,
       <<\E f \in Quoting(known, x.cites \cup x.against) : f.project # t.topic.project,
            "SOURCE_LINEAGE_INVALID">>,
       <<x.start # None /\ x.end # None /\ x.start.day > x.end.day, "CLAIM_TIME_INVALID">> >>

ClaimOf(t, x, known) ==
    [project |-> t.topic.project, task |-> t, type |-> x.type, status |-> x.status,
     facts |-> Quoting(known, x.cites), against |-> Quoting(known, x.against), start |-> x.start]

EdgesOf(c) ==
    {[claim |-> c, fact |-> f, relation |-> "supports"] : f \in c.facts}
    \cup {[claim |-> c, fact |-> f, relation |-> "contradicts"] : f \in c.against}

-----------------------------------------------------------------------------
(* Importing a response. *)

At(i, step) == importer[i].step = step
Goes(i, step) == importer' = [importer EXCEPT ![i].step = step]
Frees(i) == importer' = [importer EXCEPT ![i] = Free]
TaskOf(i) == importer[i].task
Item(i) == importer[i].payload.items[importer[i].next]

\* The facts a caller may believe to have from an extraction, stored or not.
Believed(t) ==
    {FactOf(t, x) : x \in {y \in UNION {Range(items) : items \in Results["source_extraction"]} :
                             y.to <= Len(y.source.text)
                             /\ SubSeq(y.source.text, y.from + 1, y.to) = y.text}}

\* LLMResultImporter.import_result: a refusal is put on record.
StartImport(i) ==
    /\ At(i, "idle")
    /\ \E t \in {q \in Stored("task") : q.topic \in agenda.topics /\ q.status \in Answered} : \E payload \in Payloads(t) :
       \E known \in {{}} \cup {Believed(q) : q \in
                     {q \in Stored("task") : q.type = "source_extraction" /\ q.status = "response_submitted"}} :
          /\ known # {} => t.type = "claim_normalization"
          /\ importer' = [importer EXCEPT ![i] =
                [Free EXCEPT !.task = t, !.payload = payload, !.known = known,
                    !.step = IF FirstFault(ImportRows(t, payload)) # Fine THEN "reject"
                             ELSE IF t.type = "source_discovery" THEN "accept"
                             ELSE "put"]]
    /\ UNCHANGED <<rows, responses, taken>>

\* The next record, or a refusal that leaves the earlier ones behind.
PutCandidate(i) ==
    /\ TaskOf(i).type = "source_discovery"
    /\ rows' = With("candidate", TaskOf(i).topic.project, [url |-> Item(i).url])
    /\ importer' = [importer EXCEPT ![i].next = @ + 1]

PutFact(i) ==
    /\ TaskOf(i).type = "source_extraction"
    /\ IF FirstFault(SpanRows(TaskOf(i), Item(i))) # Fine
       THEN Goes(i, "reject") /\ UNCHANGED rows
       ELSE /\ rows' = With("fact", TaskOf(i).topic.project, FactOf(TaskOf(i), Item(i)))
            /\ importer' = [importer EXCEPT ![i].next = @ + 1]

PutClaim(i) ==
    LET claim == ClaimOf(TaskOf(i), Item(i), importer[i].known) IN
    /\ TaskOf(i).type = "claim_normalization"
    /\ IF FirstFault(ClaimRows(TaskOf(i), Item(i), importer[i].known)) # Fine
       THEN Goes(i, "reject") /\ UNCHANGED rows
       ELSE /\ rows' = With("claim", TaskOf(i).topic.project, claim)
            /\ importer' = [importer EXCEPT ![i].next = @ + 1, ![i].edges = EdgesOf(claim)]

PutRecord(i) ==
    /\ At(i, "put") /\ importer[i].edges = {}
    /\ importer[i].next <= Len(importer[i].payload.items)
    /\ PutCandidate(i) \/ PutFact(i) \/ PutClaim(i)
    /\ UNCHANGED <<responses, taken>>

PutEdge(i) ==
    /\ At(i, "put")
    /\ \E e \in importer[i].edges :
          /\ rows' = With("claim_source_edge", TaskOf(i).topic.project, e)
          /\ importer' = [importer EXCEPT ![i].edges = @ \ {e}]
    /\ UNCHANGED <<responses, taken>>

\* A discovery has been accepted by now and is done; the others are accepted.
AllPut(i) ==
    /\ At(i, "put") /\ importer[i].edges = {}
    /\ importer[i].next > Len(importer[i].payload.items)
    /\ IF TaskOf(i).type = "source_discovery"
       THEN Frees(i) /\ taken' = taken \cup {<<TaskOf(i), importer[i].payload>>}
       ELSE Goes(i, "accept") /\ UNCHANGED taken
    /\ UNCHANGED <<rows, responses>>

\* _put_response looks for another accepted response and then inserts its own
\* unless one of its keys is taken: the payload, or the one accepted response.
Accept(i) ==
    /\ At(i, "accept")
    /\ Goes(i, IF \E r \in responses : r.task = TaskOf(i) /\ r.accepted /\ r.payload # importer[i].payload
               THEN "reject" ELSE "record")
    /\ UNCHANGED <<rows, responses, taken>>

Ignored(t, payload, accepted) ==
    \E r \in responses : r.task = t /\ (r.payload = payload \/ (accepted /\ r.accepted))

RecordedOnce(t, payload, accepted) ==
    IF \E r \in responses : r.task = t /\ r.payload = payload THEN responses
    ELSE responses \cup {[task |-> t, payload |-> payload, accepted |-> accepted]}

Recorded(t, payload, accepted) ==
    IF Ignored(t, payload, accepted) THEN responses
    ELSE responses \cup {[task |-> t, payload |-> payload, accepted |-> accepted]}

RecordAccepted(i) ==
    /\ At(i, "record")
    /\ responses' = Recorded(TaskOf(i), importer[i].payload, TRUE)
    /\ Goes(i, "terminal")
    /\ UNCHANGED <<rows, taken>>

\* The accepted revision of the task, and what remains to be done.
PutAccepted(i) ==
    /\ At(i, "terminal")
    /\ PutTask(Revision(TaskOf(i), "accepted"))
    /\ IF TaskOf(i).type = "source_discovery"
       THEN Goes(i, "put") /\ UNCHANGED taken
       ELSE Frees(i) /\ taken' = taken \cup {<<TaskOf(i), importer[i].payload>>}
    /\ UNCHANGED responses

RecordRejected(i) ==
    /\ At(i, "reject")
    /\ responses' = Recorded(TaskOf(i), importer[i].payload, FALSE)
    /\ Goes(i, "rejected")
    /\ UNCHANGED <<rows, taken>>

\* The rejected revision, where the status of the task permits one.
PutRejected(i) ==
    /\ At(i, "rejected")
    /\ \/ PutTask(Revision(TaskOf(i), "rejected"))
       \/ FirstFault(TaskRows(Revision(TaskOf(i), "rejected"))) # Fine /\ UNCHANGED rows
    /\ Frees(i)
    /\ UNCHANGED <<responses, taken>>

-----------------------------------------------------------------------------
(* Capturing a source. *)

BindingRows(project, url, p) ==
    << <<~\E r \in rows : r.kind = "candidate" /\ r.body.url = url /\ r.project = project,
            "SOURCE_CAPTURE_BINDING_INVALID">>,
       <<p.url # url, "SOURCE_CAPTURE_BINDING_INVALID">> >>
    \o CaptureRows(p)
    \o << <<PlanOf(p).access \notin Usable \/ p.text = << >>, "SOURCE_CAPTURE_UNUSABLE">> >>

SourceOf(project, p) == [project |-> project, url |-> p.url, plan |-> PlanOf(p), text |-> p.text]

\* bind_capture: first the plan, then the source.
BindCapture(i) ==
    /\ At(i, "idle")
    /\ \E c \in Stored("candidate"), p \in Packages, project \in {topic.project : topic \in agenda.topics} :
          /\ FirstFault(BindingRows(project, c.url, p)) = Fine
          /\ rows' = With("source_capture_plan", project, PlanOf(p))
          /\ importer' = [importer EXCEPT ![i] =
                [Free EXCEPT !.step = "source", !.payload = SourceOf(project, p)]]
    /\ UNCHANGED <<responses, taken>>

PutSource(i) ==
    /\ At(i, "source")
    /\ rows' = With("source", importer[i].payload.project, importer[i].payload)
    /\ Frees(i)
    /\ UNCHANGED <<responses, taken>>

-----------------------------------------------------------------------------
(* Comparing claims. *)

Clash(c, d) ==
    /\ c # d /\ c.type = d.type
    /\ c.status # d.status \/ c.facts \cap d.against # {} \/ d.facts \cap c.against # {}

\* A pair is recorded once, as the ids of its claims order it.
ContradictionOf(pair) ==
    LET c == CHOOSE x \in pair : TRUE
        d == CHOOSE x \in pair : x # c IN
    [left |-> c, right |-> d, kind |-> IF c.status # d.status THEN "status_conflict" ELSE "value_conflict"]

\* persist_contradictions over claims of one project; a kind the policy does not
\* allow ends it, and so may the process, with the earlier ones recorded.
Contradict(claims) ==
    LET found == {ContradictionOf({pair[1], pair[2]}) :
                     pair \in {cd \in claims \X claims : Clash(cd[1], cd[2])}} IN
    /\ \A c \in claims : ClaimLoads(rows, c)
    /\ Cardinality({c.project : c \in claims}) <= 1
    /\ \E done \in SUBSET {x \in found : x.kind \in Kinds} :
          rows' = rows \cup {[kind |-> "contradiction", project |-> x.left.project, body |-> x] : x \in done}
    /\ UNCHANGED <<responses, importer, taken>>

\* persist_chronology: dated claims in order of their day, then the undated.
Chronicle(claims) ==
    LET before(c, d) == c.start # None /\ (d.start = None \/ c.start.day < d.start.day)
        orders == {o \in SetToSeqs(claims) :
                     \A m, n \in DOMAIN o : before(o[m], o[n]) => m < n} IN
    /\ \A c \in claims : ClaimLoads(rows, c)
    /\ \E order \in orders : \E done \in 0 .. Len(order) :
          rows' = rows \cup {[kind |-> "chronology", project |-> order[n].project,
                              body |-> [claim |-> order[n], ordinal |-> n - 1]] : n \in 1 .. done}
    /\ UNCHANGED <<responses, importer, taken>>

\* An importer dies, or loses a race for a row and raises.
ImporterStops(i) == ~At(i, "idle") /\ Frees(i) /\ UNCHANGED <<rows, responses, taken>>

ImporterStep(i) ==
    \/ StartImport(i) \/ PutRecord(i) \/ PutEdge(i) \/ AllPut(i)
    \/ Accept(i) \/ RecordAccepted(i) \/ PutAccepted(i) \/ RecordRejected(i) \/ PutRejected(i)
    \/ BindCapture(i) \/ PutSource(i) \/ ImporterStops(i)

ResearchNext ==
    /\ UNCHANGED agenda
    /\ \/ \E topic \in agenda.topics : CreateTask(topic)
       \/ \E t \in Stored("task") :
             RepairTask(t) \/ \E a \in Advances : ReviseTask(t, a[2])
       \/ \E i \in agenda.importers : ImporterStep(i)
       \/ /\ agenda.compares
          /\ \E claims \in SUBSET Stored("claim") : Contradict(claims) \/ Chronicle(claims)

ResearchSpec == ResearchInit /\ [][ResearchNext]_researchVars

-----------------------------------------------------------------------------
(* Properties. *)

\* Every record loads with all it refers to, down to the captured text.
LineageHolds == \A r \in rows : Exports(rows, r)

\* A source is words somebody found: its plan is of a page that could be read,
\* and the place it points at is the only one with that text.
WordsFound(s) ==
    /\ s.plan.access \in Usable /\ s.text = s.plan.package.text
    /\ s.plan.access # "snapshot_available" => Occurrences(s.text, s.plan.package.target) = 1

\* What the primary source gate counts can be shown, and only regions of a page
\* that was read are.
ShownWhereRead(plan) ==
    /\ GateIsOpen({plan.package.type}, {plan}) /\ plan.crops # << >> =>
          FirstFault(TreatmentRows(plan, << >>)) = Fine
    /\ \A r \in UNION {Range(p.regions) : p \in Packages} :
          FirstFault(TreatmentRows(plan, <<r>>)) = Fine /\ plan.fallback # "text_only_evidence" =>
              plan.access \in Usable /\ r \in Range(plan.package.regions)

EvidenceIn(store) ==
    /\ \A s \in Bodies(store, "source") : WordsFound(s)
    /\ \A plan \in Bodies(store, "source_capture_plan") : ShownWhereRead(plan)
SourcesAreEvidence == EvidenceIn(rows)

\* What the items of a response are worth when they are all stored.
AllStored(t, payload) ==
    \A n \in DOMAIN payload.items :
        LET x == payload.items[n] IN
        CASE t.type = "source_discovery" -> Has("candidate", [url |-> x.url])
          [] t.type = "source_extraction" -> Has("fact", FactOf(t, x))
          [] OTHER -> \E c \in Stored("claim") :
                /\ c.task = t /\ c.type = x.type /\ c.status = x.status /\ Quotes(c.facts) = x.cites
                /\ EdgesOf(c) \subseteq Stored("claim_source_edge")

\* An import that returned left all its records and an accepted task, and an
\* accepted extraction or normalization is stored as a whole, whoever stopped.
AcceptedIsWhole ==
    /\ \A x \in taken : AllStored(x[1], x[2]) /\ Has("task", Revision(x[1], "accepted"))
    /\ \A r \in responses : r.accepted /\ r.task.type # "source_discovery" => AllStored(r.task, r.payload)

\* A task has one accepted response on record.
OneOnRecord ==
    \A r, q \in responses : r.accepted /\ q.accepted /\ r.task = q.task => r = q

\* What a store that has been worked with before holds.
SoundStore(store) ==
    /\ IsFiniteSet(store)
    /\ (\A r \in store : Exports(store, r)) /\ EvidenceIn(store)
    /\ \A f \in Bodies(store, "fact") : f.source.project = f.project

\* A response answers a task with a sequence of items.
ASSUME AgendaAssumption ==
    \A a \in Agendas :
        /\ SoundStore(a.rows) /\ a.importers \subseteq Importers
        /\ \A topic \in a.topics : \A items \in Results[topic.type] : items \in Seq(Range(items))

ResearchHolds == LineageHolds /\ SourcesAreEvidence /\ AcceptedIsWhole /\ OneOnRecord

\* No two responses of a task are taken.
OneResponseTaken ==
    \A x, y \in taken : x[1] = y[1] => x = y
=============================================================================
