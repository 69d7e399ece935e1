----------------------------- MODULE MCManualWork -----------------------------
(* One page with two words, and what may be asked and said of it.           *)
EXTENDS ManualWork, TLC

-----------------------------------------------------------------------------
(* Research: a task of each type, and claims to compare.                   *)

Page ==
    [type |-> "company_filing", adapter |-> "html", url |-> "u1", access |-> "accessible",
     text |-> <<"sales", "fell">>, target |-> "sales", snapshot |-> "", wrong |-> {},
     regions |-> <<[path |-> "body", text |-> "sales", fits |-> TRUE]>>]

MCPackages ==
    {Page, [Page EXCEPT !.text = <<"sales", "sales">>],
     [Page EXCEPT !.access = "paywall_detected"], [Page EXCEPT !.access = "snapshot_available"]}

Quoted(from, to, text) == [source |-> SourceOf("p", Page), from |-> from, to |-> to, text |-> text]

Stated(status, cites) ==
    [type |-> "metric", status |-> status, cites |-> cites, against |-> {}, start |-> None,
     end |-> None]

Dated(claim, day) == [claim EXCEPT !.start = [day |-> day]]

MCResults ==
    [source_discovery |-> {<<[url |-> "u1"]>>, <<[url |-> "u1"], [url |-> "u2"]>>},
     source_extraction |->
        {<<Quoted(0, 1, <<"sales">>)>>,
         <<Quoted(1, 2, <<"fell">>), Quoted(0, 1, <<"fell">>)>>},
     claim_normalization |->
        {<<Stated("reported", {<<"sales">>})>>, <<Dated(Stated("contested", {<<"fell">>}), 1)>>}]

Topic(type) == [name |-> 1, type |-> type, project |-> "p"]
Submitted(type) ==
    Revision(Revision(NewTask(Topic(type)), "package_ready"), "response_submitted")
Waiting(type) ==
    LET t == Submitted(type) IN {t, t.supersedes, t.supersedes.supersedes}
RowsOf(kind, bodies) == {[kind |-> kind, project |-> "p", body |-> b] : b \in bodies}

Found == RowsOf("candidate", {[url |-> "u1"]})
Captured ==
    Found \cup RowsOf("source_capture_plan", {PlanOf(Page)})
    \cup RowsOf("source", {SourceOf("p", Page)})
Facts ==
    {[project |-> "p", task |-> Submitted("source_extraction"), source |-> SourceOf("p", Page),
      from |-> n - 1, to |-> n] : n \in 1 .. 2}
Extracted == Captured \cup RowsOf("fact", Facts)
Claims ==
    {ClaimOf(Submitted("claim_normalization"), x, Facts) :
        x \in {Stated("reported", {<<"sales">>}), Dated(Stated("contested", {<<"fell">>}), 1),
               Stated("contested", {<<"sales">>})}}
Known == Extracted \cup RowsOf("claim", Claims)

Agenda(types, importers, initial) ==
    [topics |-> {Topic(type) : type \in types}, compares |-> FALSE, importers |-> importers,
     rows |-> initial]

MCAgendas ==
    {Agenda({"source_discovery"}, {"i1", "i2"}, {}),
     Agenda({"source_extraction"}, {"i1", "i2"},
        Found \cup RowsOf("task", Waiting("source_extraction"))),
     Agenda({"claim_normalization"}, {"i1"},
        Captured \cup RowsOf("fact", {f \in Facts : f.from = 0})
        \cup RowsOf("task", Waiting("source_extraction") \cup Waiting("claim_normalization"))),
     [Agenda({}, {}, Known) EXCEPT !.compares = TRUE]}

MCAdvances == {<<"created", "package_ready">>, <<"package_ready", "response_submitted">>}

-----------------------------------------------------------------------------
(* Planning.                                                               *)

Blank ==
    [kind |-> "outline", project |-> "p", parent |-> None, prior |-> None, version |-> 1,
     status |-> "accepted", order |-> 0, ms |-> 0, chapters |-> 1, claims |-> {},
     evidence |-> {}, caps |-> {}, briefs |-> {}, handoff |-> {}, shows |-> FALSE, odd |-> FALSE]

Child(kind, parent, order, ms, claims) ==
    [Blank EXCEPT !.kind = kind, !.parent = parent, !.order = order, !.ms = ms,
                  !.claims = claims]

Second == [Blank EXCEPT !.prior = Blank, !.version = 2]
Claim == CHOOSE c \in Claims : c.start # None
Cited == CHOOSE f \in Claim.facts : TRUE
Chapter == Child("chapter_brief", Blank, 0, 2, {Claim})
Beat(order, ms) == Child("narrative_beat", Chapter, order, ms, {Claim})
Brief == [Child("planner_asset_brief", Beat(0, 2), 0, 0, {}) EXCEPT !.shows = TRUE,
             !.evidence = {Cited}]
Plan(order, ms) ==
    [Child("sequence_plan", Beat(0, 2), order, ms, {Claim}) EXCEPT !.caps = {"cap"},
        !.briefs = {Brief}]

MCStates == {[number |-> n, project |-> "p"] : n \in 1 .. 3}
MCPolicy == [least |-> 1, most |-> 2, claims |-> 1, briefs |-> 1]

MCProposals ==
    [outline |-> {<<Blank>>, <<[Blank EXCEPT !.chapters = 0]>>, <<Second>>},
     narrative_beats |->
        {<<Beat(0, 1), Beat(1, 1)>>, <<Beat(0, 2), [Beat(1, 1) EXCEPT !.claims = {}]>>},
     sequence_plan |->
        {<<Plan(0, 2)>>, <<Plan(0, 1), [Plan(1, 1) EXCEPT !.handoff = MCStates]>>,
         <<[Plan(0, 2) EXCEPT !.claims = {CHOOSE c \in Claims : c # Claim}]>>}]

MCBriefs == {Brief, [Brief EXCEPT !.evidence = {}]}

Context(kinds) ==
    {[kind |-> k, project |-> "p",
      holds |-> CASE k = "claim_evidence" -> Evidence({Claim})
                  [] k = "asset_catalog" -> {"family"}
                  [] k = "template_capability" -> {"cap"}
                  [] k = "continuity" -> {}] : k \in kinds}

PlanTopic(type, parent) ==
    [type |-> type, project |-> "p", parent |-> parent, context |-> Context(RequiredContext[type])]

PlanSubmitted(topic) ==
    LET t == Revision(Revision(PlanTaskOf(topic), "package_ready"), "response_submitted") IN
    {t, t.supersedes, t.supersedes.supersedes}

Planning(topic, waiting, planned, initial) ==
    [topics |-> {topic}, surveys |-> {}, planners |-> {"p1"}, repairs |-> 0, rows |-> initial,
     plans |-> planned, planTasks |-> waiting, snapshots |-> topic.context]

OneClaim == Extracted \cup RowsOf("claim", {Claim})

\* An outline by two planners, an outline and its repair, beats, a plan and its assembly, and
\* the context of a whole outline.
MCPlannings ==
    LET outline == PlanTopic("outline", None)
        beats == PlanTopic("narrative_beats", Chapter)
        sequence == PlanTopic("sequence_plan", Beat(0, 2)) IN
    {[Planning(outline, {}, {}, {}) EXCEPT !.planners = {"p1", "p2"}],
     [Planning(outline, {}, {}, {}) EXCEPT !.repairs = 1],
     Planning(beats, PlanSubmitted(beats), {Blank, Chapter}, OneClaim),
     Planning(sequence, PlanSubmitted(sequence), {Blank, Chapter, Beat(0, 2)}, Known),
     [Planning(outline, {}, {Blank, Chapter, Beat(0, 2), Brief, Plan(0, 1), Plan(1, 1)}, OneClaim)
        EXCEPT !.surveys = {"p"}, !.planners = {}]}

-----------------------------------------------------------------------------
(* The Studio: two planner requests, which share their identity, and one    *)
(* response of each verdict.                                               *)

MCRequests == {"planner_a", "planner_b"}
MCIdentity == [q \in MCRequests |-> "outline"]
MCAccepts == [r \in Responses |-> r = "good"]

Symmetry == Permutations(Threads)
=============================================================================
