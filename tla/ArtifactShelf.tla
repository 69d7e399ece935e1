---------------------------- MODULE ArtifactShelf ----------------------------
(***************************************************************************)
(* The artifact registry and the trash of engine/lifecycle.py, with the    *)
(* renders of storage_manager.py and rendering/lifecycle_adapter.py that   *)
(* fill them.  One process renders and registers (the registry is read and *)
(* then appended to; nothing excludes a second writer), while any number of*)
(* keepers plan, trash and restore.  A file is a pair of a place, the shelf*)
(* or the trash of one plan, and an artifact id: an artifact has one       *)
(* content.                                                                *)
(***************************************************************************)
EXTENDS Refusals, SequencesExt, FiniteSetsExt

CONSTANTS
    Keepers,
    Catalog,       \* of each row, in the order of their ids: [id, project, deps, size,
                   \* kept]; kept when it is locked,
                   \* pinned, approved or of a protected retention class
    Renders,       \* [full, committed, estimate, rows]: what a run delivers
    Roots,         \* root_ids of every plan
    Instants,      \* as_of of a plan
    HardLimit,     \* of the pressure policy
    MaxShelfFaults,\* bound on operations that fail and deaths
    MaxRuns,       \* bound on renders
    MaxTrashed     \* bound on the files in the trash when a plan is executed

\* The place of a file: <<as_of, registered rows>> of a plan, or the shelf.
Shelf == <<0, {}>>

VARIABLES
    registry,     \* the rows of the registry file, in order
    files,        \* what is on disk
    receipts,     \* rows of trash-receipts.jsonl
    cached,       \* previews that are in the cache
    render,       \* the rendering process: [step, run, pending, runs]
    keeper,       \* of each keeper: [step, plan, moved, receipt]
    shelfFaults,  \* file operations that have failed, and deaths
    abandoned     \* TRUE once a keeper has died at work

shelfVars == <<registry, files, receipts, cached, render, keeper, shelfFaults, abandoned>>

Resting == [step |-> "idle", plan |-> Shelf, moved |-> << >>, receipt |-> None]

ShelfInit ==
    /\ registry = << >> /\ files = {} /\ receipts = {} /\ cached = {}
    /\ render = [step |-> "idle", run |-> None, pending |-> {}, runs |-> 0]
    /\ keeper = [k \in Keepers |-> Resting]
    /\ shelfFaults = 0 /\ abandoned = FALSE

OnShelf(id) == <<Shelf, id>> \in files
Id(r) == Catalog[r].id
Deps(r) == Catalog[r].deps
IdsOf(rows) == {Id(r) : r \in rows}
Registered == Range(registry)

Fails == shelfFaults < MaxShelfFaults /\ shelfFaults' = shelfFaults + 1

-----------------------------------------------------------------------------
(* The registry. *)

\* registry_snapshot: every id once, dependencies in the same project, and no
\* cycle, that is no set of rows each of which needs one of the set.
SnapshotRows(rows) ==
    << <<Cardinality(IdsOf(rows)) # Cardinality(rows), "ARTIFACT_REGISTRY_DUPLICATE">>,
       <<\E r \in rows : \E d \in Deps(r) :
            ~\E q \in rows : Id(q) = d /\ Catalog[q].project = Catalog[r].project,
            "ARTIFACT_REGISTRY_DEPENDENCY_INVALID">>,
       <<\E S \in (SUBSET rows) \ {{}} : \A r \in S : Deps(r) \cap IdsOf(S) # {},
            "ARTIFACT_REGISTRY_CYCLE">> >>

RegistryLoads ==
    /\ Len(registry) = Cardinality(Registered)
    /\ FirstFault(SnapshotRows(Registered)) = Fine

\* append_registry_records, before its first append: a known id must be the
\* same record, and old and new rows must hang together.
BatchRows(rows) ==
    << <<~RegistryLoads, "ARTIFACT_REGISTRY_PERSIST_INVALID">>,
       <<\E r \in rows, q \in rows \cup Registered : Id(r) = Id(q) /\ r # q,
            "ARTIFACT_REGISTRY_IDENTITY_CONFLICT">> >>
    \o SnapshotRows(rows \cup Registered)

\* Any record.
ReadyAnyway(r) == TRUE

\* A record whose dependencies are all registered.
Ready(r) == Deps(r) \subseteq IdsOf(Registered)

-----------------------------------------------------------------------------
(* Rendering. *)

SizeOf(id) == Catalog[CHOOSE r \in DOMAIN Catalog : Id(r) = id].size
Bytes(these) == MapThenSumSet(LAMBDA f : SizeOf(f[2]), these)
Used == Bytes(files)

\* The disk is measured and the estimate forgotten.
AdmittedByUse(x) == Used <= HardLimit

\* storage_pressure_admission; other users of the disk decide whether the
\* minimum of free bytes remains.
Admitted(x) == Used + x.estimate <= HardLimit

Idle == render.step = "idle"
RenderEnds == render' = [render EXCEPT !.step = "idle", !.run = None, !.pending = {}]

\* run_full_with_lifecycle, and run_phase4_preview_cached when the cache has
\* no entry.
StartRender(x) ==
    /\ Idle /\ Admitted(x) /\ ~(~x.full /\ x \in cached)
    /\ render.runs < MaxRuns
    /\ render' = [render EXCEPT !.step = "running", !.run = x, !.runs = @ + 1]
    /\ UNCHANGED <<registry, files, receipts, cached, keeper, shelfFaults, abandoned>>

\* The runner writes its artifacts, whether or not it then succeeds.
RunRender ==
    /\ render.step = "running"
    /\ files' = files \cup ({Shelf} \X IdsOf(render.run.rows))
    /\ render' = [render EXCEPT !.step = "import"]
    /\ UNCHANGED <<registry, receipts, cached, keeper, shelfFaults, abandoned>>

\* A FULL run is registered when its transaction has the commit marker (its
\* rows have no dependencies), a preview when it succeeded.
ImportRows ==
    /\ render.step = "import"
    /\ LET rows == render.run.rows IN
       IF render.run.committed /\ FirstFault(BatchRows(rows)) = Fine
       THEN render' = [render EXCEPT !.step = "append", !.pending = rows \ Registered]
       ELSE RenderEnds
    /\ UNCHANGED <<registry, files, receipts, cached, keeper, shelfFaults, abandoned>>

\* One durable append at a time, dependencies first; the file is loaded again
\* before each.  An append that raises may have landed.
AppendRow ==
    /\ render.step = "append"
    /\ \E r \in render.pending :
        /\ Ready(r)
        /\ IF ~RegistryLoads \/ Id(r) \in IdsOf(Registered)
           THEN RenderEnds /\ UNCHANGED <<registry, shelfFaults>>
           ELSE \/ /\ registry' = Append(registry, r)
                   /\ render' = [render EXCEPT !.pending = @ \ {r}]
                   /\ UNCHANGED shelfFaults
                \/ /\ registry' \in {registry, Append(registry, r)}
                   /\ RenderEnds
                   /\ Fails
    /\ UNCHANGED <<files, receipts, cached, keeper, abandoned>>

\* The cache entry of a preview comes last.
FinishRender ==
    /\ render.step = "append" /\ render.pending = {}
    /\ cached' = IF render.run.full THEN cached ELSE cached \cup {render.run}
    /\ RenderEnds
    /\ UNCHANGED <<registry, files, receipts, keeper, shelfFaults, abandoned>>

RendererDies ==
    /\ ~Idle
    /\ RenderEnds
    /\ Fails
    /\ UNCHANGED <<registry, files, receipts, cached, keeper, abandoned>>

-----------------------------------------------------------------------------
(* The trash. *)

\* One round only.
ProtectOnce(rows) == Roots \cup UNION {Deps(r) : r \in {q \in rows : Id(q) \in Roots}}

\* The protection of the roots spreads to dependencies, round after round.
Protect(rows) ==
    LET grown[n \in 0 .. Cardinality(rows)] ==
            IF n = 0 THEN Roots
            ELSE LET before == grown[n - 1] IN
                 before \cup UNION {Deps(r) : r \in {q \in rows : Id(q) \in before}}
    IN grown[Cardinality(rows)]

\* The candidates of plan_deletion.
Candidates(plan) ==
    LET protected == Protect(plan[2]) IN
    {Id(r) : r \in {q \in plan[2] : Id(q) \notin protected /\ ~Catalog[q].kept}}

\* The rows of a keeper's candidates that are still to be moved, and the first
\* of them: they go in the order of their ids.
Waiting(k) ==
    LET left == Candidates(keeper[k].plan) \ Range(keeper[k].moved) IN
    {r \in keeper[k].plan[2] : Id(r) \in left}
NextInLine(k) == LET rows == Waiting(k) IN CHOOSE r \in rows : \A q \in rows : r <= q

Is(k, step) == keeper[k].step = step
Keeps(k, values) == keeper' = [keeper EXCEPT ![k] = values]

MakePlan(k) ==
    /\ Is(k, "idle") /\ RegistryLoads
    /\ \E asOf \in Instants :
          Keeps(k, [Resting EXCEPT !.step = "planned", !.plan = <<asOf, Registered>>])
    /\ UNCHANGED <<registry, files, receipts, cached, render, shelfFaults, abandoned>>

\* validate_deletion_plan against the registry as it is now; then every
\* candidate must be in place and none in the trash of this plan.
CheckPlan(k) ==
    LET plan == keeper[k].plan IN
    /\ Is(k, "planned")
    /\ Cardinality({f \in files : f[1] # Shelf}) <= MaxTrashed
    /\ IF /\ RegistryLoads /\ plan[2] = Registered
          /\ \A id \in Candidates(plan) : OnShelf(id) /\ <<plan, id>> \notin files
       THEN Keeps(k, [keeper[k] EXCEPT !.step = "moving"])
       ELSE Keeps(k, Resting)
    /\ UNCHANGED <<registry, files, receipts, cached, render, shelfFaults, abandoned>>

Move(id, from, to) == files' = (files \ {<<from, id>>}) \cup {<<to, id>>}

\* os.replace raises when the source is gone, or for no reason of ours.
MoveNext(k) ==
    LET plan == keeper[k].plan
        id == Id(NextInLine(k)) IN
    /\ Is(k, "moving") /\ Waiting(k) # {}
    /\ \/ /\ OnShelf(id) /\ Move(id, Shelf, plan)
          /\ Keeps(k, [keeper[k] EXCEPT !.moved = Append(@, id)])
          /\ UNCHANGED shelfFaults
       \/ /\ Keeps(k, [keeper[k] EXCEPT !.step = "undoing"])
          /\ IF OnShelf(id) THEN Fails ELSE UNCHANGED shelfFaults
          /\ UNCHANGED files
    /\ UNCHANGED <<registry, receipts, cached, render, abandoned>>

\* _append_receipt, which may land and raise all the same.
WriteReceipt(k) ==
    LET receipt == [plan |-> keeper[k].plan, moved |-> keeper[k].moved] IN
    /\ Is(k, "moving") /\ Waiting(k) = {}
    /\ \/ /\ receipts' = receipts \cup {receipt}
          /\ Keeps(k, Resting)
          /\ UNCHANGED shelfFaults
       \/ /\ receipts' \in {receipts, receipts \cup {receipt}}
          /\ Keeps(k, [keeper[k] EXCEPT !.step = "undoing"])
          /\ Fails
    /\ UNCHANGED <<registry, files, cached, render, abandoned>>

\* What this call has moved is taken for lost.
GiveUp(k) ==
    /\ Is(k, "undoing")
    /\ Keeps(k, Resting)
    /\ UNCHANGED <<registry, files, receipts, cached, render, shelfFaults, abandoned>>

\* What this call has moved goes back, last first, unless something is there.
UndoMove(k) ==
    LET plan == keeper[k].plan
        moved == keeper[k].moved IN
    /\ Is(k, "undoing")
    /\ IF moved = << >>
       THEN Keeps(k, Resting) /\ UNCHANGED files
       ELSE /\ IF <<plan, Last(moved)>> \in files /\ ~OnShelf(Last(moved))
               THEN Move(Last(moved), plan, Shelf) ELSE UNCHANGED files
            /\ Keeps(k, [keeper[k] EXCEPT !.moved = Front(moved)])
    /\ UNCHANGED <<registry, receipts, cached, render, shelfFaults, abandoned>>

StartRestore(k) ==
    /\ Is(k, "idle")
    /\ \E receipt \in receipts :
          Keeps(k, [Resting EXCEPT !.step = "restoring", !.receipt = receipt])
    /\ UNCHANGED <<registry, files, receipts, cached, render, shelfFaults, abandoned>>

\* File by file; one that cannot be restored ends it, and what has been
\* restored stays.
RestoreNext(k) ==
    LET receipt == keeper[k].receipt
        n == Len(keeper[k].moved) + 1 IN
    /\ Is(k, "restoring")
    /\ \/ /\ n > Len(receipt.moved) /\ Keeps(k, Resting) /\ UNCHANGED <<files, shelfFaults>>
       \/ /\ n <= Len(receipt.moved)
          /\ LET id == receipt.moved[n]
                 can == <<receipt.plan, id>> \in files /\ ~OnShelf(id) IN
             \/ /\ can /\ Move(id, receipt.plan, Shelf)
                /\ Keeps(k, [keeper[k] EXCEPT !.moved = Append(@, id)])
                /\ UNCHANGED shelfFaults
             \/ /\ Keeps(k, Resting)
                /\ IF can THEN Fails ELSE UNCHANGED shelfFaults
                /\ UNCHANGED files
    /\ UNCHANGED <<registry, receipts, cached, render, abandoned>>

KeeperDies(k) ==
    /\ ~Is(k, "idle")
    /\ Keeps(k, Resting)
    /\ abandoned' = (abandoned \/ keeper[k].step \in {"moving", "undoing"})
    /\ Fails
    /\ UNCHANGED <<registry, files, receipts, cached, render>>

ShelfNext ==
    \/ \E x \in Renders : StartRender(x)
    \/ RunRender \/ ImportRows \/ AppendRow \/ FinishRender \/ RendererDies
    \/ \E k \in Keepers :
          \/ MakePlan(k) \/ CheckPlan(k) \/ MoveNext(k) \/ WriteReceipt(k) \/ UndoMove(k)
          \/ StartRestore(k) \/ RestoreNext(k) \/ KeeperDies(k)

ShelfSpec == ShelfInit /\ [][ShelfNext]_shelfVars

-----------------------------------------------------------------------------
(* Properties. *)

\* Whatever append failed and wherever the renderer died, the next reader can
\* load the registry, and every preview of the cache has its artifacts in it.
RegistryHolds ==
    /\ RegistryLoads
    /\ \A x \in cached : x.rows \subseteq Registered

\* "Restore only entries moved in this call": when everybody is done, every
\* artifact that was ever written is on the shelf, or in the trash under a
\* receipt that names it, unless a keeper has died over it.
TrashIsOnRecord ==
    ~abandoned /\ (\A k \in Keepers : Is(k, "idle")) =>
        \A id \in {f[2] : f \in files} :
            \/ OnShelf(id)
            \/ \E receipt \in receipts :
                  id \in Range(receipt.moved) /\ <<receipt.plan, id>> \in files

\* Nothing that a root needs, over any number of steps, and nothing that is
\* kept is in the trash of a plan, by what was registered when it was made:
\* some set with the roots and all that its members need leaves it out.
ProtectedStays ==
    \A plan \in {f[1] : f \in files} \ {Shelf} :
        LET gone == {f[2] : f \in {g \in files : g[1] = plan}} IN
        /\ \E S \in SUBSET (IdsOf(plan[2]) \ gone) :
              /\ Roots \cap IdsOf(plan[2]) \subseteq S
              /\ \A r \in plan[2] : Id(r) \in S => Deps(r) \subseteq S
        /\ \A r \in plan[2] : Id(r) \in gone => ~Catalog[r].kept

\* The managed directory never holds more than the hard limit, trash included,
\* when renders keep to their estimate and come one at a time.
WithinLimit == Used <= HardLimit
=============================================================================
