------------------------- MODULE WorkspaceMigration -------------------------
(***************************************************************************)
(* The migration command: a V2 source is mapped to a V3 workspace, the     *)
(* workspace is validated, and the outcome is written to a directory in    *)
(* several files (migration/v2_to_v3.py, io.py, cli.py).  Every step of a  *)
(* call reads the domain packs again, every write may fail, and the        *)
(* process may die between two of them; calls may follow one another over  *)
(* one directory.  A loader (contracts/workspace.py) may be asked about    *)
(* any workspace instead.                                                  *)
(***************************************************************************)
EXTENDS V2Timeline

CONSTANTS
    Workspaces,   \* the workspaces the loader is asked about
    Calls,        \* the calls: [source, request], and of a request
                  \* [mode, resolution, domain, profile, overwrite]
    Again,        \* bound: those that may follow one another over a directory
    Packs,        \* what the domain packs may hold: domain -> policy
    MaxCalls,     \* bound: calls in a behaviour
    MaxEdits      \* bound: edits of the packs

ASSUME BoundsAssumption == MaxCalls \in Nat /\ MaxEdits \in Nat /\ Again \subseteq Calls
\* `fits' is the answer of the schema, which is external.
ASSUME WorkspacesAssumption == \A w \in Workspaces : w.fits => FitsSchema(w)

VARIABLES
    packs,    \* the packs on disk
    edits,    \* how often they were edited
    past,     \* the calls so far
    verdict,  \* what the loader said: [workspace, issues], or Nothing
    stage,    \* of the current call
    call,     \* its source and options
    mapped,   \* what migrate made: [rows, workspace, fatal]
    outcome,  \* the MigrationOutcome: [workspace, status, call]
    todo,     \* the files still to be written
    disk,     \* file -> the outcome it was written for, or Nothing
    litter,   \* hidden files a dead process left: the candidate, temporary ones
    torn      \* the last call to write files died while it did

vars == <<packs, edits, past, verdict, stage, call, mapped, outcome, todo, disk, litter, torn>>

Files == {"workspace", "result", "report", "summary"}
Stages == {"idle", "called", "mapped", "judged", "candidate", "writing"}

Init ==
    /\ packs \in Packs
    /\ edits = 0 /\ past = <<>> /\ verdict = Nothing /\ stage = "idle"
    /\ call = Nothing /\ mapped = Nothing /\ outcome = Nothing
    /\ todo = <<>> /\ disk = [f \in Files |-> Nothing] /\ litter = {}
    /\ torn = FALSE

-----------------------------------------------------------------------------

\* The registry a loader is given for a resolution mode.
RegistryFor(resolution) == IF resolution = "domain_pack" THEN packs ELSE Nothing

\* WorkspaceLoader.load of any workspace, with or without a registry.
Load ==
    /\ stage = "idle" /\ past = <<>> /\ verdict = Nothing
    /\ \E w \in Workspaces, resolution \in {"core_only", "domain_pack"} :
        verdict' = [workspace |-> PartsOf(w), registry |-> RegistryFor(resolution),
                    issues |-> LoadIssues(w, RegistryFor(resolution))]
    /\ UNCHANGED <<packs, edits, past, stage, call, mapped, outcome, todo, disk, litter, torn>>

\* Somebody edits a policy bundle while a call has still to read it.
EditPack ==
    /\ stage \in {"called", "mapped", "judged", "candidate"} /\ edits < MaxEdits
    /\ packs' \in Packs \ {packs}
    /\ edits' = edits + 1
    /\ UNCHANGED <<past, verdict, stage, call, mapped, outcome, todo, disk, litter, torn>>

\* migrate_file reads the source.
Call ==
    /\ stage = "idle" /\ verdict = Nothing /\ Len(past) < MaxCalls
    /\ Elements(past) \subseteq Again
    /\ call' \in (IF past = <<>> THEN Calls ELSE Again)
    /\ past' = Append(past, call')
    /\ stage' = "called"
    /\ UNCHANGED <<packs, edits, verdict, mapped, outcome, todo, disk, litter, torn>>

-----------------------------------------------------------------------------
(* migrate.                                                                *)

CoreDomain == <<"core-generic", "0.0.0">>
CoreProfile == [id |-> "dpf_core_migrated", domain |-> CoreDomain]
CoreSnapshot ==
    SnapshotOf([profile |-> CoreProfile.id, domain |-> CoreDomain, policy |-> "none"])

DomainOf(profile, snapshot, resolution) ==
    [mode |-> resolution, domain |-> profile.domain, profileId |-> profile.id,
     profile |-> profile, snapshotId |-> snapshot.id, snapshot |-> snapshot,
     referenced |-> snapshot]

\* _domain: the pack asked for is resolved for the profile given; both have to
\* be given.
ResolvedDomain(request, registry) ==
    IF request.resolution = "core_only" THEN DomainOf(CoreProfile, CoreSnapshot, "core_only")
    ELSE IF request.domain = Nothing \/ request.profile = Nothing THEN Nothing
    ELSE LET snapshot == Resolved(registry, request.domain, request.profile) IN
         IF snapshot = Nothing THEN Nothing
         ELSE DomainOf(request.profile, snapshot, "domain_pack")

HasErrors(rows) == \E n \in DOMAIN rows : rows[n].error

\* migrate, up to its validation: the source is mapped whether or not a value
\* of it is in error; a colliding identity is an error of its own.
MapSource ==
    /\ stage = "called"
    /\ LET source == call.source
           d == ResolvedDomain(call.request, packs)
           rows == Kept(RowsOf(source, d # Nothing))
           built == d # Nothing /\ source.blocks # <<>> IN
       mapped' = [rows |-> rows,
                  workspace |-> IF built THEN WorkspaceOf(source, "project", d) ELSE Nothing,
                  wrong |-> HasErrors(rows) \/ (built /\ Collides(source))]
    /\ stage' = "mapped"
    /\ UNCHANGED <<packs, edits, past, verdict, call, outcome, todo, disk, litter, torn>>

\* A workspace without errors so far is validated, against the packs as
\* they are by now.
TargetIssuesNow ==
    IF mapped.workspace = Nothing \/ mapped.wrong THEN {}
    ELSE DataIssues(mapped.workspace, RegistryFor(call.request.resolution))

Blocking(mode) ==
    IF mode = "strict" THEN Errors \cup {"DROPPED", "UNSUPPORTED"} ELSE Errors

Lossy(rows) ==
    \E n \in DOMAIN rows :
        rows[n].class \in {"DEFAULTED", "DROPPED", "UNSUPPORTED", "AMBIGUOUS", "INVALID_SOURCE"}

\* _outcome: what is in error or not allowed by the mode has no workspace.
Failed(issues) ==
    \/ mapped.workspace = Nothing \/ mapped.wrong \/ issues # {}
    \/ \E n \in DOMAIN mapped.rows : mapped.rows[n].class \in Blocking(call.request.mode)

Judge ==
    /\ stage = "mapped"
    /\ LET failed == Failed(TargetIssuesNow) IN
       outcome' = [call |-> call,
                   workspace |-> IF failed THEN Nothing ELSE mapped.workspace,
                   status |-> IF failed THEN "FAILED"
                              ELSE IF Lossy(mapped.rows) THEN "SUCCESS_WITH_LOSS"
                              ELSE "SUCCESS"]
    /\ stage' = "judged"
    /\ UNCHANGED <<packs, edits, past, verdict, call, mapped, todo, disk, litter, torn>>

-----------------------------------------------------------------------------
(* write_outcome.                                                          *)

EndCall == stage' = "idle" /\ call' = Nothing /\ mapped' = Nothing /\ outcome' = Nothing
           /\ todo' = <<>>

Occupied == litter # {} \/ \E f \in Files : disk[f] # Nothing

\* A directory that is not empty needs an explicit overwrite; otherwise a
\* workspace is written as a candidate first, and the workspace that an
\* outcome without one would contradict is removed.
Open ==
    /\ stage = "judged"
    /\ IF Occupied /\ ~call.request.overwrite THEN EndCall /\ UNCHANGED disk
       ELSE /\ IF outcome.workspace = Nothing
               THEN /\ stage' = "writing"
                    /\ todo' = <<"result", "report", "summary">>
                    /\ disk' = [disk EXCEPT !["workspace"] = Nothing]
               ELSE stage' = "candidate" /\ UNCHANGED <<todo, disk>>
            /\ UNCHANGED <<call, mapped, outcome>>
    /\ UNCHANGED <<packs, edits, past, verdict, litter, torn>>

\* The candidate is written, loaded, once more against the packs, and removed,
\* in any case; or it cannot be written.
CheckCandidate ==
    /\ stage = "candidate"
    /\ \/ /\ LoadIssues(outcome.workspace, RegistryFor(call.request.resolution)) = {}
          /\ stage' = "writing"
          /\ todo' = <<"workspace", "result", "report", "summary">>
          /\ UNCHANGED <<call, mapped, outcome>>
       \/ EndCall
    /\ litter' = litter \ {"candidate"}
    /\ UNCHANGED <<packs, edits, past, verdict, disk, torn>>

\* _atomic_write of the next file.
WriteNext ==
    /\ stage = "writing"
    /\ disk' = [disk EXCEPT ![Head(todo)] = outcome]
    /\ IF Len(todo) = 1 THEN EndCall /\ torn' = FALSE
       ELSE todo' = Tail(todo) /\ UNCHANGED <<stage, call, mapped, outcome, torn>>
    /\ UNCHANGED <<packs, edits, past, verdict, litter>>

\* WriteFails, when what was written is left.
WriteFailsLeaving ==
    /\ stage = "writing" /\ EndCall
    /\ UNCHANGED <<packs, edits, past, verdict, disk, litter, torn>>

\* A write fails: the workspace, of this call or an earlier one, is removed.
WriteFails ==
    /\ stage = "writing"
    /\ disk' = IF outcome.workspace = Nothing THEN disk ELSE [disk EXCEPT !["workspace"] = Nothing]
    /\ EndCall
    /\ UNCHANGED <<packs, edits, past, verdict, litter, torn>>

\* Nothing is cleaned up when the process dies, not even the file it may be
\* about to load or to rename.
Crash ==
    /\ stage # "idle" /\ EndCall
    /\ torn' = (torn \/ (stage = "writing" /\ Len(todo) < 4))
    /\ \/ UNCHANGED litter
       \/ stage = "candidate" /\ litter' = litter \cup {"candidate"}
       \/ stage = "writing" /\ litter' = litter \cup {"temporary"}
    /\ UNCHANGED <<packs, edits, past, verdict, disk>>

Next ==
    \/ Load \/ EditPack \/ Call \/ MapSource \/ Judge
    \/ Open \/ CheckCandidate \/ WriteNext \/ WriteFails \/ Crash

Spec == Init /\ [][Next]_vars

-----------------------------------------------------------------------------
(* Properties.                                                             *)

\* The dependencies of artifacts have an order.
Ordered(artifacts) ==
    \E rank \in [Ids(artifacts) -> 1 .. Len(artifacts)] :
        \A i \in DOMAIN artifacts : \A d \in Elements(artifacts[i].deps) :
            d \in Ids(artifacts) /\ rank[d] < rank[artifacts[i].id]

\* The policy of a workspace loaded with packs is what they say.
PolicyIsOfPack(w, registry) ==
    w.domain.mode = "domain_pack" =>
        /\ w.domain.domain \in DOMAIN registry
        /\ w.domain.snapshot.body.policy = registry[w.domain.domain]
        /\ w.domain.snapshot.body.domain = w.domain.profile.domain

\* A workspace the loader accepts (load, validate_data) is a tree of chapters,
\* beats and sequences, whichever of the two directions its lists disagree
\* in; its artifacts can be built in some order; and its policy is the one of
\* the pack it names.
AcceptedIsATree ==
    (verdict # Nothing /\ verdict.issues = {}) =>
        /\ IsTree(verdict.workspace)
        /\ Ordered(verdict.workspace.artifacts)
        /\ PolicyIsOfPack(verdict.workspace, verdict.registry)

\* What migrate makes of a source without errors passes every rule of the loader
\* on references, hierarchy, ownership and domains (_validate_consistency), as
\* long as no pack was edited; what the schema does not take for its names or
\* its origins is refused and never written, so that in what is written no
\* claim belongs to two sequences.
MigratedIsAccepted ==
    /\ (stage = "judged" /\ edits = 0 /\ mapped.workspace # Nothing /\ ~mapped.wrong)
        => DataIssues(mapped.workspace, RegistryFor(call.request.resolution)) \subseteq
               (IF SchemaTakes(call.source) THEN {} ELSE {"SCHEMA_VALIDATION"})
    /\ (stage = "candidate" /\ edits = 0)
        => LoadIssues(outcome.workspace, RegistryFor(call.request.resolution)) = {}
    /\ (stage \in {"judged", "candidate", "writing"} /\ outcome.workspace # Nothing)
        => LET sequences == outcome.workspace.sequences IN
           \A i, k \in DOMAIN sequences : i # k => sequences[i].claims \cap sequences[k].claims = {}

\* When a workspace is published every value of the source is in exactly one
\* mapping (account, _account_remaining), and each mapping's destination is in
\* the workspace and belongs to the block or visual it was mapped from
\* (_workspace, _visual), although blocks and visuals may be left out.
DestinationsHold ==
    (stage = "judged" /\ outcome.workspace # Nothing) =>
        /\ AccountsForAll(call.source, mapped.rows)
        /\ \A n \in DOMAIN mapped.rows :
              DestinationIsThere(call.source, outcome.workspace, mapped.rows[n])

\* Between calls a workspace in the directory is there together with the
\* result, report and summary of the same outcome (write_outcome), whatever
\* failed, unless a process died while it was writing.
OutputAgrees ==
    (stage = "idle" /\ ~torn /\ disk["workspace"] # Nothing) =>
        \A f \in Files : disk[f] = disk["workspace"]
=============================================================================
