--------------------------- MODULE WorkspaceGraph ---------------------------
(***************************************************************************)
(* What the workspace loader (contracts/workspace.py) asks of a workspace  *)
(* once it fits the schema: the documents of a split workspace, the domain *)
(* it was resolved for, and that chapters, beats, sequences, assets,       *)
(* artifacts and tracks refer to each other.  It collects the codes of all *)
(* issues and accepts a workspace without any.  Lists of the workspace are *)
(* sequences of records with an `id'.                                      *)
(***************************************************************************)
EXTENDS Naturals, Sequences, FiniteSets

CONSTANT Nothing    \* a document or value that is not there

Elements(s) == {s[i] : i \in DOMAIN s}
IsList(s) == s \in Seq(Elements(s))
When(condition, code) == IF condition THEN {code} ELSE {}

Ids(items) == {items[i].id : i \in DOMAIN items}

\* _unique_index: the first item of an id is the one meant by it.
DuplicateIds(items) ==
    \E i, j \in DOMAIN items : i # j /\ items[i].id = items[j].id
Indexed(items, id) ==
    items[CHOOSE i \in DOMAIN items :
            items[i].id = id /\ \A j \in DOMAIN items : items[j].id = id => i <= j]

-----------------------------------------------------------------------------
(* The documents of a split workspace: each reference has an id, a path, a *)
(* kind, and under the path a content and, when that is whole, its value:  *)
(* a chapter, beat or sequence, the list of a manifest, or a document.     *)

DocumentKinds ==
    {"project", "domain_profile", "domain_policy_snapshot", "chapter", "beat", "sequence",
     "asset_manifest", "artifact_manifest", "research_manifest", "timing_manifest",
     "track_manifest"}

\* A reference is looked at unless its path leaves the workspace, or its path
\* or id was seen at an earlier one that was looked at.
LookedAt(documents) ==
    LET seen[i \in 0 .. Len(documents)] ==
            IF i = 0 THEN {}
            ELSE seen[i - 1] \cup
                 IF \/ documents[i].content = "outside"
                    \/ \E j \in seen[i - 1] : \/ documents[j].path = documents[i].path
                                              \/ documents[j].id = documents[i].id
                 THEN {} ELSE {i}
    IN seen[Len(documents)]

\* What the loader has of the documents it could read: whole ones only.
LoadedDocuments(documents) ==
    {i \in LookedAt(documents) : documents[i].content = "whole"}

DocumentIssues(documents) ==
    LET at == LookedAt(documents)
        Finds(content, code) == When(\E i \in at : documents[i].content = content, code) IN
    When(\E i \in DOMAIN documents : documents[i].content = "outside", "WORKSPACE_PATH_TRAVERSAL")
    \cup {IF \E j \in at : j < i /\ documents[j].path = documents[i].path
           THEN "WORKSPACE_DUPLICATE_DOCUMENT_PATH" ELSE "WORKSPACE_DUPLICATE_DOCUMENT_ID" :
              i \in {k \in DOMAIN documents \ at : documents[k].content # "outside"}}
    \cup Finds("unreadable", "WORKSPACE_DOCUMENT_READ_ERROR")
    \cup Finds("other manifest", "MANIFEST_KIND_MISMATCH")
    \cup Finds("invalid", "SCHEMA_VALIDATION")
    \cup When(DocumentKinds # {documents[i].kind : i \in at}, "WORKSPACE_MISSING_DOCUMENT_KIND")

-----------------------------------------------------------------------------
(* The domain: a workspace names a pack, a profile and a policy snapshot,  *)
(* and carries or references them.  A snapshot is [id, hash, body], where  *)
(* hash and id stand for digests of a body [profile, domain, policy]; a    *)
(* domain here is the pair of its id and version.  The registry maps the   *)
(* domains it has discovered to the policies that are on disk by now.      *)

SnapshotOf(body) == [id |-> body, hash |-> body, body |-> body]

\* DomainPackRegistry.get and DomainPolicyResolver.resolve: why there is no
\* snapshot for a domain and a profile, or the snapshot.
ResolutionIssues(registry, domain, profile) ==
    IF domain \notin DOMAIN registry THEN {"DOMAIN_UNKNOWN"}
    ELSE IF profile.domain # domain THEN {"DOMAIN_PROFILE_MISMATCH"}
    ELSE When(registry[domain] = "unreadable", "DOMAIN_POLICY_READ_ERROR")

Resolved(registry, domain, profile) ==
    IF ResolutionIssues(registry, domain, profile) # {} THEN Nothing
    ELSE SnapshotOf([profile |-> profile.id, domain |-> domain, policy |-> registry[domain]])

\* _validate_resolver_parity.
ParityIssues(d, registry) ==
    IF d.mode = "core_only" THEN {}
    ELSE IF registry = Nothing THEN {"DOMAIN_REGISTRY_REQUIRED"}
    ELSE IF ResolutionIssues(registry, d.domain, d.profile) # {}
    THEN ResolutionIssues(registry, d.domain, d.profile)
    ELSE When(Resolved(registry, d.domain, d.profile) # d.snapshot,
              "POLICY_SNAPSHOT_RESOLUTION_MISMATCH")

\* _load_snapshot_reference: the embedded snapshot of an aggregate, or else
\* what the file it names holds.
SnapshotReference(w) ==
    IF w.layout = "aggregate" /\ w.domain.snapshot # Nothing
    THEN w.domain.snapshot ELSE w.domain.referenced

DomainIssues(w, registry, referenced) ==
    LET d == w.domain
        project == w.header IN
    When(d.profile = Nothing, "DOMAIN_PROFILE_NOT_FOUND")
    \cup When(d.profile # Nothing /\ d.profile.id # d.profileId, "DOMAIN_PROFILE_ID_MISMATCH")
    \cup When(d.snapshot = Nothing, "POLICY_SNAPSHOT_NOT_FOUND")
    \cup When(/\ d.snapshot # Nothing /\ referenced # Nothing
              /\ d.snapshot # referenced, "POLICY_SNAPSHOT_RESOLUTION_MISMATCH")
    \cup (IF d.snapshot = Nothing \/ d.profile = Nothing THEN {}
          ELSE When(d.snapshot.body.profile # d.profile.id, "POLICY_SNAPSHOT_PROFILE_MISMATCH")
               \cup When(d.snapshot.body.domain[1] # d.domain[1],
                         "POLICY_SNAPSHOT_DOMAIN_MISMATCH")
               \cup When(d.snapshot.body.domain[2] # d.domain[2],
                         "POLICY_SNAPSHOT_PACK_VERSION_MISMATCH")
               \cup ParityIssues(d, registry))
    \cup (IF project = Nothing THEN {}
          ELSE When(project.id # w.project, "WORKSPACE_PROJECT_ID_MISMATCH")
               \cup When(project.domain[1] # d.domain[1], "WORKSPACE_DOMAIN_ID_MISMATCH")
               \cup When(project.domain[2] # d.domain[2], "WORKSPACE_PACK_VERSION_MISMATCH")
               \cup When(project.snapshot # d.snapshotId, "WORKSPACE_SNAPSHOT_ID_MISMATCH"))
    \cup When(\/ d.profile # Nothing /\ d.profile.domain # d.domain
              \/ d.snapshot # Nothing /\ d.snapshot.body.domain # d.domain,
              "WORKSPACE_DOMAIN_RESOLUTION_MISMATCH")
    \cup When(d.snapshot # Nothing /\ d.snapshot.id # d.snapshotId,
              "WORKSPACE_SNAPSHOT_ID_MISMATCH")
    \cup When(d.snapshot # Nothing /\ d.snapshot.hash # d.snapshot.body,
              "WORKSPACE_SNAPSHOT_HASH_MISMATCH")
    \cup When(d.snapshot # Nothing /\ d.snapshot.id # d.snapshot.body,
              "WORKSPACE_SNAPSHOT_ID_NOT_DETERMINISTIC")

-----------------------------------------------------------------------------
(* Chapters list beats and beats sequences; a beat names its chapter, a    *)
(* sequence its beat and chapter.  Both directions have to agree.          *)

Lists(items, id, field, member) ==
    id \in Ids(items) /\ member \in Elements(Indexed(items, id)[field])

ChapterIssue(w, c) ==
    \E b \in Elements(c.beats) :
        b \notin Ids(w.beats) \/ Indexed(w.beats, b).chapter # c.id

BeatIssue(w, b) == ~Lists(w.chapters, b.chapter, "beats", b.id)

\* BeatSequenceIssue, when the sequence's own word is not asked for.
BeatSequenceIssueOneSided(w, b) == \E s \in Elements(b.sequences) : s \notin Ids(w.sequences)

BeatSequenceIssue(w, b) ==
    \E s \in Elements(b.sequences) :
        \/ s \notin Ids(w.sequences)
        \/ Indexed(w.sequences, s).beat # b.id
        \/ Indexed(w.sequences, s).chapter # b.chapter

SequenceIssues(w, s) ==
    When(s.chapter \notin Ids(w.chapters), "SEQUENCE_CHAPTER_NOT_FOUND")
    \cup When(s.beat \notin Ids(w.beats), "SEQUENCE_BEAT_NOT_FOUND")
    \cup When(/\ s.chapter \in Ids(w.chapters) /\ s.beat \in Ids(w.beats)
              /\ \/ Indexed(w.beats, s.beat).chapter # s.chapter
                 \/ ~Lists(w.chapters, s.chapter, "beats", s.beat),
              "SEQUENCE_BEAT_CHAPTER_MISMATCH")
    \cup When(s.beat \in Ids(w.beats) /\ ~Lists(w.beats, s.beat, "sequences", s.id),
              "BEAT_SEQUENCE_MEMBERSHIP_MISMATCH")

\* _validate_hierarchy_integrity.
HierarchyIssues(w) ==
    When(\E c \in Elements(w.chapters) : ChapterIssue(w, c), "CHAPTER_BEAT_MEMBERSHIP_MISMATCH")
    \cup When(\E b \in Elements(w.beats) : BeatIssue(w, b), "CHAPTER_BEAT_MEMBERSHIP_MISMATCH")
    \cup When(\E b \in Elements(w.beats) : BeatSequenceIssue(w, b),
              "BEAT_SEQUENCE_MEMBERSHIP_MISMATCH")
    \cup UNION {SequenceIssues(w, s) : s \in Elements(w.sequences)}

-----------------------------------------------------------------------------
(* Tracks, events and their targets.  Events of the four groups are in one *)
(* list, each with its group.                                              *)

Compatible(group) ==
    CASE group = "edit" -> {"asset", "video_track", "base_shot"}
      [] group = "overlay" -> {"asset", "video_track", "overlay_track", "base_shot", "claim"}
      [] group = "text" -> {"asset", "overlay_track", "claim"}
      [] group = "audio" -> {"audio_track"}

TrackOfType(w, id, type) == id \in Ids(w.tracks) /\ Indexed(w.tracks, id).type = type

TargetExists(w, s, type, id) ==
    CASE type = "asset" -> id \in Ids(w.assets)
      [] type = "video_track" -> TrackOfType(w, id, "video")
      [] type = "audio_track" -> TrackOfType(w, id, "audio")
      [] type = "overlay_track" -> TrackOfType(w, id, "video")
                                   /\ Indexed(w.tracks, id).role = "overlay"
      [] type = "sequence" -> id \in Ids(w.sequences)
      [] type = "base_shot" -> id = s.id
      [] type = "claim" -> \E x \in Elements(w.sequences) : id \in x.claims

CoreTargetTypes ==
    {"asset", "video_track", "audio_track", "overlay_track", "sequence", "base_shot", "claim"}

\* A target type of a domain pack stands for the core type its snapshot
\* declares: w.declared.targets maps it there.
TargetIssues(w, s, e) ==
    LET type == IF e.type \in CoreTargetTypes THEN e.type
                ELSE IF e.type \in DOMAIN w.declared.targets THEN w.declared.targets[e.type]
                ELSE "" IN
    IF type = "" THEN {"EVENT_TARGET_TYPE_INVALID"}
    ELSE IF type \notin Compatible(e.group) THEN {"EVENT_TARGET_TYPE_MISMATCH"}
    ELSE When(~TargetExists(w, s, type, e.target), "EVENT_TARGET_NOT_FOUND")

\* A track of another type, for a base shot or an event.
RouteIssues(w, track, type, mismatch) ==
    IF track \notin Ids(w.tracks) THEN {"WORKSPACE_UNKNOWN_TRACK"}
    ELSE When(Indexed(w.tracks, track).type # type, mismatch)

\* An event type of a domain pack carries its namespace twice.
ExtensionIssues(w, x) ==
    IF x = Nothing THEN {}
    ELSE When(x.namespace # w.domain.domain[1] \/ x.given # x.namespace,
              "WORKSPACE_EVENT_NAMESPACE_MISMATCH")
         \cup When(x.name \notin w.declared.events, "WORKSPACE_UNDECLARED_DOMAIN_EVENT")

EventIssues(w, s, e) ==
    ExtensionIssues(w, e.extension)
    \cup RouteIssues(w, e.track, IF e.group = "audio" THEN "audio" ELSE "video",
                "EVENT_TRACK_TYPE_MISMATCH")
    \cup TargetIssues(w, s, e)

\* _validate_base_shot_track and _validate_duplicate_event_ids.
BaseShotIssues(w, s) == RouteIssues(w, s.shot.track, "video", "BASE_SHOT_TRACK_TYPE_MISMATCH")
EventIdIssues(s) == When(DuplicateIds(s.events), "DUPLICATE_EVENT_ID")

ShotIssues(w, s) ==
    When(s.shot.asset \notin Ids(w.assets), "WORKSPACE_UNKNOWN_ASSET")
    \cup BaseShotIssues(w, s)
    \cup When(~(Elements(s.tracks) \subseteq Ids(w.tracks)), "WORKSPACE_UNKNOWN_TRACK")
    \cup EventIdIssues(s)
    \cup UNION {EventIssues(w, s, e) : e \in Elements(s.events)}

-----------------------------------------------------------------------------
(* The artifact graph (contracts/artifacts.py).                            *)

\* visit: the artifacts that dependencies, but for those of an artifact on
\* itself, lead to.
Reaches(w, a) ==
    LET next(S) == UNION {(Elements(Indexed(w.artifacts, x).deps) \cap Ids(w.artifacts)) \ {x} :
                            x \in S}
        within[n \in 0 .. Len(w.artifacts)] ==
            IF n = 0 THEN next({a}) ELSE within[n - 1] \cup next(within[n - 1])
    IN within[Len(w.artifacts)]

ArtifactIssues(w) ==
    LET Some(test(_), code) == When(\E a \in Elements(w.artifacts) : test(a), code) IN
    When(DuplicateIds(w.artifacts), "ARTIFACT_DUPLICATE_ID")
    \cup Some(LAMBDA a : a.id \in Elements(a.deps), "ARTIFACT_SELF_DEPENDENCY")
    \cup Some(LAMBDA a : a.project # w.project, "ORPHAN_ARTIFACT")
    \cup Some(LAMBDA a : a.sequence # Nothing /\ a.sequence \notin Ids(w.sequences),
              "ORPHAN_ARTIFACT")
    \cup Some(LAMBDA a : a.output /\ a.deps = <<>>, "ORPHAN_OUTPUT")
    \cup Some(LAMBDA a : a.cleanup /\ a.protected, "ARTIFACT_PROTECTED_FROM_CLEANUP")
    \cup Some(LAMBDA a : ~(Elements(a.deps) \subseteq Ids(w.artifacts)),
              "ARTIFACT_MISSING_DEPENDENCY")
    \cup Some(LAMBDA a : a.id \in Reaches(w, a.id), "ARTIFACT_DEPENDENCY_CYCLE")

-----------------------------------------------------------------------------

\* Assets name artifacts, and these form a graph of their own.
AssetIssues(w) ==
    When(\E a \in Elements(w.assets) : a.artifact \notin Ids(w.artifacts),
         "WORKSPACE_UNKNOWN_ARTIFACT")
    \cup ArtifactIssues(w)

\* The ids of _validate_consistency, and all of it.
IdentityIssues(w) ==
    When(DuplicateIds(w.chapters), "DUPLICATE_CHAPTER_ID")
    \cup When(DuplicateIds(w.beats), "DUPLICATE_BEAT_ID")
    \cup When(DuplicateIds(w.sequences), "DUPLICATE_SEQUENCE_ID")
    \cup When(DuplicateIds(w.assets), "DUPLICATE_ASSET_ID")
    \cup When(DuplicateIds(w.artifacts), "DUPLICATE_ARTIFACT_ID")
    \cup When(DuplicateIds(w.tracks), "DUPLICATE_TRACK_ID")

GraphIssues(w) ==
    IdentityIssues(w) \cup HierarchyIssues(w)
    \cup (UNION {ShotIssues(w, s) : s \in Elements(w.sequences)})
    \cup AssetIssues(w)

\* validate_data: the workspace in memory; a schema issue ends it.
DataIssues(w, registry) ==
    IF ~w.fits THEN {"SCHEMA_VALIDATION"}
    ELSE IF w.layout # "aggregate" THEN {"WORKSPACE_IN_MEMORY_SPLIT_UNSUPPORTED"}
    ELSE DomainIssues(w, registry, w.domain.snapshot) \cup GraphIssues(w)

\* A split workspace is what its documents hold: all of a kind, or the first.
AllOfKind(documents, kind) ==
    LET loaded == LoadedDocuments(documents)
        upTo[n \in 0 .. Len(documents)] ==
            IF n = 0 THEN <<>>
            ELSE IF n \in loaded /\ documents[n].kind = kind
            THEN Append(upTo[n - 1], documents[n].value) ELSE upTo[n - 1]
    IN upTo[Len(documents)]

FirstOfKind(documents, kind, otherwise) ==
    LET all == AllOfKind(documents, kind) IN IF all = <<>> THEN otherwise ELSE all[1]

PartsOf(w) ==
    LET All(kind) == AllOfKind(w.documents, kind)
        First(kind, otherwise) == FirstOfKind(w.documents, kind, otherwise) IN
    IF w.layout = "aggregate" THEN w
    ELSE [w EXCEPT !.chapters = All("chapter"), !.beats = All("beat"),
                   !.sequences = All("sequence"),
                   !.assets = First("asset_manifest", <<>>),
                   !.artifacts = First("artifact_manifest", <<>>),
                   !.tracks = First("track_manifest", <<>>),
                   !.header = First("project", Nothing),
                   !.domain.profile = First("domain_profile", Nothing),
                   !.domain.snapshot = First("domain_policy_snapshot", Nothing)]

\* load.
LoadIssues(w, registry) ==
    IF ~w.fits THEN {"SCHEMA_VALIDATION"}
    ELSE (IF w.layout = "split" THEN DocumentIssues(w.documents) ELSE {})
         \cup When(SnapshotReference(w) = Nothing, "POLICY_SNAPSHOT_NOT_FOUND")
         \cup DomainIssues(PartsOf(w), registry, SnapshotReference(w))
         \cup GraphIssues(PartsOf(w))

\* The schema, as far as the loader goes on from it: the two layouts, and
\* lists where lists are asked for, also in a document that is whole.
WorkspaceFields ==
    {"fits", "layout", "documents", "project", "domain", "header", "declared", "chapters",
     "beats", "sequences", "assets", "artifacts", "tracks"}
DomainFields ==
    {"mode", "domain", "profileId", "profile", "snapshotId", "snapshot", "referenced"}

FitsSchema(w) ==
    /\ w = [f \in WorkspaceFields |-> w[f]]
    /\ w.domain = [f \in DomainFields |-> w.domain[f]]
    /\ w.layout \in {"aggregate", "split"}
    /\ \A f \in {"documents", "chapters", "beats", "sequences", "artifacts"} : IsList(w[f])
    /\ \A n \in DOMAIN w.documents :
          LET document == w.documents[n] IN
          document.kind = "artifact_manifest" /\ document.content = "whole"
            => IsList(document.value)

-----------------------------------------------------------------------------
(* What acceptance means, for any workspace.                               *)

Holders(items, field, id) ==
    {i \in DOMAIN items : id \in Elements(items[i][field])}

\* Every sequence is listed by exactly one beat, that beat by exactly one
\* chapter, and they are the ones the sequence names.
IsTree(w) ==
    \A k \in DOMAIN w.sequences :
        \E i \in DOMAIN w.beats, j \in DOMAIN w.chapters :
            /\ Holders(w.beats, "sequences", w.sequences[k].id) = {i}
            /\ Holders(w.chapters, "beats", w.beats[i].id) = {j}
            /\ w.beats[i].id = w.sequences[k].beat
            /\ w.chapters[j].id = w.sequences[k].chapter
=============================================================================
