-------------------------- MODULE CaptionContracts --------------------------
(***************************************************************************)
(* The artifacts from caption groups to publication: first those computed  *)
(* from one alignment result, then those of the timeline.                  *)
(*                                                                         *)
(* Caption groups, alignment reports, emphasis events and word-to-frame    *)
(* artifacts (contracts/caption_groups.py, alignment_report.py,            *)
(* emphasis_events.py, word_to_frame.py).  What each compiler computes is  *)
(* in CaptionGroups and WordFrames; here is when it may                    *)
(* compute, from which objects, and which stored bytes it takes back.      *)
(* `damaged' names the parts of the bytes that are not what was written.   *)
(***************************************************************************)
EXTENDS ContractRegistry

-----------------------------------------------------------------------------
(* Caption groups: a function of one alignment result. *)

GroupsOfResult(result) == [kind |-> "groups", result |-> result]

\* A drifted document is only reported where it still names this revision.
GroupsPreflight(document, revision, result) ==
    <<<<\E d \in {document, revision, result} : ~Genuine(d), "TypeError">>,
      <<~Sound(document) /\ document.current = revision.n, "DEPENDENCY_CONTENT_DRIFT">>,
      <<~Sound(revision) \/ ~Sound(result), "DEPENDENCY_CONTENT_DRIFT">>>>

GroupsBindings(document, revision, result) ==
    <<<<document.current # revision.n \/ result.revision # revision,
        "DEPENDENCY_BINDING_INVALID">>>>

GroupsFault(document, revision, result) ==
    FirstFault(GroupsPreflight(document, revision, result)
               \o GroupsBindings(document, revision, result))

GroupsParts == {"spacing", "shape", "version", "availability", "count", "groupVersion",
                "groupBinding", "ordinal", "range", "words", "policy", "text", "time",
                "confidence", "identity"}

GroupsShape(damaged) == <<<<"shape" \in damaged, "STRUCTURE_INVALID">>>>

\* The bytes are compared part by part with what the result derives.
GroupsSemantics(x, damaged, result) ==
    <<<<"version" \in damaged, "UNSUPPORTED_VALUE">>,
      <<x.result # result, "DEPENDENCY_BINDING_INVALID">>,
      <<"availability" \in damaged, "CONFIDENCE_INVALID">>,
      <<"count" \in damaged, "CANONICAL_COVERAGE_INVALID">>,
      <<"groupVersion" \in damaged, "UNSUPPORTED_VALUE">>,
      <<"groupBinding" \in damaged, "DEPENDENCY_BINDING_INVALID">>,
      <<"ordinal" \in damaged, "GROUPING_POLICY_INVALID">>,
      <<{"range", "words"} \cap damaged # {}, "CANONICAL_COVERAGE_INVALID">>,
      <<"policy" \in damaged, "GROUPING_POLICY_INVALID">>,
      <<"text" \in damaged, "DISPLAY_TEXT_INVALID">>,
      <<"time" \in damaged, "TIMING_INVALID">>,
      <<"confidence" \in damaged, "CONFIDENCE_INVALID">>,
      <<"identity" \in damaged, "IDENTITY_MISMATCH">>>>

GroupsLoadFault(x, damaged, document, revision, result) ==
    FirstFault(GroupsPreflight(document, revision, result)
        \o <<<<"spacing" \in damaged, "NON_CANONICAL_SERIALIZATION">>>>
        \o GroupsBindings(document, revision, result)
        \o GroupsShape(damaged)
        \o GroupsSemantics(x, damaged, result))

-----------------------------------------------------------------------------
(* Alignment reports: what the confidences of a result and its groups mean. *)

\* A policy's warning thresholds lie above its blocker thresholds, or not.
ReportPolicies == {"ordered", "unordered"}

ReportOf(result, groups, policy) ==
    [kind |-> "report", result |-> result, groups |-> groups, policy |-> policy]

ReportPreflight(document, revision, result, groups) ==
    <<<<~Genuine(document), "TypeError">>, <<~Sound(document), "DEPENDENCY_CONTENT_DRIFT">>,
      <<~Genuine(revision), "TypeError">>, <<~Sound(revision), "DEPENDENCY_CONTENT_DRIFT">>,
      <<~Genuine(result), "TypeError">>, <<~Sound(result), "DEPENDENCY_CONTENT_DRIFT">>,
      <<~Genuine(groups), "TypeError">>, <<~Sound(groups), "DEPENDENCY_CONTENT_DRIFT">>>>

ReportBindings(document, revision, result, groups) ==
    <<<<\/ document.current # revision.n
        \/ result.revision # revision
        \/ groups.result # result, "DEPENDENCY_BINDING_INVALID">>>>

ReportPolicyRows(policy) == <<<<policy # "ordered", "POLICY_INVALID">>>>

ReportFault(document, revision, result, groups, policy) ==
    FirstFault(ReportPreflight(document, revision, result, groups)
        \o ReportBindings(document, revision, result, groups)
        \o ReportPolicyRows(policy))

ReportParts == {"spacing", "shape", "version", "declaration", "policy", "metric",
                "findingCount", "finding", "identity"}

ReportSyntax(damaged) == <<<<"spacing" \in damaged, "NON_CANONICAL_SERIALIZATION">>>>
ReportShape(damaged) == <<<<"shape" \in damaged, "STRUCTURE_INVALID">>>>

\* What the report says of its dependencies, and of the numbers derived from
\* them, is compared in two goes, before and after the policy.
ReportDeclaration(x, damaged, result, groups) ==
    <<<<"declaration" \in damaged \/ x.result # result \/ x.groups # groups,
        "DEPENDENCY_BINDING_INVALID">>>>
LoadedPolicy(x, damaged, policy) ==
    <<<<"policy" \in damaged \/ x.policy # policy, "POLICY_INVALID">>>>

ReportLoadFault(x, damaged, document, revision, result, groups, policy) ==
    FirstFault(ReportPreflight(document, revision, result, groups)
        \o ReportBindings(document, revision, result, groups)
        \o ReportPolicyRows(policy)
        \o ReportSyntax(damaged)
        \o ReportShape(damaged)
        \o <<<<"version" \in damaged, "UNSUPPORTED_VALUE">>>>
        \o ReportDeclaration(x, damaged, result, groups)
        \o LoadedPolicy(x, damaged, policy)
        \o <<<<"metric" \in damaged, "DEPENDENCY_BINDING_INVALID">>,
             <<"findingCount" \in damaged, "STRUCTURE_INVALID">>,
             <<"finding" \in damaged, "FINDING_INVALID">>,
             <<"identity" \in damaged, "IDENTITY_MISMATCH">>>>)

-----------------------------------------------------------------------------
(* Emphasis events: a function of the groups, the policy and the intents. *)

EventsOf(result, groups, snapshot, intents) ==
    [kind |-> "events", result |-> result, groups |-> groups,
     snapshot |-> snapshot, intents |-> intents]

\* What the emphasis compiler makes of a refusal of the caption compiler.
CaptionRefusal(fault) ==
    IF fault \in {"TypeError", "DEPENDENCY_BINDING_INVALID"} THEN fault
    ELSE "DEPENDENCY_CONTENT_DRIFT"

EventsPreflight(document, revision, result, groups) ==
    <<<<~Genuine(document), "TypeError">>, <<~Sound(document), "DEPENDENCY_CONTENT_DRIFT">>,
      <<~Genuine(revision), "TypeError">>, <<~Sound(revision), "DEPENDENCY_CONTENT_DRIFT">>>>
    \o [i \in DOMAIN GroupsPreflight(document, revision, result) |->
          <<GroupsPreflight(document, revision, result)[i][1],
            CaptionRefusal(GroupsPreflight(document, revision, result)[i][2])>>]
    \o <<<<~Genuine(groups), "TypeError">>, <<~Sound(groups), "DEPENDENCY_CONTENT_DRIFT">>>>

\* The snapshot's content has its hash, and the registry's pack is the one it
\* was taken of.
PolicyRows(snapshot, manifest) ==
    <<<<~Sound(snapshot), "DEPENDENCY_CONTENT_DRIFT">>,
      <<snapshot.manifest # manifest, "POLICY_INVALID">>>>

EventsBindings(document, revision, result, groups) ==
    <<<<\/ document.current # revision.n
        \/ result.revision # revision
        \/ groups.result.revision # revision
        \/ groups.result # result, "DEPENDENCY_BINDING_INVALID">>>>

\* The groups are compiled again from the result and compared.
DerivedPartition(document, revision, result, groups) ==
    LET fault == GroupsFault(document, revision, result) IN
    <<<<fault # Fine, CaptionRefusal(fault)>>,
      <<groups # GroupsOfResult(result), "DEPENDENCY_CONTENT_DRIFT">>>>

EventsRows(document, revision, result, groups, snapshot, manifest) ==
    EventsPreflight(document, revision, result, groups)
    \o PolicyRows(snapshot, manifest)
    \o EventsBindings(document, revision, result, groups)
    \o DerivedPartition(document, revision, result, groups)

EventsParts == {"syntax", "shape", "version", "availability", "policy", "count", "eventShape",
                "eventVersion", "ordinal", "intent", "group", "time", "confidence",
                "eventBinding", "identity", "spacing"}

EventsSyntax(damaged) == <<<<"syntax" \in damaged, "NON_CANONICAL_SERIALIZATION">>>>
EventsShape(damaged) == <<<<"shape" \in damaged, "STRUCTURE_INVALID">>>>

RootDeclarations(x, damaged, result, groups, snapshot) ==
    <<<<"availability" \in damaged, "CONFIDENCE_INVALID">>,
      <<"policy" \in damaged \/ <<x.result, x.groups, x.snapshot>> # <<result, groups, snapshot>>,
        "DEPENDENCY_BINDING_INVALID">>>>

\* EventSemantics not comparing the events with the intents given.
EventSemanticsAnyIntent(x, damaged, intents) ==
    <<<<"ordinal" \in damaged, "ORDERING_INVALID">>,
      <<"intent" \in damaged, "INTENT_INVALID">>,
      <<"group" \in damaged, "CAPTION_GROUP_BINDING_INVALID">>,
      <<"time" \in damaged, "TIMING_INVALID">>,
      <<"confidence" \in damaged, "CONFIDENCE_INVALID">>,
      <<"eventBinding" \in damaged, "DEPENDENCY_BINDING_INVALID">>>>

EventSemantics(x, damaged, intents) ==
    <<<<"ordinal" \in damaged, "ORDERING_INVALID">>,
      <<"intent" \in damaged \/ x.intents # intents, "INTENT_INVALID">>,
      <<"group" \in damaged, "CAPTION_GROUP_BINDING_INVALID">>,
      <<"time" \in damaged, "TIMING_INVALID">>,
      <<"confidence" \in damaged, "CONFIDENCE_INVALID">>,
      <<"eventBinding" \in damaged, "DEPENDENCY_BINDING_INVALID">>>>

EventsFault(document, revision, result, groups, snapshot, manifest) ==
    FirstFault(EventsRows(document, revision, result, groups, snapshot, manifest))

EventsLoadFault(x, damaged, document, revision, result, groups, snapshot, manifest, intents) ==
    FirstFault(EventsRows(document, revision, result, groups, snapshot, manifest)
        \o EventsSyntax(damaged)
        \o EventsShape(damaged)
        \o <<<<"version" \in damaged, "UNSUPPORTED_VALUE">>>>
        \o RootDeclarations(x, damaged, result, groups, snapshot)
        \o <<<<"count" \in damaged, "INTENT_INVALID">>,
             <<"eventShape" \in damaged, "STRUCTURE_INVALID">>,
             <<"eventVersion" \in damaged, "UNSUPPORTED_VALUE">>>>
        \o EventSemantics(x, damaged, intents)
        \o <<<<"identity" \in damaged, "IDENTITY_MISMATCH">>,
             <<"spacing" \in damaged, "NON_CANONICAL_SERIALIZATION">>>>)

-----------------------------------------------------------------------------
(* Word-to-frame artifacts. *)

FramesOf(result, groups, events, rate) ==
    [kind |-> "frames", result |-> result, groups |-> groups, events |-> events, rate |-> rate]

\* DependencyBytes not comparing the object with what was registered.
DependencyBytesAsIs(x) == <<<<~Genuine(x), "TypeError">>>>

\* _alignment_bytes, _caption_bytes and _emphasis_bytes.
DependencyBytes(x) ==
    <<<<~Genuine(x), "TypeError">>, <<~Sound(x), "DEPENDENCY_CONTENT_DRIFT">>>>

FramesBindings(result, groups, events) ==
    <<<<\/ groups.result # result
        \/ events.result # result
        \/ events.groups # groups, "DEPENDENCY_BINDING_INVALID">>>>

FramesRows(result, groups, events, rate) ==
    DependencyBytes(result) \o DependencyBytes(groups) \o DependencyBytes(events)
    \o FramesBindings(result, groups, events)
    \o <<<<rate = 0, "FRAME_RATE_INVALID">>>>

FramesParts == {"syntax", "shape", "version", "declaration", "rate", "spanCount", "span",
                "time", "frame", "identity", "spacing"}

LoadedRate(x, damaged, rate) ==
    <<<<"rate" \in damaged \/ x.rate # rate, "FRAME_RATE_INVALID">>>>

\* In which field a span differs from the one that is derived again.
SpanDifference(damaged) ==
    <<<<"span" \in damaged, "SOURCE_RANGE_INVALID">>,
      <<"time" \in damaged, "TIMING_INVALID">>,
      <<"frame" \in damaged, "FRAME_MAPPING_INVALID">>>>

LoadedSpans(damaged) ==
    <<<<"spanCount" \in damaged, "SOURCE_RANGE_INVALID">>>> \o SpanDifference(damaged)

FramesSyntax(damaged) == <<<<"syntax" \in damaged, "NON_CANONICAL_SERIALIZATION">>>>
FramesShape(damaged) == <<<<"shape" \in damaged, "STRUCTURE_INVALID">>>>

FramesDeclaration(x, damaged, result, groups, events) ==
    <<<<"declaration" \in damaged \/ <<x.result, x.groups, x.events>> # <<result, groups, events>>,
        "DEPENDENCY_BINDING_INVALID">>>>

FramesFault(result, groups, events, rate) == FirstFault(FramesRows(result, groups, events, rate))

FramesLoadFault(x, damaged, result, groups, events, rate) ==
    FirstFault(FramesRows(result, groups, events, rate)
        \o FramesSyntax(damaged)
        \o FramesShape(damaged)
        \o <<<<"version" \in damaged, "UNSUPPORTED_VALUE">>>>
        \o FramesDeclaration(x, damaged, result, groups, events)
        \o LoadedRate(x, damaged, rate)
        \o LoadedSpans(damaged)
        \o <<<<"identity" \in damaged, "IDENTITY_MISMATCH">>,
             <<"spacing" \in damaged, "NON_CANONICAL_SERIALIZATION">>>>)

-----------------------------------------------------------------------------
(* Caption previews, collision reports, video and audio edit lists, and    *)
(* the publication of a narration's timings, as artifacts that depend on   *)
(* one another (contracts/caption_preview.py, v5_v6_collision.py, edl.py,  *)
(* audio_edl.py, timing_publication.py).  What they compute is in          *)
(* VideoEdl, TimelineCompile and AudioPlan.                                *)

CONSTANT
    CoarseRates     \* rates at which two captions of the narration share a frame

\* Somebody altered the object, or it is not what a compiler returned.
Unsound(objects) == <<<<\E x \in objects : ~Sound(x), "DEPENDENCY_CONTENT_DRIFT">>>>

\* Bytes that are no canonical JSON of the expected shape and version.
Envelope(damaged) ==
    <<<<{"syntax", "spacing"} \cap damaged # {}, "NON_CANONICAL_SERIALIZATION">>,
      <<"shape" \in damaged, "STRUCTURE_INVALID">>,
      <<"version" \in damaged, "UNSUPPORTED_VALUE">>>>

-----------------------------------------------------------------------------
(* Caption previews.  A layout keeps captions and emphasis apart and inside *)
(* the safe area, or not, or has a rectangle outside the canvas.            *)

Layouts == {"clear", "occluding", "malformed"}

PreviewOf(groups, events, frames, layout) ==
    [kind |-> "preview", groups |-> groups, events |-> events, frames |-> frames,
     layout |-> layout]

PreviewBindings(groups, events, frames) ==
    <<<<\/ groups.result.revision # events.result.revision
        \/ frames.groups # groups
        \/ frames.events # events, "DEPENDENCY_BINDING_INVALID">>>>

PreviewRows(groups, events, frames, layout) ==
    <<<<layout = "malformed", "GEOMETRY_INVALID">>>>
    \o Unsound({groups, events, frames})
    \o PreviewBindings(groups, events, frames)

PreviewDeclared(groups, events, frames, layout) ==
    FirstFault(PreviewRows(groups, events, frames, layout))

PreviewParts == {"syntax", "shape", "version", "declaration", "canvas", "sceneCount",
                 "sceneVersion", "sceneRect", "scene", "sceneIdentity", "identity", "spacing"}

PreviewLoadFault(x, damaged, groups, events, frames, layout) ==
    FirstFault(PreviewRows(groups, events, frames, layout)
        \o Envelope(damaged \ {"spacing"})
        \o <<<<"declaration" \in damaged \/ x # PreviewOf(groups, events, frames, layout),
               "DEPENDENCY_BINDING_INVALID">>,
             <<"canvas" \in damaged, "GEOMETRY_INVALID">>,
             <<"sceneCount" \in damaged, "FRAME_BINDING_INVALID">>,
             <<"sceneVersion" \in damaged, "UNSUPPORTED_VALUE">>,
             <<"sceneRect" \in damaged, "GEOMETRY_INVALID">>,
             <<"scene" \in damaged, "FRAME_BINDING_INVALID">>,
             <<{"sceneIdentity", "identity"} \cap damaged # {}, "IDENTITY_MISMATCH">>,
             <<"spacing" \in damaged, "NON_CANONICAL_SERIALIZATION">>>>)

-----------------------------------------------------------------------------
(* Collision reports: a function of one preview. *)

CollisionOf(preview) == [kind |-> "collision", preview |-> preview]
HasFindings(report) == report.preview.layout # "clear"

CollisionRows(preview) ==
    DependencyBytes(preview)
    \o <<<<preview.frames.rate \in CoarseRates, "DEPENDENCY_CONTENT_DRIFT">>>>

CollisionFault(preview) == FirstFault(CollisionRows(preview))

FindingParts == {"findingShape", "findingTypes", "findingVersion", "finding", "findingIdentity"}
CollisionParts == {"syntax", "spacing", "shape", "version", "count", "identity", "tally"}

FindingRows(damaged) ==
    <<<<"findingShape" \in damaged, "FINDING_INVALID">>,
      <<"findingTypes" \in damaged, "STRUCTURE_INVALID">>,
      <<"findingVersion" \in damaged, "UNSUPPORTED_VALUE">>,
      <<"finding" \in damaged, "FINDING_INVALID">>,
      <<"findingIdentity" \in damaged, "IDENTITY_MISMATCH">>>>

\* A tally that counts other findings than there are has a proper hash: only
\* the last comparison of the whole sees it.
CollisionLoadFault(x, damaged, preview) ==
    FirstFault(CollisionRows(preview)
        \o Envelope(damaged)
        \o <<<<x.preview # preview, "DEPENDENCY_BINDING_INVALID">>,
             <<"count" \in damaged, "FINDING_INVALID">>>>
        \o FindingRows(damaged)
        \o <<<<"identity" \in damaged, "IDENTITY_MISMATCH">>,
             <<"tally" \in damaged, "NON_CANONICAL_SERIALIZATION">>>>)

-----------------------------------------------------------------------------
(* Video edit lists.  The cuts a caller asks for resolve, or not. *)

Cuts == {"cuts", "other cuts", "unresolved"}

VideoOf(preview, report, cuts) ==
    [kind |-> "video", preview |-> preview, report |-> report, cuts |-> cuts]

VideoBindings(groups, events, frames, preview, report, rate) ==
    <<<<\/ frames.rate # rate
        \/ Cardinality({x.result.revision : x \in {groups, events, frames, preview.groups}}) > 1
        \/ <<preview.groups, preview.events, preview.frames>> # <<groups, events, frames>>
        \/ report.preview # preview, "DEPENDENCY_BINDING_INVALID">>>>

\* The cues are resolved before the findings of the report are looked at.
VideoRows(groups, events, frames, preview, report, rate, cuts) ==
    Unsound({groups, events, frames, preview, report})
    \o VideoBindings(groups, events, frames, preview, report, rate)
    \o <<<<cuts = "unresolved", "CUE_RESOLUTION_INVALID">>,
         <<HasFindings(report), "V5_V6_COLLISION_BLOCKED">>>>

VideoDeclared(groups, events, frames, preview, report, rate, cuts) ==
    FirstFault(VideoRows(groups, events, frames, preview, report, rate, cuts))

VideoParts == {"syntax", "spacing", "shape", "version", "lineage", "sequence", "track",
               "collision", "event", "eventIdentity", "root", "identity"}

\* The bytes' preview and report are compared with the ones that were handed
\* in before anything is asked of these.
StoredReferences(x, preview, report) ==
    <<<<x.preview # preview \/ x.report # report \/ report.preview # preview,
        "DEPENDENCY_BINDING_INVALID">>>>

VideoLoadFault(x, damaged, groups, events, frames, preview, report, rate, cuts) ==
    FirstFault(Envelope(damaged)
        \o StoredReferences(x, preview, report)
        \o VideoRows(groups, events, frames, preview, report, rate, cuts)
        \o <<<<"lineage" \in damaged, "DEPENDENCY_BINDING_INVALID">>,
             <<{"sequence", "track"} \cap damaged # {}, "CUE_RESOLUTION_INVALID">>,
             <<"collision" \in damaged, "TRACK_COLLISION">>,
             <<"event" \in damaged \/ x.cuts # cuts, "CUE_RESOLUTION_INVALID">>,
             <<"eventIdentity" \in damaged, "IDENTITY_MISMATCH">>,
             <<"root" \in damaged, "CUE_RESOLUTION_INVALID">>,
             <<"identity" \in damaged, "IDENTITY_MISMATCH">>>>)

-----------------------------------------------------------------------------
(* Audio edit lists.  A narration's recording only has to be genuine: its   *)
(* serializer compares it with nothing, and it says what it says by now.    *)

Sounds == {"sounds", "other sounds", "unresolved"}

SoundtrackOf(video, audio, sounds) ==
    [kind |-> "soundtrack", video |-> video, audio |-> audio, sounds |-> sounds]

SoundtrackBindings(video, frames, audio) ==
    <<<<video.preview.frames # frames \/ audio.says.revision # frames.result.revision.n,
        "DEPENDENCY_BINDING_INVALID">>>>

SoundtrackRows(video, frames, audio, sounds) ==
    Unsound({video, frames})
    \o <<<<~Genuine(audio.is), "DEPENDENCY_CONTENT_DRIFT">>>>
    \o SoundtrackBindings(video, frames, audio)
    \o <<<<sounds = "unresolved", "CUE_RESOLUTION_INVALID">>>>

SoundtrackDeclared(video, frames, audio, sounds) ==
    FirstFault(SoundtrackRows(video, frames, audio, sounds))

SoundtrackParts == {"syntax", "shape", "declaration", "evidence", "version", "decision",
                    "tracks", "identity"}

SoundtrackLoadFault(x, damaged, video, frames, audio, sounds) ==
    FirstFault(Envelope(damaged \cap {"syntax"})
        \o SoundtrackRows(video, frames, audio, sounds)
        \o Envelope(damaged \cap {"shape"})
        \o <<<<"declaration" \in damaged \/ <<x.video, x.audio>> # <<video, audio.is>>,
               "DEPENDENCY_BINDING_INVALID">>,
             <<"evidence" \in damaged \/ x.sounds # sounds, "DEPENDENCY_CONTENT_DRIFT">>>>
        \o Envelope(damaged \cap {"version"})
        \o <<<<"decision" \in damaged, "DEPENDENCY_CONTENT_DRIFT">>,
             <<"tracks" \in damaged, "CUE_RESOLUTION_INVALID">>,
             <<"identity" \in damaged, "IDENTITY_MISMATCH">>>>)

-----------------------------------------------------------------------------
(* Timing publications: what has to agree before any file is written. *)

PublicationOf(result, groups, events, frames) ==
    [kind |-> "publication", result |-> result, groups |-> groups, events |-> events,
     frames |-> frames]

PublicationBindings(result, groups, events, frames) ==
    <<<<\/ \E x \in {groups, events, frames} : x.result # result
        \/ events.groups # groups
        \/ frames.groups # groups
        \/ frames.events # events, "DEPENDENCY_BINDING_INVALID">>>>

PublicationFault(result, groups, events, frames) ==
    FirstFault(Unsound({result, groups, events, frames})
               \o PublicationBindings(result, groups, events, frames))
=============================================================================
