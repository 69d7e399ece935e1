-------------------------- MODULE TemporalArtifacts --------------------------
(***************************************************************************)
(* The temporal contracts of one narration at work: requests, executions,  *)
(* results, caption groups, reports, emphasis events, frames, previews,    *)
(* collision reports, edit lists and publications are declared, compiled,  *)
(* stored and loaded, by callers who may hand in any genuine object as a   *)
(* dependency, while objects are altered in place and forgotten.           *)
(*                                                                         *)
(* Bound: a declaration with a wrong part, or with other dependencies than  *)
(* those it names, is tried where it would be accepted without.            *)
(***************************************************************************)
EXTENDS AlignmentContracts, CaptionContracts

CONSTANTS
    Intents,        \* lists of emphasis intents, as names
    Rates,          \* frame rates; 0 stands for one outside the grammar
    Manifests       \* versions of the domain pack a registry may hold

OneWrong(parts) == {{}} \cup {{p} : p \in parts}

Documents == OfKind("document")
Revisions == OfKind("revision")
Results == OfKind("result")

\* Whatever is stored, altered content shows in its identity at the latest.
Damage(damaged) == damaged \cup (IF wire.altered THEN {"identity"} ELSE {})

-----------------------------------------------------------------------------
(* Declared artifacts. *)

MaterializeRequest ==
    \E x \in RequestPayloads, document \in Documents :
    \E audio \in ObjectsOf(x.audio) :
        LET Fault(wrong, revision, given) == RequestFault(x, wrong, document, revision, given)
            right == Fault({}, x.revision, audio) IN
        \/ Answer(x, right, TRUE)
        \/ /\ right = Fine
           /\ \/ \E part \in RequestParts(x) :
                    Answer(x, Fault({part}, x.revision, audio), FALSE)
              \/ \E revision \in Revisions, given \in Objects("audio") :
                    /\ <<revision, given.is>> # <<x.revision, x.audio>>
                    /\ Answer(x, Fault({}, revision, given), FALSE)

\* The objects an execution names: its request, and what it repeats.
NamedObjects(x) ==
    ObjectsOf(x.request)
    \X (IF x.original = None THEN {None} ELSE ObjectsOf(x.original.request))
    \X (IF x.original = None THEN {None} ELSE ObjectsOf(x.original.execution))

MaterializeExecution ==
    \E x \in ExecutionPayloads :
    \E named \in NamedObjects(x) :
        LET Fault(wrong, request, sourceRequest, sourceExecution) ==
                ExecutionFault(x, wrong, request, sourceRequest, sourceExecution)
            right == Fault({}, named[1], named[2], named[3]) IN
        \/ Answer(x, right, TRUE)
        \/ /\ right = Fine
           /\ \/ \E part \in ExecutionParts(x) :
                    Answer(x, Fault({part}, named[1], named[2], named[3]), FALSE)
              \/ \E request \in Objects("request"),
                    sourceRequest \in Objects("request") \cup {None},
                    sourceExecution \in Objects("execution") \cup {None} :
                    /\ <<request, sourceRequest, sourceExecution>> \notin NamedObjects(x)
                    /\ Answer(x, Fault({}, request, sourceRequest, sourceExecution), FALSE)

MaterializeResult ==
    \E x \in ResultPayloads, document \in Documents :
        LET Fault(wrong, revision, audio, request, execution) ==
                ResultFault(x, wrong, document, revision, audio, request, execution)
            right == Fault({}, x.revision, x.audio, x.request, x.execution) IN
        \/ Answer(x, right, TRUE)
        \/ /\ right = Fine
           /\ \/ \E part \in ResultParts :
                    Answer(x, Fault({part}, x.revision, x.audio, x.request, x.execution), FALSE)
              \/ \E revision \in Revisions, audio \in OfKind("audio"),
                    request \in OfKind("request"), execution \in OfKind("execution") :
                    /\ <<revision, audio, request, execution>>
                          # <<x.revision, x.audio, x.request, x.execution>>
                    /\ Answer(x, Fault({}, revision, audio, request, execution), FALSE)

-----------------------------------------------------------------------------
(* Compiled artifacts, and stored ones that are taken back. *)

CompileGroups ==
    \E document \in Documents, revision \in Revisions, result \in Results :
        Answer(GroupsOfResult(result), GroupsFault(document, revision, result), TRUE)

LoadGroups ==
    \E document \in Documents, revision \in Revisions, result \in Results,
       damaged \in OneWrong(GroupsParts) :
        /\ wire.of.kind = "groups"
        /\ damaged # {} => wire.of = GroupsOfResult(result)
        /\ Answer(GroupsOfResult(result),
                  GroupsLoadFault(wire.of, Damage(damaged), document, revision, result),
                  Damage(damaged) = {} /\ wire.of = GroupsOfResult(result))

CompileReport ==
    \E document \in Documents, revision \in Revisions, result \in Results,
       groups \in OfKind("groups"), policy \in ReportPolicies :
        Answer(ReportOf(result, groups, policy),
               ReportFault(document, revision, result, groups, policy), TRUE)

LoadReport ==
    \E document \in Documents, revision \in Revisions, result \in Results,
       groups \in OfKind("groups"), policy \in ReportPolicies,
       damaged \in OneWrong(ReportParts) :
        LET x == ReportOf(result, groups, policy) IN
        /\ wire.of.kind = "report"
        /\ damaged # {} => wire.of = x
        /\ Answer(x, ReportLoadFault(wire.of, Damage(damaged), document, revision,
                                     result, groups, policy),
                  Damage(damaged) = {} /\ wire.of = x)

CompileEvents ==
    \E document \in Documents, revision \in Revisions, result \in Results,
       groups \in OfKind("groups"), snapshot \in OfKind("snapshot"),
       manifest \in Manifests, intents \in Intents :
        Answer(EventsOf(result, groups, snapshot, intents),
               EventsFault(document, revision, result, groups, snapshot, manifest), TRUE)

LoadEvents ==
    \E document \in Documents, revision \in Revisions, result \in Results,
       groups \in OfKind("groups"), snapshot \in OfKind("snapshot"),
       manifest \in Manifests, intents \in Intents, damaged \in OneWrong(EventsParts) :
        LET x == EventsOf(result, groups, snapshot, intents) IN
        /\ wire.of.kind = "events"
        /\ damaged # {} => wire.of = x
        /\ Answer(x, EventsLoadFault(wire.of, Damage(damaged), document, revision, result,
                                     groups, snapshot, manifest, intents),
                  Damage(damaged) = {} /\ wire.of = x)

CompileFrames ==
    \E result \in Results, groups \in OfKind("groups"), events \in OfKind("events"),
       rate \in Rates :
        Answer(FramesOf(result, groups, events, rate),
               FramesFault(result, groups, events, rate), TRUE)

LoadFrames ==
    \E result \in Results, groups \in OfKind("groups"), events \in OfKind("events"),
       rate \in Rates, damaged \in OneWrong(FramesParts) :
        LET x == FramesOf(result, groups, events, rate) IN
        /\ wire.of.kind = "frames"
        /\ damaged # {} => wire.of = x
        /\ Answer(x, FramesLoadFault(wire.of, Damage(damaged), result, groups, events, rate),
                  Damage(damaged) = {} /\ wire.of = x)

CompilePreview ==
    \E groups \in OfKind("groups"), events \in OfKind("events"), frames \in OfKind("frames"),
       layout \in Layouts :
        Answer(PreviewOf(groups, events, frames, layout),
               PreviewDeclared(groups, events, frames, layout), TRUE)

LoadPreview ==
    \E groups \in OfKind("groups"), events \in OfKind("events"), frames \in OfKind("frames"),
       layout \in Layouts, damaged \in OneWrong(PreviewParts) :
        LET x == PreviewOf(groups, events, frames, layout) IN
        /\ wire.of.kind = "preview"
        /\ damaged # {} => wire.of = x
        /\ Answer(x, PreviewLoadFault(wire.of, Damage(damaged), groups, events, frames, layout),
                  Damage(damaged) = {} /\ wire.of = x)

CompileCollision ==
    \E preview \in OfKind("preview") :
        Answer(CollisionOf(preview), CollisionFault(preview), TRUE)

\* Only a report with findings has a finding that can be damaged.
LoadCollision ==
    \E preview \in OfKind("preview"), damaged \in OneWrong(CollisionParts \cup FindingParts) :
        /\ wire.of.kind = "collision"
        /\ damaged # {} => wire.of = CollisionOf(preview)
        /\ damaged \cap FindingParts # {} => HasFindings(wire.of)
        /\ Answer(CollisionOf(preview), CollisionLoadFault(wire.of, Damage(damaged), preview),
                  Damage(damaged) = {} /\ wire.of = CollisionOf(preview))

CompileVideo ==
    \E groups \in OfKind("groups"), events \in OfKind("events"), frames \in OfKind("frames"),
       preview \in OfKind("preview"), report \in OfKind("collision"), rate \in Rates,
       cuts \in Cuts :
        Answer(VideoOf(preview, report, cuts),
               VideoDeclared(groups, events, frames, preview, report, rate, cuts), TRUE)

LoadVideo ==
    \E groups \in OfKind("groups"), events \in OfKind("events"), frames \in OfKind("frames"),
       preview \in OfKind("preview"), report \in OfKind("collision"), rate \in Rates,
       cuts \in Cuts, damaged \in OneWrong(VideoParts) :
        LET x == VideoOf(preview, report, cuts) IN
        /\ wire.of.kind = "video"
        /\ damaged # {} => wire.of = x
        /\ Answer(x, VideoLoadFault(wire.of, Damage(damaged), groups, events, frames, preview,
                                    report, rate, cuts),
                  Damage(damaged) = {} /\ wire.of = x)

CompileSoundtrack ==
    \E video \in OfKind("video"), frames \in OfKind("frames"), audio \in Objects("audio"),
       sounds \in Sounds :
        Answer(SoundtrackOf(video, audio.is, sounds),
               SoundtrackDeclared(video, frames, audio, sounds), TRUE)

LoadSoundtrack ==
    \E video \in OfKind("video"), frames \in OfKind("frames"), audio \in Objects("audio"),
       sounds \in Sounds, damaged \in OneWrong(SoundtrackParts) :
        LET x == SoundtrackOf(video, audio.is, sounds) IN
        /\ wire.of.kind = "soundtrack"
        /\ damaged # {} => wire.of = x
        /\ Answer(x, SoundtrackLoadFault(wire.of, Damage(damaged), video, frames, audio, sounds),
                  Damage(damaged) = {} /\ wire.of = x)

PublishTimings ==
    \E result \in Results, groups \in OfKind("groups"), events \in OfKind("events"),
       frames \in OfKind("frames") :
        Answer(PublicationOf(result, groups, events, frames),
               PublicationFault(result, groups, events, frames), TRUE)

-----------------------------------------------------------------------------
(* Serializers: requests and executions are written as they are now, the   *)
(* others only while they are what was registered.  Bound: of the requests *)
(* and executions, whose bytes no contract here loads, the first ones are  *)
(* written, and when they are altered.                                     *)

\* WriteGroups handing out the bytes of whatever the object says now.
WriteGroupsAsIs == \E x \in OfKind("groups") : Write(x, FALSE)

WriteRequest == \E x \in held \cap drifted : x.kind = "request" /\ Write(x, FALSE)
WriteExecution == \E x \in held \cap drifted : x.kind = "execution" /\ Write(x, FALSE)
WriteResult == \E x \in Results : Write(x, x \in drifted)
WriteGroups == \E x \in OfKind("groups") : Write(x, x \in drifted)
WriteReport == \E x \in OfKind("report") : Write(x, x \in drifted)
WriteEvents == \E x \in OfKind("events") : Write(x, x \in drifted)
WriteFrames == \E x \in OfKind("frames") : Write(x, x \in drifted)
WritePreview == \E x \in OfKind("preview") : Write(x, x \in drifted)
WriteCollision == \E x \in OfKind("collision") : Write(x, x \in drifted)
WriteVideo == \E x \in OfKind("video") : Write(x, x \in drifted)
WriteSoundtrack == \E x \in OfKind("soundtrack") : Write(x, x \in drifted)
WriteReceipt == \E x \in OfKind("publication") : Write(x, x \in drifted)

Init == RegistryInit

Next ==
    \/ /\ Ready
       /\ \/ MaterializeRequest \/ MaterializeExecution \/ MaterializeResult
          \/ CompileGroups \/ LoadGroups
          \/ CompileReport \/ LoadReport
          \/ CompileEvents \/ LoadEvents
          \/ CompileFrames \/ LoadFrames
          \/ WriteRequest \/ WriteExecution \/ WriteResult \/ WriteGroups \/ WriteReport
          \/ WriteEvents \/ WriteFrames
          \/ CompilePreview \/ LoadPreview \/ WritePreview
          \/ CompileCollision \/ LoadCollision \/ WriteCollision
          \/ CompileVideo \/ LoadVideo \/ WriteVideo
          \/ CompileSoundtrack \/ LoadSoundtrack \/ WriteSoundtrack
          \/ PublishTimings \/ WriteReceipt
          \/ \E x \in made : Drift(x) \/ Forget(x)
    \/ Handled

Spec == Init /\ [][Next]_contractVars

-----------------------------------------------------------------------------
(* Properties. *)

\* The objects an artifact takes at their word: they are asked who they are,
\* and never compared with what was registered.
TakenAtTheirWord(x) ==
    CASE x.kind \in {"request", "soundtrack"} -> {x.audio}
      [] x.kind = "execution" ->
            {x.request} \cup (IF x.original = None THEN {}
                             ELSE {x.original.request, x.original.execution})
      [] OTHER -> {}

\* Everything an artifact rests on is about one revision and one recording.
OfOneLineage(x) ==
    CASE x.kind = "request"   -> x.audio.revision = x.revision.n
      [] x.kind = "execution" -> ModeMatches(x.mode, x.request.mode)
      [] x.kind = "result"    -> /\ x.execution.request = x.request
                                 /\ x.request.audio = x.audio
                                 /\ x.request.revision = x.revision
                                 /\ x.audio.revision = x.revision.n
      [] x.kind = "report"    -> x.groups.result = x.result
      [] x.kind = "events"    -> x.groups.result = x.result
      [] x.kind = "frames"    -> /\ x.events.result = x.result
                                 /\ x.events.groups = x.groups
                                 /\ x.groups.result = x.result
      [] x.kind = "preview"   -> x.frames.groups = x.groups /\ x.frames.events = x.events
      [] x.kind = "video"     -> x.report.preview = x.preview
      [] x.kind = "soundtrack" -> x.audio.revision = x.video.preview.groups.result.revision.n
      [] x.kind = "publication" -> x.frames = FramesOf(x.result, x.groups, x.events, x.frames.rate)
      [] OTHER -> TRUE

\* Whatever way an artifact was put together, everything it rests on is about
\* one narration revision and one recording: the frames of a video never mix
\* the captions of one revision with the timings of another.  A result is so
\* even if its request was declared for a recording that somebody had altered;
\* requests, executions and soundtracks take objects at their word, and are so
\* when those say what was registered.
OneLineage ==
    [][\A x \in made' \ made :
        TakenAtTheirWord(x) \cap drifted = {} => OfOneLineage(x)]_contractVars

RepeatsAnOriginal(x) ==
    x.kind = "execution" /\ x.mode = "REPLAY" =>
        /\ x.original # None
        /\ x.original.execution.request = x.original.request
        /\ x.original.execution.status = "SUCCEEDED"
        /\ x.original.execution.mode # "REPLAY"
        /\ x.original.request # x.request
        /\ x.original.execution.mode = "PAID_API" => x.original.execution.paid = "APPROVED"

\* A replay repeats one adapter call that really happened: it succeeded, it
\* was no replay itself, it belongs to another request, and if it was paid
\* for, that was approved; unless that call or its request were altered since,
\* which nobody compares.  Results rest on replays alone.
ReplaysAnOriginal ==
    [][\A x \in made' \ made :
        TakenAtTheirWord(x) \cap drifted = {} => RepeatsAnOriginal(x)]_contractVars

\* The objects an artifact is made from directly.
MadeFrom(x) ==
    CASE x.kind = "result" -> {x.revision, x.audio, x.request, x.execution}
      [] x.kind = "groups" -> {x.result, x.result.revision}
      [] x.kind = "report" -> {x.result, x.groups, x.result.revision}
      [] x.kind = "events" -> {x.result, x.groups, x.snapshot, x.result.revision}
      [] x.kind = "frames" -> {x.result, x.groups, x.events}
      [] x.kind = "preview" -> {x.groups, x.events, x.frames}
      [] x.kind = "collision" -> {x.preview}
      [] x.kind = "video" -> {x.preview.groups, x.preview.events, x.preview.frames, x.preview,
                              x.report}
      [] x.kind = "soundtrack" -> {x.video, x.video.preview.frames}
      [] x.kind = "publication" -> {x.result, x.groups, x.events, x.frames}
      [] OTHER -> {}

\* Nothing is derived from an object that somebody altered: from the result
\* on, no altered dependency gets into a new artifact.
NothingFromDrift ==
    [][\A x \in made' \ made : MadeFrom(x) \cap drifted = {}]_contractVars

\* What is accepted is exactly what was declared for the objects that were
\* given: a stored artifact of another revision, result or intent list, or
\* one with a damaged part, is never taken back.
AcceptedIsExact == reply.verdict = Fine => reply.exact

\* Altered content is not handed out by the serializers that compare it.
WrittenIsSound == wire.altered => wire.of.kind \in {"request", "execution"}

\* Nothing that differs from what was declared passes a file, in or out.
FilesAreExact == AcceptedIsExact /\ WrittenIsSound

-----------------------------------------------------------------------------
(* What every artifact is like that a materializer or compiler returned.   *)

\* What a compiler returns is computed from what it was given, and says so.
AsCompiled(x) ==
    CASE x.kind = "groups" -> x = GroupsOfResult(x.result)
      [] x.kind = "report" -> x = ReportOf(x.result, x.groups, x.policy)
      [] x.kind = "events" -> x = EventsOf(x.result, x.groups, x.snapshot, x.intents)
      [] x.kind = "frames" -> x = FramesOf(x.result, x.groups, x.events, x.rate)
      [] x.kind = "preview" -> x = PreviewOf(x.groups, x.events, x.frames, x.layout)
      [] x.kind = "collision" -> x = CollisionOf(x.preview)
      [] x.kind = "video" -> x = VideoOf(x.preview, x.report, x.cuts)
      [] x.kind = "soundtrack" -> x = SoundtrackOf(x.video, x.audio, x.sounds)
      [] OTHER -> TRUE

\* A paid call that was not blocked was approved.
PaidWasApproved(x) ==
    x.kind = "execution" /\ x.mode = "PAID_API" /\ x.status # "BLOCKED" => x.paid = "APPROVED"

\* The preview in a video is of one lineage, also when it is gone itself.
ShowsOnePreview(x) ==
    x.kind = "video" => x.preview.frames.groups = x.preview.groups

WellMade(x) ==
    /\ TakenAtTheirWord(x) = {} => OfOneLineage(x)
    /\ AsCompiled(x) /\ PaidWasApproved(x) /\ ShowsOnePreview(x)

\* The artifacts a behaviour starts from come from earlier calls.
ASSUME WorldsAssumption == \A world \in Worlds : \A x \in world : WellMade(x)
=============================================================================
