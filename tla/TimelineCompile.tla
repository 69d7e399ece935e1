--------------------------- MODULE TimelineCompile ---------------------------
(***************************************************************************)
(* The timeline of a narration after its frames are known: the preview of  *)
(* captions and emphases, the collision report, the video and the audio    *)
(* edit decision list, and the audio render plan.  Each is compiled from   *)
(* those before it; a step is one compiler, or one turn of its loop.       *)
(* A narration whose plan is NoPlan stops at its frames.                   *)
(***************************************************************************)
EXTENDS TemporalCompile, AudioPlan

LOCAL INSTANCE SequencesExt

CONSTANT NoPlan

VARIABLES
    scenes,       \* the preview
    findings,     \* the collision report
    video,        \* the video edit decision list
    tracks,       \* the sounds of the audio edit decision list
    decisions,    \* its decisions so far
    clips         \* the audio render plan

timelineVars == <<scenes, findings, video, tracks, decisions, clips>>

NoVideo == [start |-> 0, duration |-> 0, rate |-> [num |-> 1, den |-> 1],
            tracks |-> [t \in VideoTracks |-> <<>>]]
NoSounds == [p \in {"A1", "A2", "A3", "A4", "A5"} |-> <<>>]

TimelineInit ==
    /\ Init
    /\ scenes = <<>>
    /\ findings = <<>>
    /\ video = NoVideo
    /\ tracks = NoSounds
    /\ decisions = <<>>
    /\ clips = <<>>

\* On to the next compiler, unless there is a fault.
Advance(fault, to) ==
    /\ phase' = IF fault = Fine THEN to ELSE "rejected"
    /\ verdict' = fault
    /\ UNCHANGED <<input, cursor, timings, groups, events, frames, report>>

\* compile_caption_preview.
CompilePreview ==
    LET fault == PreviewFault(input.plan.layout, groups, events, frames) IN
    /\ phase = "done"
    /\ input.plan # NoPlan
    /\ Advance(fault, "previewed")
    /\ scenes' = IF fault = Fine THEN Scenes(input.plan.layout, frames) ELSE <<>>
    /\ UNCHANGED <<findings, video, tracks, decisions, clips>>

\* compile_v5_v6_collision_report.
CompileReport ==
    LET fault == ReportFault(scenes) IN
    /\ phase = "previewed"
    /\ Advance(fault, "reported")
    /\ findings' = IF fault = Fine THEN Findings(scenes, input.plan.layout.safe) ELSE <<>>
    /\ UNCHANGED <<scenes, video, tracks, decisions, clips>>

\* compile_video_edl.
CompileVideo ==
    LET fault == VideoFault(input.plan, input.rate, input.rev.id, groups, events,
                            scenes, findings, frames.words)
    IN /\ phase = "reported"
       /\ Advance(fault, "video")
       /\ video' = IF fault = Fine THEN Video(input.plan, scenes, frames.words) ELSE NoVideo
       /\ UNCHANGED <<scenes, findings, tracks, decisions, clips>>

\* The sources and the sounds of compile_audio_edl.
PlaceSounds ==
    LET fault == SoundsFault(input.plan, input.rev.id, frames.words, video) IN
    /\ phase = "video"
    /\ Advance(fault, "sounds")
    /\ tracks' = IF fault = Fine THEN SoundEvents(input.plan, frames.words, video) ELSE NoSounds
    /\ UNCHANGED <<scenes, findings, video, decisions, clips>>

\* plan_audio_boundaries up to its decisions: the overlaps, the requests and the
\* silences.
CheckSeams ==
    LET overlaps == OverlapsFault(tracks, input.plan.seams)
        rows == SeamRowsFault(input.plan.seams, tracks)
        silences == SilencesFault(input.plan.silences, tracks, SampleAt(video, video.duration))
    IN /\ phase = "sounds"
       /\ Advance(IF overlaps # Fine THEN overlaps ELSE IF rows # Fine THEN rows ELSE silences,
                  "seams")
       /\ UNCHANGED timelineVars

\* One turn of its loop over the places.
DecideSeam ==
    LET places == Places(tracks)
        i == Len(decisions) + 1
        fault == PlaceFault(places[i], input.plan, tracks)
    IN /\ phase = "seams"
       /\ i <= Len(places)
       /\ Advance(fault, "seams")
       /\ decisions' = IF fault = Fine THEN Append(decisions, DecisionFor(places[i], input.plan, tracks))
                       ELSE decisions
       /\ UNCHANGED <<scenes, findings, video, tracks, clips>>

\* The end of compile_audio_edl.
EndAudio ==
    /\ phase = "seams"
    /\ Len(decisions) = Len(Places(tracks))
    /\ Advance(SpeechFault(tracks), "audio")
    /\ UNCHANGED timelineVars

\* compile_audio_render_plan.
CompileRenderPlan ==
    LET fault == RenderFault(tracks, decisions) IN
    /\ phase = "audio"
    /\ Advance(fault, "rendered")
    /\ clips' = IF fault = Fine THEN Clips(tracks, decisions) ELSE <<>>
    /\ UNCHANGED <<scenes, findings, video, tracks, decisions>>

TimelineNext ==
    \/ Next /\ UNCHANGED timelineVars
    \/ CompilePreview
    \/ CompileReport
    \/ CompileVideo
    \/ PlaceSounds
    \/ CheckSeams
    \/ DecideSeam
    \/ EndAudio
    \/ CompileRenderPlan

TimelineSpec == TimelineInit /\ [][TimelineNext]_<<vars, timelineVars>>
-----------------------------------------------------------------------------
(* Properties. *)

Reported == phase \in {"reported", "video", "sounds", "seams", "audio", "rendered"}
HasVideo == phase \in {"video", "sounds", "seams", "audio", "rendered"}
HasAudio == phase \in {"audio", "rendered"}

\* The walk with one cursor finds every emphasis and caption that are on screen
\* at the same frame and place, each pair once, and every scene that leaves the
\* safe area (_derive of v5_v6_collision.py).
FindingsAreComplete ==
    Reported =>
        LET safe == input.plan.layout.safe
            found(kind) == {i \in DOMAIN findings : findings[i].kind = kind}
            pairs == {<<a, b>> \in ToSet(OnTrack(scenes, "V5")) \X ToSet(OnTrack(scenes, "V6")) :
                        Overlap(a, b)}
            outside == {s \in ToSet(scenes) : ~Contained(s.rect, safe)}
        IN /\ {<<findings[i].primary, findings[i].secondary>> : i \in found("CROSS_TRACK_OCCLUSION")}
                = {<<pair[1].ordinal, pair[2].ordinal>> : pair \in pairs}
           /\ {findings[i].primary : i \in found("SAFE_AREA_VIOLATION")} = {s.ordinal : s \in outside}
           /\ Len(findings) = Cardinality(pairs) + Cardinality(outside)

\* On each track of an accepted video list every frame shows at most one event,
\* inside the sequence; a cut never shows a frame outside the part of its source,
\* and every emphasis and caption is there.
VideoFitsTheSequence ==
    HasVideo =>
        /\ \A t \in VideoTracks : LET row == video.tracks[t] IN
             \A i \in DOMAIN row :
                /\ 0 <= row[i].startFrame
                /\ row[i].startFrame < row[i].endFrame
                /\ row[i].endFrame <= video.duration
                /\ \A j \in 1 .. i - 1 : row[j].endFrame <= row[i].startFrame
                /\ t \in CallerTracks =>
                     LET source == row[i].what.source length == row[i].endFrame - row[i].startFrame
                     IN \A offset \in 0 .. length - 1 :
                          PlaybackFrame(source, offset, length, video.rate)
                            \in source.in .. source.out - 1
        /\ Len(video.tracks["V5"]) = Len(events)
        /\ Len(video.tracks["V6"]) = Len(groups)

\* What is on screen fits: nothing hidden goes unreported, and nothing is shown
\* twice or outside the sequence.
PictureFits == FindingsAreComplete /\ VideoFitsTheSequence

\* At no sample are there more than two sounds of a track, and two only where
\* neighbours are cross-faded over exactly what they share and neither is speech;
\* the narration and the speech of a source are never heard together.
AudioNeverPilesUp ==
    HasAudio =>
        /\ \A t \in DOMAIN tracks : LET row == tracks[t] IN
             \A j \in DOMAIN row : \A i \in 1 .. j - 1 :
                row[j].start < row[i].end =>
                    /\ j = i + 1
                    /\ t \notin SpeechTracks
                    /\ row[i].end < row[j].end
                    /\ \E d \in ToSet(decisions) :
                          /\ d.place.left = row[i].id /\ d.place.right = row[j].id
                          /\ d.policy = "OVERLAP_CROSSFADE"
                          /\ d.overlap = row[i].end - row[j].start
        /\ \A n \in ToSet(tracks["A1"]), s \in ToSet(tracks["A4"]) :
             n.end <= s.start \/ s.end <= n.start

\* phase2_caption_preview_v5_v6_collision_contract.md, section 10: no V5/V5 or
\* V6/V6 pair is inspected.  So the report of a preview that was compiled is
\* never refused for two captions, or two emphases, that share a frame.
PreviewIsReported == ~(verdict = "DEPENDENCY_CONTENT_DRIFT" /\ scenes # <<>>)
=============================================================================
