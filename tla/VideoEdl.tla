------------------------------ MODULE VideoEdl ------------------------------
(***************************************************************************)
(* The picture: the caption preview with its findings, and then the edit   *)
(* decision list.                                                          *)
(*                                                                         *)
(* The video edit decision list (engine/contracts/edl.py): the caller's    *)
(* cuts, each over a range of words, with the emphases and the captions of *)
(* the preview, on seven tracks of one sequence.                           *)
(*                                                                         *)
(* A cut has an id (0 stands for one with a reserved prefix), its ordinal, *)
(* a track, the revision and the first and last word of its cue, and a     *)
(* source with its rate, its first frame `in', the frame `out' after its   *)
(* last, its mode, and whether it is bound to that cue.                    *)
(***************************************************************************)
EXTENDS WordFrames

LOCAL INSTANCE FiniteSetsExt
LOCAL INSTANCE SequencesExt

-----------------------------------------------------------------------------
(* Where captions and emphases are shown, and the findings that block a    *)
(* timeline (engine/contracts/caption_preview.py, v5_v6_collision.py).     *)
(* Emphases are the scenes of track V5, captions those of track V6.        *)

CONSTANT Canvas    \* the width and height a rectangle may have (_CANVAS)

ASSUME CanvasAssumption == Canvas \in Nat \ {0}

ValidRect(r) ==
    /\ 0 <= r.left /\ r.left < r.right /\ r.right <= Canvas
    /\ 0 <= r.top /\ r.top < r.bottom /\ r.bottom <= Canvas

\* Does a frame span belong to the caption group or the event it is bound to?
BoundTo(span, range) == span.start = range.start /\ span.end = range.end

Bound(spans, ranges) ==
    /\ Len(spans) = Len(ranges)
    /\ \A i \in DOMAIN ranges : BoundTo(spans[i], ranges[i])

PreviewFault(layout, groups, events, spans) ==
    IF ~\A r \in {layout.safe, layout.v5, layout.v6} : ValidRect(r) THEN "GEOMETRY_INVALID"
    ELSE IF ~Bound(spans.emphasis, events) \/ ~Bound(spans.captions, groups)
         THEN "FRAME_BINDING_INVALID"
    ELSE Fine

Scene(track, ordinal, source, span, rect) ==
    [track |-> track, ordinal |-> ordinal, source |-> source,
     startFrame |-> span.startFrame, endFrame |-> span.endFrame, rect |-> rect]

\* The emphases, then the captions, numbered through.
Scenes(layout, spans) ==
    [e \in DOMAIN spans.emphasis |-> Scene("V5", e, e, spans.emphasis[e], layout.v5)]
    \o [g \in DOMAIN spans.captions |->
          Scene("V6", Len(spans.emphasis) + g, g, spans.captions[g], layout.v6)]

-----------------------------------------------------------------------------
(* The collision report. *)

OnTrack(scenes, track) == SelectSeq(scenes, LAMBDA s : s.track = track)

Contained(rect, safe) ==
    /\ safe.left <= rect.left /\ safe.top <= rect.top
    /\ rect.right <= safe.right /\ rect.bottom <= safe.bottom

Earliest(a, b) == Min({a, b})
Latest(a, b) == Max({a, b})

\* What two scenes have in common, empty when a side of it is.
Intersection(a, b) ==
    [startFrame |-> Latest(a.startFrame, b.startFrame),
     endFrame   |-> Earliest(a.endFrame, b.endFrame),
     rect       |-> [left   |-> Latest(a.rect.left, b.rect.left),
                     top    |-> Latest(a.rect.top, b.rect.top),
                     right  |-> Earliest(a.rect.right, b.rect.right),
                     bottom |-> Earliest(a.rect.bottom, b.rect.bottom)]]

Overlap(a, b) ==
    LET both == Intersection(a, b) IN
    /\ both.startFrame < both.endFrame
    /\ both.rect.left < both.rect.right
    /\ both.rect.top < both.rect.bottom

Finding(kind, primary, secondary, overlap) ==
    [kind |-> kind, primary |-> primary, secondary |-> secondary, overlap |-> overlap]

SafeAreaFindings(scenes, safe) ==
    LET outside == SelectSeq(scenes, LAMBDA s : ~Contained(s.rect, safe))
    IN [i \in DOMAIN outside |-> Finding("SAFE_AREA_VIOLATION", outside[i].ordinal, Null, outside[i])]

\* The order of a track that the walk below relies on.
TrackDrifts(track) ==
    \E i \in DOMAIN track \ {1} :
        \/ track[i].ordinal # track[1].ordinal + i - 1
        \/ track[i - 1].endFrame > track[i].startFrame

\* The first caption from c on that ends after a frame, and the first from c on
\* that begins only at a later one.
SkipEnded(v6, c, frame) ==
    Min({d \in c .. Len(v6) + 1 : d = Len(v6) + 1 \/ v6[d].endFrame > frame})
SkipBegun(v6, c, frame) ==
    Min({d \in c .. Len(v6) + 1 : d = Len(v6) + 1 \/ v6[d].startFrame >= frame})

\* The findings of one emphasis against the captions c .. d - 1.
PairFindings(primary, v6, c, d) ==
    LET hit == SelectSeq(SubSeq(v6, c, d - 1), LAMBDA s : Overlap(primary, s))
    IN [i \in DOMAIN hit |-> Finding("CROSS_TRACK_OCCLUSION", primary.ordinal, hit[i].ordinal,
                                     Intersection(primary, hit[i]))]

\* CrossFindings that goes on from the last caption it has looked at.
CrossFindingsOnce(v5, v6) ==
    LET walk[i \in 0 .. Len(v5)] ==
            IF i = 0 THEN [cursor |-> 1, found |-> <<>>]
            ELSE LET c == SkipEnded(v6, walk[i - 1].cursor, v5[i].startFrame)
                     d == SkipBegun(v6, c, v5[i].endFrame)
                 IN [cursor |-> d, found |-> walk[i - 1].found \o PairFindings(v5[i], v6, c, d)]
    IN walk[Len(v5)].found

\* The walk over both tracks with one cursor into the captions.
CrossFindings(v5, v6) ==
    LET walk[i \in 0 .. Len(v5)] ==
            IF i = 0 THEN [cursor |-> 1, found |-> <<>>]
            ELSE LET c == SkipEnded(v6, walk[i - 1].cursor, v5[i].startFrame)
                     d == SkipBegun(v6, c, v5[i].endFrame)
                 IN [cursor |-> c, found |-> walk[i - 1].found \o PairFindings(v5[i], v6, c, d)]
    IN walk[Len(v5)].found

ReportFault(scenes) ==
    IF TrackDrifts(OnTrack(scenes, "V5")) \/ TrackDrifts(OnTrack(scenes, "V6"))
    THEN "DEPENDENCY_CONTENT_DRIFT"
    ELSE Fine

Findings(scenes, safe) ==
    SafeAreaFindings(scenes, safe) \o CrossFindings(OnTrack(scenes, "V5"), OnTrack(scenes, "V6"))

-----------------------------------------------------------------------------
(* The video edit decision list (engine/contracts/edl.py): the caller's    *)
(* cuts, each over a range of words, with the emphases and the captions of *)
(* the preview, on seven tracks of one sequence.                           *)
(*                                                                         *)
(* A cut has an id (0 stands for one with a reserved prefix), its ordinal, *)
(* a track, the revision and the first and last word of its cue, and a     *)
(* source with its rate, its first frame `in', the frame `out' after its   *)
(* last, its mode, and whether it is bound to that cue.                    *)

VideoTracks == {"V1", "V2", "V3", "V4", "V5", "V6", "V7"}
CallerTracks == VideoTracks \ {"V5", "V6"}
PlaybackModes == {"HOLD", "LOOP", "FIT"}

\* A rate of edl.py: in lowest terms, but not limited to 240 a second.
RateBound(rate) ==
    /\ rate.num \in 1 .. MaxRatePart
    /\ rate.den \in 1 .. MaxRatePart
    /\ ~\E d \in 2 .. rate.den : Divides(d, rate.den) /\ Divides(d, rate.num)

\* Do the first and last word of a cue name a range of the timed words?
Resolves(cue, words) ==
    cue.first \in DOMAIN words /\ cue.last \in DOMAIN words /\ cue.first <= cue.last

CueFrames(cue, words) ==
    [startFrame |-> words[cue.first].startFrame, endFrame |-> words[cue.last].endFrame]

Within(span, sequence) ==
    sequence.startFrame <= span.startFrame /\ span.endFrame <= sequence.endFrame

\* The keys by which cuts are to come, each after the one before it.
CutKey(cut, span) == <<span.startFrame, span.endFrame, cut.id>>

CutSourceFault(source) ==
    IF ~RateBound(source.rate) THEN "DEPENDENCY_BINDING_INVALID"
    ELSE IF source.in >= source.out \/ ~source.bound THEN "CUE_RESOLUTION_INVALID"
    ELSE IF source.mode \notin PlaybackModes THEN "UNSUPPORTED_VALUE"
    ELSE Fine

\* What cut i is rejected for, after those before it were accepted.
CutFault(cuts, i, rev, words, sequence) ==
    LET cut == cuts[i]
        span == CueFrames(cut, words)
    IN IF \/ cut.ordinal # i
          \/ cut.id = 0
          \/ \E j \in 1 .. i - 1 : cuts[j].id = cut.id
          \/ cut.track \notin CallerTracks
       THEN "CUE_RESOLUTION_INVALID"
       ELSE IF cut.revision # rev THEN "DEPENDENCY_BINDING_INVALID"
       ELSE IF CutSourceFault(cut.source) # Fine THEN CutSourceFault(cut.source)
       ELSE IF ~Resolves(cut, words) THEN "CUE_RESOLUTION_INVALID"
       ELSE IF ~Within(span, sequence) THEN "CUE_RESOLUTION_INVALID"
       ELSE IF i > 1 /\ ~KeyBelow(CutKey(cuts[i - 1], CueFrames(cuts[i - 1], words)),
                                  CutKey(cut, span))
            THEN "CUE_RESOLUTION_INVALID"
       ELSE Fine

CutsFault(cuts, rev, words, sequence) ==
    LET okUpTo[i \in 0 .. Len(cuts)] ==
            IF i = 0 THEN Fine
            ELSE IF okUpTo[i - 1] # Fine THEN okUpTo[i - 1]
            ELSE CutFault(cuts, i, rev, words, sequence)
    IN okUpTo[Len(cuts)]

\* A scene still shows its group or event (the text of a caption is that of its
\* group) over the span of its words, and all of them are part of the sequence.
SceneFault(scene, track, ordinal, source, range, words, sequence) ==
    LET span == CueFrames([first |-> range.start, last |-> range.end - 1], words)
    IN IF \/ scene.track # track
          \/ scene.ordinal # ordinal
          \/ scene.source # source
          \/ scene.startFrame # span.startFrame
          \/ scene.endFrame # span.endFrame
       THEN "DEPENDENCY_BINDING_INVALID"
       ELSE IF ~Within(span, sequence) THEN "CUE_RESOLUTION_INVALID"
       ELSE Fine

ScenesFault(scenes, groups, events, words, sequence) ==
    LET faults == [s \in DOMAIN scenes |->
                     IF s <= Len(events)
                     THEN SceneFault(scenes[s], "V5", s, s, events[s], words, sequence)
                     ELSE SceneFault(scenes[s], "V6", s, s - Len(events),
                                     groups[s - Len(events)], words, sequence)]
        bad == {s \in DOMAIN scenes : faults[s] # Fine}
    IN IF Len(scenes) # Len(events) + Len(groups) THEN "DEPENDENCY_BINDING_INVALID"
       ELSE IF bad # {} THEN faults[Min(bad)]
       ELSE Fine

\* The events of a track, in frames of the sequence: the cuts, or the scenes.
Shifted(span, sequence, what) ==
    [startFrame |-> span.startFrame - sequence.startFrame,
     endFrame   |-> span.endFrame - sequence.startFrame,
     what       |-> what]

TrackEvents(track, cuts, scenes, words, sequence) ==
    LET mine == SelectSeq(cuts, LAMBDA c : c.track = track)
        shown == OnTrack(scenes, track)
    IN [i \in DOMAIN mine |-> Shifted(CueFrames(mine[i], words), sequence, mine[i])]
       \o [i \in DOMAIN shown |-> Shifted(shown[i], sequence, shown[i])]

Collides(events) ==
    \E i \in DOMAIN events \ {1} :
        \/ events[i - 1].startFrame > events[i].startFrame
        \/ events[i - 1].endFrame > events[i].startFrame

VideoFault(plan, rate, rev, groups, events, scenes, findings, words) ==
    LET sequence == CueFrames(plan.sequence, words)
        cuts == CutsFault(plan.cuts, rev, words, sequence)
        bound == ScenesFault(scenes, groups, events, words, sequence)
    IN IF ~RateBound(plan.rate) \/ plan.rate # rate THEN "DEPENDENCY_BINDING_INVALID"
       ELSE IF ~Resolves(plan.sequence, words) THEN "CUE_RESOLUTION_INVALID"
       ELSE IF cuts # Fine THEN cuts
       ELSE IF bound # Fine THEN bound
       ELSE IF \E t \in VideoTracks : Collides(TrackEvents(t, plan.cuts, scenes, words, sequence))
            THEN "TRACK_COLLISION"
       ELSE IF findings # <<>> THEN "V5_V6_COLLISION_BLOCKED"
       ELSE Fine

Video(plan, scenes, words) ==
    LET sequence == CueFrames(plan.sequence, words)
    IN [start    |-> sequence.startFrame,
        duration |-> sequence.endFrame - sequence.startFrame,
        rate     |-> plan.rate,
        tracks   |-> [t \in VideoTracks |-> TrackEvents(t, plan.cuts, scenes, words, sequence)]]

\* The frame of its source that a cut shows at an offset into the event.
PlaybackFrame(source, offset, duration, rate) ==
    LET span == source.out - source.in
        increment == (offset * source.rate.num * rate.den) \div (source.rate.den * rate.num)
    IN CASE source.mode = "FIT"  -> source.in + (offset * span) \div duration
         [] source.mode = "HOLD" -> Min({source.out - 1, source.in + increment})
         [] source.mode = "LOOP" -> source.in + (increment % span)
=============================================================================
