------------------------------ MODULE AudioPlan -----------------------------
(***************************************************************************)
(* The sound: the edit decision list, and then the plan that renders it.   *)
(*                                                                         *)
(* The audio edit decision list (engine/contracts/audio_edl.py): sounds on *)
(* five tracks in samples, and a decision for every place where a sound    *)
(* begins, ends or meets the next: keep a silence, cross-fade, fade, cut   *)
(* at a zero crossing, or trim to one.                                     *)
(*                                                                         *)
(* A sound has an id, a track, the revision and the first and last word of *)
(* its cue, and a source with the part `in' .. out - 1 that is heard.  A   *)
(* source has its decoded samples, pairs of a left and a right value, of   *)
(* which the first `delay' and the last `padding' are the encoder's.  A    *)
(* seam request names a place by the ids of the sounds around it; 0 is     *)
(* none.                                                                   *)
(***************************************************************************)
EXTENDS VideoEdl

LOCAL INSTANCE FiniteSetsExt
LOCAL INSTANCE SequencesExt

CONSTANTS
    SampleRate,    \* samples a second (48 000)
    Search,        \* how far from an edge a zero crossing is looked for (240)
    Microfade,     \* the length of a microfade (240)
    LongFade       \* the length of an editorial fade (24 000)

ASSUME SampleAssumption == {SampleRate, Search, Microfade, LongFade} \subseteq Nat \ {0}

AudioTracks == <<"A1", "A2", "A3", "A4", "A5">>
Priority(track) == CHOOSE p \in DOMAIN AudioTracks : AudioTracks[p] = track
SpeechTracks == {"A1", "A4"}

SampleAt(video, frame) == (frame * SampleRate * video.rate.den) \div video.rate.num

-----------------------------------------------------------------------------
(* The sources and the sounds. *)

Usable(source) == Len(source.samples) - source.delay - source.padding

SourceListFault(sources, i) ==
    IF Usable(sources[i]) <= 0 THEN "ENCODER_COMPENSATION_INVALID"
    ELSE IF \E j \in 1 .. i - 1 : sources[j].id = sources[i].id THEN "PCM_EVIDENCE_INVALID"
    ELSE IF i > 1 /\ sources[i].id <= sources[i - 1].id THEN "ORDERING_INVALID"
    ELSE Fine

SourceOf(sources, id) == CHOOSE s \in ToSet(sources) : s.id = id

\* A sound lies at the samples of its cue and is as long as its source part.
AudioEvent(sound, words, video) ==
    LET at(frame) == SampleAt(video, frame - video.start)
        cue == CueFrames(sound, words)
    IN [id |-> sound.id, track |-> sound.track, source |-> sound.source,
        in |-> sound.in, out |-> sound.out,
        start |-> at(cue.startFrame), end |-> at(cue.startFrame) + sound.out - sound.in,
        cueEnd |-> at(cue.endFrame)]

SoundKey(event) == <<Priority(event.track), event.start, event.end, event.id>>

\* What sound i is rejected for, after those before it were accepted.
SoundFault(sounds, i, rev, sources, words, video, duration) ==
    LET sound == sounds[i]
        event == AudioEvent(sound, words, video)
    IN IF \E j \in 1 .. i - 1 : sounds[j].id = sound.id THEN "CUE_RESOLUTION_INVALID"
       ELSE IF ~\E s \in ToSet(sources) : s.id = sound.source THEN "DEPENDENCY_BINDING_INVALID"
       ELSE IF sound.in >= sound.out \/ sound.out > Usable(SourceOf(sources, sound.source))
            THEN "ENCODER_COMPENSATION_INVALID"
       ELSE IF sound.revision # rev THEN "DEPENDENCY_BINDING_INVALID"
       ELSE IF ~Resolves(sound, words) THEN "CUE_RESOLUTION_INVALID"
       ELSE IF CueFrames(sound, words).startFrame < video.start THEN "DEPENDENCY_BINDING_INVALID"
       ELSE IF event.end > duration THEN "SEQUENCE_BOUNDS_INVALID"
       ELSE IF sound.track = "A1" /\ event.end # event.cueEnd THEN "CUE_RESOLUTION_INVALID"
       ELSE IF i > 1 /\ ~KeyBelow(SoundKey(AudioEvent(sounds[i - 1], words, video)), SoundKey(event))
            THEN "ORDERING_INVALID"
       ELSE Fine

\* The first fault of a list whose element i has fault(i).
FirstOf(fault(_), length) ==
    LET bad == {i \in 1 .. length : fault(i) # Fine}
    IN IF bad = {} THEN Fine ELSE fault(Min(bad))

SoundsFault(plan, rev, words, video) ==
    LET duration == SampleAt(video, video.duration)
        source(i) == SourceListFault(plan.sources, i)
        upTo[i \in 0 .. Len(plan.sounds)] ==
            IF i = 0 THEN Fine
            ELSE IF upTo[i - 1] # Fine THEN upTo[i - 1]
            ELSE SoundFault(plan.sounds, i, rev, plan.sources, words, video, duration)
        used == {s.source : s \in ToSet(plan.sounds)}
    IN IF FirstOf(source, Len(plan.sources)) # Fine THEN FirstOf(source, Len(plan.sources))
       ELSE IF upTo[Len(plan.sounds)] # Fine THEN upTo[Len(plan.sounds)]
       ELSE IF used # {s.id : s \in ToSet(plan.sources)} THEN "PCM_EVIDENCE_INVALID"
       ELSE IF \E s \in ToSet(plan.sounds) : s.track = "A1" /\ s.source # plan.narration
            THEN "DEPENDENCY_BINDING_INVALID"
       ELSE Fine

SoundEvents(plan, words, video) ==
    [t \in ToSet(AudioTracks) |->
        LET mine == SelectSeq(plan.sounds, LAMBDA s : s.track = t)
        IN [i \in DOMAIN mine |-> AudioEvent(mine[i], words, video)]]

-----------------------------------------------------------------------------
(* Overlaps on one track. *)

Overlapping(events, i) == events[i].end - events[i + 1].start

\* Does a request allow sounds i and i + 1 of a track to overlap?
Authorized(events, i, seams) ==
    LET left == events[i] right == events[i + 1] IN
    /\ Overlapping(events, i) >= 2
    /\ left.track \notin SpeechTracks
    /\ right.end > left.end
    /\ \E s \in ToSet(seams) : /\ s.position = "BETWEEN_EVENTS"
                               /\ s.track = left.track
                               /\ s.left = left.id /\ s.right = right.id
                               /\ s.crossing = "CROSSFADE"
                               /\ s.crossfade = Overlapping(events, i)

\* OverlapFault that compares each sound with the one before it only.
AdjacentOverlapFault(events, seams) ==
    LET fault(i) == IF Overlapping(events, i) > 0 /\ ~Authorized(events, i, seams)
                    THEN "TRACK_COLLISION" ELSE Fine
    IN FirstOf(fault, Len(events) - 1)

\* The sweep over a track, with the latest end of all sounds but the last.
OverlapFault(events, seams) ==
    LET fault(i) ==
            IF events[i + 1].start < events[i].start THEN "ORDERING_INVALID"
            ELSE IF \E j \in 1 .. i - 1 : events[i + 1].start < events[j].end THEN "TRACK_COLLISION"
            ELSE IF Overlapping(events, i) > 0 /\ ~Authorized(events, i, seams) THEN "TRACK_COLLISION"
            ELSE Fine
    IN FirstOf(fault, Len(events) - 1)

OverlapsFault(tracks, seams) ==
    LET fault(p) == OverlapFault(tracks[AudioTracks[p]], seams)
    IN FirstOf(fault, Len(AudioTracks))

-----------------------------------------------------------------------------
(* The seams of a track: before its first sound, between two, and after    *)
(* its last.                                                               *)

Place(track, position, left, right) ==
    [track |-> track, position |-> position, left |-> left, right |-> right]
PlaceOf(row) == Place(row.track, row.position, row.left, row.right)

PlacesOf(events) ==
    IF events = <<>> THEN <<>>
    ELSE LET t == events[1].track IN
         <<Place(t, "LEADING", 0, events[1].id)>>
         \o [i \in 1 .. Len(events) - 1 |-> Place(t, "BETWEEN_EVENTS", events[i].id, events[i + 1].id)]
         \o <<Place(t, "TRAILING", Last(events).id, 0)>>

\* All of them, in the order of the decisions.
Places(tracks) == FlattenSeq([p \in DOMAIN AudioTracks |-> PlacesOf(tracks[AudioTracks[p]])])

EventOf(tracks, id) ==
    CHOOSE e \in UNION {ToSet(tracks[t]) : t \in DOMAIN tracks} : e.id = id

\* What a place may ask for on its two sides: a request is "NONE", "CROSSFADE"
\* or "FADE", the last on the sides that have a sound.
Allowed(position) ==
    IF position = "BETWEEN_EVENTS" THEN {"NONE", "CROSSFADE", "FADE"} ELSE {"NONE", "FADE"}

\* Requests come by track, time, and position; one for every place.
Anchor(row, tracks) ==
    IF row.position = "LEADING" THEN EventOf(tracks, row.right).start
    ELSE EventOf(tracks, row.left).end
PositionRank(position) ==
    CASE position = "LEADING" -> 0 [] position = "BETWEEN_EVENTS" -> 1 [] OTHER -> 2
SeamKey(row, tracks) ==
    <<Priority(row.track), Anchor(row, tracks), PositionRank(row.position), row.left, row.right>>

SeamRowFault(seams, i, tracks) ==
    LET row == seams[i] IN
    IF \/ \E j \in 1 .. i - 1 : PlaceOf(seams[j]) = PlaceOf(row)
       \/ PlaceOf(row) \notin ToSet(Places(tracks))
       \/ row.crossing \notin Allowed(row.position)
       \/ (row.crossing = "CROSSFADE") # (row.crossfade > 0)
    THEN "BOUNDARY_POLICY_INVALID"
    ELSE IF i > 1 /\ ~KeyBelow(SeamKey(seams[i - 1], tracks), SeamKey(row, tracks))
    THEN "ORDERING_INVALID"
    ELSE Fine

SeamRowsFault(seams, tracks) ==
    LET upTo[i \in 0 .. Len(seams)] ==
            IF i = 0 THEN Fine
            ELSE IF upTo[i - 1] # Fine THEN upTo[i - 1]
            ELSE SeamRowFault(seams, i, tracks)
    IN IF upTo[Len(seams)] # Fine THEN upTo[Len(seams)]
       ELSE IF Len(seams) # Len(Places(tracks)) THEN "BOUNDARY_POLICY_INVALID"
       ELSE Fine

\* A planned silence fills a place exactly.  One that names a sound which is not
\* there counts as one at an edge, and is then found at no place.
Resolved(tracks, id) ==
    IF \E t \in DOMAIN tracks : \E e \in ToSet(tracks[t]) : e.id = id THEN id ELSE 0
SilencePosition(s, tracks) ==
    CASE Resolved(tracks, s.left) = 0 -> "LEADING"
      [] Resolved(tracks, s.right) = 0 -> "TRAILING"
      [] OTHER -> "BETWEEN_EVENTS"
SilencePlace(s, tracks) == Place(s.track, SilencePosition(s, tracks), s.left, s.right)
SilenceKey(s) == <<Priority(s.track), s.start, s.end, s.left, s.right>>

SilenceFault(silences, i, tracks, duration) ==
    LET s == silences[i]
        left == Resolved(tracks, s.left)
        right == Resolved(tracks, s.right)
    IN
    IF s.start >= s.end \/ (s.left = 0 /\ s.right = 0) THEN "BOUNDARY_POLICY_INVALID"
    ELSE IF i > 1 /\ KeyBelow(SilenceKey(s), SilenceKey(silences[i - 1])) THEN "ORDERING_INVALID"
    ELSE IF Place(s.track, SilencePosition(s, tracks), left, right) \notin ToSet(Places(tracks))
    THEN "BOUNDARY_POLICY_INVALID"
    ELSE IF \/ s.start # (IF left = 0 THEN 0 ELSE EventOf(tracks, left).end)
            \/ s.end # (IF right = 0 THEN duration ELSE EventOf(tracks, right).start)
            \/ \E j \in 1 .. i - 1 : SilencePlace(silences[j], tracks) = SilencePlace(s, tracks)
    THEN "BOUNDARY_POLICY_INVALID"
    ELSE Fine

SilencesFault(silences, tracks, duration) ==
    LET upTo[i \in 0 .. Len(silences)] ==
            IF i = 0 THEN Fine
            ELSE IF upTo[i - 1] # Fine THEN upTo[i - 1]
            ELSE SilenceFault(silences, i, tracks, duration)
    IN upTo[Len(silences)]
-----------------------------------------------------------------------------
(* The decision for one place. *)

\* The sample at position p of a source's usable part, if it has been decoded.
PhysicalAt(source, p) == source.delay + p + 1
Decoded(source, p) == PhysicalAt(source, p) \in DOMAIN source.samples
SampleOf(source, p) == source.samples[PhysicalAt(source, p)]

Silent(sample) == sample = <<0, 0>>
OppositeSigns(a, b) == (a < 0 /\ b > 0) \/ (a > 0 /\ b < 0)

\* Is there a zero crossing between positions p - 1 and p?
CrossesAt(source, p) ==
    /\ Decoded(source, p - 1) /\ Decoded(source, p)
    /\ LET a == SampleOf(source, p - 1) b == SampleOf(source, p) IN
       \/ Silent(a) \/ Silent(b)
       \/ \A channel \in 1 .. 2 : OppositeSigns(a[channel], b[channel])

EdgeOf(event, trailing) == IF trailing THEN event.out - 1 ELSE event.in

\* How much of an event is trimmed so that it ends, or begins, at a zero
\* crossing; Null when there is none near the edge.
Crossing(source, event, trailing) ==
    LET edge == EdgeOf(event, trailing)
        near == IF trailing THEN Latest(event.in + 1, event.out - Search) .. event.out - 1
                ELSE Latest(1, event.in) .. Earliest(event.out - 1, event.in + Search)
        trims == {IF trailing THEN event.out - p ELSE p - event.in :
                    p \in {q \in near : CrossesAt(source, q)}}
    IN IF Decoded(source, edge) /\ Silent(SampleOf(source, edge)) THEN 0
       ELSE IF trims = {} THEN Null ELSE Min(trims)

Decision(place, policy, transition, leftTrim, rightTrim, fadeIn, fadeOut, overlap, silence) ==
    [place |-> place, policy |-> policy, transition |-> transition,
     leftTrim |-> leftTrim, rightTrim |-> rightTrim, fadeIn |-> fadeIn, fadeOut |-> fadeOut,
     overlap |-> overlap, silence |-> silence]

\* The sounds that a place has on its sides, as <<event, is it the left one>>.
SidesOf(place, tracks) ==
    (IF place.left = 0 THEN {} ELSE {<<EventOf(tracks, place.left), TRUE>>})
    \cup (IF place.right = 0 THEN {} ELSE {<<EventOf(tracks, place.right), FALSE>>})

\* Planned silence: nothing else is asked for and both edges are silent.
SilenceKept(place, row, tracks, sources) ==
    /\ row.crossing = "NONE"
    /\ \A side \in SidesOf(place, tracks) :
         LET source == SourceOf(sources, side[1].source) edge == EdgeOf(side[1], side[2])
         IN Decoded(source, edge) /\ Silent(SampleOf(source, edge))

CrossfadeHolds(place, row, tracks) ==
    LET left == EventOf(tracks, place.left) right == EventOf(tracks, place.right) IN
    /\ place.track \notin SpeechTracks
    /\ left.end - right.start = row.crossfade
    /\ right.end > left.end
    /\ row.crossfade >= 2

LongFadeHolds(place, tracks) ==
    /\ place.track \in {"A2", "A5"}
    /\ \A side \in SidesOf(place, tracks) : side[1].end - side[1].start >= LongFade

LongFadeDecision(place) ==
    Decision(place, "LONG_EDITORIAL_FADE",
             CASE place.position = "LEADING" -> "FADE_IN"
               [] place.position = "TRAILING" -> "FADE_OUT"
               [] OTHER -> "NONE",
             0, 0, IF place.right = 0 THEN 0 ELSE LongFade, IF place.left = 0 THEN 0 ELSE LongFade, 0, 0)

Trim(crossing) == IF crossing = Null THEN 0 ELSE crossing
FadeUnless(found) == IF found THEN 0 ELSE Microfade

\* Between two effects or two ambiences: a cut if both edges allow it.  The
\* fade in is decided by the left crossing, the fade out by the right one.
EffectsDecision(place, tracks, sources) ==
    LET left == EventOf(tracks, place.left) right == EventOf(tracks, place.right)
        a == Crossing(SourceOf(sources, left.source), left, TRUE)
        b == Crossing(SourceOf(sources, right.source), right, FALSE)
    IN IF a = 0 /\ b = 0 THEN Decision(place, "HARD_CUT_ZERO_CROSSING", "NONE", 0, 0, 0, 0, 0, 0)
       ELSE Decision(place, "ZERO_CROSSING_MICROFADE", "NONE", Trim(a), Trim(b),
                     FadeUnless(a # Null), FadeUnless(b # Null), 0, 0)

\* Every other place: each side is trimmed to its crossing or gets its own
\* microfade; narration is never trimmed.
SeamSide(place, tracks, sources, trailing) ==
    LET id == IF trailing THEN place.left ELSE place.right
        event == EventOf(tracks, id)
        crossing == Crossing(SourceOf(sources, event.source), event, trailing)
    IN IF id = 0 THEN [trim |-> 0, fade |-> 0]
       ELSE IF place.track = "A1" THEN [trim |-> 0, fade |-> FadeUnless(crossing = 0)]
       ELSE [trim |-> Trim(crossing), fade |-> FadeUnless(crossing # Null)]

MicrofadeDecision(place, tracks, sources) ==
    LET left == SeamSide(place, tracks, sources, TRUE)
        right == SeamSide(place, tracks, sources, FALSE)
    IN Decision(place, "ZERO_CROSSING_MICROFADE", "NONE",
                left.trim, right.trim, right.fade, left.fade, 0, 0)

\* The rows and silences of a place.
RowOf(place, seams) == CHOOSE row \in ToSet(seams) : PlaceOf(row) = place
SilencesAt(place, silences, tracks) == {s \in ToSet(silences) : SilencePlace(s, tracks) = place}

PlaceFault(place, plan, tracks) ==
    LET row == RowOf(place, plan.seams) IN
    IF SilencesAt(place, plan.silences, tracks) # {}
    THEN IF SilenceKept(place, row, tracks, plan.sources) THEN Fine ELSE "BOUNDARY_POLICY_INVALID"
    ELSE IF row.crossing = "CROSSFADE"
    THEN IF CrossfadeHolds(place, row, tracks) THEN Fine ELSE "BOUNDARY_POLICY_INVALID"
    ELSE IF row.crossing = "FADE"
    THEN IF LongFadeHolds(place, tracks) THEN Fine ELSE "BOUNDARY_POLICY_INVALID"
    ELSE Fine

DecisionFor(place, plan, tracks) ==
    LET row == RowOf(place, plan.seams)
        silences == SilencesAt(place, plan.silences, tracks)
        silence == CHOOSE s \in silences : TRUE
    IN IF silences # {}
       THEN Decision(place, "PRESERVE_SILENCE", "NONE", 0, 0, 0, 0, 0, silence.end - silence.start)
       ELSE IF row.crossing = "CROSSFADE"
       THEN Decision(place, "OVERLAP_CROSSFADE", "CROSSFADE", 0, 0,
                     row.crossfade, row.crossfade, row.crossfade, 0)
       ELSE IF row.crossing = "FADE" THEN LongFadeDecision(place)
       ELSE IF place.position = "BETWEEN_EVENTS" /\ place.track \in {"A3", "A5"}
       THEN EffectsDecision(place, tracks, plan.sources)
       ELSE MicrofadeDecision(place, tracks, plan.sources)

\* After all decisions: the narration and the speech of a source never together.
SpeechFault(tracks) ==
    IF \E n \in ToSet(tracks["A1"]), s \in ToSet(tracks["A4"]) :
          Latest(n.start, s.start) < Earliest(n.end, s.end)
    THEN "SPEECH_COLLISION" ELSE Fine

-----------------------------------------------------------------------------
(* The plan by which accepted decisions are rendered                       *)
(* (engine/rendering/audio_plan.py): the part of its source each clip      *)
(* plays, where it is put, and its fades at both ends.                     *)

\* The decisions before and after an event.
Incoming(decisions, id) == CHOOSE d \in ToSet(decisions) : d.place.right = id
Outgoing(decisions, id) == CHOOSE d \in ToSet(decisions) : d.place.left = id

\* What _boundaries demands of a decision.
RenderDecisionFault(d, tracks) ==
    LET amounts == {d.leftTrim, d.rightTrim, d.fadeIn, d.fadeOut, d.overlap} IN
    IF \/ /\ d.policy \in {"PRESERVE_SILENCE", "HARD_CUT_ZERO_CROSSING"}
          /\ \/ d.transition # "NONE"
             \/ amounts # {0}
             \/ (d.policy = "PRESERVE_SILENCE") # (d.silence > 0)
       \/ /\ d.policy = "OVERLAP_CROSSFADE"
          /\ \/ d.transition # "CROSSFADE"
             \/ d.overlap < 2
             \/ {d.fadeIn, d.fadeOut} # {d.overlap}
             \/ {d.leftTrim, d.rightTrim, d.silence} # {0}
             \/ EventOf(tracks, d.place.left).end - EventOf(tracks, d.place.right).start # d.overlap
       \/ /\ d.policy \in {"ZERO_CROSSING_MICROFADE", "LONG_EDITORIAL_FADE"}
          /\ d.transition # "NONE" \/ d.overlap # 0 \/ d.silence # 0
    THEN "PCM_INPUT_INVALID" ELSE Fine

\* The fade of a clip on the side of a decision.
FadeAmount(d, fade) ==
    CASE d.policy \in {"PRESERVE_SILENCE", "HARD_CUT_ZERO_CROSSING"} -> 0
      [] d.policy = "OVERLAP_CROSSFADE" -> d.overlap
      [] OTHER -> fade

Clip(event, decisions) ==
    LET before == Incoming(decisions, event.id) after == Outgoing(decisions, event.id)
    IN [id      |-> event.id,
        in      |-> event.in + before.rightTrim,
        out     |-> event.out - after.leftTrim,
        start   |-> event.start + before.rightTrim,
        end     |-> event.end - after.leftTrim,
        fadeIn  |-> FadeAmount(before, before.fadeIn),
        fadeOut |-> FadeAmount(after, after.fadeOut)]

ClipFault(clip) ==
    IF \/ clip.in >= clip.out
       \/ clip.fadeIn > clip.end - clip.start
       \/ clip.fadeOut > clip.end - clip.start
    THEN "PCM_INPUT_INVALID" ELSE Fine

\* The clips, track by track.
RowsOf(tracks) == FlattenSeq([p \in DOMAIN AudioTracks |-> tracks[AudioTracks[p]]])
Clips(tracks, decisions) == [i \in DOMAIN RowsOf(tracks) |-> Clip(RowsOf(tracks)[i], decisions)]

RenderFault(tracks, decisions) ==
    LET decision(i) == RenderDecisionFault(decisions[i], tracks)
        clip(i) == ClipFault(Clips(tracks, decisions)[i])
    IN IF RowsOf(tracks) = <<>> THEN "PCM_INPUT_INVALID"
       ELSE IF FirstOf(decision, Len(decisions)) # Fine THEN FirstOf(decision, Len(decisions))
       ELSE FirstOf(clip, Len(RowsOf(tracks)))
=============================================================================
