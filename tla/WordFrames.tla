----------------------------- MODULE WordFrames -----------------------------
(***************************************************************************)
(* Emphasis events, and then the frames of words, captions and emphases.   *)
(*                                                                         *)
(* How word, caption and emphasis times become video frames                *)
(* (engine/contracts/word_to_frame.py): a span starts at the frame that    *)
(* contains its start and ends with the frame that contains its end.       *)
(***************************************************************************)
EXTENDS CaptionGroups

LOCAL INSTANCE FiniteSetsExt
LOCAL INSTANCE SequencesExt

-----------------------------------------------------------------------------
(* How emphasis intents become emphasis events                             *)
(* (engine/contracts/emphasis_events.py): each names a range of words, is  *)
(* allowed by the domain policy, comes after the one before it and lies    *)
(* inside one sentence and one caption group.                              *)

\* The caption groups that contain a word.
GroupsOf(groups, w) == {g \in ToSet(groups) : w \in g.start .. g.end - 1}

\* The groups are ranges of the words, and every word is in exactly one.
\* The words of the revision, all of them timed.
WordsTimed(rev, timings) ==
    /\ rev.words # <<>>
    /\ {timings[i].word : i \in DOMAIN timings} = DOMAIN rev.words

GroupsCover(groups, count) ==
    /\ \A g \in ToSet(groups) : g.start >= 1 /\ g.start < g.end /\ g.end <= count + 1
    /\ \A w \in 1 .. count : Cardinality({i \in DOMAIN groups :
                                            w \in groups[i].start .. groups[i].end - 1}) = 1

\* The order in which the intents are to come: by range, type and intensity.
IntentKey(intent) == <<intent.start, intent.end, intent.type, intent.intensity>>
KeyBelow(a, b) ==
    \E i \in DOMAIN a : a[i] < b[i] /\ \A j \in 1 .. i - 1 : a[j] = b[j]

\* IntentFault that does not look at the caption groups.
IntentFaultNoGroup(intent, before, rev, groups, timings, availability, allowed) ==
    LET count == Len(rev.words)
        sentences == {rev.words[w].sentence : w \in intent.start .. intent.end - 1}
    IN IF \/ intent.revision # rev.id
          \/ intent.start >= intent.end
          \/ intent.end > count + 1
       THEN "WORD_RANGE_INVALID"
       ELSE IF Cardinality(sentences) # 1 THEN "WORD_RANGE_INVALID"
       ELSE IF intent.type \notin allowed THEN "POLICY_INVALID"
       ELSE IF \E b \in ToSet(before) : intent.start < b.end THEN "OVERLAP_INVALID"
       ELSE Fine

\* What an intent is rejected for, after the intent `before' (a sequence of at
\* most one).  `allowed' are the types the policy snapshot resolves to.
IntentFault(intent, before, rev, groups, timings, availability, allowed) ==
    LET count == Len(rev.words) IN
    IF intent.revision # rev.id THEN "WORD_RANGE_INVALID"
    ELSE IF intent.start > intent.end THEN "WORD_RANGE_INVALID"
    ELSE IF \/ intent.start = intent.end
            \/ intent.start > count
            \/ intent.end > count + 1 THEN "WORD_RANGE_INVALID"
    ELSE IF Cardinality({rev.words[w].sentence : w \in intent.start .. intent.end - 1}) # 1
         THEN "WORD_RANGE_INVALID"
    ELSE IF intent.type \notin allowed THEN "POLICY_INVALID"
    ELSE IF \E b \in ToSet(before) : KeyBelow(IntentKey(intent), IntentKey(b))
         THEN "ORDERING_INVALID"
    ELSE IF \E b \in ToSet(before) : intent.start < b.end THEN "OVERLAP_INVALID"
    ELSE IF GroupsOf(groups, intent.start) # GroupsOf(groups, intent.end - 1)
         THEN "CAPTION_GROUP_BINDING_INVALID"
    ELSE IF /\ availability = "AVAILABLE"
            /\ \E w \in intent.start .. intent.end - 1 : timings[w].confidence = Null
         THEN "CONFIDENCE_INVALID"
    ELSE Fine

EmphasisEvent(intent, groups, timings, availability, ordinal) ==
    [ordinal    |-> ordinal,
     group      |-> (CHOOSE g \in GroupsOf(groups, intent.start) : TRUE).ordinal,
     start      |-> intent.start,
     end        |-> intent.end,
     type       |-> intent.type,
     startMs    |-> timings[intent.start].start,
     endMs      |-> timings[intent.end - 1].end,
     confidence |-> IF availability = "AVAILABLE"
                    THEN Min({timings[w].confidence : w \in intent.start .. intent.end - 1})
                    ELSE Null]

-----------------------------------------------------------------------------
(* How word, caption and emphasis times become video frames                *)
(* (engine/contracts/word_to_frame.py): a span starts at the frame that    *)
(* contains its start and ends with the frame that contains its end.       *)

CONSTANTS
    MaxFrame,      \* the largest integer a frame number may be (2^53 - 1)
    MaxRatePart    \* the largest numerator or denominator of a rate (2^32 - 1)

ASSUME MaxFrameAssumption == MaxFrame \in Nat /\ MaxRatePart \in Nat

\* Frame rates are fractions in lowest terms of one to 240 frames a second.
Divides(d, n) == \E q \in 1 .. n : n = d * q
RateFault(rate) ==
    IF \/ rate.num \notin 1 .. MaxRatePart
       \/ rate.den \notin 1 .. MaxRatePart
       \/ \E d \in 2 .. rate.den : Divides(d, rate.den) /\ Divides(d, rate.num)
       \/ rate.num < rate.den
       \/ rate.num > 240 * rate.den
    THEN "FRAME_RATE_INVALID"
    ELSE Fine

Scale(rate) == 1000 * rate.den
StartFrame(ms, rate) == (ms * rate.num) \div Scale(rate)
EndFrame(ms, rate) == (ms * rate.num + Scale(rate) - 1) \div Scale(rate)

\* A frame boundary is less than a frame away from its time.
Drifts(frame, ms, rate) ==
    LET off == frame * Scale(rate) - ms * rate.num IN off >= Scale(rate) \/ -off >= Scale(rate)

FramesFault(startMs, endMs, rate) ==
    LET start == StartFrame(startMs, rate)
        end == EndFrame(endMs, rate)
    IN IF startMs < 0 \/ endMs <= startMs THEN "TIMING_INVALID"
       ELSE IF start < 0 \/ end <= start \/ start > MaxFrame \/ end > MaxFrame
            THEN "FRAME_MAPPING_INVALID"
       ELSE IF Drifts(start, startMs, rate) \/ Drifts(end, endMs, rate)
            THEN "FRAME_MAPPING_INVALID"
       ELSE Fine

\* FrameSpan with the last frame as its end.
FrameSpanInclusive(kind, start, end, startMs, endMs, rate) ==
    [kind |-> kind, start |-> start, end |-> end,
     startFrame |-> StartFrame(startMs, rate), endFrame |-> EndFrame(endMs, rate) - 1]

FrameSpan(kind, start, end, startMs, endMs, rate) ==
    [kind |-> kind, start |-> start, end |-> end,
     startFrame |-> StartFrame(startMs, rate), endFrame |-> EndFrame(endMs, rate)]

-----------------------------------------------------------------------------
(* The inventory of what is compiled is checked once more before it is. *)

WordFault(timings, w, availability) ==
    IF timings[w].start < 0 \/ timings[w].end <= timings[w].start THEN "TIMING_INVALID"
    ELSE IF w > 1 /\ timings[w].start < timings[w - 1].end THEN "TIMING_INVALID"
    ELSE IF ConfidenceFault(timings[w].confidence, availability) # Fine
         THEN "DEPENDENCY_CONTENT_DRIFT"
    ELSE Fine

GroupFault(groups, g, timings) ==
    LET group == groups[g]
        cursor == IF g = 1 THEN 1 ELSE groups[g - 1].end
    IN IF group.ordinal # g THEN "SOURCE_RANGE_INVALID"
       ELSE IF \/ group.start # cursor
               \/ group.end <= group.start
               \/ group.end > Len(timings) + 1 THEN "SOURCE_RANGE_INVALID"
       ELSE IF group.startMs # timings[group.start].start \/ group.endMs # timings[group.end - 1].end
            THEN "TIMING_INVALID"
       ELSE Fine

EventFault(events, e, groups, timings) ==
    LET event == events[e]
        previousEnd == IF e = 1 THEN 1 ELSE events[e - 1].end
    IN IF event.ordinal # e THEN "SOURCE_RANGE_INVALID"
       ELSE IF \/ event.start < previousEnd
               \/ event.end <= event.start
               \/ event.end > Len(timings) + 1 THEN "SOURCE_RANGE_INVALID"
       ELSE IF ~\E g \in ToSet(groups) : /\ g.ordinal = event.group
                                         /\ g.start <= event.start
                                         /\ event.end <= g.end THEN "SOURCE_RANGE_INVALID"
       ELSE IF event.startMs # timings[event.start].start \/ event.endMs # timings[event.end - 1].end
            THEN "TIMING_INVALID"
       ELSE Fine

SourceFault(timings, groups, events, availability) ==
    LET badWords == {w \in DOMAIN timings : WordFault(timings, w, availability) # Fine}
        badGroups == {g \in DOMAIN groups : GroupFault(groups, g, timings) # Fine}
        badEvents == {e \in DOMAIN events : EventFault(events, e, groups, timings) # Fine}
    IN IF timings = <<>> THEN "SOURCE_RANGE_INVALID"
       ELSE IF badWords # {} THEN WordFault(timings, Min(badWords), availability)
       ELSE IF groups = <<>> THEN "SOURCE_RANGE_INVALID"
       ELSE IF badGroups # {} THEN GroupFault(groups, Min(badGroups), timings)
       ELSE IF Last(groups).end # Len(timings) + 1 THEN "SOURCE_RANGE_INVALID"
       ELSE IF badEvents # {} THEN EventFault(events, Min(badEvents), groups, timings)
       ELSE Fine

\* The three lists of spans, and what the first span that cannot be mapped is
\* rejected for.
WordSpans(timings, rate) ==
    [w \in DOMAIN timings |->
        FrameSpan("WORD", w, w + 1, timings[w].start, timings[w].end, rate)]
RangeSpans(kind, ranges, rate) ==
    [i \in DOMAIN ranges |->
        FrameSpan(kind, ranges[i].start, ranges[i].end, ranges[i].startMs, ranges[i].endMs, rate)]

SpansFault(timings, groups, events, rate) ==
    LET word(w) == FramesFault(timings[w].start, timings[w].end, rate)
        range(r) == FramesFault(r.startMs, r.endMs, rate)
        faults == [w \in DOMAIN timings |-> word(w)]
                  \o [g \in DOMAIN groups |-> range(groups[g])]
                  \o [e \in DOMAIN events |-> range(events[e])]
        bad == {i \in DOMAIN faults : faults[i] # Fine}
    IN IF bad = {} THEN Fine ELSE faults[Min(bad)]
=============================================================================
