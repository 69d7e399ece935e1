--------------------------- MODULE TemporalCompile ---------------------------
(***************************************************************************)
(* One run of the temporal compilers over one narration: observed tokens   *)
(* to word timings, timings to caption groups, emphasis intents to events, *)
(* and all three to frames.  Each compiler is a loop of the code           *)
(* (_computed_timings, _derive, _compile), and a step here is one turn of  *)
(* it: a word, a group, an intent.  The first fault ends the run with its  *)
(* rejection reason.                                                       *)
(***************************************************************************)
EXTENDS WordFrames

LOCAL INSTANCE FiniteSetsExt
LOCAL INSTANCE SequencesExt

CONSTANT Inputs    \* families of narrations with their tokens, audio, intents and rate

VARIABLES
    input,      \* what is compiled
    phase,      \* "parse", "align", "group", "assess", "emphasize", "map", "done",
                \* "rejected"
    verdict,    \* why it was rejected
    cursor,     \* the next spoken token, then the next word to be grouped
    timings,    \* word timings so far
    groups,     \* caption groups so far
    events,     \* emphasis events so far
    frames,     \* the frame spans: words, captions, emphasis
    report      \* what the alignment report found, and its status

vars == <<input, phase, verdict, cursor, timings, groups, events, frames, report>>

NoFrames == [words |-> <<>>, captions |-> <<>>, emphasis |-> <<>>]

NoReport == [status |-> "none", found |-> <<>>]

Words == input.rev.words
Spoken == SpokenTokens(input.tokens)

Init ==
    /\ \E family \in DOMAIN Inputs : input \in Inputs[family]
    /\ phase = "parse"
    /\ verdict = Fine
    /\ cursor = 1
    /\ timings = <<>>
    /\ groups = <<>>
    /\ events = <<>>
    /\ frames = NoFrames
    /\ report = NoReport

Reject(reason) ==
    /\ phase' = "rejected"
    /\ verdict' = reason
    /\ UNCHANGED <<input, cursor, timings, groups, events, frames, report>>

\* _parse_tokens, and the check of _computed_timings that there are words.
ParseTokens ==
    LET fault == TokensFault(input.tokens, input.audio, input.availability) IN
    /\ phase = "parse"
    /\ IF fault # Fine THEN Reject(fault)
       ELSE IF Words = <<>> THEN Reject("TRANSCRIPT_DIVERGENCE")
       ELSE /\ phase' = "align"
            /\ UNCHANGED <<input, verdict, cursor, timings, groups, events, frames, report>>

\* One turn of the loop of _computed_timings.
AlignWord ==
    LET w == Len(timings) + 1
        to == TakenUpTo(Spoken, cursor, Words[w].text)
    IN /\ phase = "align"
       /\ w <= Len(Words)
       /\ IF to = cursor \/ Spelled(Spoken, cursor, to) # Words[w].text
          THEN Reject(DivergenceIssue(Words, Spoken))
          ELSE /\ timings' = Append(timings, WordTiming(w, Spoken, cursor, to, input.availability))
               /\ cursor' = to
               /\ UNCHANGED <<input, phase, verdict, groups, events, frames, report>>

\* EndAlignment without the check for tokens that are left.
EndWithTokensLeft ==
    /\ phase = "align"
    /\ Len(timings) = Len(Words)
    /\ phase' = "group"
    /\ cursor' = 1
    /\ UNCHANGED <<input, verdict, timings, groups, events, frames, report>>

\* All words have their timing; no token may be left, and the inventory of the
\* caption compiler must hold.
EndAlignment ==
    LET fault == InventoryFault(input.rev, timings, input.availability) IN
    /\ phase = "align"
    /\ Len(timings) = Len(Words)
    /\ IF cursor # Len(Spoken) + 1 THEN Reject("TRANSCRIPT_DIVERGENCE")
       ELSE IF fault # Fine THEN Reject(fault)
       ELSE /\ phase' = "group"
            /\ cursor' = 1
            /\ UNCHANGED <<input, verdict, timings, groups, events, frames, report>>

\* The sentence that word c belongs to, as a range.
RangeAt(c) ==
    LET ranges == SentenceRanges(input.rev)
    IN ranges[CHOOSE k \in DOMAIN ranges : c \in ranges[k].start .. ranges[k].end - 1]

Ranks == [w \in DOMAIN Words |-> BoundaryRank(input.rev, w)]

\* One turn of the loops of _derive and _partition_sizes.
AddGroup ==
    /\ phase = "group"
    /\ cursor <= Len(Words)
    /\ LET range == RangeAt(cursor)
           size == NextSize(Ranks, range.end - range.start, range.end - cursor, cursor)
           group == CaptionGroup(input.rev, timings, input.availability, range,
                                 cursor, cursor + size, Len(groups) + 1)
           spoken == {group.shown[i] : i \in DOMAIN group.shown}
       IN IF {t \in spoken : input.rev.tokens[t].kind = "SPOKEN"}
                # {Words[w].token : w \in cursor .. cursor + size - 1}
          THEN Reject("DISPLAY_TEXT_INVALID")
          ELSE /\ groups' = Append(groups, group)
               /\ cursor' = cursor + size
               /\ UNCHANGED <<input, phase, verdict, timings, events, frames, report>>

\* compile_alignment_report, once the groups are complete.
AssessConfidence ==
    LET fault == PolicyFault(input.policy)
        found == ReportFindings(timings, groups, input.availability, input.policy)
    IN /\ phase = "group"
       /\ cursor > Len(Words)
       /\ IF fault # Fine THEN Reject(fault)
          ELSE /\ phase' = "assess"
               /\ report' = [status |-> ReportStatus(found, input.availability), found |-> found]
               /\ UNCHANGED <<input, verdict, cursor, timings, groups, events, frames>>

\* The groups are complete and the emphasis compiler has checked them.
EndGrouping ==
    /\ phase = "assess"
    /\ IF ~WordsTimed(input.rev, timings) \/ ~GroupsCover(groups, Len(Words))
       THEN Reject("DEPENDENCY_CONTENT_DRIFT")
       ELSE /\ phase' = "emphasize"
            /\ UNCHANGED <<input, verdict, cursor, timings, groups, events, frames, report>>

\* One turn of the loop over the intents.
AddEvent ==
    LET e == Len(events) + 1
        before == IF e = 1 THEN <<>> ELSE <<input.intents[e - 1]>>
        intent == input.intents[e]
        fault == IntentFault(intent, before, input.rev, groups, timings,
                             input.availability, input.allowed)
    IN /\ phase = "emphasize"
       /\ e <= Len(input.intents)
       /\ IF fault # Fine THEN Reject(fault)
          ELSE /\ events' = Append(events, EmphasisEvent(intent, groups, timings,
                                                         input.availability, e))
               /\ UNCHANGED <<input, phase, verdict, cursor, timings, groups, frames, report>>

EndEmphasis ==
    /\ phase = "emphasize"
    /\ Len(events) = Len(input.intents)
    /\ phase' = "map"
    /\ UNCHANGED <<input, verdict, cursor, timings, groups, events, frames, report>>

\* The word-to-frame compiler.
MapFrames ==
    LET source == SourceFault(timings, groups, events, input.availability)
        rate == RateFault(input.rate)
        spans == SpansFault(timings, groups, events, input.rate)
    IN /\ phase = "map"
       /\ IF source # Fine THEN Reject(source)
          ELSE IF rate # Fine THEN Reject(rate)
          ELSE IF spans # Fine THEN Reject(spans)
          ELSE /\ phase' = "done"
               /\ frames' = [words    |-> WordSpans(timings, input.rate),
                             captions |-> RangeSpans("CAPTION_GROUP", groups, input.rate),
                             emphasis |-> RangeSpans("EMPHASIS_EVENT", events, input.rate)]
               /\ UNCHANGED <<input, verdict, cursor, timings, groups, events, report>>

Next ==
    \/ ParseTokens
    \/ AlignWord
    \/ EndAlignment
    \/ AddGroup
    \/ AssessConfidence
    \/ EndGrouping
    \/ AddEvent
    \/ EndEmphasis
    \/ MapFrames

Spec == Init /\ [][Next]_vars /\ WF_vars(Next)

-----------------------------------------------------------------------------
(* Properties. *)

\* The greedy loop of _computed_timings gives up only where no way to cut the
\* spoken tokens into one piece per word spells the words.
Cuts == {cut \in [1 .. Len(Words) + 1 -> 1 .. Len(Spoken) + 1] :
            /\ cut[1] = 1
            /\ cut[Len(Words) + 1] = Len(Spoken) + 1
            /\ \A w \in DOMAIN Words :
                  /\ cut[w] < cut[w + 1]
                  /\ Spelled(Spoken, cut[w], cut[w + 1]) = Words[w].text}

DivergenceIsReal ==
    verdict \in {"TRANSCRIPT_DIVERGENCE", "ADAPTER_PRECISION_OVERSTATED"} => Cuts = {}

\* Every spoken token is used by exactly one word, in order, when the timings
\* are complete: nothing that was said is dropped from the captions.
TokensUsedOnce ==
    phase \in {"group", "assess", "emphasize", "map", "done"} =>
        FlattenSeq([w \in DOMAIN timings |-> timings[w].indices])
            = [i \in DOMAIN Spoken |-> Spoken[i].index]

\* Caption groups follow one another without a gap and never cross a sentence,
\* and each has four to nine words or is a whole sentence of at most three.
GroupsTileSentences ==
    \A g \in DOMAIN groups :
        LET group == groups[g]
            range == RangeAt(group.start)
            size == group.end - group.start
        IN /\ group.start = (IF g = 1 THEN 1 ELSE groups[g - 1].end)
           /\ group.end <= range.end
           /\ \/ size \in MinPreferred .. MaxPreferred
              \/ size = range.end - range.start /\ size <= ShortSentence

\* The captions together show every spoken and punctuation token of the
\* sentences that are spoken, once and in order.
CaptionsShowTheText ==
    phase \in {"emphasize", "map", "done"} =>
        LET retained(t) == /\ input.rev.tokens[t].kind \in {"SPOKEN", "PUNCTUATION"}
                           /\ \E w \in DOMAIN Words :
                                Words[w].sentence = input.rev.tokens[t].sentence
        IN FlattenSeq([g \in DOMAIN groups |-> groups[g].shown])
             = SelectSeq([t \in DOMAIN input.rev.tokens |-> t], retained)

\* A report that lets the result pass saw no caption with a word below either
\* warning, whatever shares and groups hide; one that blocks it says where; and a
\* caption is in doubt only where a word of it is as unsure.
DoubtIsReported ==
    LET p == input.policy
        unsure(w, value) == timings[w].confidence < value
        severest(scope, at) == {report.found[k].severity :
                                  k \in {j \in DOMAIN report.found :
                                            report.found[j].scope = scope /\ report.found[j].at = at}}
    IN report # NoReport /\ input.availability = "AVAILABLE" =>
          \A g \in DOMAIN groups : \A w \in groups[g].start .. groups[g].end - 1 :
             /\ report.status = "PASS" =>
                   ~unsure(w, p.wordWarning) /\ ~unsure(w, p.groupWarning)
             /\ unsure(w, p.wordBlocker) \/ unsure(w, p.groupBlocker) => report.status = "BLOCKED"
             /\ unsure(w, p.groupBlocker) => severest("CAPTION_GROUP", g) = {"BLOCKER"}
             /\ "BLOCKER" \in severest("CAPTION_GROUP", g) /\ p.groupBlocker <= p.wordBlocker =>
                   \E v \in groups[g].start .. groups[g].end - 1 : severest("WORD", v) = {"BLOCKER"}

\* What the narrator said is on screen, all of it timed and all of it shown, and
\* what the recogniser was unsure of is in the report.
NothingIsLeftOut == TokensUsedOnce /\ CaptionsShowTheText /\ DoubtIsReported

\* An emphasis never begins before the caption that carries it nor ends after
\* it, in words and in frames, and no two are on screen for the same word.
EmphasisInsideCaption ==
    \A e \in DOMAIN events :
        LET group == groups[events[e].group] IN
        /\ group.start <= events[e].start
        /\ events[e].end <= group.end
        /\ \A f \in 1 .. e - 1 : events[f].end <= events[e].start
        /\ phase = "done" =>
             /\ frames.captions[events[e].group].startFrame <= frames.emphasis[e].startFrame
             /\ frames.emphasis[e].endFrame <= frames.captions[events[e].group].endFrame

\* Rounding to frames keeps the order of speech: a span is never empty, never
\* begins before the one it follows, and shares at most one frame with it; a
\* caption spans exactly the frames of its words.
FramesKeepOrder ==
    phase = "done" =>
        /\ \A w \in DOMAIN frames.words :
              /\ frames.words[w].startFrame < frames.words[w].endFrame
              /\ w > 1 => /\ frames.words[w - 1].startFrame <= frames.words[w].startFrame
                          /\ frames.words[w - 1].endFrame <= frames.words[w].startFrame + 1
        /\ \A g \in DOMAIN frames.captions :
              LET span == frames.captions[g] IN
              /\ span.startFrame = frames.words[span.start].startFrame
              /\ span.endFrame = frames.words[span.end - 1].endFrame

\* Words, captions and emphases keep their order and nest, also in frames.
SpansNest == FramesKeepOrder /\ EmphasisInsideCaption
=============================================================================
