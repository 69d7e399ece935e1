---------------------------- MODULE CaptionGroups ---------------------------
(***************************************************************************)
(* From observed speech to captions: the timings of the words, and then    *)
(* their groups.                                                           *)
(*                                                                         *)
(* How the words of a narration revision are grouped into captions         *)
(* (engine/contracts/caption_groups.py): sentence by sentence, a short     *)
(* sentence whole and a longer one in groups of four to nine words that    *)
(* end, if they can, at punctuation.                                       *)
(*                                                                         *)
(* A revision has `words', each with its sentence and the position of its  *)
(* token; `tokens', each with its kind, its sentence, the strength of the  *)
(* break it makes and, when spoken, its word; and the `sentences' in the   *)
(* order of the hierarchy.                                                 *)
(***************************************************************************)
EXTENDS Integers, Sequences, FiniteSets

LOCAL INSTANCE FiniteSetsExt
LOCAL INSTANCE SequencesExt

-----------------------------------------------------------------------------
(* How observed speech becomes word timings                                *)
(* (engine/contracts/alignment_result.py).  A recogniser's raw package is  *)
(* a list of tokens; the spoken ones carry a text and a time range.  Each  *)
(* canonical word takes as many whole tokens as its normalized text is     *)
(* long, and must then be spelled by exactly these.                        *)
(*                                                                         *)
(* Word ordinals, token positions and ranges start at 1; a range           *)
(* [start, end) excludes its end, as in the code.                          *)

\* A check that found nothing to reject.
Fine == "fine"

Confidences == {"AVAILABLE", "UNAVAILABLE", "NOT_APPLICABLE"}

\* A missing number: the code's None.
Null == -1

-----------------------------------------------------------------------------
(* The raw tokens. *)

IsSpoken(token) == token.kind = "SPOKEN"
SpokenTokens(tokens) == SelectSeq(tokens, IsSpoken)

\* What is wrong with the confidence of one number.
ConfidenceFault(confidence, availability) ==
    IF availability = "AVAILABLE"
    THEN IF confidence = Null THEN "CONFIDENCE_INVALID"
         ELSE IF confidence \notin 0 .. 1000000 THEN "CONFIDENCE_INVALID"
         ELSE Fine
    ELSE IF confidence # Null THEN "CONFIDENCE_INVALID" ELSE Fine

\* What is wrong with a spoken token after the spoken token `before' (a
\* sequence of at most one).  `audio' is the decoded duration in microseconds
\* as a fraction.
SpokenFault(token, before, audio, availability) ==
    IF \/ token.start < 0
       \/ token.end < 0
       \/ token.end = token.start
       \/ token.start > token.end
       \/ \E b \in ToSet(before) : token.start < b.start
       \/ token.end * 1000 * audio.den > audio.num
       \/ \E b \in ToSet(before) : token.start < b.end
    THEN "TIMING_INVALID"
    ELSE ConfidenceFault(token.confidence, availability)

\* What is wrong with the token at position p of the package.
TokenFault(tokens, p, audio, availability) ==
    LET token == tokens[p]
        earlier == SpokenTokens(SubSeq(tokens, 1, p - 1))
        before == IF earlier = <<>> THEN <<>> ELSE <<Last(earlier)>>
    IN IF p > 1 /\ token.index <= tokens[p - 1].index THEN "RAW_OBSERVATION_INVALID"
       ELSE IF IsSpoken(token) THEN SpokenFault(token, before, audio, availability)
       ELSE IF token.confidence # Null THEN "CONFIDENCE_INVALID"
       ELSE Fine

\* What the first faulty token is rejected for.
TokensFault(tokens, audio, availability) ==
    LET faulty == {p \in DOMAIN tokens : TokenFault(tokens, p, audio, availability) # Fine}
    IN IF tokens = <<>> THEN "RAW_OBSERVATION_INVALID"
       ELSE IF faulty # {} THEN TokenFault(tokens, Min(faulty), audio, availability)
       ELSE IF SpokenTokens(tokens) = <<>> THEN "TRANSCRIPT_DIVERGENCE"
       ELSE Fine

-----------------------------------------------------------------------------
(* Words and tokens. *)

\* The text that tokens from .. to - 1 spell together.
Spelled(spoken, from, to) ==
    FlattenSeq([i \in 1 .. to - from |-> spoken[from + i - 1].text])

\* TakenUpTo that lets every word have one token.
TakenToOne(spoken, from, text) == Min({from + 1, Len(spoken) + 1})

\* Where a word that starts with token `from' stops taking tokens: as soon as
\* it has as many letters as the word, or when there are no more.
TakenUpTo(spoken, from, text) ==
    Min({to \in from .. Len(spoken) + 1 :
            to = Len(spoken) + 1 \/ Len(Spelled(spoken, from, to)) >= Len(text)})

\* The timing of a word that takes tokens from .. to - 1.
WordTiming(word, spoken, from, to, availability) ==
    [word       |-> word,
     start      |-> spoken[from].start,
     end        |-> spoken[to - 1].end,
     confidence |-> IF availability = "AVAILABLE"
                    THEN Min({spoken[i].confidence : i \in from .. to - 1})
                    ELSE Null,
     indices    |-> [i \in 1 .. to - from |-> spoken[from + i - 1].index]]

\* The words and tokens that one more step of the search for the cause of a
\* divergence reaches from <<w, t, merged>>: a word spelled by several tokens,
\* or several words spelled by one.
DivergenceStep(words, spoken, here) ==
    LET w == here[1] t == here[2] IN
    {<<w + 1, to, here[3]>> :
        to \in {u \in t + 1 .. Len(spoken) + 1 :
                  w <= Len(words) /\ Spelled(spoken, t, u) = words[w].text}}
    \cup
    {<<to, t + 1, TRUE>> :
        to \in {u \in w + 2 .. Len(words) + 1 :
                  /\ t <= Len(spoken)
                  /\ FlattenSeq([i \in 1 .. u - w |-> words[w + i - 1].text]) = spoken[t].text}}

\* Why the words and the tokens do not match: the recogniser merged words into
\* one token, or the transcript says something else.
DivergenceIssue(words, spoken) ==
    LET reached[n \in 0 .. Len(words) + Len(spoken) + 1] ==
            IF n = 0 THEN {<<1, 1, FALSE>>}
            ELSE reached[n - 1] \cup
                 UNION {DivergenceStep(words, spoken, here) : here \in reached[n - 1]}
        end == <<Len(words) + 1, Len(spoken) + 1, TRUE>>
    IN IF end \in reached[Len(words) + Len(spoken) + 1]
       THEN "ADAPTER_PRECISION_OVERSTATED"
       ELSE "TRANSCRIPT_DIVERGENCE"

-----------------------------------------------------------------------------
(* How the words of a narration revision are grouped into captions         *)
(* (engine/contracts/caption_groups.py): sentence by sentence, a short     *)
(* sentence whole and a longer one in groups of four to nine words that    *)
(* end, if they can, at punctuation.                                       *)
(*                                                                         *)
(* A revision has `words', each with its sentence and the position of its  *)
(* token; `tokens', each with its kind, its sentence, the strength of the  *)
(* break it makes and, when spoken, its word; and the `sentences' in the   *)
(* order of the hierarchy.                                                 *)

MinPreferred == 4
MaxPreferred == 9
TargetWords == 6
ShortSentence == 3

-----------------------------------------------------------------------------
(* The inventory: what the revision and the timings must look like. *)

\* Where the words of sentence s that start at word c end.
RunEnd(words, c, s) ==
    Min({e \in c .. Len(words) + 1 : e = Len(words) + 1 \/ words[e].sentence # s})

\* The first word after each sentence, the sentences taken in order.
CursorAfter(rev) ==
    LET cursor[k \in 0 .. Len(rev.sentences)] ==
            IF k = 0 THEN 1 ELSE RunEnd(rev.words, cursor[k - 1], rev.sentences[k])
    IN cursor

\* The words of each sentence that has any, as ranges.
SentenceRanges(rev) ==
    LET cursor == CursorAfter(rev)
        spoken(k) == cursor[k - 1] < cursor[k]
    IN [k \in {i \in DOMAIN rev.sentences : spoken(i)} |->
            [start |-> cursor[k - 1], end |-> cursor[k]]]

\* Every word is the spoken token it names, in the order of the tokens.
WordsMatchTokens(rev) ==
    /\ \A w \in DOMAIN rev.words :
         LET t == rev.words[w].token IN
         /\ t \in DOMAIN rev.tokens
         /\ rev.tokens[t].kind = "SPOKEN"
         /\ rev.tokens[t].word = w
         /\ rev.tokens[t].sentence = rev.words[w].sentence
    /\ \A v, w \in DOMAIN rev.words : v < w => rev.words[v].token < rev.words[w].token

\* What is wrong with the timing of word w.
TimingFault(rev, timings, w, availability) ==
    IF timings[w].word # w THEN "CANONICAL_COVERAGE_INVALID"
    ELSE IF \/ timings[w].start < 0
            \/ timings[w].start >= timings[w].end
            \/ w > 1 /\ timings[w].start < timings[w - 1].end
    THEN "TIMING_INVALID"
    ELSE Fine

InventoryFault(rev, timings, availability) ==
    LET words == rev.words
        late == {w \in DOMAIN words : TimingFault(rev, timings, w, availability) # Fine}
        unsure == {w \in DOMAIN words :
                     ConfidenceFault(timings[w].confidence, availability) # Fine}
    IN IF words = <<>> \/ ~WordsMatchTokens(rev) THEN "CANONICAL_COVERAGE_INVALID"
       ELSE IF ~IsInjective(rev.sentences) THEN "CANONICAL_COVERAGE_INVALID"
       ELSE IF CursorAfter(rev)[Len(rev.sentences)] # Len(words) + 1
            THEN "CANONICAL_COVERAGE_INVALID"
       ELSE IF Len(timings) # Len(words) THEN "CANONICAL_COVERAGE_INVALID"
       ELSE IF late # {} THEN TimingFault(rev, timings, Min(late), availability)
       ELSE IF unsure # {} THEN "CONFIDENCE_INVALID"
       ELSE Fine

\* How good a break there is after word w: 0 at a hard punctuation mark, 1 at
\* a comma, 2 between two words or where the sentence has no further word.
BoundaryRank(rev, w) ==
    LET sameSentence(t) == rev.tokens[t].sentence = rev.words[w].sentence
        next == {t \in DOMAIN rev.tokens : /\ t > rev.words[w].token
                                           /\ sameSentence(t)
                                           /\ rev.tokens[t].kind = "SPOKEN"}
        between == {t \in rev.words[w].token + 1 .. Min(next) - 1 :
                      sameSentence(t) /\ rev.tokens[t].kind = "PUNCTUATION"}
        breaks == {rev.tokens[t].break : t \in between}
    IN IF next = {} THEN 2
       ELSE IF "hard" \in breaks THEN 0
       ELSE IF "soft" \in breaks THEN 1
       ELSE 2

-----------------------------------------------------------------------------
(* The partition of a sentence. *)

\* The sizes a group may have when `remaining' words are left: never so many
\* that what is left over is too short a group.
CandidateSizes(remaining) ==
    {size \in MinPreferred .. MaxPreferred :
        remaining - size = 0 \/ remaining - size >= MinPreferred}

\* Of two candidate sizes of a group that starts at word c, the one with the
\* better break, else the one nearer to the target, else the larger.
Distance(size) == IF size < TargetWords THEN TargetWords - size ELSE size - TargetWords
Better(rank, c, a, b) ==
    LET ra == rank[c + a - 1] rb == rank[c + b - 1] IN
    \/ ra < rb
    \/ ra = rb /\ Distance(a) < Distance(b)
    \/ ra = rb /\ Distance(a) = Distance(b) /\ a > b

\* NextSize that fills every group.
FullSize(rank, length, remaining, c) == Min({remaining, MaxPreferred})

\* The size of the next group of a sentence of `length' words, of which
\* `remaining' are left from word c on.
NextSize(rank, length, remaining, c) ==
    IF length <= ShortSentence THEN length
    ELSE IF remaining \in MinPreferred .. MaxPreferred THEN remaining
    ELSE CHOOSE size \in CandidateSizes(remaining) :
            \A other \in CandidateSizes(remaining) \ {size} : Better(rank, c, size, other)

\* The tokens whose texts the caption of words start .. end - 1 shows, in a
\* sentence with the given range: what stands before the first word of the
\* sentence, and after each word up to the next group.
ShownTokens(rev, start, end, range) ==
    LET sentence == rev.words[range.start].sentence
        lower == IF start = range.start THEN 1 ELSE rev.words[start].token
        upper == IF end < range.end THEN rev.words[end].token ELSE Len(rev.tokens) + 1
        shown(t) == /\ rev.tokens[t].sentence = sentence
                    /\ rev.tokens[t].kind \in {"SPOKEN", "PUNCTUATION"}
    IN SelectSeq([i \in 1 .. upper - lower |-> lower + i - 1], shown)

CaptionGroup(rev, timings, availability, range, start, end, ordinal) ==
    [ordinal    |-> ordinal,
     sentence   |-> rev.words[start].sentence,
     start      |-> start,
     end        |-> end,
     policy     |-> IF range.end - range.start <= ShortSentence
                    THEN "SHORT_SENTENCE_1_TO_3" ELSE "PREFERRED_4_TO_9",
     shown      |-> ShownTokens(rev, start, end, range),
     startMs    |-> timings[start].start,
     endMs      |-> timings[end - 1].end,
     confidence |-> IF availability = "AVAILABLE"
                    THEN Min({timings[w].confidence : w \in start .. end - 1})
                    ELSE Null]

-----------------------------------------------------------------------------
(* The alignment report (engine/contracts/alignment_report.py): which words *)
(* and groups the recogniser was too unsure of, and whether the result may  *)
(* be used.  A policy has thresholds for words, groups and the share of     *)
(* doubtful words, in millionths.                                           *)

PolicyFault(policy) ==
    IF \/ \E name \in DOMAIN policy : policy[name] \notin 0 .. 1000000
       \/ policy.wordBlocker >= policy.wordWarning
       \/ policy.groupBlocker >= policy.groupWarning
       \/ policy.shareWarning >= policy.shareBlocker
    THEN "POLICY_INVALID" ELSE Fine

Severity(value, warning, blocker) ==
    IF value < blocker THEN "BLOCKER" ELSE IF value < warning THEN "WARNING" ELSE "none"

\* One finding for every word, or every group, below its thresholds, in order.
ConfidenceFindings(scope, items, warning, blocker) ==
    LET doubtful(i) == items[i].confidence < warning
        at == SelectSeq([i \in DOMAIN items |-> i], doubtful)
    IN [k \in DOMAIN at |->
          [scope |-> scope, at |-> at[k],
           severity |-> Severity(items[at[k]].confidence, warning, blocker)]]

\* One more when too large a share of the words is below the warning.
ShareFindings(timings, policy) ==
    LET low == Cardinality({w \in DOMAIN timings : timings[w].confidence < policy.wordWarning})
        reaches(share) == low * 1000000 >= share * Len(timings)
        finding(severity) == <<[scope |-> "REPORT", at |-> 0, severity |-> severity]>>
    IN IF reaches(policy.shareBlocker) THEN finding("BLOCKER")
       ELSE IF reaches(policy.shareWarning) THEN finding("WARNING")
       ELSE <<>>

\* ReportFindings that looks at the captions only.
ReportFindingsOfGroups(timings, groups, availability, policy) ==
    ConfidenceFindings("CAPTION_GROUP", groups, policy.groupWarning, policy.groupBlocker)

ReportFindings(timings, groups, availability, policy) ==
    CASE availability = "AVAILABLE" ->
            ConfidenceFindings("WORD", timings, policy.wordWarning, policy.wordBlocker)
            \o ConfidenceFindings("CAPTION_GROUP", groups, policy.groupWarning, policy.groupBlocker)
            \o ShareFindings(timings, policy)
      [] availability = "UNAVAILABLE" -> <<[scope |-> "REPORT", at |-> 0, severity |-> "WARNING"]>>
      [] availability = "NOT_APPLICABLE" -> <<>>

ReportStatus(found, availability) ==
    LET severities == {found[i].severity : i \in DOMAIN found} IN
    CASE availability = "UNAVAILABLE" -> "CONFIDENCE_UNAVAILABLE"
      [] availability = "NOT_APPLICABLE" -> "CONFIDENCE_NOT_APPLICABLE"
      [] OTHER -> IF "BLOCKER" \in severities THEN "BLOCKED"
                  ELSE IF "WARNING" \in severities THEN "REVIEW_REQUIRED"
                  ELSE "PASS"
=============================================================================
