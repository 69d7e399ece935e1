--------------------------- MODULE MCTemporalCompile ---------------------------
(* TimelineCompile on small narrations: texts that the recogniser splits   *)
(* or merges, token times, sentences with their punctuation and emphasis   *)
(* intents, and frame rates; then, with a plan, layouts, cuts, and sounds. *)
EXTENDS TimelineCompile

LOCAL INSTANCE SequencesExt
LOCAL INSTANCE TLC

MCMaxFrame == 9
MCMaxRatePart == 250

\* A revision whose token t is after[t] = "word", "other", or the break of a
\* punctuation mark; sentences[k] = the number of tokens of sentence k.
Revision(texts, kinds, lengths) ==
    LET wordAt(t) == Cardinality({u \in 1 .. t : kinds[u] = "word"})
        upTo[k \in 0 .. Len(lengths)] == IF k = 0 THEN 0 ELSE upTo[k - 1] + lengths[k]
        sentenceOf(t) == CHOOSE k \in DOMAIN lengths : upTo[k - 1] < t /\ t <= upTo[k]
        tokenOf(w) == CHOOSE t \in DOMAIN kinds : kinds[t] = "word" /\ wordAt(t) = w
    IN [id |-> "rev",
        words |-> [w \in DOMAIN texts |->
                     [text |-> texts[w], sentence |-> sentenceOf(tokenOf(w)), token |-> tokenOf(w)]],
        tokens |-> [t \in DOMAIN kinds |->
                     [kind |-> CASE kinds[t] = "word" -> "SPOKEN"
                                 [] kinds[t] = "other" -> "NON_SPOKEN"
                                 [] OTHER -> "PUNCTUATION",
                      break |-> IF kinds[t] \in {"hard", "soft"} THEN kinds[t] ELSE "none",
                      sentence |-> sentenceOf(t),
                      word |-> IF kinds[t] = "word" THEN wordAt(t) ELSE 0]],
        sentences |-> [k \in DOMAIN lengths |-> k]]

Token(index, text, start, end, confidence) ==
    [kind |-> "SPOKEN", index |-> index, text |-> text,
     start |-> start, end |-> end, confidence |-> confidence]

\* Thresholds for words and groups, and for the share of doubtful words.
Policy(wb, ww, gb, gw, sw, sb) ==
    [wordBlocker |-> wb, wordWarning |-> ww, groupBlocker |-> gb, groupWarning |-> gw,
     shareWarning |-> sw, shareBlocker |-> sb]
Strict == Policy(8, 9, 8, 9, 300000, 600000)

Narration(rev, tokens, availability, intents, rate) ==
    [rev |-> rev, tokens |-> tokens, audio |-> [num |-> 100000000, den |-> 1],
     availability |-> availability, intents |-> intents, allowed |-> {1}, rate |-> rate, plan |-> NoPlan,
     policy |-> Strict]

OneFps == [num |-> 1, den |-> 1]
AllWords(n) == [i \in 1 .. n |-> "word"]
Evenly(texts) == [i \in DOMAIN texts |-> Token(i, texts[i], 10 * i, 10 * i + 10, Null)]

Texts == {<<"a">>, <<"b">>, <<"a", "b">>}
UpTo(S, n) == UNION {[1 .. k -> S] : k \in 1 .. n}
Spellings == {Narration(Revision(words, AllWords(Len(words)), <<Len(words)>>),
                        Evenly(tokens), "UNAVAILABLE", <<>>, OneFps) :
                 words \in UpTo(Texts, 3), tokens \in UpTo(Texts, 3)}

\* Two words, with every time of their two tokens, and a noise between them.
TwoWords == Revision(<<<<"a">>, <<"b">>>>, AllWords(2), <<2>>)
Noise == [kind |-> "NON_SPEECH", index |-> 2, text |-> <<>>, start |-> 0, end |-> 0, confidence |-> Null]
Times == {[Narration(TwoWords,
              <<Token(1, <<"a">>, t[1], t[2], c), Noise, Token(i, <<"b">>, t[3], t[4], 9)>>,
              availability, <<>>, OneFps) EXCEPT !.audio = [num |-> 5000, den |-> 2]] :
             t \in [1 .. 4 -> 0 .. 3], c \in {Null, 8}, i \in {3},
             availability \in {"AVAILABLE", "UNAVAILABLE"}}
        \cup {Narration(TwoWords, <<Token(1, <<"a">>, 0, 1, 8), Noise, Token(2, <<"b">>, 1, 2, 9)>>,
                        "AVAILABLE", <<>>, OneFps)}

\* A sentence of n words with marks after some of them, before it a sentence of
\* two words and a noise.
Marked(n, marks) ==
    LET before == <<"soft", "word", "other", "word", "hard">>
        word(w) == IF w \in DOMAIN marks THEN <<"word", marks[w]>> ELSE <<"word">>
        sentence == FlattenSeq([w \in 1 .. n |-> word(w)])
        texts == [w \in 1 .. n + 2 |-> <<"a">>]
    IN Revision(texts, before \o sentence, <<5, Len(sentence)>>)
MarksOf(n, most) == UNION {[at -> {"hard", "soft"}] : at \in {S \in SUBSET (1 .. n) : Cardinality(S) <= most}}
Grouped(n, marks, intents) ==
    Narration(Marked(n, marks), Evenly([w \in 1 .. n + 2 |-> <<"a">>]), "UNAVAILABLE", intents, OneFps)
Sentences ==
    {Grouped(n, marks, <<>>) : n \in 1 .. 9, marks \in {<<>>}}
    \cup UNION {{Grouped(n, marks, <<>>) : marks \in MarksOf(n, 2)} : n \in {10, 13}}
    \cup {Grouped(n, marks, <<>>) : n \in {14, 17, 19}, marks \in {<<>>}}

\* Intents over a sentence of ten words after one of two.
Intent(revision, start, end, type) ==
    [revision |-> revision, start |-> start, end |-> end, type |-> type, intensity |-> 1]
Intents == {Intent("rev", s, e, 1) : s \in {1, 2, 3, 9, 12}, e \in {2, 4, 10, 13, 14}}
           \cup {Intent("rev", 3, 4, 2), Intent("old", 3, 4, 1)}
Emphases == {Grouped(10, <<>>, intents) : intents \in UpTo(Intents, 2)}

\* Six words, four of them in a caption of their own, with every confidence below,
\* between and above the thresholds of policies that are in order or not.
Policies == {Strict, Policy(2, 9, 5, 6, 500000, 1000000), Policy(5, 6, 2, 9, 0, 1),
             Policy(8, 8, 8, 9, 0, 1), Policy(8, 9, 9, 8, 0, 1), Policy(8, 9, 8, 9, 1, 1),
             Policy(8, 9, 8, 9, 1, 1000001)}
Unsure == {[Narration(Marked(4, <<>>),
                      [w \in 1 .. 6 |-> Token(w, <<"a">>, 10 * w, 10 * w + 10, c[w])],
                      "AVAILABLE", <<>>, OneFps) EXCEPT !.policy = policy] :
             c \in [1 .. 6 -> {1, 5, 9}], policy \in Policies}

\* One word or two at every frame rate.
Rates == {[num |-> n, den |-> d] : n \in {0, 1, 24, 125, 240, 241}, d \in {1, 4}}
FrameTimes == {0, 1, 33, 34, 41, 42, 80}
Rated == {Narration(TwoWords, <<Token(1, <<"a">>, a, b, 8), Token(2, <<"b">>, c, d, 9)>>,
                    "AVAILABLE", <<Intent("rev", 2, 3, 1)>>, rate) :
            a \in {0, 1}, b \in {33, 34}, c \in {34, 41}, d \in FrameTimes, rate \in Rates}

-----------------------------------------------------------------------------
(* Plans: four words of a second each in two sentences, and so two captions; *)
(* a frame a second and three samples a frame.                               *)

Spoken4(times) ==
    LET rev == Revision([w \in 1 .. 4 |-> <<"a">>], AllWords(4), <<2, 2>>)
    IN [Narration(rev, [w \in 1 .. 4 |-> Token(w, <<"a">>, times[w][1], times[w][2], Null)],
                  "UNAVAILABLE", <<>>, OneFps) EXCEPT !.audio = [num |-> 4000000, den |-> 1]]
Seconds == [w \in 1 .. 4 |-> <<1000 * (w - 1), 1000 * w>>]

Rect(l, t, r, b) == [left |-> l, top |-> t, right |-> r, bottom |-> b]
Layout(v5) == [safe |-> Rect(0, 0, 3, 3), v5 |-> v5, v6 |-> Rect(0, 2, 3, 3)]
Clean == Layout(Rect(0, 0, 3, 2))

Plan(layout, cuts, sounds, sources, seams, silences) ==
    [layout |-> layout, rate |-> OneFps, sequence |-> [first |-> 1, last |-> 4], cuts |-> cuts,
     sounds |-> sounds, sources |-> sources, narration |-> 1, seams |-> seams, silences |-> silences]
FourSeconds == Spoken4(Seconds)
Planned(plan) == [FourSeconds EXCEPT !.plan = plan]

Emphasised == {<<>>} \cup {<<Intent("rev", s, e, 1)>> : s \in {1, 2}, e \in {2, 3}}
              \cup {<<Intent("rev", 1, 2, 1), Intent("rev", 2, 3, 1)>>,
                    <<Intent("rev", 1, 2, 1), Intent("rev", 2, 3, 1), Intent("rev", 3, 5, 1)>>}
Layouts == {Clean} \cup {Layout(r) : r \in {Rect(0, 0, 3, 3), Rect(2, 1, 4, 2), Rect(2, 1, 4, 3), Rect(2, 2, 2, 3)}}
Previews ==
    {[Spoken4([Seconds EXCEPT ![2] = <<1000, second>>, ![3] = <<third, 3000>>])
        EXCEPT !.intents = intents, !.plan = Plan(layout, <<>>, <<>>, <<>>, <<>>, <<>>)] :
        second \in {1500, 2000}, third \in {2000, 2500, 1800},
        intents \in Emphasised, layout \in Layouts}

Cut(id, ordinal, track, first, last, source) ==
    [id |-> id, ordinal |-> ordinal, track |-> track, revision |-> "rev",
     first |-> first, last |-> last, source |-> source]
Footage(rate, in, out, mode) ==
    [rate |-> rate, in |-> in, out |-> out, mode |-> mode, bound |-> TRUE]
Still == Footage(OneFps, 0, 1, "HOLD")
OneCut ==
    {<<Cut(id, 1, track, first, last, Footage([num |-> n, den |-> d], 1, out, mode))>> :
        id \in {0, 1}, track \in {"V1", "V5"}, first \in {1, 2}, last \in {1, 4, 5},
        n \in {1, 2}, d \in {1, 2}, out \in {1, 2, 4}, mode \in PlaybackModes}
TwoCuts ==
    {<<Cut(1, 1, "V1", a, b, Still), Cut(id, 2, track, c, d, Still)>> :
        a \in 1 .. 2, b \in 1 .. 3, c \in 1 .. 4, d \in 1 .. 4, id \in {1, 2}, track \in {"V1", "V2"}}
OddCuts ==
    {<<[Cut(1, 1, "V1", 1, 2, Still) EXCEPT !.revision = "old"]>>, <<Cut(1, 2, "V1", 1, 2, Still)>>,
     <<Cut(1, 1, "V1", 1, 2, [Still EXCEPT !.bound = FALSE])>>,
     <<Cut(1, 1, "V1", 1, 2, [Still EXCEPT !.mode = "ONCE"])>>}
Videos ==
    {Planned(Plan(Clean, cuts, <<>>, <<>>, <<>>, <<>>)) : cuts \in OneCut \cup TwoCuts \cup OddCuts}
    \cup {Planned([Plan(Clean, <<>>, <<>>, <<>>, <<>>, <<>>)
                     EXCEPT !.sequence = [first |-> f, last |-> l], !.rate = [num |-> n, den |-> 1]]) :
             f \in {1, 2}, l \in {1, 4, 5}, n \in {1, 2}}

\* Samples: silence, loud, the opposite, and one channel each way.
Wave == [z |-> <<0, 0>>, p |-> <<1, 1>>, n |-> <<-1, -1>>, m |-> <<1, -1>>]
Source(id, wave, delay, padding) ==
    [id |-> id, delay |-> delay, padding |-> padding, samples |-> [i \in DOMAIN wave |-> Wave[wave[i]]]]
Loud(id) == Source(id, [i \in 1 .. 9 |-> "p"], 0, 0)
Sound(id, track, first, last, source, in, out) ==
    [id |-> id, track |-> track, revision |-> "rev", first |-> first, last |-> last,
     source |-> source, in |-> in, out |-> out]

\* The places of some sounds whose cues are words of a second, and requests for
\* them.
WordsOf4 == [w \in 1 .. 5 |-> [startFrame |-> w - 1, endFrame |-> w]]
TracksOf(sounds) ==
    SoundEvents([sounds |-> sounds], WordsOf4, [start |-> 0, rate |-> OneFps])
Asking(sounds, crossings) ==
    LET tracksOf == TracksOf(sounds)
        places == Places(tracksOf)
        end(id) == EventOf(tracksOf, id).end
        start(id) == EventOf(tracksOf, id).start
        seam(i) == places[i] @@ [crossing |-> crossings[i],
                                 crossfade |-> IF crossings[i] = "CROSSFADE"
                                               THEN end(places[i].left) - start(places[i].right) ELSE 0]
    IN [i \in DOMAIN places |-> seam(i)]

Music(starts, lengths) ==
    [i \in DOMAIN starts |-> Sound(i, "A2", starts[i], starts[i], 1, 0, lengths[i])]
Increasing(starts) == \A i \in DOMAIN starts : i > 1 => starts[i - 1] <= starts[i]
Piles ==
    {Planned(Plan(Clean, <<>>, Music(starts, lengths), <<Loud(1)>>,
                  Asking(Music(starts, lengths), <<end>> \o between \o <<end>>), <<>>)) :
        starts \in {s \in [1 .. 3 -> 1 .. 4] : Increasing(s)}, lengths \in [1 .. 3 -> {5, 9}],
        between \in [1 .. 2 -> {"NONE", "CROSSFADE"}], end \in {"NONE", "FADE"}}

\* Two sounds one after the other, with every wave at the edge where they meet.
Meeting(track, left, right, delay) ==
    LET sounds == <<Sound(1, track, 1, 1, 1, 0, 3), Sound(2, track, 2, 2, 2, 1, 4)>> IN
    Planned([Plan(Clean, <<>>, sounds,
                  <<Source(1, left \o <<"p">>, 0, delay), Source(2, <<"p">> \o right \o <<"p">>, delay, 0)>>,
                  Asking(sounds, <<"NONE", "NONE", "NONE">>), <<>>) EXCEPT !.narration = 1])
Seams == {Meeting(track, left, right, delay) :
            track \in {"A2", "A3"}, delay \in {0, 1},
            left \in [1 .. 3 -> {"z", "p", "n"}], right \in [1 .. 2 -> {"p", "n", "m"}]}

\* Narration and the speech of a source.
Talk(a, b, last, source, len) ==
    LET sounds == <<Sound(1, "A1", 1, a, 1, 0, 3 * a), Sound(2, "A4", b, last, source, 0, len)>> IN
    Planned(Plan(Clean, <<>>, sounds, IF source = 1 THEN <<Loud(1)>> ELSE <<Loud(1), Loud(2)>>,
                 Asking(sounds, <<"NONE", "NONE", "NONE", "NONE">>), <<>>))
Talks == {Talk(a, b, last, source, len) :
            a \in 1 .. 3, b \in 1 .. 4, last \in {4, 5}, source \in {1, 2}, len \in {3, 4}}

\* One or two sounds with silences around them, and requests that do not fit.
Quiet == Source(1, <<"z", "p", "z">>, 0, 0)
Gap(left, right, start, end) ==
    [track |-> "A3", left |-> left, right |-> right, start |-> start, end |-> end]
Hush == <<Sound(1, "A3", 2, 2, 1, 0, 3), Sound(2, "A3", 4, 4, 1, 0, 2)>>
Gaps == {<<>>, <<Gap(0, 1, 0, 3)>>, <<Gap(0, 1, 0, 3), Gap(1, 2, 6, 9)>>, <<Gap(1, 2, 6, 9), Gap(0, 1, 0, 3)>>,
         <<Gap(1, 2, 6, 8)>>, <<Gap(2, 0, 11, 12)>>, <<Gap(1, 0, 6, 12)>>, <<Gap(1, 2, 6, 9), Gap(1, 2, 6, 9)>>,
         <<Gap(7, 1, 0, 3)>>, <<Gap(0, 1, 0, 3), Gap(7, 1, 0, 3)>>, <<Gap(2, 7, 11, 12)>>,
         <<Gap(7, 7, 0, 3)>>}
Asked == LET rows == Asking(Hush, <<"NONE", "NONE", "NONE">>) IN
         {rows, <<rows[1], rows[2]>>, <<rows[2], rows[1], rows[3]>>, <<rows[1], rows[1], rows[3]>>,
          [rows EXCEPT ![2].crossing = "FADE"], [rows EXCEPT ![1].crossing = "FADE"],
          [rows EXCEPT ![2].crossfade = 1], [rows EXCEPT ![1].crossing = "CROSSFADE"]}
Silences == {Planned(Plan(Clean, <<>>, Hush, <<Quiet>>, rows, gaps)) : gaps \in Gaps, rows \in Asked}
OddSounds ==
    {Planned(Plan(Clean, <<>>, sounds, sources, <<>>, <<>>)) :
        sounds \in {<<Sound(1, "A3", 1, 1, 1, 0, 3)>>, <<Sound(1, "A3", 1, 1, 1, 2, 2)>>,
                    <<Sound(1, "A3", 2, 1, 1, 0, 3)>>, <<Sound(1, "A3", 1, 1, 3, 0, 3)>>,
                    <<Sound(2, "A3", 1, 1, 1, 0, 3), Sound(1, "A3", 1, 1, 1, 0, 3)>>,
                    <<[Sound(1, "A3", 1, 1, 1, 0, 3) EXCEPT !.revision = "old"]>>, <<>>},
        sources \in {<<Loud(1)>>, <<Loud(1), Loud(1)>>, <<Loud(2), Loud(1)>>, <<Loud(1), Loud(2)>>,
                     <<Source(1, <<"p", "p">>, 1, 1)>>}}

MCInputs == <<Spellings, Times, Sentences, Emphases, Rated, Unsure,
              Previews, Videos, Piles, Seams, Talks, Silences, OddSounds>>
MCPreviews == <<Previews>>
=============================================================================
