------------------------ MODULE MCNarrationWork ------------------------
(* Worlds of one or two revisions, each with the artifacts that let one     *)
(* part of the chain happen, from requests to soundtracks.                  *)
EXTENDS NarrationWork

CONSTANTS
    ChosenWorlds    \* which of the worlds below

Revision(n) == [kind |-> "revision", n |-> n]
Document(n) == [kind |-> "document", current |-> n]
Audio(n, take) == [kind |-> "audio", revision |-> n, take |-> take]
Snapshot(m) == [kind |-> "snapshot", manifest |-> m]

Request(n, mode) ==
    [kind |-> "request", revision |-> Revision(n), audio |-> Audio(n, 1), mode |-> mode,
     transcript |-> mode # "FREE_API", confidence |-> "SUPPORTED"]

Execution(n, mode, paid) ==
    [kind |-> "execution", request |-> Request(n, IF mode = "PAID_API" THEN "FREE_API" ELSE mode),
     mode |-> mode, status |-> "SUCCEEDED", paid |-> paid, original |-> None,
     confidence |-> "AVAILABLE"]

Replay(n, original, status) ==
    [kind |-> "execution", request |-> Request(n, "REPLAY"), mode |-> "REPLAY",
     status |-> status, paid |-> "none",
     original |-> [kind |-> "original", request |-> original.request, execution |-> original],
     confidence |-> IF status = "FAILED" THEN "NOT_APPLICABLE" ELSE "AVAILABLE"]

Result(n) ==
    [kind |-> "result", revision |-> Revision(n), audio |-> Audio(n, 1),
     request |-> Request(n, "REPLAY"),
     execution |-> Replay(n, Execution(n, "LOCAL", "none"), "SUCCEEDED"),
     confidence |-> "AVAILABLE"]

Groups(n) == GroupsOfResult(Result(n))
Events(n, intents) == EventsOf(Result(n), Groups(n), Snapshot(1), intents)
Frames(n, intents, rate) == FramesOf(Result(n), Groups(n), Events(n, intents), rate)
Preview(layout) == PreviewOf(Groups(1), Events(1, "first"), Frames(1, "first", 25), layout)

World(name) ==
    CASE name = "requests"   -> {Revision(1), Document(1), Document(2), Audio(1, 1), Audio(2, 1)}
      [] name = "executions" -> {Request(1, "FREE_API"), Request(1, "REPLAY"),
                                 Execution(1, "PAID_API", "APPROVED"),
                                 [Execution(1, "PAID_API", "DENIED") EXCEPT !.status = "BLOCKED",
                                                                          !.confidence = "none"]}
      [] name = "results"    -> {Revision(1), Document(1), Request(1, "REPLAY"), Audio(1, 1),
                                 Replay(1, Execution(1, "PAID_API", "APPROVED"), "SUCCEEDED"),
                                 Replay(1, Execution(1, "LOCAL", "none"), "SUCCEEDED"),
                                 Replay(1, Execution(1, "LOCAL", "none"), "FAILED")}
      [] name = "captions"   -> {Revision(1), Document(1), Document(2), Result(1), Result(2)}
      [] name = "frames"     -> {Revision(1), Document(1), Result(1), Snapshot(1),
                                 GroupsOfResult(Result(1))}
      [] name = "scenes"     -> {Groups(1), Events(1, "first"), Frames(1, "first", 25),
                                 Frames(1, "first", 10), Events(1, "second")}
      [] name = "videos"     -> {Groups(1), Events(1, "first"), Frames(1, "first", 25),
                                 Preview("clear"), Preview("occluding"),
                                 CollisionOf(Preview("clear")), CollisionOf(Preview("occluding"))}
      [] name = "sounds"     -> {Frames(1, "first", 25), Frames(1, "first", 10), Audio(1, 1),
                                 Audio(2, 1),
                                 VideoOf(Preview("clear"), CollisionOf(Preview("clear")), "cuts")}
      [] name = "timings"    -> {Result(1), Result(2), Groups(1), Groups(2), Events(1, "first"),
                                 Events(1, "second"), Frames(1, "first", 25)}

\* What the contracts read of an object they do not compare, one part at a
\* time: of a recording the revision, of a request the mode and confidence, of
\* an execution the status, mode and request.
MCAlterations(x) ==
    CASE x.kind = "audio" -> {[x EXCEPT !.revision = 3 - @]}
      [] x.kind = "request" ->
            {[x EXCEPT !.mode = IF @ = "REPLAY" THEN "FREE_API" ELSE "REPLAY"],
             [x EXCEPT !.confidence = "UNSUPPORTED"]}
      [] x.kind = "execution" ->
            {[x EXCEPT !.status = IF @ = "SUCCEEDED" THEN "FAILED" ELSE "SUCCEEDED"],
             [x EXCEPT !.mode = "LOCAL"], [x EXCEPT !.request = Request(1, "REPLAY")]}
      [] OTHER -> {}

\* Two steps of the caption and preview chains, one of the others.
MCRoom(world) == IF world \in {World("captions"), World("frames"), World("scenes")} THEN 2 ELSE 1

MCWorlds == {World(name) : name \in ChosenWorlds}

MCEvidence ==
    {[revision |-> Revision(1), audio |-> Audio(1, 1), request |-> Request(1, "REPLAY"),
      execution |-> Replay(1, Execution(1, "PAID_API", "APPROVED"), "SUCCEEDED")]}

-----------------------------------------------------------------------------
(* Narrations of two or three characters: one sentence with two words, two *)
(* sentences with a word each or with two and one, and a word and a comma. *)

Node(type, up, order, start, end) ==
    [type |-> type, up |-> up, order |-> order, start |-> start, end |-> end]
Spoken(up, order, ordinal, start, text) ==
    [spoken |-> TRUE, up |-> up, order |-> order, ordinal |-> <<ordinal>>,
     start |-> start, end |-> start + 1, shown |-> <<text[start + 1]>>]

Chapter(end) == <<Node("SECTION", 0, 1, 0, end), Node("PARAGRAPH", 1, 1, 0, end)>>

OneSentence ==
    LET text == <<"a", "b">> IN
    [text |-> text,
     nodes |-> Chapter(2) \o <<Node("SENTENCE", 2, 1, 0, 2)>>,
     tokens |-> <<Spoken(3, 1, 0, 0, text), Spoken(3, 2, 1, 1, text)>>,
     projection |-> <<<<1, 0>>, <<2, 1>>>>]

TwoSentences ==
    LET text == <<"a", "b">> IN
    [text |-> text,
     nodes |-> Chapter(2) \o <<Node("SENTENCE", 2, 1, 0, 1), Node("SENTENCE", 2, 2, 1, 2)>>,
     tokens |-> <<Spoken(3, 1, 0, 0, text), Spoken(4, 2, 1, 1, text)>>,
     projection |-> <<<<1, 0>>, <<2, 1>>>>]

WithComma ==
    LET text == <<"a", ",">> IN
    [text |-> text,
     nodes |-> Chapter(2) \o <<Node("SENTENCE", 2, 1, 0, 2)>>,
     tokens |-> <<Spoken(3, 1, 0, 0, text),
                  [Spoken(3, 2, 0, 1, text) EXCEPT !.spoken = FALSE, !.ordinal = <<>>]>>,
     projection |-> <<<<1, 0>>>>]

ThreeWords ==
    LET text == <<"a", "b", "c">> IN
    [text |-> text,
     nodes |-> Chapter(3) \o <<Node("SENTENCE", 2, 1, 0, 2), Node("SENTENCE", 2, 2, 2, 3)>>,
     tokens |-> <<Spoken(3, 1, 0, 0, text), Spoken(3, 2, 1, 1, text), Spoken(4, 3, 2, 2, text)>>,
     projection |-> <<<<1, 0>>, <<2, 1>>, <<3, 2>>>>]

MCEdited == {OneSentence, TwoSentences, WithComma}
MCNarrations == MCEdited \cup {ThreeWords}
=============================================================================
