---------------------------- MODULE MCLocalStores ----------------------------
(* LocalStores on small instances.                                         *)
EXTENDS LocalStores, TLC

MCRevisions == 1..2

\* A chain of three artifacts that a root needs, and two that nobody needs.
Row(id, deps) == [id |-> id, project |-> "p", deps |-> deps, size |-> 1, kept |-> FALSE]
MCCatalog == <<Row(1, {}), Row(2, {1}), Row(3, {2}), Row(4, {}), Row(5, {})>>
MCRenders == {[full |-> FALSE, committed |-> TRUE, estimate |-> 3, rows |-> 1..3],
              [full |-> TRUE, committed |-> TRUE, estimate |-> 2, rows |-> 4..5]}

MCEntries == {[payload |-> "p1", lifecycle |-> "l1"], [payload |-> "p2", lifecycle |-> "l2"]}

\* Three payloads, the first shared by two entries of different age, the last
\* without any.
Payload(id, size, created) == [id |-> id, size |-> size, created |-> created, ready |-> TRUE]
Entry(id, payload, accessed, artifacts) ==
  [id |-> id, payload |-> payload, created |-> 1, accessed |-> accessed, ready |-> TRUE,
   artifacts |-> artifacts]
MCInventories ==
  {[payloads |-> {Payload(1, size, 1), Payload(2, 1, created), Payload(3, 1, 2)},
    entries |-> {Entry(1, 1, 1, {}), Entry(2, 1, accessed, artifacts), Entry(3, 2, 1, {})}] :
     size \in 1..2, created \in {0, 2}, accessed \in {1, 3}, artifacts \in {{}, {"art"}}}
MCPolicies == {[soft |-> soft, hard |-> 9, ttl |-> 2, asOf |-> 4, retained |-> {"art"}] : soft \in 0..3}

\* A stereo recording of two frames, with each number of its header changed.
Stereo == [length |-> 52, riff |-> TRUE, riffSize |-> 44, format |-> TRUE, data |-> TRUE, tag |-> 1,
           channels |-> 2, rate |-> 8000, byteRate |-> 32000, align |-> 4, bits |-> 16, dataLength |-> 8]
Mono == [Stereo EXCEPT !.channels = 1, !.align = 2, !.byteRate = 16000]
Empty == [Stereo EXCEPT !.length = 44, !.riffSize = 36, !.dataLength = 0]
MCWaves ==
  {Stereo, Mono, Empty, [Stereo EXCEPT !.length = 40], [Stereo EXCEPT !.riffSize = 45],
   [Stereo EXCEPT !.format = FALSE], [Stereo EXCEPT !.dataLength = 7],
   [Stereo EXCEPT !.length = 50, !.riffSize = 42, !.dataLength = 6],
   [Stereo EXCEPT !.align = 0], [Stereo EXCEPT !.bits = 8], [Stereo EXCEPT !.length = 0],
   [Stereo EXCEPT !.length = 64, !.riffSize = 56, !.dataLength = 20]}
MCDeclarations ==
  LET right == [wrong |-> {}, revision |-> "r1", path |-> {}, hash |-> Stereo, rate |-> 8000,
                channels |-> 2, frames |-> 2] IN
  {right, [right EXCEPT !.wrong = {"counts"}], [right EXCEPT !.revision = "r2"],
   [right EXCEPT !.path = {"dots", "uri"}]}
  \cup {[right EXCEPT !.hash = w] : w \in MCWaves}
  \cup {[right EXCEPT !.rate = 8001], [right EXCEPT !.channels = 1], [right EXCEPT !.frames = 1],
        [right EXCEPT !.frames = 3]}

\* Two images with a feature in common, two films of one origin, one of them
\* with a feature of an image, and a song.
Origin(provider, uri, license) == [provider |-> provider, uri |-> uri, license |-> license]
Seen(media, duration, perceptual, local, origin) ==
  [media |-> media, duration |-> duration, perceptual |-> perceptual, local |-> local, descriptor |-> origin]
MCManifest ==
  [photo |-> Seen("image", 0, {"f1"}, {}, Origin("stock", "u1", "free")),
   crop  |-> Seen("image", 0, {"f1", "f2"}, {"l1"}, Origin("stock", "u2", "free")),
   film  |-> Seen("video", 4, {"f3"}, {}, Origin("studio", "u3", "free")),
   cut   |-> Seen("video", 2, {"f4"}, {"l1"}, Origin("studio", "u3", "paid")),
   song  |-> Seen("audio", 3, {}, {}, Origin("studio", "u4", "free"))]
Span(a, b) == [start |-> a, end |-> b]
Asset(s, ranges) ==
  [source |-> s, descriptor |-> MCManifest[s].descriptor, ranges |-> ranges, meaning |-> "plain",
   audio |-> "reviewed", sequence |-> "none", wrong |-> {}]
MCAssetInputs ==
  {Asset(s, <<>>) : s \in {"photo", "crop", "cut"}}
  \cup {Asset("film", r) : r \in {<<Span(0, 2), Span(2, 4)>>, <<Span(1, 3)>>, <<Span(0, 3), Span(2, 4)>>}}
  \cup {[Asset("photo", <<>>) EXCEPT !.source = "unknown"],
        [Asset("photo", <<>>) EXCEPT !.descriptor.license = "paid"],
        [Asset("photo", <<>>) EXCEPT !.meaning = "denied"],
        [Asset("photo", <<>>) EXCEPT !.wrong = {"descriptor"}],
        Asset("photo", <<Span(0, 1)>>)}
MCAssetPolicies ==
  {[id |-> 1, meanings |-> {"plain"}, cooldown |-> 2, budget |-> 3, stock |-> {"stock"}],
   [id |-> 2, meanings |-> {}, cooldown |-> 0, budget |-> 2, stock |-> {"stock"}]}
Use(n, s, from, until) == [ordinal |-> n, source |-> s, from |-> from, until |-> until]
MCUsages ==
  {<<Use(0, "photo", 0, 1), Use(1, "photo", 3, 4)>>, <<Use(0, "photo", 0, 1), Use(0, "photo", 3, 4)>>}
  \cup {<<Use(0, "film", 0, 1), Use(1, "photo", 3, 4), Use(2, "film", 1, 2)>>,
        <<Use(0, "film", 6, 7), Use(1, "film", 3, 4), Use(2, "film", 6, 7)>>,
        [n \in 1 .. 4 |-> Use(n, "film", 3 * n, 3 * n + 1)]}
MCOrders == {[photo |-> 1, crop |-> 2, film |-> 3, cut |-> 4, song |-> 5, unknown |-> 6],
             [photo |-> 5, crop |-> 4, film |-> 2, cut |-> 1, song |-> 3, unknown |-> 6]}
=============================================================================
