------------------------ MODULE MCWorkspaceMigration ------------------------
EXTENDS WorkspaceMigration, TLC

-----------------------------------------------------------------------------
(* Packs, and workspaces for the loader.                                   *)

Finance == <<"finance", "1.0.0">>
Science == <<"science", "1.0.0">>
MCPacks == {(Finance :> "strict"), (Finance :> "lax"), (Finance :> "unreadable")}

ProfileOf(domain) == [id |-> "profile", domain |-> domain]
StrictSnapshot ==
    SnapshotOf([profile |-> "profile", domain |-> Finance, policy |-> "strict"])

\* One chapter, beat and sequence with an asset and its artifact.
Plain ==
    [fits |-> TRUE, layout |-> "aggregate", documents |-> <<>>, project |-> "project",
     domain |-> DomainOf(CoreProfile, CoreSnapshot, "core_only"),
     header |-> [id |-> "project", domain |-> CoreDomain, snapshot |-> CoreSnapshot.id],
     declared |-> [events |-> {"rate_cut"}, targets |-> ("ticker" :> "claim")],
     chapters |-> <<[id |-> "c1", beats |-> <<"b1">>]>>,
     beats |-> <<[id |-> "b1", chapter |-> "c1", sequences |-> <<"s1">>]>>,
     sequences |-> <<[id |-> "s1", chapter |-> "c1", beat |-> "b1", claims |-> {"claim"},
                      shot |-> [asset |-> "clip", track |-> "base"],
                      tracks |-> <<"base", "voice">>, events |-> <<>>]>>,
     assets |-> <<[id |-> "clip", artifact |-> "file"]>>,
     artifacts |-> <<[id |-> "file", project |-> "project", sequence |-> "s1", deps |-> <<>>,
                      output |-> FALSE, cleanup |-> FALSE, protected |-> TRUE]>>,
     tracks |-> <<[id |-> "base", type |-> "video", role |-> "base"],
                  [id |-> "over", type |-> "video", role |-> "overlay"],
                  [id |-> "voice", type |-> "audio", role |-> "narration"]>>]

Sublists(a, b) == {<<>>, <<a>>, <<b>>, <<a, b>>}

\* Every way two chapters, two beats and two sequences may name each other.
Hierarchies ==
    {[Plain EXCEPT
        !.chapters = <<[id |-> "c1", beats |-> x[1]], [id |-> "c2", beats |-> x[2]]>>,
        !.beats = <<[id |-> "b1", chapter |-> x[3], sequences |-> x[4]],
                    [id |-> x[7], chapter |-> "c2", sequences |-> x[5]]>>,
        !.sequences = <<[@[1] EXCEPT !.chapter = x[3]],
                        [@[1] EXCEPT !.id = "s2", !.beat = x[6], !.chapter = x[8]]>>] :
     x \in Sublists("b1", "b2") \X Sublists("b1", "b2") \X {"c1", "c2"}
           \X Sublists("s1", "s2") \X Sublists("s1", "s2") \X {"b1", "b2"} \X {"b1", "b2"}
           \X {"c1", "c2"}}

\* Every way three artifacts may depend on each other.
ArtifactGraphs ==
    {[Plain EXCEPT !.artifacts =
        <<[@[1] EXCEPT !.deps = x[1]],
          [@[1] EXCEPT !.id = x[4], !.deps = x[2], !.protected = x[5], !.cleanup = ~x[5]],
          [@[1] EXCEPT !.id = "cut", !.deps = x[3], !.output = TRUE, !.sequence = Nothing]>>] :
     x \in Sublists("grade", "cut") \X Sublists("file", "cut")
           \X Sublists("file", "grade") \X {"grade", "file"} \X BOOLEAN}

Events ==
    {[id |-> "e1", group |-> g, extension |-> Nothing, track |-> t, type |-> y, target |-> x] :
        g \in {"edit", "overlay", "text", "audio"}, t \in {"base", "voice", "none"},
        y \in {"asset", "video_track", "overlay_track", "audio_track", "sequence", "base_shot",
               "claim", "ticker", "moon"},
        x \in {"clip", "s1", "claim", "over", "voice"}}

EventWorkspaces ==
    {[Plain EXCEPT !.sequences[1].events = <<e>>] : e \in Events}
    \cup {[Plain EXCEPT !.sequences[1].events =
              <<[e EXCEPT !.extension = [namespace |-> n, given |-> "core-generic", name |-> x]]>>] :
           e \in {d \in Events : d.group = "edit" /\ d.type = "asset"},
           n \in {"core-generic", "finance"}, x \in {"rate_cut", "unheard"}}

\* A workspace for a pack, with one of its parts from another domain, profile
\* or policy.
DomainWorkspaces ==
    {[Plain EXCEPT !.domain = [mode |-> x[1], domain |-> x[2], profileId |-> "profile",
                               profile |-> x[3], snapshotId |-> x[4].id, snapshot |-> x[5],
                               referenced |-> x[4]],
                   !.header = [id |-> "project", domain |-> x[2], snapshot |-> x[4].id]] :
     x \in {"core_only", "domain_pack"} \X {Finance, Science}
           \X {Nothing, ProfileOf(Finance), ProfileOf(Science)}
           \X {StrictSnapshot, [StrictSnapshot EXCEPT !.body.policy = "lax"]}
           \X {Nothing, StrictSnapshot, [StrictSnapshot EXCEPT !.hash.policy = "lax"],
               SnapshotOf([profile |-> "other", domain |-> Finance, policy |-> "strict"]),
               SnapshotOf([profile |-> "profile", domain |-> Finance, policy |-> "lax"])}}

\* A split workspace: one document is not what it should be, or comes twice.
DocumentsOf(w) ==
    LET One(kind, value) ==
            [id |-> kind, path |-> kind, kind |-> kind, content |-> "whole", value |-> value] IN
    <<One("project", w.header), One("domain_profile", w.domain.profile),
      One("domain_policy_snapshot", w.domain.snapshot), One("chapter", w.chapters[1]),
      One("beat", w.beats[1]), One("sequence", w.sequences[1]), One("asset_manifest", w.assets),
      One("artifact_manifest", w.artifacts), One("research_manifest", <<>>),
      One("timing_manifest", <<>>), One("track_manifest", w.tracks)>>

SplitWorkspaces ==
    LET split == [Plain EXCEPT !.layout = "split", !.documents = DocumentsOf(Plain)] IN
    {[split EXCEPT !.documents[n].content = c] : n \in DOMAIN split.documents,
        c \in {"whole", "outside", "unreadable", "invalid", "other manifest"}}
    \cup {[split EXCEPT !.documents = Append(@, [@[n] EXCEPT !.id = i, !.path = p])] :
            n \in DOMAIN split.documents, i \in {split.documents[4].id, "another"},
            p \in {split.documents[5].path, "another"}}
    \cup {[Plain EXCEPT !.fits = FALSE]}

MCWorkspaces ==
    Hierarchies \cup ArtifactGraphs \cup EventWorkspaces \cup DomainWorkspaces
    \cup SplitWorkspaces

-----------------------------------------------------------------------------
(* V2 sources.                                                             *)

\* Slugs with a prefix that some identity has too, and without.
MCSlugOf ==
    [x \in {"One", "one", "beat_one", "clm_one", "beat__one", "Two", "art_one", "art__one",
             "ast__one"} |->
        CASE x = "beat_one" -> <<"beat_", "one">>
          [] x = "clm_one" -> <<"clm_", "one">>
          [] x = "beat__one" -> <<"beat_", "_", "one">>
          [] x = "art__one" -> <<"art_", "_", "one">>
          [] x = "ast__one" -> <<"ast_", "_", "one">>
          [] x = "art_one" -> <<"art_", "one">>
          [] x = "Two" -> <<"two">>
          [] OTHER -> <<"one">>]

Stock == [object |-> TRUE, fields |-> [type |-> "stock", query |-> "city"],
          extra |-> <<>>, sfx |-> <<>>]
Odd == [object |-> FALSE, fields |-> <<>>, extra |-> <<>>, sfx |-> <<>>]
With(v, more) == [v EXCEPT !.fields = more @@ @]
WithExtra(more) == [Stock EXCEPT !.extra = more]

\* Visuals that name their asset.
Named ==
    {WithExtra(("asset_id" :> "One") @@ ("asset_mode" :> "locked_local")
               @@ ("expected_sha256" :> "digest")),
     WithExtra(("asset_id" :> "art_one") @@ ("note" :> "kept") @@ ("resolved_path" :> Secret)),
     WithExtra(("asset_id" :> "") @@ ("expected_sha256" :> "short")),
     WithExtra(("asset_id" :> Wrong) @@ ("note" :> Secret)),
     WithExtra(("asset_id" :> Null) @@ ("expected_sha256" :> Null))}

Visuals ==
    Named \cup
    {Stock, Odd, With(Stock, "extra" :> Wrong), With(Stock, "extra" :> Null),
     With(Stock, "type" :> ""), [Stock EXCEPT !.fields = [query |-> "city"]],
     With(Stock, ("type" :> "hologram") @@ ("zoom" :> "1")),
     With(Stock, ("type" :> "big_text") @@ ("main_text" :> "hello")),
     With(Stock, ("type" :> "big_text") @@ ("main_text" :> "hello")
                 @@ ("transition_in" :> "fade")),
     With(Stock, ("type" :> "chart") @@ ("transition_in" :> "cut") @@ ("logo_url" :> Secret)),
     With(Stock, ("url" :> Secret) @@ ("selected_asset_url" :> "file")),
     With(Stock, ("url" :> "traversal") @@ ("narration_cue_start" :> "now")),
     With(Stock, ("trigger_cue" :> Wrong) @@ ("narration_cue_start" :> "then")
                 @@ ("offset_start" :> "AUTO") @@ ("offset_end" :> "AUTO")),
     With(Stock, ("trigger_cue" :> Null) @@ ("offset_end" :> Null) @@ ("fill_policy" :> "loop")
                 @@ ("allow_generic_stock" :> "no") @@ ("visual_purpose" :> "evidence")),
     With([Stock EXCEPT !.sfx = ("gain_db" :> "3")], "max_duration" :> "9"),
     With(Stock, "sfx" :> Null), [Stock EXCEPT !.sfx = ("volume" :> "3")]}

BlockOf(visuals) ==
    [object |-> TRUE, fields |-> ("narration" :> "words"), visuals |-> visuals]
BlockWith(fields, visuals) == [BlockOf(visuals) EXCEPT !.fields = fields]

Blocks ==
    {BlockOf(<<Stock>>), BlockOf(<<>>), BlockOf(<<Odd>>),
     BlockWith("block_id" :> "One", <<Stock, Stock>>),
     BlockWith(("block_id" :> "one") @@ ("narration" :> ""), <<Stock>>),
     BlockWith(("block_id" :> "beat_one") @@ ("pause_before" :> "1"), <<Stock>>),
     BlockWith(("block_id" :> Wrong) @@ ("narration" :> Wrong), <<Stock>>),
     BlockWith(("block_id" :> Null) @@ ("fill_policy" :> "loop") @@ ("sfx_category" :> "hit"),
               <<Stock>>),
     BlockWith(("block_id" :> "") @@ ("narration" :> Null), <<Stock>>),
     BlockWith("mystery" :> "?", <<Stock>>), BlockWith("visuals" :> Wrong, <<>>),
     [object |-> FALSE, fields |-> <<>>, visuals |-> <<>>]}

\* Names whose identities are those of another, or none the schema takes.
Alike == {"one", "beat_one", "clm_one", "beat__one", "Two"}
AlikeAssets == {"One", "art_one", "art__one", "ast__one"}
NoOrigins == {("url" :> Malformed) @@ ("query" :> "city"),
              ("url" :> Secret) @@ ("selected_asset_url" :> Malformed)}

SourceOf(blocks) == [fields |-> [version |-> "2"], bgm |-> <<>>, blocks |-> blocks]
RootOf(fields, bgm) == [SourceOf(<<BlockOf(<<Stock>>)>>) EXCEPT !.fields = fields, !.bgm = bgm]

\* What may be in a source: two visuals in a block, or two blocks.
MCSources ==
    {SourceOf(<<BlockOf(<<v, w>>)>>) : v \in Visuals, w \in Named \cup {Stock, Odd}}
    \cup {SourceOf(<<BlockOf(<<v, w>>)>>) : v \in {Stock, Odd}, w \in Visuals}
    \cup {SourceOf(<<b, c>>) : b \in Blocks, c \in Blocks}
    \cup {SourceOf(<<BlockWith("block_id" :> n, <<Stock>>), BlockWith("block_id" :> o, <<v>>)>>) :
            n \in Alike, o \in Alike, v \in {Stock, Odd}}
    \cup {SourceOf(<<BlockOf(<<WithExtra("asset_id" :> n), WithExtra("asset_id" :> o)>>)>>) :
            n \in AlikeAssets, o \in AlikeAssets}
    \cup {SourceOf(<<BlockOf(<<With(Stock, o), v>>)>>) : o \in NoOrigins, v \in {Stock, Odd}}
    \cup {SourceOf(<<b, BlockOf(<<v>>)>>) :
            b \in {BlockOf(<<Stock>>), BlockOf(<<Odd>>), BlockOf(<<WithExtra("asset_id" :> "One")>>)},
            v \in Visuals}
    \cup {RootOf(<<>>, <<>>), RootOf("version" :> Wrong, <<>>), RootOf("version" :> Null, <<>>),
          RootOf("title" :> "?", "enabled" :> "yes"), RootOf("bgm" :> Null, <<>>),
          RootOf(<<>>, ("track_id" :> Secret)), RootOf(<<>>, ("volume" :> "3")), SourceOf(<<>>)}

Core(m, o) ==
    [mode |-> m, resolution |-> "core_only", domain |-> Nothing, profile |-> Nothing,
     overwrite |-> o]
OfPack(d, p) ==
    [mode |-> "permissive", resolution |-> "domain_pack", domain |-> d, profile |-> p,
     overwrite |-> TRUE]

CallsOf(sources, requests) == {[source |-> s, request |-> r] : s \in sources, r \in requests}

\* One that succeeds, one that fails, and one that fails in strict mode.
MCAgain ==
    CallsOf({SourceOf(<<BlockOf(<<Stock>>)>>), SourceOf(<<BlockOf(<<Stock, Odd>>)>>),
             SourceOf(<<BlockOf(<<With(Stock, "zoom" :> "1")>>)>>)},
            {Core(m, o) : m \in {"strict", "permissive"}, o \in BOOLEAN}
            \cup {OfPack(Finance, ProfileOf(Finance))})

MCCalls ==
    MCAgain \cup CallsOf(MCSources, {Core("permissive", FALSE)})
    \cup CallsOf({SourceOf(<<BlockOf(<<Stock>>)>>), SourceOf(<<BlockOf(<<Odd>>)>>)},
                 {OfPack(d, p) : d \in {Nothing, Finance, Science},
                                 p \in {Nothing, ProfileOf(Finance), ProfileOf(Science)}})
=============================================================================
