----------------------------- MODULE V2Timeline -----------------------------
(***************************************************************************)
(* The V2 to V3 migration (migration/v2_to_v3.py): how a V2 timeline is    *)
(* mapped to a V3 workspace, and how every value of it is accounted for.   *)
(*                                                                         *)
(* A source is [fields, bgm, blocks], a block [object, fields, visuals], a *)
(* visual [object, fields, extra, sfx]: what is no object has none of the  *)
(* rest, a field that is missing is not in the domain of `fields', and     *)
(* fields hold scalars.  A pointer is a path such as                       *)
(* <<"blocks", i, "visuals", j, "extra", field>>.  A row says of a pointer *)
(* where in the workspace its value went and what became of it.            *)
(***************************************************************************)
EXTENDS WorkspaceGraph, SequencesExt

CONSTANT SlugOf    \* what _slug makes of the names a source may use: the
                   \* prefixes of identities it begins with, a punctuation
                   \* mark "_" that may follow them, and the rest

Null == "null"
Wrong == "wrong type"
Secret == "secret"
Malformed == "malformed"    \* it begins like a URI and is none

\* A field is there; it has a value; the value is a string with something in it.
Has(fields, f) == f \in DOMAIN fields
Given(fields, f) == Has(fields, f) /\ fields[f] # Null
Text(fields, f) == Given(fields, f) /\ fields[f] \notin {Wrong, ""}

\* _leaf_items: the pointers of all values with the values.
Items(at, fields) == {<<Append(at, f), fields[f]>> : f \in DOMAIN fields}

VisualItems(at, v) ==
    IF ~v.object THEN {<<at, Wrong>>}
    ELSE Items(at, v.fields) \cup Items(Append(at, "extra"), v.extra)
         \cup Items(Append(at, "sfx"), v.sfx)

BlockItems(at, b) ==
    IF ~b.object THEN {<<at, Wrong>>}
    ELSE Items(at, b.fields)
         \cup UNION {VisualItems(at \o <<"visuals", j>>, b.visuals[j]) : j \in DOMAIN b.visuals}

LeafItems(source) ==
    Items(<<>>, source.fields) \cup Items(<<"bgm">>, source.bgm)
    \cup UNION {BlockItems(<<"blocks", i>>, source.blocks[i]) : i \in DOMAIN source.blocks}

Leaves(source) == {item[1] : item \in LeafItems(source)}

-----------------------------------------------------------------------------
(* Rows.                                                                   *)

Nowhere == <<>>
Errors == {"AMBIGUOUS", "INVALID_SOURCE"}

Account(at, to, class) ==
    [at |-> at, to |-> to, class |-> class, error |-> class \in Errors, mapping |-> TRUE]
Derive(to, class) == Account(Nowhere, to, class)
Redact(at) == [Account(at, Nowhere, "DROPPED") EXCEPT !.error = TRUE]
Problem(at, class) == [Account(at, Nowhere, class) EXCEPT !.error = TRUE, !.mapping = FALSE]

\* Kept, when a pointer may be accounted for again.
KeptTwice(rows) == rows

\* account: a pointer is accounted for once, by the first row that names it.
Kept(rows) ==
    LET first == {i \in DOMAIN rows : \/ rows[i].at = Nowhere \/ ~rows[i].mapping
                                      \/ \A j \in 1 .. i - 1 :
                                            rows[j].mapping => rows[j].at # rows[i].at}
    IN [n \in 1 .. Cardinality(first) |->
            rows[CHOOSE i \in first : Cardinality({j \in first : j <= i}) = n]]

-----------------------------------------------------------------------------
(* One visual.                                                             *)

VisualAssetTypes ==
    {"stock", "youtube", "web_record", "highlight_article", "chart", "big_text", "counter",
     "quote", "black"}

\* _visual makes an asset, an artifact and an event of it.
HasType(v) == v.object /\ Text(v.fields, "type")
HasPayload(v) == ~Given(v.fields, "extra")    \* an object is no leaf
IsBuilt(v) == HasType(v) /\ HasPayload(v)

\* len(assets) when the visual's turn comes.
BuiltBefore(source, i, j) ==
    LET visuals(k) == source.blocks[k].visuals
        built == UNION {{<<k, l>> : l \in {n \in DOMAIN visuals(k) : IsBuilt(visuals(k)[n])}} :
                            k \in 1 .. i}
    IN Cardinality({x \in built : x[1] < i \/ x[2] < j})

EventType(v) ==
    IF Given(v.fields, "transition_in") /\ v.fields.transition_in \notin {"hard_cut", "cut"}
    THEN "cut"
    ELSE CASE v.fields.type \in {"web_record", "highlight_article"} -> "source_focus"
           [] v.fields.type = "chart" -> "chart_draw"
           [] v.fields.type = "big_text" -> "text_reveal"
           [] v.fields.type = "counter" -> "metric_count"
           [] OTHER -> "cut"

\* _origin: the first of these that may be used says where the media is.
Candidates(v) ==
    <<<<v.fields, "url", <<"url">>>>, <<v.fields, "selected_asset_url", <<"selected_asset_url">>>>,
      <<v.extra, "resolved_path", <<"extra", "resolved_path">>>>, <<v.fields, "query", <<"query">>>>>>
Usable(fields, f) == Text(fields, f) /\ fields[f] \notin {Secret, "traversal"}

OriginRows(v, at) ==
    LET all == Candidates(v)
        earlier(n) == \E m \in 1 .. n - 1 : Usable(all[m][1], all[m][2])
        met == SelectSeq([n \in DOMAIN all |-> n],
                         LAMBDA n : Text(all[n][1], all[n][2]) /\ ~earlier(n))
        Row(c) == CASE c[1][c[2]] = Secret -> Redact(at \o c[3])
                    [] c[1][c[2]] = "traversal" -> Account(at \o c[3], Nowhere, "AMBIGUOUS")
                    [] OTHER -> Account(at \o c[3], Nowhere, "NORMALIZED")
    IN [n \in DOMAIN met |-> Row(all[met[n]])]

\* The row of a field that is there.
RowOf(fields, f, at, to, class) ==
    IF Has(fields, f) THEN <<Account(Append(at, f), to, class)>> ELSE <<>>

TypeRow(v, at, k) ==
    LET pointer == Append(at, "type") IN
    IF HasType(v)
    THEN Account(pointer, <<"assets", k, "asset_type">>,
                 IF v.fields.type \in VisualAssetTypes THEN "NORMALIZED" ELSE "UNSUPPORTED")
    ELSE IF Has(v.fields, "type") THEN Account(pointer, Nowhere, "INVALID_SOURCE")
    ELSE Problem(pointer, "INVALID_SOURCE")

IdentityRows(v, at, k) ==
    LET to == <<"assets", k, "asset_id">>
        hashTo == <<"assets", k, "content_hash">>
        extraAt == Append(at, "extra") IN
    (IF ~Given(v.extra, "asset_id") THEN <<Derive(to, "DERIVED")>>
     ELSE IF v.extra.asset_id = Wrong
     THEN <<Account(Append(extraAt, "asset_id"), Nowhere, "INVALID_SOURCE"),
            Derive(to, "DERIVED")>>
     ELSE RowOf(v.extra, "asset_id", extraAt, to, "NORMALIZED"))
    \o (IF ~Given(v.extra, "expected_sha256") THEN <<Derive(hashTo, "DEFAULTED")>>
        ELSE RowOf(v.extra, "expected_sha256", extraAt, hashTo,
                   IF v.extra.expected_sha256 = "digest" THEN "NORMALIZED"
                   ELSE "INVALID_SOURCE"))

\* A cue is any value that Python holds to be true.
IsCue(v, f) == Given(v.fields, f) /\ v.fields[f] # ""

EventRows(v, at, i, j, k) ==
    LET event == <<"sequences", i, "edit_events", j>>
        timing == Append(event, "timing_ref")
        Of(f, to, class) == RowOf(v.fields, f, at, to, class)
        Offset(f) == IF Has(v.fields, f) /\ v.fields[f] = "AUTO" THEN "DEFAULTED"
                     ELSE "NORMALIZED" IN
    (IF ~Given(v.fields, "transition_in") THEN <<>>
     ELSE Of("transition_in", Append(event, "event_type"),
             IF v.fields.transition_in \in {"hard_cut", "cut"} THEN "NORMALIZED"
             ELSE "UNSUPPORTED"))
    \o (IF IsCue(v, "trigger_cue") THEN Of("trigger_cue", timing, "NORMALIZED")
        ELSE IF IsCue(v, "narration_cue_start")
        THEN Of("narration_cue_start", timing, "NORMALIZED")
        ELSE <<>>)
    \o Of("offset_start", timing, Offset("offset_start"))
    \o Of("offset_end", event, Offset("offset_end"))
    \o (IF EventType(v) = "text_reveal" /\ Given(v.fields, "main_text")
           /\ v.fields.main_text # Wrong
        THEN Of("main_text", event \o <<"parameters", "text">>, "EXACT") ELSE <<>>)
    \o RowOf(v.extra, "asset_mode", Append(at, "extra"), <<"assets", k, "availability">>,
             "NORMALIZED")

VisualRows(source, i, j) ==
    LET v == source.blocks[i].visuals[j]
        at == <<"blocks", i, "visuals", j>>
        k == BuiltBefore(source, i, j) + 1 IN
    IF ~v.object THEN <<Account(at, Nowhere, "INVALID_SOURCE")>>
    ELSE IF ~HasType(v) THEN <<TypeRow(v, at, k)>>
    ELSE IF ~HasPayload(v)
    THEN <<TypeRow(v, at, k), Account(Append(at, "extra"), Nowhere, "INVALID_SOURCE")>>
    ELSE <<TypeRow(v, at, k)>> \o IdentityRows(v, at, k) \o OriginRows(v, at)
         \o EventRows(v, at, i, j, k)

-----------------------------------------------------------------------------
(* One block.                                                              *)

\* The block becomes a beat and a sequence.
IsSequenced(b) == b.object /\ \E j \in DOMAIN b.visuals : IsBuilt(b.visuals[j])

IdRows(b, at, i) ==
    LET to == <<"story", "beats", i, "beat_id">> IN
    IF ~Has(b.fields, "block_id") THEN <<Derive(to, "DERIVED")>>
    ELSE IF b.fields.block_id = Wrong
    THEN <<Account(Append(at, "block_id"), Nowhere, "INVALID_SOURCE")>>
    ELSE <<Account(Append(at, "block_id"), to, "NORMALIZED")>>

NarrationRow(b, at, i) ==
    LET to == <<"sequences", i, "narrative_goal">> IN
    IF ~Has(b.fields, "narration") THEN Derive(to, "DEFAULTED")
    ELSE Account(Append(at, "narration"), to,
                 CASE b.fields.narration \in {Wrong, Null} -> "INVALID_SOURCE"
                   [] b.fields.narration = "" -> "DEFAULTED"
                   [] OTHER -> "NORMALIZED")

PolicyRows(b, at, i) ==
    LET Of(fields, f, from) ==
            RowOf(fields, f, from, <<"sequences", i, "fallback_policy">>, "MERGED")
        Visual(j) ==
            IF ~b.visuals[j].object THEN <<>>
            ELSE Of(b.visuals[j].fields, "fill_policy", at \o <<"visuals", j>>)
                 \o Of(b.visuals[j].fields, "allow_generic_stock", at \o <<"visuals", j>>)
    IN Of(b.fields, "fill_policy", at) \o FlattenSeq([j \in DOMAIN b.visuals |-> Visual(j)])

EndRows(b, at, i) ==
    LET last == b.visuals[Len(b.visuals)]
        to == <<"sequences", i, "end_cue">> IN
    IF ~last.object \/ ~Given(last.fields, "offset_end") THEN <<Derive(to, "DERIVED")>>
    ELSE IF last.fields.offset_end = "AUTO"
    THEN <<Account(at \o <<"visuals", Len(b.visuals), "offset_end">>, to, "DEFAULTED")>>
    ELSE <<>>

PurposeRows(b, at, i) ==
    IF b.visuals[1].object /\ Text(b.visuals[1].fields, "visual_purpose")
    THEN <<Account(at \o <<"visuals", 1, "visual_purpose">>,
                   <<"sequences", i, "base_shot", "editorial_purpose">>, "EXACT")>>
    ELSE <<>>

BlockRows(source, i) ==
    LET b == source.blocks[i]
        at == <<"blocks", i>>
        none == <<Problem(Append(at, "visuals"), "AMBIGUOUS")>> IN
    IF ~b.object THEN <<Account(at, Nowhere, "INVALID_SOURCE")>>
    ELSE IdRows(b, at, i) \o <<NarrationRow(b, at, i)>>
         \o (IF b.visuals = <<>> THEN none
             ELSE FlattenSeq([j \in DOMAIN b.visuals |-> VisualRows(source, i, j)])
                  \o (IF ~IsSequenced(b) THEN none
                      ELSE PolicyRows(b, at, i) \o EndRows(b, at, i) \o PurposeRows(b, at, i)))

-----------------------------------------------------------------------------
(* The source.                                                             *)

VersionRows(source) ==
    LET to == <<"source_schema_version">> IN
    IF ~Given(source.fields, "version") THEN <<Derive(to, "DEFAULTED")>>
    ELSE <<Account(<<"version">>, to,
                   IF source.fields.version = Wrong THEN "INVALID_SOURCE" ELSE "NORMALIZED")>>

RootFields == {"version", "bgm", "blocks"}
BgmFields == {"enabled", "track_id", "gain_db", "fade_in", "fade_out"}
SfxFields == {"enabled", "asset_id", "trigger_cue", "gain_db", "max_duration"}

DroppedBlockFields == {"pause_before", "pause_after", "bgm_drop"}
BlockFields ==
    DroppedBlockFields
    \cup {"block_id", "narration", "audio_file", "sfx_category", "fill_policy", "visuals"}

DroppedVisualFields ==
    {"clip_start", "clip_end", "zoom", "scroll_duration", "highlight_target",
     "background_style", "accent_animation", "max_height", "crop_mode", "fit_mode",
     "transition_out", "min_duration", "max_duration", "preferred_duration", "subtitle_policy"}
VisualFields ==
    DroppedVisualFields
    \cup {"offset_start", "offset_end", "type", "query", "url", "target_text",
          "target_selector", "main_text", "sub_text", "logo_url", "start_val", "end_val",
          "prefix", "suffix", "label", "is_approximate", "extra", "narration_cue_start",
          "narration_cue_end", "visual_purpose", "required_content", "forbidden_content",
          "fallback_queries", "allow_generic_stock", "transition_in", "timing_mode",
          "trigger_cue", "fill_policy", "asset_locked", "selected_asset_url", "sfx_category",
          "sfx"}

\* _account_remaining: what no rule has mapped is lost knowingly (any value of
\* an extra is, and no sfx that is not an object), or unknown.
RestClass(p) ==
    LET field == p[Len(p)]
        Known(known, dropped) == IF field \in dropped THEN "DROPPED"
                                 ELSE IF field \in known THEN "UNSUPPORTED"
                                 ELSE "INVALID_SOURCE" IN
    CASE Len(p) = 1 -> Known(RootFields, {})
      [] Len(p) = 2 /\ p[1] = "bgm" -> Known(BgmFields, {})
      [] Len(p) = 3 -> Known(BlockFields, DroppedBlockFields)
      [] Len(p) = 5 -> Known(VisualFields \ {"sfx"}, DroppedVisualFields)
      [] Len(p) = 6 /\ p[5] = "extra" -> "UNSUPPORTED"
      [] Len(p) = 6 /\ p[5] = "sfx" -> Known(SfxFields, {})
      [] OTHER -> "INVALID_SOURCE"    \* a block or visual that is no object

RestRows(source, rows) ==
    LET accounted == {rows[n].at : n \in {m \in DOMAIN rows : rows[m].mapping}}
        rest == {item \in LeafItems(source) : item[1] \notin accounted}
        RestRow(item) == IF item[2] = Secret THEN Redact(item[1])
                         ELSE Account(item[1], Nowhere, RestClass(item[1]))
    IN FoldSet(LAMBDA item, done : Append(done, RestRow(item)), <<>>, rest)

\* The rows of migrate, with a resolved domain or without.
RowsOf(source, resolved) ==
    LET derived == <<Derive(<<"workspace_id">>, "DERIVED"),
                     Derive(<<"project", "project_id">>, "DERIVED")>>
        mapped == VersionRows(source)
                  \o (IF ~resolved THEN <<Problem(Nowhere, "INVALID_SOURCE")>>
                      ELSE derived
                           \o FlattenSeq([i \in DOMAIN source.blocks |-> BlockRows(source, i)]))
    IN IF source.blocks = <<>> THEN <<Problem(<<"blocks">>, "INVALID_SOURCE")>>
       ELSE mapped \o RestRows(source, mapped)

-----------------------------------------------------------------------------
(* Identities and the workspace.                                           *)

\* _stable_id: a slug that has the prefix already does not get it again.
StableId(prefix, slug) == IF slug[1] = prefix THEN slug ELSE <<prefix>> \o slug

\* deterministic_token of a pointer.
Token(i, j) == <<"token", i, j>>

\* The name of a block that has none is made of its pointer.
Stable(b, i) ==
    IF Text(b.fields, "block_id") THEN SlugOf[b.fields.block_id] ELSE <<"block_">> \o Token(i, 0)

BeatId(source, i) == StableId("beat_", Stable(source.blocks[i], i))
SequenceId(source, i) == StableId("seq_", Stable(source.blocks[i], i))
ClaimId(source, i) == StableId("clm_", Stable(source.blocks[i], i))

AssetId(source, i, j) ==
    LET extra == source.blocks[i].visuals[j].extra IN
    StableId("ast_", IF Text(extra, "asset_id") THEN SlugOf[extra.asset_id]
                     ELSE <<"ast_">> \o Token(i, j))

\* The artifact of an asset: its name without the prefix, of which _slug strips
\* a punctuation mark and which may begin with the artifacts' own prefix.
ArtifactId(source, i, j) ==
    LET name == Tail(AssetId(source, i, j)) IN
    StableId("art_", IF name[1] = "_" THEN Tail(name) ELSE name)

BuiltOf(source, i) ==
    SelectSeq([j \in DOMAIN source.blocks[i].visuals |-> j],
              LAMBDA j : source.blocks[i].object /\ IsBuilt(source.blocks[i].visuals[j]))

\* Collides, when nobody asks.
CollidesNever(source) == FALSE

\* register_id: two blocks propose the same beat or sequence, or two visuals
\* the same asset or artifact.
Collides(source) ==
    LET objects == {i \in DOMAIN source.blocks : source.blocks[i].object}
        built == UNION {{<<i, j>> : j \in Elements(BuiltOf(source, i))} : i \in objects} IN
    \/ \E i, k \in objects : i # k /\ \/ BeatId(source, i) = BeatId(source, k)
                                      \/ SequenceId(source, i) = SequenceId(source, k)
    \/ \E x, y \in built : x # y /\ \/ AssetId(source, x[1], x[2]) = AssetId(source, y[1], y[2])
                                    \/ ArtifactId(source, x[1], x[2])
                                         = ArtifactId(source, y[1], y[2])

\* The schema's pattern of an identity: behind the prefix no punctuation mark.
FitsPattern(id) == id[2] # "_"

\* The media a visual comes from, when it is named: what _origin decides on.
OriginOf(v) ==
    LET all == Candidates(v)
        usable == {n \in DOMAIN all : Usable(all[n][1], all[n][2])} IN
    IF usable = {} THEN Null
    ELSE LET first == all[CHOOSE n \in usable : \A m \in usable : n <= m] IN first[1][first[2]]

\* What the schema has to say of a workspace made of a source: the claims of its
\* blocks, which nobody registers, are a list without duplicates, identities are
\* of the pattern, and origins are URIs.
SchemaTakes(source) ==
    LET blocks == {i \in DOMAIN source.blocks : IsSequenced(source.blocks[i])} IN
    /\ \A i, k \in blocks : i # k => ClaimId(source, i) # ClaimId(source, k)
    /\ \A i \in blocks :
          /\ \A id \in {BeatId(source, i), SequenceId(source, i), ClaimId(source, i)} : FitsPattern(id)
          /\ \A j \in Elements(BuiltOf(source, i)) :
                /\ FitsPattern(AssetId(source, i, j)) /\ FitsPattern(ArtifactId(source, i, j))
                /\ OriginOf(source.blocks[i].visuals[j]) # Malformed

Chapter == "chp_migrated_timeline"
VideoTrack == "trk_video_migrated_base"
AudioTrack == "trk_audio_migrated_narration"

\* What a visual becomes: an edit event, an asset and the asset's artifact.
EventOf(source, i, j) ==
    [id |-> <<i, j>>, group |-> "edit", extension |-> Nothing,
     kind |-> EventType(source.blocks[i].visuals[j]),
     track |-> VideoTrack, type |-> "asset", target |-> AssetId(source, i, j)]

AssetOf(source, i, j) == [id |-> AssetId(source, i, j), artifact |-> ArtifactId(source, i, j)]

\* Local media that is locked is protected as such, the rest by its class.
ArtifactOf(source, project, i, j) ==
    [id |-> ArtifactId(source, i, j), project |-> project, sequence |-> SequenceId(source, i),
     deps |-> <<>>, output |-> FALSE, cleanup |-> FALSE, protected |-> TRUE]

SequenceOf(source, i) ==
    LET built == BuiltOf(source, i) IN
    [id |-> SequenceId(source, i), chapter |-> Chapter, beat |-> BeatId(source, i),
     claims |-> {ClaimId(source, i)},
     shot |-> [asset |-> AssetId(source, i, built[1]), track |-> VideoTrack],
     tracks |-> <<VideoTrack, AudioTrack>>,
     events |-> [n \in DOMAIN built |-> EventOf(source, i, built[n])]]

\* The visuals that have an asset, in order.
AllBuilt(source) ==
    FlattenSeq([i \in DOMAIN source.blocks |->
        LET built == BuiltOf(source, i) IN [n \in DOMAIN built |-> <<i, built[n]>>]])

\* _workspace, for a resolved domain d.
WorkspaceOf(source, project, d) ==
    LET kept == SelectSeq([i \in DOMAIN source.blocks |-> i],
                          LAMBDA i : IsSequenced(source.blocks[i]))
        built == AllBuilt(source) IN
    [fits |-> SchemaTakes(source), layout |-> "aggregate", documents |-> <<>>,
     project |-> project, domain |-> d,
     header |-> [id |-> project, domain |-> d.domain, snapshot |-> d.snapshotId],
     declared |-> [events |-> {}, targets |-> <<>>],
     chapters |-> <<[id |-> Chapter,
                     beats |-> [n \in DOMAIN kept |-> BeatId(source, kept[n])]]>>,
     beats |-> [n \in DOMAIN kept |->
        [id |-> BeatId(source, kept[n]), chapter |-> Chapter,
         sequences |-> <<SequenceId(source, kept[n])>>]],
     sequences |-> [n \in DOMAIN kept |-> SequenceOf(source, kept[n])],
     assets |-> [n \in DOMAIN built |-> AssetOf(source, built[n][1], built[n][2])],
     artifacts |-> [n \in DOMAIN built |->
        ArtifactOf(source, project, built[n][1], built[n][2])],
     tracks |-> <<[id |-> VideoTrack, type |-> "video", role |-> "base"],
                  [id |-> AudioTrack, type |-> "audio", role |-> "narration"]>>]

-----------------------------------------------------------------------------
(* What the mappings of a published workspace promise.                     *)

\* The place a destination names is there, and it is the source's own: beats
\* and sequences of the same block, events and assets of the same visual.
DestinationIsThere(source, w, row) ==
    LET to == row.to IN
    \/ to = Nowhere \/ Len(to) = 1 \/ to[1] = "project"
    \/ /\ to[1] = "story"
       /\ to[3] \in DOMAIN w.beats
       /\ row.at # Nowhere => w.beats[to[3]].id = BeatId(source, row.at[2])
    \/ /\ to[1] = "sequences"
       /\ to[2] \in DOMAIN w.sequences
       /\ row.at # Nowhere => w.sequences[to[2]].id = SequenceId(source, row.at[2])
       /\ to[3] = "edit_events" =>
            /\ to[4] \in DOMAIN w.sequences[to[2]].events
            /\ w.sequences[to[2]].events[to[4]].target = AssetId(source, row.at[2], row.at[4])
            /\ Len(to) = 6 => w.sequences[to[2]].events[to[4]].kind = "text_reveal"
       /\ to[3] = "base_shot" =>
            w.sequences[to[2]].shot.asset = AssetId(source, row.at[2], row.at[4])
    \/ /\ to[1] = "assets"
       /\ to[2] \in DOMAIN w.assets
       /\ row.at # Nowhere => w.assets[to[2]].id = AssetId(source, row.at[2], row.at[4])

\* Every value of the source is in exactly one mapping, and no other is.
AccountsForAll(source, rows) ==
    LET mapped == {n \in DOMAIN rows : rows[n].mapping /\ rows[n].at # Nowhere} IN
    /\ {rows[n].at : n \in mapped} = Leaves(source)
    /\ Cardinality(mapped) = Cardinality(Leaves(source))
=============================================================================
