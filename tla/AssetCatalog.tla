----------------------------- MODULE AssetCatalog -----------------------------
(***************************************************************************)
(* The catalog of assets (src/engine/acquisition/asset_catalog.py): a      *)
(* candidate is compiled against the pinned evidence of the repository,    *)
(* compared with every record of the catalog it is given, and either       *)
(* becomes a record or a line of the log of duplicates.  A catalog is a    *)
(* value that its caller keeps, in memory and as canonical bytes.          *)
(*                                                                         *)
(* Bytes stand for their hash, and a value for its identifier: identifiers *)
(* are hashes of all that they identify.  Records are kept in the order of *)
(* their identifiers, which is any order.                                  *)
(***************************************************************************)
EXTENDS Refusals, Integers, Bags

CONSTANTS
    Manifest,       \* what the pinned manifest says of each source it knows
    AssetInputs,    \* inputs that callers compile
    AssetPolicies,  \* resolved asset policies of the domain pack
    Usages,         \* uses of assets in a chapter
    IdOrders,       \* orders in which hashes may sort the sources
    MaxLogged       \* bound: lines in the log of duplicates

VARIABLES
    idOrder,        \* the order of the identifiers, which nobody chooses
    catalog,        \* the catalog the caller holds
    kept,           \* the canonical bytes it kept last
    compiled        \* the last answer

catalogVars == <<idOrder, catalog, kept, compiled>>

EmptyCatalog(p) == [policy |-> p, records |-> {}, blocked |-> EmptyBag]
Failure(code) == [verdict |-> code, mutation |-> None, plan |-> None]

-----------------------------------------------------------------------------
(* The evidence and the declaration of one candidate. *)

\* The pinned manifest, or one that does not hash to the pinned value.
ManifestRows(pinned) == <<<<~pinned, "REPLAY_EVIDENCE_MANIFEST_INVALID">>>>

\* Where the bytes are said to come from: not which licence, not which bytes.
SameSourceKey(descriptor) == <<descriptor.provider, descriptor.uri>>

EvidenceRows(x) ==
    LET known == x.source \in DOMAIN Manifest IN
    <<<<~known, "UNTRUSTED_REPLAY_EVIDENCE">>,
      <<known /\ Manifest[x.source].descriptor # x.descriptor, "UNTRUSTED_REPLAY_EVIDENCE">>>>

\* What can be seen has features to compare, the rest declares none.
FingerprintRows(x) ==
    LET e == Manifest[x.source]
        seen == e.media \in {"image", "video"} IN
    <<<<x.source \in DOMAIN Manifest /\ seen = (e.perceptual \cup e.local = {}),
        "FINGERPRINT_EVIDENCE_INVALID">>>>

\* RangesFit that lets a range begin before the previous one ends.
RangesFitOneByOne(evidence, ranges) ==
    /\ \A i \in DOMAIN ranges : ranges[i].start < ranges[i].end
    /\ evidence.media \in {"image", "document"} => ranges = <<>>
    /\ evidence.duration # 0 => \A i \in DOMAIN ranges : ranges[i].end <= evidence.duration

\* Where a medium has no duration the manifest says 0.
RangesFit(evidence, ranges) ==
    /\ \A i \in DOMAIN ranges : ranges[i].start < ranges[i].end
    /\ evidence.media \in {"image", "document"} => ranges = <<>>
    /\ evidence.duration # 0 => \A i \in DOMAIN ranges : ranges[i].end <= evidence.duration
    /\ \A i \in 1 .. Len(ranges) - 1 : ranges[i].end <= ranges[i + 1].start

Allowed(p, meaning) == meaning \in p.meanings

SoundReview(x) == x.audio = "reviewed"

DeclarationRows(x, p) ==
    <<<<~Allowed(p, x.meaning), "POLICY_DENIED">>,
      <<~SoundReview(x), "POLICY_DENIED">>,
      <<x.source \in DOMAIN Manifest /\ ~RangesFit(Manifest[x.source], x.ranges),
        "SELECTED_RANGE_INVALID">>>>

\* What makes two assets look the same to a viewer, whatever they mean.
VisualFamily(p, e) ==
    [policy |-> p.id, media |-> e.media, perceptual |-> e.perceptual, local |-> e.local]

CandidateRecord(x, p) ==
    LET e == Manifest[x.source] IN
    [source |-> x.source, evidence |-> e, descriptor |-> x.descriptor,
     family |-> VisualFamily(p, e), ranges |-> x.ranges, meaning |-> x.meaning]

-----------------------------------------------------------------------------
(* Packages: what is stored of a candidate without its bytes. *)

PackageOf(x, p) ==
    [policy |-> p, source |-> x.source, descriptor |-> x.descriptor, meaning |-> x.meaning,
     evidence |-> Manifest[x.source], ranges |-> x.ranges, audio |-> x.audio,
     sequence |-> x.sequence]

\* Loading a package with the bytes it is about: everything is derived again.
PackageLoads(package, source, p) ==
    /\ package.source = source /\ package.policy = p
    /\ package.source \in DOMAIN Manifest
    /\ package.evidence = Manifest[package.source]
    /\ package.descriptor = package.evidence.descriptor
    /\ Allowed(p, package.meaning)
    /\ RangesFit(package.evidence, package.ranges)
    /\ package.audio \in {"reviewed", "probed"}

CandidateFromPackage(package, p) ==
    [source |-> package.source, evidence |-> package.evidence, descriptor |-> package.descriptor,
     family |-> VisualFamily(p, package.evidence), ranges |-> package.ranges,
     meaning |-> package.meaning]

-----------------------------------------------------------------------------
(* Duplicates. *)

\* The first record by identifier.
FirstOf(records) ==
    CHOOSE r \in records : \A o \in records : idOrder[r.source] <= idOrder[o.source]

\* The ranges of a candidate that meet a range of a record of the same bytes.
RangesMet(candidate, record) ==
    {r \in {candidate.ranges[i] : i \in DOMAIN candidate.ranges} :
        /\ candidate.source = record.source
        /\ \E o \in {record.ranges[i] : i \in DOMAIN record.ranges} :
              r.start < o.end /\ o.start < r.end}

\* Matches that compares the bytes and what is seen, not where it comes from.
MatchesNoOrigin(candidate, records) ==
    <<[kind |-> "selected_range_overlap", with |-> {r \in records : RangesMet(candidate, r) # {}}],
      [kind |-> "exact_bytes", with |-> {r \in records : r.source = candidate.source}],
      [kind |-> "perceptual_match",
       with |-> {r \in records : r.evidence.perceptual \cap candidate.evidence.perceptual # {}}],
      [kind |-> "local_feature_match",
       with |-> {r \in records : r.evidence.local \cap candidate.evidence.local # {}}]>>

\* The kinds of match, the strongest first, and the records that match.
Matches(candidate, records) ==
    <<[kind |-> "selected_range_overlap", with |-> {r \in records : RangesMet(candidate, r) # {}}],
      [kind |-> "exact_bytes", with |-> {r \in records : r.source = candidate.source}],
      [kind |-> "same_source",
       with |-> {r \in records : SameSourceKey(r.descriptor) = SameSourceKey(candidate.descriptor)}],
      [kind |-> "perceptual_match",
       with |-> {r \in records : r.evidence.perceptual \cap candidate.evidence.perceptual # {}}],
      [kind |-> "local_feature_match",
       with |-> {r \in records : r.evidence.local \cap candidate.evidence.local # {}}]>>

DuplicateDecision(candidate, c, package) ==
    LET matches == Matches(candidate, c.records)
        found == {i \in DOMAIN matches : matches[i].with # {}} IN
    IF found = {} THEN [package |-> package, kind |-> "distinct", matched |-> None, features |-> {},
                        ranges |-> {}]
    ELSE LET m == matches[CHOOSE i \in found : \A j \in found : i <= j]
             r == FirstOf(m.with) IN
         [package |-> package, kind |-> m.kind, matched |-> r,
          features |-> CASE m.kind = "perceptual_match" ->
                              r.evidence.perceptual \cap candidate.evidence.perceptual
                         [] m.kind = "local_feature_match" ->
                              r.evidence.local \cap candidate.evidence.local
                         [] OTHER -> {},
          ranges |-> IF m.kind = "selected_range_overlap" THEN RangesMet(candidate, r) ELSE {}]

-----------------------------------------------------------------------------
(* What a catalog must be before it is used, written or loaded. *)

RecordRangesHold(evidence, ranges) ==
    /\ evidence.media \notin {"video", "audio"} => ranges = <<>>
    /\ \A i \in DOMAIN ranges :
          /\ ranges[i].start < ranges[i].end
          /\ evidence.duration # 0 => ranges[i].end <= evidence.duration
    /\ \A i, j \in DOMAIN ranges : i < j => ranges[i].end <= ranges[j].start

RecordHolds(r, p) ==
    /\ r.source \in DOMAIN Manifest /\ r.evidence = Manifest[r.source]
    /\ r.descriptor = r.evidence.descriptor
    /\ r.family = VisualFamily(p, r.evidence)
    /\ RecordRangesHold(r.evidence, r.ranges)
    /\ Allowed(p, r.meaning)

BlockedHolds(d, records) ==
    /\ d.kind # "distinct" /\ d.matched \in records
    /\ d.kind \in {"exact_bytes", "selected_range_overlap"} => d.package.source = d.matched.source
    /\ d.kind = "same_source" =>
          d.package.source # d.matched.source /\ d.features = {} /\ d.ranges = {}
    /\ d.kind = "perceptual_match" => d.features # {} /\ d.features \subseteq d.matched.evidence.perceptual
    /\ d.kind = "local_feature_match" => d.features # {} /\ d.features \subseteq d.matched.evidence.local
    /\ d.kind = "selected_range_overlap" => d.ranges # {}

CatalogRows(c, p) ==
    <<<<c.policy # p, "ASSET_CATALOG_INVALID">>,
      <<\E r, o \in c.records : r # o /\ r.source = o.source, "ASSET_CATALOG_INVALID">>,
      <<\E r \in c.records : r.source \notin DOMAIN Manifest, "UNTRUSTED_REPLAY_EVIDENCE">>,
      <<\E r \in c.records : ~RecordHolds(r, p), "ASSET_CATALOG_INVALID">>,
      <<\E d \in BagToSet(c.blocked) : ~BlockedHolds(d, c.records), "ASSET_CATALOG_INVALID">>>>

-----------------------------------------------------------------------------
(* Reuse within a chapter: no choice of assets, only a verdict on one. *)

\* A context names the very catalog it is about, its uses in the order of
\* their ordinals, each of a record of that catalog.
ContextRows(c, context) ==
    LET u == context.uses IN
    <<<<context.catalog # c, "REUSE_CONTEXT_INVALID">>,
      <<\E i \in 1 .. Len(u) - 1 : u[i].ordinal >= u[i + 1].ordinal, "REUSE_CONTEXT_INVALID">>,
      <<\E i \in DOMAIN u : \/ ~\E r \in c.records : r.source = u[i].source
                            \/ u[i].from < 0 \/ u[i].until <= u[i].from,
        "REUSE_CONTEXT_INVALID">>>>

FamilyOf(c, use) == (CHOOSE r \in c.records : r.source = use.source).family

\* The places of the uses of a family, and those that follow one another there.
UsesOfFamily(c, uses, f) == {i \in DOMAIN uses : FamilyOf(c, uses[i]) = f}
Neighbours(own) == {n \in own \X own : n[1] < n[2] /\ \A i \in own : i <= n[1] \/ n[2] <= i}

\* Cooldowns that takes the distance whichever of the two comes first.
CooldownsEitherWay(p, uses, own) ==
    {[kind |-> "cooldown", between |-> {uses[n[1]].ordinal, uses[n[2]].ordinal},
      observed |-> uses[n[2]].from - uses[n[1]].until] :
        n \in {k \in Neighbours(own) : /\ uses[k[2]].from - uses[k[1]].until < p.cooldown
                                      /\ uses[k[1]].from - uses[k[2]].until < p.cooldown}}

\* Neighbours in the order of the ordinals are kept apart.
Cooldowns(p, uses, own) ==
    {[kind |-> "cooldown", between |-> {uses[n[1]].ordinal, uses[n[2]].ordinal},
      observed |-> uses[n[2]].from - uses[n[1]].until] :
        n \in {k \in Neighbours(own) : uses[k[2]].from - uses[k[1]].until < p.cooldown}}

Budgets(p, uses, own) ==
    IF Cardinality(own) > p.budget
    THEN {[kind |-> "chapter_family_budget", between |-> {uses[i].ordinal : i \in own},
           observed |-> Cardinality(own)]}
    ELSE {}

ReusePlan(c, p, context) ==
    IF context = None THEN [status |-> "not_evaluated", violations |-> {}, uses |-> <<>>, of |-> c]
    ELSE LET families == {FamilyOf(c, context.uses[i]) : i \in DOMAIN context.uses} IN
         [status |-> "evaluated", uses |-> context.uses, of |-> c,
          violations |-> UNION {LET own == UsesOfFamily(c, context.uses, f) IN
                                Budgets(p, context.uses, own) \cup Cooldowns(p, context.uses, own) :
                                    f \in families}]

GenericStockRatio(c, p) ==
    LET stock == {r \in c.records : r.descriptor.provider \in p.stock} IN
    [status |-> IF c.records = {} THEN "unavailable_empty_catalog" ELSE "available",
     numerator |-> Cardinality(stock), denominator |-> Cardinality(c.records), of |-> stock]

-----------------------------------------------------------------------------
(* Mutations and receipts. *)

MutationOf(input, output, package, decision) ==
    LET added == output.records \ input.records IN
    [input |-> input, output |-> output, package |-> package, decision |-> decision,
     result |-> IF decision.kind = "distinct" THEN "accepted" ELSE "blocked_duplicate",
     accepted |-> IF added = {} THEN None ELSE CHOOSE r \in added : TRUE]

\* Loading a mutation with the package, the bytes and both catalogs.
MutationLoads(m, package, source, input, output, p) ==
    /\ PackageLoads(package, source, p)
    /\ FirstFault(CatalogRows(input, p)) = Fine /\ FirstFault(CatalogRows(output, p)) = Fine
    /\ m.decision = DuplicateDecision(CandidateFromPackage(package, p), input, package)
    /\ m = MutationOf(input, output, package, m.decision)

\* What a receipt names, each made from the one before.
ReceiptNodes(m, plan, ratio) ==
    <<<<"policy_snapshot", m.output.policy>>, <<"materialized_ingestion_input", m.package.source>>,
      <<"package", m.package>>, <<"decision", m.decision>>,
      <<"accepted_or_blocked_result", IF m.accepted = None THEN m.decision ELSE m.accepted>>,
      <<"mutation", m>>, <<"catalog", m.output>>, <<"reuse_plan", plan>>,
      <<"generic_stock_ratio", ratio>>>>

ReceiptOf(m, plan) ==
    LET nodes == ReceiptNodes(m, plan, GenericStockRatio(m.output, m.output.policy)) IN
    [status |-> "SUCCESS", nodes |-> nodes,
     edges |-> {<<nodes[i], nodes[i + 1]>> : i \in 1 .. Len(nodes) - 1},
     gate |-> IF plan.status = "evaluated" THEN "passed" ELSE "not_evaluated"]

ReceiptKinds ==
    <<"policy_snapshot", "materialized_ingestion_input", "package", "decision",
      "accepted_or_blocked_result", "mutation", "catalog", "reuse_plan", "generic_stock_ratio">>

ReceiptHolds(receipt) ==
    /\ [i \in DOMAIN receipt.nodes |-> receipt.nodes[i][1]] = ReceiptKinds
    /\ receipt.edges = {<<receipt.nodes[i], receipt.nodes[i + 1]>> : i \in 1 .. Len(receipt.nodes) - 1}

\* The closed code a caller is told: everything else is an invalid input.
FailureCode(fault) ==
    IF fault \in {"UNTRUSTED_REPLAY_EVIDENCE", "POLICY_DENIED", "REUSE_DENIED"}
    THEN fault ELSE "INVALID_INPUT"

-----------------------------------------------------------------------------
(* The operations of a caller. *)

CatalogInit ==
    /\ idOrder = CHOOSE order \in IdOrders : TRUE
    /\ catalog = None /\ kept = None
    /\ compiled = Failure(Fine)

\* A caller starts with an empty catalog, under whatever order the hashes turn
\* out to have.
NewCatalog(p) ==
    /\ catalog = None
    /\ idOrder' \in IdOrders
    /\ catalog' = EmptyCatalog(p) /\ kept' = catalog'
    /\ UNCHANGED compiled

CompileRows(x, p, pinned) ==
    ManifestRows(pinned)
    \o <<<<"bytes" \in x.wrong \/ "project" \in x.wrong, "ASSET_INPUT_INVALID">>>>
    \o CatalogRows(catalog, p)
    \o <<<<"descriptor" \in x.wrong, "SOURCE_DESCRIPTOR_INVALID">>>>
    \o EvidenceRows(x) \o FingerprintRows(x) \o DeclarationRows(x, p)

\* The catalog with a candidate that duplicates none of its records.
Provisional(candidate) == [catalog EXCEPT !.records = @ \cup {candidate}]

\* The catalog as it was, with the decision in its log.
Logged(decision) == [catalog EXCEPT !.blocked = @ (+) SetToBag({decision})]

\* GateFault that counts the violations of an evaluated plan and goes on.
GateFaultOpen(c, p, context) ==
    IF context = None THEN Fine ELSE FirstFault(ContextRows(c, context))

GateFault(c, p, context) ==
    IF context = None THEN Fine
    ELSE IF FirstFault(ContextRows(c, context)) # Fine THEN "REUSE_CONTEXT_INVALID"
    ELSE IF ReusePlan(c, p, context).violations # {} THEN "REUSE_DENIED"
    ELSE Fine

Insert(x, p, context) ==
    LET output == Provisional(CandidateRecord(x, p))
        decision == DuplicateDecision(CandidateRecord(x, p), catalog, PackageOf(x, p))
        fault == GateFault(output, p, context) IN
    /\ decision.kind = "distinct"
    /\ IF fault # Fine THEN compiled' = Failure(FailureCode(fault)) /\ UNCHANGED catalog
       ELSE /\ catalog' = output
            /\ compiled' = [verdict |-> Fine, plan |-> ReusePlan(output, p, context),
                            mutation |-> MutationOf(catalog, output, PackageOf(x, p), decision)]

\* A duplicate never reaches the reuse gate: its context is not read.
Block(x, p) ==
    LET decision == DuplicateDecision(CandidateRecord(x, p), catalog, PackageOf(x, p)) IN
    /\ decision.kind # "distinct"
    /\ BagCardinality(catalog.blocked) < MaxLogged
    /\ catalog' = Logged(decision)
    /\ compiled' = [verdict |-> Fine, plan |-> ReusePlan(Logged(decision), p, None),
                    mutation |-> MutationOf(catalog, Logged(decision), PackageOf(x, p), decision)]

\* A context as a caller prepares it: for the catalog that is to be, or for the
\* one it has.
ContextsFor(x, p) ==
    {None} \cup
    {[catalog |-> c, uses |-> u] :
        u \in Usages, c \in {catalog, Provisional(CandidateRecord(x, p))}}

CompileAsset(x, p, pinned) ==
    LET fault == FirstFault(CompileRows(x, p, pinned)) IN
    /\ IF fault # Fine THEN compiled' = Failure(FailureCode(fault)) /\ UNCHANGED catalog
       ELSE (\E context \in ContextsFor(x, p) : Insert(x, p, context)) \/ Block(x, p)
    /\ UNCHANGED <<idOrder, kept>>

EvaluateReuse(p, context) ==
    LET fault == FirstFault(CatalogRows(catalog, p) \o ContextRows(catalog, context)) IN
    /\ compiled' = IF fault # Fine THEN Failure(fault)
                   ELSE [verdict |-> Fine, mutation |-> None, plan |-> ReusePlan(catalog, p, context)]
    /\ UNCHANGED <<idOrder, catalog, kept>>

WriteCatalog ==
    /\ FirstFault(CatalogRows(catalog, catalog.policy)) = Fine
    /\ kept' = catalog
    /\ UNCHANGED <<idOrder, catalog, compiled>>

\* Bytes that were altered are not the canonical bytes of what they decode to.
LoadCatalog(p, altered) ==
    LET refused == altered \/ FirstFault(CatalogRows(kept, p)) # Fine IN
    /\ compiled' = Failure(IF refused THEN "ASSET_CATALOG_INVALID" ELSE Fine)
    /\ catalog' = IF refused THEN catalog ELSE kept
    /\ UNCHANGED <<idOrder, kept>>

CatalogNext ==
    \/ \E p \in AssetPolicies : NewCatalog(p)
    \/ /\ catalog # None
       /\ \/ \E x \in AssetInputs, p \in AssetPolicies, pinned \in BOOLEAN :
                CompileAsset(x, p, pinned)
          \/ \E p \in AssetPolicies, u \in Usages, c \in {catalog, kept} :
                EvaluateReuse(p, [catalog |-> c, uses |-> u])
          \/ WriteCatalog
          \/ \E p \in AssetPolicies, altered \in BOOLEAN : LoadCatalog(p, altered)

-----------------------------------------------------------------------------
(* Properties. *)

\* A mutation is made again, alike, from the stored package and the catalogs.
MadeAgain(m, plan) ==
    /\ MutationLoads(m, m.package, m.package.source, m.input, m.output, m.output.policy)
    /\ ReceiptHolds(ReceiptOf(m, plan))

\* What a compilation makes, every reader accepts: the catalog passes its own
\* validation, and the mutation is made again from what was stored.
ReadersAgree ==
    /\ catalog # None => FirstFault(CatalogRows(catalog, catalog.policy)) = Fine
    /\ compiled.mutation # None => MadeAgain(compiled.mutation, compiled.plan)

\* No two records share their bytes, their origin or a feature, by whatever
\* order of compilations, refusals and reloads they got there.
NoDuplicates ==
    catalog # None => \A r, o \in catalog.records : r # o =>
        /\ r.source # o.source
        /\ SameSourceKey(r.descriptor) # SameSourceKey(o.descriptor)
        /\ r.evidence.perceptual \cap o.evidence.perceptual = {}
        /\ r.evidence.local \cap o.evidence.local = {}

\* A candidate that was blocked stays blocked in every catalog that logs it.
BlockedForGood ==
    catalog # None => \A d \in BagToSet(catalog.blocked) :
        DuplicateDecision(CandidateFromPackage(d.package, catalog.policy), catalog, d.package).kind
            # "distinct"

\* Any two uses of a family are kept apart, whichever comes first and however
\* many lie between, and there are no more than the budget allows.
KeepsApart(plan) ==
    LET p == plan.of.policy
        same == {ij \in (DOMAIN plan.uses) \X (DOMAIN plan.uses) :
                    FamilyOf(plan.of, plan.uses[ij[1]]) = FamilyOf(plan.of, plan.uses[ij[2]])} IN
    /\ \A ij \in same : ij[1] # ij[2] =>
          \/ plan.uses[ij[1]].from - plan.uses[ij[2]].until >= p.cooldown
          \/ plan.uses[ij[2]].from - plan.uses[ij[1]].until >= p.cooldown
    /\ \A i \in DOMAIN plan.uses : Cardinality({ij \in same : ij[1] = i}) <= p.budget

\* An evaluated plan without violations, and any that let a record in, keeps
\* the uses of each family apart.
ReuseIsApart ==
    compiled.plan # None /\ compiled.plan.status = "evaluated"
       /\ (compiled.plan.violations = {} \/ compiled.mutation # None)
    => KeepsApart(compiled.plan)

CatalogHolds == ReadersAgree /\ NoDuplicates /\ BlockedForGood /\ ReuseIsApart
=============================================================================
