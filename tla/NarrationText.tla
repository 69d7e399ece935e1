---------------------------- MODULE NarrationText ---------------------------
(***************************************************************************)
(* Narrations, and then the manifest that ties one to the one before it.   *)
(*                                                                         *)
(* What a canonical narration must look like (contracts/narration.py).  A  *)
(* source text is cut into sections, paragraphs and sentences; tokens read  *)
(* the text, and the spoken ones are the canonical words, numbered from 0. *)
(*                                                                         *)
(* A narration is a record of                                              *)
(*   text        the source, a sequence of characters                      *)
(*   nodes       the structure in the order it is written down: type,      *)
(*               up (the position of the parent, 0 for a section), order   *)
(*               among its siblings, and the range [start, end) it covers  *)
(*   tokens      spoken, up (the sentence its path leads to, 0 if none),   *)
(*               order, ordinal (<<k>>, or <<>> unless spoken), start, end, shown    *)
(*   projection  the declared words: pairs of order and ordinal            *)
(* Segmentation rules, languages, titles and spoken forms are left out: no *)
(* check compares them with anything.                                      *)
(***************************************************************************)
EXTENDS Refusals

\* What a sequence has at the given places, in its order.
Picked(s, places) ==
    [k \in 1 .. Cardinality(places) |->
        s[CHOOSE i \in places : Cardinality({j \in places : j <= i}) = k]]

\* What the nesting of a declaration and the parsers of its fields leave open:
\* sentences are in paragraphs, paragraphs in sections, and positions are
\* natural numbers.
IsNarration(n) ==
    /\ DOMAIN n = {"text", "nodes", "tokens", "projection"}
    /\ \A list \in DOMAIN n : n[list] \in Seq({n[list][i] : i \in DOMAIN n[list]})
    /\ \A i \in DOMAIN n.nodes :
          LET x == n.nodes[i] IN
          /\ x \in [type : {"SECTION", "PARAGRAPH", "SENTENCE"},
                   up : {0} \cup DOMAIN n.nodes, order : Nat, start : Nat, end : Nat]
          /\ x.type = "SECTION" => x.up = 0
          /\ x.type = "PARAGRAPH" => x.up # 0 /\ n.nodes[x.up].type = "SECTION"
          /\ x.type = "SENTENCE" => x.up # 0 /\ n.nodes[x.up].type = "PARAGRAPH"
    /\ \A i \in DOMAIN n.tokens :
          LET t == n.tokens[i] IN
          /\ DOMAIN t = {"spoken", "up", "order", "ordinal", "start", "end", "shown"}
          /\ t.spoken \in BOOLEAN /\ {t.order, t.start, t.end} \subseteq Nat
          /\ t.up # 0 => t.up \in DOMAIN n.nodes /\ n.nodes[t.up].type = "SENTENCE"

\* A slice past the end of the text stops there.
Slice(n, x) == SubSeq(n.text, x.start + 1, IF x.end > Len(n.text) THEN Len(n.text) ELSE x.end)

RangeInvalid(n, x, mayBeEmpty) ==
    \/ x.start > x.end
    \/ ~mayBeEmpty /\ x.start = x.end
    \/ x.end > Len(n.text)

Outside(x, parent) == x.start < parent.start \/ x.end > parent.end

ElderSiblings(n, i) ==
    {j \in 1 .. i - 1 : n.nodes[j].up = n.nodes[i].up}

SiblingOrderInvalid(n, i) ==
    LET elders == ElderSiblings(n, i)
        previous == n.nodes[CHOOSE j \in elders : \A k \in elders : k <= j] IN
    /\ elders # {}
    /\ \/ n.nodes[i].order <= previous.order
       \/ n.nodes[i].start < previous.end

\* Sections, paragraphs and sentences are checked as they are written down.
NodeFault(n, i) ==
    LET x == n.nodes[i] IN
    FirstFault(
        <<<<RangeInvalid(n, x, TRUE), "SOURCE_RANGE_INVALID">>,
          <<x.up # 0 /\ Outside(x, n.nodes[x.up]), "HIERARCHY_INVALID">>,
          <<SiblingOrderInvalid(n, i), "HIERARCHY_INVALID">>>>)

\* The identifier of a node is the hash of what it says and of its parent's
\* identifier; hashes do not collide here.
NodeId(n, x, under) ==
    [type |-> x.type, order |-> x.order, start |-> x.start, end |-> x.end,
     shown |-> Slice(n, x), under |-> under]

SectionId(n, i) == NodeId(n, n.nodes[i], None)
ParagraphId(n, i) == NodeId(n, n.nodes[i], SectionId(n, n.nodes[i].up))
SentenceId(n, i) == NodeId(n, n.nodes[i], ParagraphId(n, n.nodes[i].up))

NodeIds(n) ==
    [i \in DOMAIN n.nodes |-> CASE n.nodes[i].type = "SECTION" -> SectionId(n, i)
                               [] n.nodes[i].type = "PARAGRAPH" -> ParagraphId(n, i)
                               [] n.nodes[i].type = "SENTENCE" -> SentenceId(n, i)]

TokenIds(n) ==
    [i \in DOMAIN n.tokens |->
        LET t == n.tokens[i] IN
        [type |-> "TOKEN", spoken |-> t.spoken, order |-> t.order, ordinal |-> t.ordinal,
         start |-> t.start, end |-> t.end, shown |-> t.shown, under |-> NodeIds(n)[t.up]]]

\* TokenRows without the containment of a token in its sentence.
TokenRowsAnywhere(n, i) ==
    LET t == n.tokens[i] IN
    <<<<RangeInvalid(n, t, FALSE), "SOURCE_RANGE_INVALID">>,
      <<i > 1 /\ t.order <= n.tokens[i - 1].order, "TOKEN_ORDER_INVALID">>,
      <<i > 1 /\ t.start < n.tokens[i - 1].end, "SOURCE_RANGE_INVALID">>,
      <<t.shown # Slice(n, t), "SOURCE_RANGE_INVALID">>,
      <<t.up = 0, "HIERARCHY_INVALID">>,
      <<t.spoken /\ t.ordinal = <<>>, "TOKEN_ORDER_INVALID">>,
      <<~t.spoken /\ t.ordinal # <<>>, "STRUCTURE_INVALID">>>>

TokenRows(n, i) ==
    LET t == n.tokens[i] IN
    <<<<RangeInvalid(n, t, FALSE), "SOURCE_RANGE_INVALID">>,
      <<i > 1 /\ t.order <= n.tokens[i - 1].order, "TOKEN_ORDER_INVALID">>,
      <<i > 1 /\ t.start < n.tokens[i - 1].end, "SOURCE_RANGE_INVALID">>,
      <<t.shown # Slice(n, t), "SOURCE_RANGE_INVALID">>,
      <<t.up = 0, "HIERARCHY_INVALID">>,
      <<t.up # 0 /\ Outside(t, n.nodes[t.up]), "HIERARCHY_INVALID">>,
      <<t.spoken /\ t.ordinal = <<>>, "TOKEN_ORDER_INVALID">>,
      <<~t.spoken /\ t.ordinal # <<>>, "STRUCTURE_INVALID">>>>

\* canonical_words: the spoken tokens, in order.
Words(n) == Picked(n.tokens, {i \in DOMAIN n.tokens : n.tokens[i].spoken})

WordRows(n) ==
    LET words == Words(n) IN
    <<<<\E k \in DOMAIN words : words[k].ordinal # <<k - 1>>, "TOKEN_ORDER_INVALID">>,
      <<n.projection # [k \in DOMAIN words |-> <<words[k].order>> \o words[k].ordinal],
        "TOKEN_ORDER_INVALID">>>>

\* The nodes a token belongs to, from its sentence to its section.
NodesAbove(n, t) ==
    IF t.up = 0 THEN {}
    ELSE LET paragraph == n.nodes[t.up].up IN {t.up, paragraph, n.nodes[paragraph].up}

WordsUnder(n, i) == {k \in DOMAIN Words(n) : i \in NodesAbove(n, Words(n)[k])}

CoverageRows(n) ==
    <<<<\E i \in DOMAIN n.nodes : /\ n.nodes[i].start = n.nodes[i].end
                                  /\ WordsUnder(n, i) # {}, "HIERARCHY_INVALID">>>>

\* Parts of a declaration that can be malformed by themselves, in the order
\* their builders come; each is tried on a declaration that is fine otherwise.
HeaderParts == <<<<"source", "INVALID_UTF8">>, <<"mark", "BOM_FORBIDDEN">>,
                 <<"fields", "CLOSED_FIELD_VIOLATION">>, <<"version", "UNSUPPORTED_ENUM">>,
                 <<"ids", "STRUCTURE_INVALID">>>>
ProfileParts == <<<<"profileFields", "CLOSED_FIELD_VIOLATION">>,
                  <<"profileScope", "UNSUPPORTED_ENUM">>,
                  <<"profileHash", "HASH_MISMATCH">>, <<"profileLanguage", "STRUCTURE_INVALID">>>>
NodeParts == <<<<"nodeFields", "CLOSED_FIELD_VIOLATION">>, <<"nodeExtensions", "EXTENSION_INVALID">>,
               <<"nodeId", "IDENTITY_MISMATCH">>>>
TokenParts == <<<<"tokenFields", "CLOSED_FIELD_VIOLATION">>, <<"kind", "UNSUPPORTED_ENUM">>,
                <<"override", "STRUCTURE_INVALID">>, <<"traces", "STRUCTURE_INVALID">>,
                <<"tokenId", "IDENTITY_MISMATCH">>>>

TextFault(n, wrong) ==
    FirstRefusal(
        <<FirstFault(PartRows(wrong, ProfileParts) \o PartRows(wrong, NodeParts))>>
        \o [i \in DOMAIN n.nodes |-> NodeFault(n, i)]
        \o <<FirstFault(PartRows(wrong, TokenParts))>>
        \o [i \in DOMAIN n.tokens |-> FirstFault(TokenRows(n, i))]
        \o <<FirstFault(WordRows(n) \o CoverageRows(n))>>)

-----------------------------------------------------------------------------
(* The lineage manifest of a narration revision: one record per node says  *)
(* which node of the predecessor it continues, and the predecessor's other *)
(* nodes are listed as removed.                                            *)
(*                                                                         *)
(* A manifest has records [successor, relation, predecessor, supersedes]   *)
(* (supersedes is what the node itself declares) and a list `removed'.     *)

Relations == {"INITIAL", "INSERTED", "UNCHANGED", "SUPERSEDES"}
Kept == {"UNCHANGED", "SUPERSEDES"}

\* _lineage_node_views: all sections, paragraphs, sentences, then tokens.
NodeViews(n) ==
    LET ids == NodeIds(n)
        OfType(type) == Picked(ids, {i \in DOMAIN n.nodes : n.nodes[i].type = type})
    IN OfType("SECTION") \o OfType("PARAGRAPH") \o OfType("SENTENCE") \o TokenIds(n)

InitialRows(m) ==
    <<<<m.removed # <<>>, "IDENTITY_MISMATCH">>,
      <<\E i \in DOMAIN m.records :
          \/ m.records[i].relation # "INITIAL"
          \/ m.records[i].predecessor # None
          \/ m.records[i].supersedes # None, "IDENTITY_MISMATCH">>>>

InsertedInvalid(r, previous) ==
    r.predecessor # None \/ r.supersedes # None \/ r.successor \in previous

\* ClaimInvalid, when a predecessor may be claimed again.
ClaimInvalidOnce(m, i, previous) ==
    m.records[i].predecessor \notin {x \in previous : x.type = m.records[i].successor.type}

\* A predecessor resolves with the same type, and is claimed only once.
ClaimInvalid(m, i, previous) ==
    LET r == m.records[i] IN
    \/ r.predecessor \notin {x \in previous : x.type = r.successor.type}
    \/ \E j \in 1 .. i - 1 : /\ m.records[j].relation \in Kept
                             /\ m.records[j].predecessor = r.predecessor

RelationInvalid(r) ==
    IF r.relation = "UNCHANGED"
    THEN r.predecessor # r.successor \/ r.supersedes # None
    ELSE r.predecessor = r.successor \/ r.supersedes # r.predecessor

RecordInvalid(m, i, previous) ==
    LET r == m.records[i] IN
    \/ r.relation = "INITIAL"
    \/ r.relation = "INSERTED" /\ InsertedInvalid(r, previous)
    \/ r.relation \in Kept /\ (ClaimInvalid(m, i, previous) \/ RelationInvalid(r))

Claimed(m) ==
    {m.records[i].predecessor : i \in {j \in DOMAIN m.records : m.records[j].relation \in Kept}}

Unclaimed(m, previous) ==
    LET claimed == Claimed(m) IN Picked(previous, {i \in DOMAIN previous : previous[i] \notin claimed})

\* FamilyBroken, when nobody asks for the parent.
FamilyBrokenNever(m, r) == FALSE

\* The parent of a continued node continues the parent of its predecessor.
FamilyBroken(m, r) ==
    /\ r.relation \in Kept /\ r.predecessor # None
    /\ r.successor.under # None
    /\ ~\E i \in DOMAIN m.records : /\ m.records[i].successor = r.successor.under
                                    /\ m.records[i].relation \in Kept
                                    /\ m.records[i].predecessor = r.predecessor.under

\* What parsing a manifest refuses before its records are compared with nodes.
ManifestParts == <<<<"manifestFields", "CLOSED_FIELD_VIOLATION">>,
                   <<"manifestVersion", "UNSUPPORTED_ENUM">>,
                   <<"manifestPredecessor", "IDENTITY_MISMATCH">>,
                   <<"nodeType", "UNSUPPORTED_ENUM">>, <<"relation", "UNSUPPORTED_ENUM">>>>

\* views and previous: the nodes of the revision and of its predecessor, whose
\* absence makes the revision an initial one.
ManifestFault(m, views, previous, initial) ==
    LET nodes == {previous[i] : i \in DOMAIN previous}
        shapeFault == FirstFault(
            <<<<Len(m.records) # Len(views), "IDENTITY_MISMATCH">>,
              <<\E i \in DOMAIN m.records : /\ i \in DOMAIN views
                                            /\ m.records[i].successor # views[i],
                "IDENTITY_MISMATCH">>>>)
    IN IF shapeFault # Fine THEN shapeFault
       ELSE IF initial THEN FirstFault(InitialRows(m))
       ELSE FirstFault(
                <<<<\E i \in DOMAIN m.records : RecordInvalid(m, i, nodes), "IDENTITY_MISMATCH">>,
                  <<m.removed # Unclaimed(m, previous), "IDENTITY_MISMATCH">>,
                  <<\E i \in DOMAIN m.records : FamilyBroken(m, m.records[i]),
                    "IDENTITY_MISMATCH">>>>)
=============================================================================
