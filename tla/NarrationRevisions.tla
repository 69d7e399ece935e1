------------------------- MODULE NarrationRevisions -------------------------
(***************************************************************************)
(* The revisions of one narration document: each is declared by a caller   *)
(* as a text, its structure and words, and a manifest of where its nodes   *)
(* come from, and is materialized against a predecessor the caller hands   *)
(* in.  Nobody asks whether that predecessor is the latest one: revisions  *)
(* form a tree.  Ranges of words are resolved against a revision.          *)
(*                                                                         *)
(* Bounds: at most MaxRevisions revisions; a text is taken from Narrations *)
(* or differs from one of them in one number or one token; a manifest maps *)
(* nodes to predecessors in any way, or differs from an accepted one in    *)
(* one respect; a text that differs is given no successor.                 *)
(***************************************************************************)
EXTENDS NarrationText, SequencesExt

CONSTANTS
    Narrations,     \* well-formed narrations
    Edited,         \* bound: those that have or are successors
    MaxRevisions

VARIABLES
    revisions,      \* genuine revisions: a narration, its manifest, its parent
    reply           \* the last verdict; words resolved, and for which revision

narrationVars == <<revisions, reply>>

Answered(verdict) == [verdict |-> verdict, words |-> <<>>, asked |-> None, of |-> None]

Init ==
    /\ revisions = {}
    /\ reply = Answered(Fine)

-----------------------------------------------------------------------------
(* Declarations. *)

\* A node, and a token, with one number or the place other than it should be.
OtherNodes(n, x) ==
    {[x EXCEPT !.start = k] : k \in 0 .. Len(n.text)}
    \cup {[x EXCEPT !.end = k] : k \in 0 .. Len(n.text) + 1}
    \cup {[x EXCEPT !.order = k] : k \in 1 .. 2}

OtherTokens(n, t) ==
    {[t EXCEPT !.start = k, !.shown = Slice(n, [start |-> k, end |-> t.end])] : k \in 0 .. Len(n.text)}
    \cup {[t EXCEPT !.end = k] : k \in 0 .. Len(n.text) + 1}
    \cup {[t EXCEPT !.order = k] : k \in 1 .. 2}
    \cup {[t EXCEPT !.up = k] : k \in {0} \cup {j \in DOMAIN n.nodes : n.nodes[j].type = "SENTENCE"}}
    \cup {[t EXCEPT !.ordinal = o] : o \in {<<>>, <<0>>, <<1>>}}

\* A narration with one node or one token other than it should be, or one
\* declared word short.
Altered(n) ==
    LET OtherAt(i) == {[n EXCEPT !.nodes[i] = y] : y \in OtherNodes(n, n.nodes[i])}
        OtherTokenAt(i) == {[n EXCEPT !.tokens[i] = y] : y \in OtherTokens(n, n.tokens[i])}
    IN (UNION {OtherAt(i) : i \in DOMAIN n.nodes}) \cup (UNION {OtherTokenAt(i) : i \in DOMAIN n.tokens})
        \cup {[n EXCEPT !.projection = SubSeq(@, 2, Len(@))]}

\* The relation a claim calls for.
Record(x, claim, initial) ==
    [successor |-> x, predecessor |-> claim,
     relation |-> IF initial THEN "INITIAL"
                  ELSE IF claim = None THEN "INSERTED"
                  ELSE IF claim = x THEN "UNCHANGED" ELSE "SUPERSEDES",
     supersedes |-> IF claim = x THEN None ELSE claim]

\* The manifest that makes these claims, a claim for each node.
Manifest(views, previous, initial, claims) ==
    LET m == [records |-> [i \in DOMAIN views |-> Record(views[i], claims[i], initial)],
              removed |-> <<>>]
    IN [m EXCEPT !.removed = Unclaimed(m, previous)]

Joined(f, g) == [i \in DOMAIN f \cup DOMAIN g |-> IF i \in DOMAIN f THEN f[i] ELSE g[i]]

\* Manifests that continue any nodes of the predecessor with any of the same
\* type: one claim per node.
Mappings(views, previous, initial) ==
    LET At(nodes, type) == {i \in DOMAIN nodes : nodes[i].type = type}
        Claims(type) ==
            [At(views, type) -> {None} \cup {previous[i] : i \in At(previous, type)}]
    IN {Manifest(views, previous, initial,
                 Joined(Joined(sections, paragraphs), Joined(sentences, tokens))) :
          sections \in Claims("SECTION"), paragraphs \in Claims("PARAGRAPH"),
          sentences \in Claims("SENTENCE"), tokens \in Claims("TOKEN")}

\* A manifest with one record or the removed list other than it should be.
Doubtful(m, previous) ==
    {[m EXCEPT !.records = SubSeq(@, 2, Len(@))]}
    \cup {[m EXCEPT !.records[i].relation = relation] : i \in DOMAIN m.records, relation \in Relations}
    \cup {[m EXCEPT !.records[i].supersedes = None] : i \in DOMAIN m.records}
    \cup {[m EXCEPT !.removed = Append(@, previous[i])] : i \in DOMAIN previous}
    \cup {[m EXCEPT !.removed = SubSeq(@, 2, Len(@))], [m EXCEPT !.removed = Reverse(@)]}

-----------------------------------------------------------------------------
(* materialize_canonical_narration. *)

PredecessorRows(named, given, otherDocument) ==
    <<<<named = None /\ given # None, "STRUCTURE_INVALID">>,
      <<named # None /\ given = None, "STRUCTURE_INVALID">>,
      <<named # given, "IDENTITY_MISMATCH">>,
      <<given # None /\ otherDocument, "IDENTITY_MISMATCH">>>>

NarrationFault(n, wrong, named, given) ==
    FirstRefusal(
        <<FirstFault(<<<<n.text = <<>>, "EMPTY_SOURCE">>>> \o PartRows(wrong, HeaderParts)
                     \o PredecessorRows(named, given, "otherDocument" \in wrong)
                     \o PartRows(wrong, <<<<"extensions", "EXTENSION_INVALID">>>>)),
          TextFault(n, wrong),
          FirstFault(PartRows(wrong, ManifestParts))>>)

WrongParts ==
    LET Names(parts) == {parts[i][1] : i \in DOMAIN parts} IN
    {{part} : part \in Names(HeaderParts) \cup Names(ProfileParts) \cup Names(NodeParts)
                        \cup Names(TokenParts) \cup Names(ManifestParts)
                        \cup {"otherDocument", "extensions"}}

\* A revision's identifier is the hash of all it says, its parent included.
Revision(n, views, m, parent) ==
    [kind |-> "revision", narration |-> n, views |-> views, manifest |-> m, parent |-> parent]

Publish(r) ==
    /\ Cardinality(revisions \cup {r}) <= MaxRevisions
    /\ revisions' = revisions \cup {r}
    /\ reply' = Answered(Fine)

Refuse(fault) ==
    /\ reply' = Answered(fault)
    /\ UNCHANGED revisions

\* The manifest is checked against the predecessor that was handed in.
Declare(n, given, doubts) ==
    LET views == NodeViews(n)
        previous == IF given = None THEN <<>> ELSE given.views
        Fault(m) == ManifestFault(m, views, previous, given = None)
        Outcome(m) == IF Fault(m) = Fine THEN Publish(Revision(n, views, m, given)) ELSE Refuse(Fault(m))
    IN \E m \in Mappings(views, previous, given = None) :
        \/ Outcome(m)
        \/ doubts /\ Fault(m) = Fine /\ \E d \in Doubtful(m, previous) : Outcome(d)

Materialize ==
    \E n \in Narrations :
    \E named, given \in {r \in revisions : {n, r.narration} \subseteq Edited} \cup {None} :
        LET Fault(wrong) == NarrationFault(n, wrong, named, given) IN
        IF Fault({}) # Fine THEN Refuse(Fault({}))
        ELSE \/ Declare(n, given, TRUE)
             \/ \E wrong \in WrongParts : Fault(wrong) # Fine /\ Refuse(Fault(wrong))
             \/ \E x \in Altered(n) :
                    IF TextFault(x, {}) # Fine THEN Refuse(TextFault(x, {}))
                    ELSE given = None /\ Declare(x, given, FALSE)

-----------------------------------------------------------------------------
(* resolve_word_range, for a reference made against some revision. *)

RangeRows(r, asked, start, end, structural) ==
    LET count == Len(Words(r.narration)) IN
    <<<<asked # r, "WORD_RANGE_REVISION_MISMATCH">>,
      <<start > end, "WORD_RANGE_REVERSED">>,
      <<start > count \/ end > count, "WORD_RANGE_OUT_OF_BOUNDS">>,
      <<start = end /\ ~structural, "WORD_RANGE_OUT_OF_BOUNDS">>>>

Resolve ==
    \E r, asked \in revisions, start, end \in 0 .. 3, structural \in BOOLEAN :
        LET fault == FirstFault(RangeRows(r, asked, start, end, structural)) IN
        /\ reply' = IF fault # Fine THEN Answered(fault)
                    ELSE [verdict |-> Fine, asked |-> asked, of |-> r,
                          words |-> SubSeq(Words(r.narration), start + 1, end)]
        /\ UNCHANGED revisions

\* Callers drop what they no longer need; a refusal is handled first.
Handled ==
    /\ reply # Answered(Fine)
    /\ reply' = Answered(Fine)
    /\ UNCHANGED revisions

Next ==
    \/ reply = Answered(Fine) /\ (Materialize \/ Resolve)
    \/ Handled

Spec == Init /\ [][Next]_narrationVars

-----------------------------------------------------------------------------
(* Properties. *)

\* Every node of a revision's predecessor is continued by exactly one node or
\* listed as removed, never both and never neither: no sentence gets lost or
\* doubled over an edit.
EveryNodeAccountedFor ==
    \A r \in revisions : r.parent # None =>
        \A x \in {r.parent.views[i] : i \in DOMAIN r.parent.views} :
            Cardinality({i \in DOMAIN r.manifest.records :
                            r.manifest.records[i].predecessor = x})
            + Cardinality({i \in DOMAIN r.manifest.removed : r.manifest.removed[i] = x}) = 1

\* A word that is continued stays in the family: its sentence, paragraph and
\* section continue those of the word it continues.
FamiliesStayTogether ==
    \A r \in revisions : r.parent # None =>
        \A i \in DOMAIN r.manifest.records :
            LET record == r.manifest.records[i] IN
            record.predecessor # None /\ record.successor.under # None =>
                \E j \in DOMAIN r.manifest.records :
                    /\ r.manifest.records[j].successor = record.successor.under
                    /\ r.manifest.records[j].predecessor = record.predecessor.under

\* The words of a section, a paragraph or a sentence stand side by side, and
\* those of an earlier sibling come before those of a later one: a range of
\* word ordinals is a stretch of the text, which all timing rests on.
NodesAreWordRanges ==
    \A r \in revisions :
        LET n == r.narration IN
        /\ \A i \in DOMAIN n.nodes :
              \A a, c \in WordsUnder(n, i) : \A b \in a .. c : b \in WordsUnder(n, i)
        /\ \A i \in DOMAIN n.nodes : \A j \in ElderSiblings(n, i) :
              \A a \in WordsUnder(n, j), b \in WordsUnder(n, i) : a < b

\* The tree of a text holds together, in itself and over an edit.
TreesHoldTogether == NodesAreWordRanges /\ FamiliesStayTogether
=============================================================================
