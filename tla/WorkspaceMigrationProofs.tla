---------------------- MODULE WorkspaceMigrationProofs ----------------------
(***************************************************************************)
(* Theorems about WorkspaceMigration, with the operators of WorkspaceGraph *)
(* that they need: what a workspace is that the loader accepts, and what   *)
(* is in a directory between calls of the migration command.               *)
(***************************************************************************)
EXTENDS WorkspaceMigration, WellFoundedInduction, FiniteSetTheorems, TLAPS

-----------------------------------------------------------------------------
(* Lists and what is found in them.                                        *)

LEMMA LeastNumber ==
  ASSUME NEW T \in SUBSET Nat, T # {}
  PROVE  \E i \in T : \A j \in T : i <= j
<1> DEFINE R == OpToRel(<, Nat)
<1>1. IsWellFoundedOn(R, Nat)
    BY NatLessThanWellFounded
<1>2. \A i, j \in Nat : j < i => <<j, i>> \in R
    BY DEF OpToRel
<1> HIDE DEF R
<1>3. PICK i \in T : \A j \in T : ~(<<j, i>> \in R)
    BY <1>1, WFMin
<1>4. \A j \in T : ~(j < i) /\ i \in Nat /\ j \in Nat
    BY <1>2, <1>3
<1> QED
    BY <1>4

LEMMA ListFacts ==
  ASSUME NEW s, IsList(s)
  PROVE  /\ Len(s) \in Nat /\ DOMAIN s = 1 .. Len(s) /\ DOMAIN s \subseteq Nat
         /\ \A x : x \in Elements(s) <=> \E i \in DOMAIN s : s[i] = x
<1>1. s \in Seq(Elements(s))
    BY DEF IsList
<1> DEFINE E == Elements(s)
<1>2. Len(s) \in Nat /\ DOMAIN s = 1 .. Len(s)
    <2> HIDE DEF E
    <2> QED BY <1>1
<1> QED
    BY <1>2 DEF Elements

LEMMA EmptyIsList == IsList(<<>>)
BY DEF IsList

LEMMA LongerIsList == \A s, x : IsList(s) => IsList(Append(s, x))
<1> SUFFICES ASSUME NEW s, NEW x, IsList(s) PROVE IsList(Append(s, x))
    OBVIOUS
<1> DEFINE t == Append(s, x)
<1>1. s \in Seq(Elements(s) \cup {x})
    <2> DEFINE E == Elements(s)
    <2>1. s \in Seq(E)
        BY DEF IsList
    <2> HIDE DEF E
    <2> QED BY <2>1 DEF E
<1>2. t \in Seq(Elements(s) \cup {x})
    <2> DEFINE E == Elements(s) \cup {x}
    <2>1. s \in Seq(E) /\ x \in E
        BY <1>1
    <2> HIDE DEF E
    <2>2. Append(s, x) \in Seq(E)
        BY <2>1
    <2> QED BY <2>2 DEF E
<1>3. Len(t) \in Nat /\ DOMAIN t = 1 .. Len(t) /\ t = [i \in 1 .. Len(t) |-> t[i]]
    <2> DEFINE E == Elements(s) \cup {x}
    <2>1. t \in Seq(E)
        BY <1>2
    <2> HIDE DEF E, t
    <2> QED BY <2>1
<1> HIDE DEF t
<1>4. \A i \in 1 .. Len(t) : t[i] \in Elements(t)
    BY <1>3 DEF Elements
<1>5. t \in Seq(Elements(t))
    <2> DEFINE E == Elements(t)
    <2>1. \A i \in 1 .. Len(t) : t[i] \in E
        BY <1>4
    <2> HIDE DEF E
    <2>2. t \in Seq(E)
        BY <1>3, <2>1
    <2> QED BY <2>2 DEF E
<1> QED
    BY <1>5 DEF t, IsList

\* In a list without duplicates an id means the one item that has it.
LEMMA IndexedIsTheItem ==
  ASSUME NEW s, DOMAIN s \subseteq Nat, ~DuplicateIds(s)
  PROVE  /\ \A i \in DOMAIN s : Indexed(s, s[i].id) = s[i] /\ s[i].id \in Ids(s)
         /\ \A id \in Ids(s) : \E i \in DOMAIN s : s[i].id = id
         /\ \A i, j \in DOMAIN s : s[i].id = s[j].id => i = j
<1>1. \A i, j \in DOMAIN s : s[i].id = s[j].id => i = j
    BY DEF DuplicateIds
<1>2. \A id \in Ids(s) : \E i \in DOMAIN s : s[i].id = id
    BY DEF Ids
<1>3. ASSUME NEW i \in DOMAIN s PROVE Indexed(s, s[i].id) = s[i] /\ s[i].id \in Ids(s)
    <2> DEFINE First(k) == s[k].id = s[i].id /\ \A j \in DOMAIN s : s[j].id = s[i].id => k <= j
    <2>1. i \in Nat /\ First(i)
        BY <1>1
    <2>2. \A k \in DOMAIN s : First(k) => k = i
        BY <1>1
    <2>3. (CHOOSE k \in DOMAIN s : First(k)) = i
        <3> HIDE DEF First
        <3> QED BY <2>1, <2>2
    <2> QED
        BY <2>3 DEF Indexed, Ids
<1> QED
    BY <1>1, <1>2, <1>3

-----------------------------------------------------------------------------
(* The documents of a split workspace.                                     *)

\* (upTo holds the values of the first 0, 1, ... m documents of a kind.)
Collects(documents, kind, upTo, m) ==
    upTo = [n \in 0 .. m |->
              IF n = 0 THEN <<>>
              ELSE IF n \in LoadedDocuments(documents) /\ documents[n].kind = kind
              THEN Append(upTo[n - 1], documents[n].value) ELSE upTo[n - 1]]

LEMMA CollectsExists ==
  \A documents, kind : \A m \in Nat : \E f : Collects(documents, kind, f, m)
<1> SUFFICES ASSUME NEW documents, NEW kind,
                    {m \in Nat : ~\E f : Collects(documents, kind, f, m)} # {}
             PROVE  FALSE
    OBVIOUS
<1> DEFINE T == {m \in Nat : ~\E f : Collects(documents, kind, f, m)}
           Step(n, s) == IF n \in LoadedDocuments(documents) /\ documents[n].kind = kind
                         THEN Append(s, documents[n].value) ELSE s
<1>1. PICK m \in T : \A j \in T : m <= j
    <2>1. T \in SUBSET Nat
        OBVIOUS
    <2> HIDE DEF T
    <2> QED BY <2>1, LeastNumber DEF T
<1>2. CASE m = 0
    <2>1. Collects(documents, kind, [n \in 0 .. 0 |-> <<>>], 0)
        BY DEF Collects
    <2> QED BY <1>1, <1>2, <2>1
<1>3. CASE m # 0
    <2>1. m - 1 \in Nat /\ m - 1 \notin T
        BY <1>1, <1>3
    <2>2. PICK h : Collects(documents, kind, h, m - 1)
        BY <2>1
    <2> DEFINE g == [n \in 0 .. m |-> IF n = m THEN Step(m, h[m - 1]) ELSE h[n]]
    <2>3. h[0] = <<>> /\ \A n \in 1 .. m - 1 : h[n] = Step(n, h[n - 1])
        <3>1. 0 \in 0 .. m - 1 /\ \A n \in 1 .. m - 1 : n \in 0 .. m - 1 /\ n # 0
            BY <1>1, <1>3
        <3> HIDE DEF g, T
        <3> QED BY <2>2, <3>1 DEF Collects
    <2> HIDE DEF Step
    <2>4. \A n \in 0 .. m : g[n] = IF n = 0 THEN <<>> ELSE Step(n, g[n - 1])
        <3> SUFFICES ASSUME NEW n \in 0 .. m
                     PROVE  g[n] = IF n = 0 THEN <<>> ELSE Step(n, g[n - 1])
            OBVIOUS
        <3>1. CASE n = 0
            BY <1>3, <2>3, <3>1
        <3>2. CASE n # 0
            <4>1. n - 1 \in 0 .. m /\ n - 1 # m
                BY <1>1, <3>2
            <4>2. g[n - 1] = h[n - 1]
                BY <4>1
            <4>3. CASE n = m
                BY <3>2, <4>2, <4>3
            <4>4. CASE n # m
                <5>1. n \in 1 .. m - 1
                    BY <1>1, <3>2, <4>4
                <5> QED BY <2>3, <3>2, <4>2, <4>4, <5>1
            <4> QED BY <4>3, <4>4
        <3> QED BY <3>1, <3>2
    <2>5. Collects(documents, kind, g, m)
        <3>1. g = [n \in 0 .. m |-> g[n]]
            OBVIOUS
        <3> HIDE DEF g
        <3> QED BY <2>4, <3>1 DEF Collects, Step
    <2> QED BY <1>1, <2>5
<1> QED BY <1>2, <1>3

\* What is collected of a kind is a list, of values of documents of the kind.
LEMMA AllOfKindIsList ==
  ASSUME NEW documents, NEW kind, Len(documents) \in Nat
  PROVE  /\ IsList(AllOfKind(documents, kind))
         /\ AllOfKind(documents, kind) # <<>> =>
              \E n \in 1 .. Len(documents) \cap LoadedDocuments(documents) :
                 documents[n].kind = kind /\ documents[n].value = AllOfKind(documents, kind)[1]
<1> DEFINE N == Len(documents)
           g == CHOOSE f : Collects(documents, kind, f, N)
           Good(s) ==
             /\ IsList(s)
             /\ s # <<>> => \E n \in 1 .. N \cap LoadedDocuments(documents) :
                               documents[n].kind = kind /\ documents[n].value = s[1]
<1>1. AllOfKind(documents, kind) = g[N]
    BY DEF AllOfKind, Collects
<1>2. Collects(documents, kind, g, N)
    <2> HIDE DEF N
    <2>1. \E f : Collects(documents, kind, f, N)
        BY CollectsExists DEF N
    <2> QED BY <2>1
<1> HIDE DEF g
<1>3. \A s : \A n \in 1 .. N : Good(s) /\ n \in LoadedDocuments(documents) /\ documents[n].kind = kind
                 => Good(Append(s, documents[n].value))
    <2> SUFFICES ASSUME NEW s, NEW n \in 1 .. N, Good(s), n \in LoadedDocuments(documents),
                        documents[n].kind = kind
                 PROVE  Good(Append(s, documents[n].value))
        OBVIOUS
    <2> DEFINE v == documents[n].value
               t == Append(s, v)
    <2>1. IsList(t)
        BY LongerIsList
    <2>2. t[1] = IF s = <<>> THEN v ELSE s[1]
        <3> DEFINE E == Elements(s) \cup {v}
        <3>1. s \in Seq(E) /\ v \in E
            <4> DEFINE F == Elements(s)
            <4>1. s \in Seq(F)
                BY DEF IsList
            <4> HIDE DEF F
            <4> QED BY <4>1 DEF F
        <3> HIDE DEF E, v
        <3> QED BY <3>1
    <2> QED BY <2>1, <2>2
<1> DEFINE T == {n \in 0 .. N : ~Good(g[n])}
<1>4. T = {}
    <2> SUFFICES ASSUME T # {} PROVE FALSE
        OBVIOUS
    <2>1. PICK m \in T : \A j \in T : m <= j
        <3>1. T \in SUBSET Nat
            OBVIOUS
        <3> HIDE DEF T
        <3> QED BY <3>1, LeastNumber
    <2>2. m \in 0 .. N /\ ~Good(g[m])
        BY <2>1
    <2>3. CASE m = 0
        <3>1. g[m] = <<>>
            BY <1>2, <2>2, <2>3 DEF Collects
        <3> QED BY <2>2, <3>1, EmptyIsList
    <2>4. CASE m # 0
        <3>1. m - 1 \in 0 .. N /\ ~(m <= m - 1) /\ m \in 1 .. N
            BY <2>2, <2>4
        <3>2. Good(g[m - 1])
            <4> HIDE DEF Good
            <4> QED BY <2>1, <3>1
        <3>3. g[m] = IF m \in LoadedDocuments(documents) /\ documents[m].kind = kind
                     THEN Append(g[m - 1], documents[m].value) ELSE g[m - 1]
            <4> HIDE DEF T, Good
            <4> QED BY <1>2, <2>2, <2>4 DEF Collects
        <3> HIDE DEF Good
        <3> QED BY <1>3, <2>2, <3>1, <3>2, <3>3
    <2> QED BY <2>3, <2>4
<1>5. Good(g[N])
    <2>1. N \in 0 .. N
        OBVIOUS
    <2> HIDE DEF Good, N
    <2> QED BY <1>4, <2>1
<1> QED BY <1>1, <1>5

LEMMA WhenIsEmpty == \A condition, code : When(condition, code) = {} => ~condition
BY DEF When

-----------------------------------------------------------------------------
(* Chapters, beats and sequences.                                          *)

LEMMA HierarchyIsATree ==
  ASSUME NEW w, IsList(w.chapters), IsList(w.beats), IsList(w.sequences),
         ~DuplicateIds(w.chapters), ~DuplicateIds(w.beats), ~DuplicateIds(w.sequences),
         HierarchyIssues(w) = {}
  PROVE  IsTree(w)
<1>1. /\ \A c \in Elements(w.chapters) : ~ChapterIssue(w, c)
      /\ \A b \in Elements(w.beats) : ~BeatSequenceIssue(w, b)
      /\ \A s \in Elements(w.sequences) : SequenceIssues(w, s) = {}
    <2> DEFINE A == \E c \in Elements(w.chapters) : ChapterIssue(w, c)
               B == \E b \in Elements(w.beats) : BeatSequenceIssue(w, b)
               S == UNION {SequenceIssues(w, s) : s \in Elements(w.sequences)}
    <2>1. /\ When(A, "CHAPTER_BEAT_MEMBERSHIP_MISMATCH") = {}
          /\ When(B, "BEAT_SEQUENCE_MEMBERSHIP_MISMATCH") = {}
          /\ S = {}
        BY DEF HierarchyIssues
    <2>2. ~A /\ ~B
        <3> HIDE DEF A, B
        <3> QED BY <2>1, WhenIsEmpty
    <2> QED BY <2>1, <2>2
<1> DEFINE C == w.chapters
           B == w.beats
           S == w.sequences
<1>2. /\ \A i \in DOMAIN C : Indexed(C, C[i].id) = C[i] /\ C[i] \in Elements(C)
      /\ \A id \in Ids(C) : \E i \in DOMAIN C : C[i].id = id
      /\ \A i, j \in DOMAIN C : C[i].id = C[j].id => i = j
    BY ListFacts, IndexedIsTheItem DEF Elements
<1>3. /\ \A i \in DOMAIN B : Indexed(B, B[i].id) = B[i] /\ B[i] \in Elements(B)
      /\ \A id \in Ids(B) : \E i \in DOMAIN B : B[i].id = id
      /\ \A i, j \in DOMAIN B : B[i].id = B[j].id => i = j
    BY ListFacts, IndexedIsTheItem DEF Elements
<1>4. \A i \in DOMAIN S : Indexed(S, S[i].id) = S[i] /\ S[i] \in Elements(S)
    BY ListFacts, IndexedIsTheItem DEF Elements
<1> SUFFICES ASSUME NEW k \in DOMAIN S
             PROVE  \E i \in DOMAIN B, j \in DOMAIN C :
                      /\ Holders(B, "sequences", S[k].id) = {i}
                      /\ Holders(C, "beats", B[i].id) = {j}
                      /\ B[i].id = S[k].beat
                      /\ C[j].id = S[k].chapter
    BY DEF IsTree
<1> DEFINE s == S[k]
<1>5. /\ s.chapter \in Ids(C) /\ s.beat \in Ids(B)
      /\ Lists(C, s.chapter, "beats", s.beat) /\ Lists(B, s.beat, "sequences", s.id)
    <2>1. SequenceIssues(w, s) = {}
        BY <1>1, <1>4
    <2> DEFINE N1 == s.chapter \notin Ids(w.chapters)
               N2 == s.beat \notin Ids(w.beats)
               N3 == /\ s.chapter \in Ids(w.chapters) /\ s.beat \in Ids(w.beats)
                     /\ \/ Indexed(w.beats, s.beat).chapter # s.chapter
                        \/ ~Lists(w.chapters, s.chapter, "beats", s.beat)
               N4 == s.beat \in Ids(w.beats) /\ ~Lists(w.beats, s.beat, "sequences", s.id)
    <2>2. /\ When(N1, "SEQUENCE_CHAPTER_NOT_FOUND") = {}
          /\ When(N2, "SEQUENCE_BEAT_NOT_FOUND") = {}
          /\ When(N3, "SEQUENCE_BEAT_CHAPTER_MISMATCH") = {}
          /\ When(N4, "BEAT_SEQUENCE_MEMBERSHIP_MISMATCH") = {}
        <3> HIDE DEF s
        <3> QED BY <2>1 DEF SequenceIssues
    <2>3. ~N1 /\ ~N2 /\ ~N3 /\ ~N4
        <3> HIDE DEF N1, N2, N3, N4
        <3> QED BY <2>2, WhenIsEmpty
    <2> HIDE DEF s
    <2> QED BY <2>3
<1>6. PICK i \in DOMAIN B : B[i].id = s.beat
    BY <1>3, <1>5
<1>7. PICK j \in DOMAIN C : C[j].id = s.chapter
    BY <1>2, <1>5
<1>8. s.id \in Elements(B[i].sequences) /\ B[i].id \in Elements(C[j].beats)
    BY <1>2, <1>3, <1>5, <1>6, <1>7 DEF Lists
<1>9. Holders(B, "sequences", s.id) = {i}
    <2> SUFFICES ASSUME NEW n \in DOMAIN B, s.id \in Elements(B[n].sequences) PROVE n = i
        BY <1>8 DEF Holders
    <2>1. ~BeatSequenceIssue(w, B[n])
        BY <1>1, <1>3
    <2>2. Indexed(S, s.id).beat = B[n].id
        BY <2>1 DEF BeatSequenceIssue
    <2> QED BY <1>3, <1>4, <1>6, <2>2
<1>10. Holders(C, "beats", B[i].id) = {j}
    <2> SUFFICES ASSUME NEW n \in DOMAIN C, B[i].id \in Elements(C[n].beats) PROVE n = j
        BY <1>8 DEF Holders
    <2>1. ~ChapterIssue(w, C[n]) /\ ~ChapterIssue(w, C[j])
        BY <1>1, <1>2
    <2>2. Indexed(B, B[i].id).chapter = C[n].id /\ Indexed(B, B[i].id).chapter = C[j].id
        BY <1>8, <2>1 DEF ChapterIssue
    <2> QED BY <1>2, <2>2
<1> QED
    BY <1>6, <1>7, <1>9, <1>10

-----------------------------------------------------------------------------
(* The artifact graph.                                                     *)

\* What the artifacts of a set depend on, but for themselves.
Onward(w, S) ==
    UNION {(Elements(Indexed(w.artifacts, x).deps) \cap Ids(w.artifacts)) \ {x} : x \in S}

\* (within holds what is reached from a after 0, 1, ... m rounds.)
Visits(w, a, within, m) ==
    within = [n \in 0 .. m |->
                IF n = 0 THEN Onward(w, {a}) ELSE within[n - 1] \cup Onward(w, within[n - 1])]

LEMMA VisitsExist == \A w, a : \A m \in Nat : \E g : Visits(w, a, g, m)
<1> SUFFICES ASSUME NEW w, NEW a, {m \in Nat : ~\E g : Visits(w, a, g, m)} # {} PROVE FALSE
    OBVIOUS
<1> DEFINE T == {m \in Nat : ~\E g : Visits(w, a, g, m)}
           Step(S) == S \cup Onward(w, S)
<1>1. PICK m \in T : \A j \in T : m <= j
    <2>1. T \in SUBSET Nat
        OBVIOUS
    <2> HIDE DEF T
    <2> QED BY <2>1, LeastNumber DEF T
<1>2. CASE m = 0
    <2>1. Visits(w, a, [n \in 0 .. 0 |-> Onward(w, {a})], 0)
        BY DEF Visits
    <2> QED BY <1>1, <1>2, <2>1
<1>3. CASE m # 0
    <2>1. m - 1 \in Nat /\ m - 1 \notin T
        BY <1>1, <1>3
    <2>2. PICK h : Visits(w, a, h, m - 1)
        BY <2>1
    <2> DEFINE g == [n \in 0 .. m |-> IF n = m THEN Step(h[m - 1]) ELSE h[n]]
    <2>3. h[0] = Onward(w, {a}) /\ \A n \in 1 .. m - 1 : h[n] = Step(h[n - 1])
        <3>1. 0 \in 0 .. m - 1 /\ \A n \in 1 .. m - 1 : n \in 0 .. m - 1 /\ n # 0
            BY <1>1, <1>3
        <3> HIDE DEF g, T
        <3> QED BY <2>2, <3>1 DEF Visits
    <2> HIDE DEF Step
    <2>4. \A n \in 0 .. m : g[n] = IF n = 0 THEN Onward(w, {a}) ELSE Step(g[n - 1])
        <3> SUFFICES ASSUME NEW n \in 0 .. m
                     PROVE  g[n] = IF n = 0 THEN Onward(w, {a}) ELSE Step(g[n - 1])
            OBVIOUS
        <3>1. CASE n = 0
            BY <1>3, <2>3, <3>1
        <3>2. CASE n # 0
            <4>1. n - 1 \in 0 .. m /\ n - 1 # m
                BY <1>1, <3>2
            <4>2. g[n - 1] = h[n - 1]
                BY <4>1
            <4>3. CASE n = m
                BY <3>2, <4>2, <4>3
            <4>4. CASE n # m
                <5>1. n \in 1 .. m - 1
                    BY <1>1, <3>2, <4>4
                <5> QED BY <2>3, <3>2, <4>2, <4>4, <5>1
            <4> QED BY <4>3, <4>4
        <3> QED BY <3>1, <3>2
    <2>5. Visits(w, a, g, m)
        <3>1. g = [n \in 0 .. m |-> g[n]]
            OBVIOUS
        <3> HIDE DEF g
        <3> QED BY <2>4, <3>1 DEF Visits, Step
    <2> QED BY <1>1, <2>5
<1> QED BY <1>2, <1>3

LEMMA OnwardFacts ==
  \A w, S, R : /\ Onward(w, S) \subseteq Ids(w.artifacts)
               /\ S \subseteq R => Onward(w, S) \subseteq Onward(w, R)
BY DEF Onward

\* The rounds for an artifact, as far as they are needed.
Rounds(w, a, g) ==
    LET N == Len(w.artifacts) IN
    /\ Reaches(w, a) = g[N]
    /\ g[0] = Onward(w, {a})
    /\ \A n \in 0 .. N - 1 : g[n + 1] = g[n] \cup Onward(w, g[n])

LEMMA ReachesByRounds == \A w, a : Len(w.artifacts) \in Nat => \E g : Rounds(w, a, g)
<1> SUFFICES ASSUME NEW w, NEW a, Len(w.artifacts) \in Nat PROVE \E g : Rounds(w, a, g)
    OBVIOUS
<1> DEFINE N == Len(w.artifacts)
           g == CHOOSE f : Visits(w, a, f, N)
<1>1. Reaches(w, a) = g[N]
    BY DEF Reaches, Visits, Onward
<1>2. Visits(w, a, g, N)
    <2> HIDE DEF N
    <2>1. \E f : Visits(w, a, f, N)
        BY VisitsExist DEF N
    <2> QED BY <2>1
<1> HIDE DEF g, N
<1>3. N \in Nat
    BY DEF N
<1>4. g[0] = Onward(w, {a}) /\ \A n \in 0 .. N - 1 : g[n + 1] = g[n] \cup Onward(w, g[n])
    <2>1. 0 \in 0 .. N /\ \A n \in 0 .. N - 1 : n + 1 \in 0 .. N /\ n + 1 # 0 /\ (n + 1) - 1 = n
        BY <1>3
    <2> QED BY <1>2, <2>1 DEF Visits
<1>5. Rounds(w, a, g)
    BY <1>1, <1>4 DEF Rounds, N
<1> QED BY <1>5

\* Whatever is closed and holds what an artifact depends on holds all that
\* it reaches.
LEMMA ReachesIsLeast ==
  ASSUME NEW w, NEW a, NEW R, Len(w.artifacts) \in Nat,
         Onward(w, {a}) \subseteq R, Onward(w, R) \subseteq R
  PROVE  Reaches(w, a) \subseteq R
<1> DEFINE N == Len(w.artifacts)
<1>1. PICK g : Rounds(w, a, g)
    BY ReachesByRounds
<1>2. /\ Reaches(w, a) = g[N]
      /\ g[0] = Onward(w, {a})
      /\ \A n \in 0 .. N - 1 : g[n + 1] = g[n] \cup Onward(w, g[n])
    BY <1>1 DEF Rounds
<1> DEFINE T == {n \in 0 .. N : ~(g[n] \subseteq R)}
<1>3. T = {}
    <2> SUFFICES ASSUME T # {} PROVE FALSE
        OBVIOUS
    <2>1. PICK m \in T : \A j \in T : m <= j
        <3>1. T \in SUBSET Nat
            OBVIOUS
        <3> HIDE DEF T
        <3> QED BY <3>1, LeastNumber
    <2>2. m \in 0 .. N /\ ~(g[m] \subseteq R) /\ m # 0
        BY <1>2, <2>1
    <2>3. m - 1 \in 0 .. N - 1 /\ m - 1 \in 0 .. N /\ (m - 1) + 1 = m /\ ~(m <= m - 1)
        BY <2>2
    <2>4. g[m - 1] \subseteq R
        BY <2>1, <2>3
    <2>5. g[m] = g[m - 1] \cup Onward(w, g[m - 1])
        BY <1>2, <2>3
    <2> QED BY <2>2, <2>4, <2>5, OnwardFacts
<1>4. N \in 0 .. N
    OBVIOUS
<1> HIDE DEF N
<1> QED BY <1>2, <1>3, <1>4

\* After as many rounds as there are artifacts nothing more is reached.
LEMMA ReachesIsClosed ==
  ASSUME NEW w, NEW a, IsList(w.artifacts)
  PROVE  /\ Reaches(w, a) \subseteq Ids(w.artifacts)
         /\ Onward(w, {a}) \subseteq Reaches(w, a)
         /\ Onward(w, Reaches(w, a)) \subseteq Reaches(w, a)
<1> DEFINE N == Len(w.artifacts)
           I == Ids(w.artifacts)
<1>1. N \in Nat /\ DOMAIN w.artifacts = 1 .. N
    BY ListFacts
<1>2. IsFiniteSet(I) /\ Cardinality(I) \in Nat /\ Cardinality(I) <= N
    <2>1. IsFiniteSet(1 .. N) /\ Cardinality(1 .. N) = N
        BY <1>1, FS_Interval
    <2> DEFINE f == [i \in 1 .. N |-> w.artifacts[i].id]
    <2>2. f \in Surjection(1 .. N, I)
        BY <1>1 DEF Ids, Surjection
    <2> HIDE DEF f, N, I
    <2> QED BY <2>1, <2>2, FS_Surjection, FS_CardinalityType
<1>0. PICK g : Rounds(w, a, g)
    BY <1>1, ReachesByRounds
<1>3. /\ Reaches(w, a) = g[N]
      /\ g[0] = Onward(w, {a})
      /\ \A n \in 0 .. N - 1 : g[n + 1] = g[n] \cup Onward(w, g[n])
    BY <1>0 DEF Rounds
<1> HIDE DEF N, I
<1>4. \A n \in 0 .. N : g[n] \subseteq I /\ Onward(w, {a}) \subseteq g[n]
    <2> DEFINE T == {n \in 0 .. N : ~(g[n] \subseteq I /\ Onward(w, {a}) \subseteq g[n])}
    <2> SUFFICES ASSUME T # {} PROVE FALSE
        OBVIOUS
    <2>1. PICK m \in T : \A j \in T : m <= j
        <3>1. T \in SUBSET Nat
            BY <1>1
        <3> HIDE DEF T
        <3> QED BY <3>1, LeastNumber
    <2>2. m \in 0 .. N /\ m # 0
        BY <1>3, <2>1, OnwardFacts DEF I
    <2>3. m - 1 \in 0 .. N - 1 /\ m - 1 \in 0 .. N /\ (m - 1) + 1 = m /\ ~(m <= m - 1)
        BY <1>1, <2>2
    <2>4. g[m - 1] \subseteq I /\ Onward(w, {a}) \subseteq g[m - 1]
        BY <2>1, <2>3
    <2>5. g[m] = g[m - 1] \cup Onward(w, g[m - 1])
        BY <1>3, <2>3
    <2> QED BY <2>1, <2>4, <2>5, OnwardFacts DEF I
<1>5. \A n \in 0 .. N : IsFiniteSet(g[n]) /\ Cardinality(g[n]) \in Nat /\ Cardinality(g[n]) <= N
    <2> SUFFICES ASSUME NEW n \in 0 .. N
                 PROVE  IsFiniteSet(g[n]) /\ Cardinality(g[n]) \in Nat /\ Cardinality(g[n]) <= N
        OBVIOUS
    <2>1. g[n] \in SUBSET I
        BY <1>4
    <2>2. IsFiniteSet(g[n]) /\ Cardinality(g[n]) <= Cardinality(I)
        BY <1>2, <2>1, FS_Subset
    <2>3. Cardinality(g[n]) \in Nat
        BY <2>2, FS_CardinalityType
    <2> QED BY <1>1, <1>2, <2>2, <2>3
<1>6. N \in 0 .. N
    BY <1>1
<1>7. ASSUME NEW n \in 0 .. N, Onward(w, g[n]) \subseteq g[n]
      PROVE  Onward(w, g[N]) \subseteq g[N]
    <2> DEFINE T == {j \in n .. N : g[j] # g[n]}
    <2>1. T = {}
        <3> SUFFICES ASSUME T # {} PROVE FALSE
            OBVIOUS
        <3>1. PICK j \in T : \A i \in T : j <= i
            <4>1. T \in SUBSET Nat
                BY <1>1
            <4> HIDE DEF T
            <4> QED BY <4>1, LeastNumber
        <3>2. j # n
            BY <3>1
        <3>3. j - 1 \in n .. N /\ j - 1 \in 0 .. N - 1 /\ (j - 1) + 1 = j /\ ~(j <= j - 1)
            BY <1>1, <3>1, <3>2
        <3>4. g[j - 1] = g[n]
            BY <3>1, <3>3
        <3>5. g[j] = g[j - 1] \cup Onward(w, g[j - 1])
            BY <1>3, <3>3
        <3> QED BY <1>7, <3>1, <3>4, <3>5
    <2>2. N \in n .. N
        BY <1>1
    <2>3. g[N] = g[n]
        BY <2>1, <2>2
    <2> QED BY <1>7, <2>3
<1>8. Onward(w, g[N]) \subseteq g[N]
    <2> SUFFICES ASSUME \A n \in 0 .. N : ~(Onward(w, g[n]) \subseteq g[n]) PROVE FALSE
        BY <1>7
    <2> DEFINE T == {n \in 0 .. N : Cardinality(g[n]) <= n}
    <2>1. T = {}
        <3> SUFFICES ASSUME T # {} PROVE FALSE
            OBVIOUS
        <3>1. PICK n \in T : \A i \in T : n <= i
            <4>1. T \in SUBSET Nat
                BY <1>1
            <4> HIDE DEF T
            <4> QED BY <4>1, LeastNumber
        <3>2. n \in 0 .. N /\ n \in Nat /\ Cardinality(g[n]) <= n
            BY <1>1, <3>1
        <3>3. CASE n = 0
            <4>1. IsFiniteSet(g[0]) /\ Cardinality(g[0]) = 0
                BY <1>5, <3>2, <3>3
            <4>2. g[0] = {}
                BY <4>1, FS_EmptySet
            <4>3. Onward(w, g[0]) = {}
                BY <4>2 DEF Onward
            <4> QED BY <3>2, <3>3, <4>3
        <3>4. CASE n # 0
            <4>1. n - 1 \in 0 .. N /\ n - 1 \in 0 .. N - 1 /\ (n - 1) + 1 = n /\ ~(n <= n - 1)
                BY <1>1, <3>2, <3>4
            <4>2. g[n - 1] \in SUBSET g[n] /\ g[n - 1] # g[n]
                BY <1>3, <4>1
            <4>3. Cardinality(g[n - 1]) <= Cardinality(g[n]) /\ Cardinality(g[n - 1]) # Cardinality(g[n])
                BY <1>5, <3>2, <4>2, FS_Subset
            <4>4. ~(Cardinality(g[n - 1]) <= n - 1)
                <5>1. n - 1 \notin T
                    BY <3>1, <4>1
                <5> QED BY <4>1, <5>1
            <4>5. Cardinality(g[n - 1]) \in Nat /\ Cardinality(g[n]) \in Nat
                BY <1>5, <3>2, <4>1
            <4> HIDE DEF T
            <4> QED BY <3>2, <4>3, <4>4, <4>5
        <3> QED BY <3>3, <3>4
    <2>2. Cardinality(g[N]) <= N
        BY <1>5, <1>6
    <2> QED BY <1>6, <2>1, <2>2
<1> QED
    BY <1>3, <1>4, <1>6, <1>8 DEF I

\* The rank of an artifact is how many it reaches: those it depends on reach
\* fewer.
LEMMA ArtifactsAreOrdered ==
  ASSUME NEW w, IsList(w.artifacts), ArtifactIssues(w) = {}
  PROVE  Ordered(w.artifacts)
<1> DEFINE A == w.artifacts
           N == Len(A)
           I == Ids(A)
           rank == [id \in I |-> Cardinality(Reaches(w, id)) + 1]
<1>1. /\ ~DuplicateIds(A)
      /\ \A a \in Elements(A) : /\ a.id \notin Elements(a.deps)
                                /\ Elements(a.deps) \subseteq I
                                /\ a.id \notin Reaches(w, a.id)
    <2> DEFINE P1 == DuplicateIds(A)
               P2 == \E a \in Elements(A) : a.id \in Elements(a.deps)
               P3 == \E a \in Elements(A) : ~(Elements(a.deps) \subseteq Ids(w.artifacts))
               P4 == \E a \in Elements(A) : a.id \in Reaches(w, a.id)
    <2>1. /\ When(P1, "ARTIFACT_DUPLICATE_ID") = {}
          /\ When(P2, "ARTIFACT_SELF_DEPENDENCY") = {}
          /\ When(P3, "ARTIFACT_MISSING_DEPENDENCY") = {}
          /\ When(P4, "ARTIFACT_DEPENDENCY_CYCLE") = {}
        BY DEF ArtifactIssues
    <2>2. ~P1 /\ ~P2 /\ ~P3 /\ ~P4
        <3> HIDE DEF P1, P2, P3, P4
        <3> QED BY <2>1, WhenIsEmpty
    <2> QED BY <2>2
<1>2. N \in Nat /\ DOMAIN A = 1 .. N /\ DOMAIN A \subseteq Nat
    BY ListFacts
<1>3. /\ \A i \in DOMAIN A : Indexed(A, A[i].id) = A[i] /\ A[i].id \in I /\ A[i] \in Elements(A)
      /\ \A id \in I : \E i \in DOMAIN A : A[i].id = id
    BY <1>1, <1>2, IndexedIsTheItem DEF Elements
<1>4. IsFiniteSet(I) /\ Cardinality(I) \in Nat /\ Cardinality(I) <= N
    <2>1. IsFiniteSet(1 .. N) /\ Cardinality(1 .. N) = N
        BY <1>2, FS_Interval
    <2> DEFINE f == [i \in 1 .. N |-> A[i].id]
    <2>2. f \in Surjection(1 .. N, I)
        BY <1>2 DEF Ids, Surjection
    <2> HIDE DEF f, N, I, A
    <2> QED BY <2>1, <2>2, FS_Surjection, FS_CardinalityType
<1>5. \A id \in I : /\ Reaches(w, id) \subseteq I
                    /\ Onward(w, {id}) \subseteq Reaches(w, id)
                    /\ Onward(w, Reaches(w, id)) \subseteq Reaches(w, id)
                    /\ id \notin Reaches(w, id)
    <2> SUFFICES ASSUME NEW id \in I
                 PROVE  /\ Reaches(w, id) \subseteq I
                        /\ Onward(w, {id}) \subseteq Reaches(w, id)
                        /\ Onward(w, Reaches(w, id)) \subseteq Reaches(w, id)
                        /\ id \notin Reaches(w, id)
        OBVIOUS
    <2>1. id \notin Reaches(w, id)
        BY <1>1, <1>3
    <2> HIDE DEF N
    <2> QED BY <2>1, ReachesIsClosed
<1> HIDE DEF I, N
<1>6. \A id \in I : /\ IsFiniteSet(Reaches(w, id)) /\ Cardinality(Reaches(w, id)) \in Nat
                    /\ Cardinality(Reaches(w, id)) < N
    <2> SUFFICES ASSUME NEW id \in I
                 PROVE  /\ IsFiniteSet(Reaches(w, id)) /\ Cardinality(Reaches(w, id)) \in Nat
                        /\ Cardinality(Reaches(w, id)) < N
        OBVIOUS
    <2> DEFINE R == Reaches(w, id)
    <2>1. R \in SUBSET I /\ R # I
        BY <1>5
    <2> HIDE DEF R
    <2>2. IsFiniteSet(R) /\ Cardinality(R) <= Cardinality(I) /\ Cardinality(R) # Cardinality(I)
        BY <1>4, <2>1, FS_Subset
    <2>3. Cardinality(R) \in Nat
        BY <2>2, FS_CardinalityType
    <2>4. Cardinality(R) < N
        BY <1>2, <1>4, <2>2, <2>3
    <2> QED BY <2>2, <2>3, <2>4 DEF R
<1>7. rank \in [I -> 1 .. N]
    <2>1. \A id \in I : Cardinality(Reaches(w, id)) + 1 \in 1 .. N
        BY <1>2, <1>6
    <2> QED BY <2>1
<1>8. ASSUME NEW i \in DOMAIN A, NEW d \in Elements(A[i].deps)
      PROVE  d \in I /\ rank[d] < rank[A[i].id]
    <2> DEFINE a == A[i].id
    <2>1. a \in I /\ d \in I /\ d # a
        BY <1>1, <1>3
    <2>2. d \in Onward(w, {a})
        BY <1>3, <2>1 DEF Onward, I
    <2>3. d \in Reaches(w, a)
        BY <1>5, <2>1, <2>2
    <2>4. Onward(w, {d}) \subseteq Reaches(w, a)
        <3>1. {d} \subseteq Reaches(w, a)
            BY <2>3
        <3>2. Onward(w, {d}) \subseteq Onward(w, Reaches(w, a))
            BY <3>1, OnwardFacts
        <3> QED BY <1>5, <2>1, <3>2
    <2>5. Reaches(w, d) \subseteq Reaches(w, a)
        <3> HIDE DEF a
        <3> QED BY <1>2, <1>5, <2>1, <2>4, ReachesIsLeast DEF N
    <2>6. Reaches(w, d) # Reaches(w, a)
        BY <1>5, <2>1, <2>3
    <2>7. Cardinality(Reaches(w, d)) < Cardinality(Reaches(w, a))
        <3> DEFINE R == Reaches(w, d)
                   S == Reaches(w, a)
        <3>1. IsFiniteSet(S) /\ R \in SUBSET S /\ R # S /\ Cardinality(R) \in Nat
              /\ Cardinality(S) \in Nat
            BY <1>6, <2>1, <2>5, <2>6
        <3> HIDE DEF R, S
        <3>2. Cardinality(R) <= Cardinality(S) /\ Cardinality(R) # Cardinality(S)
            BY <3>1, FS_Subset
        <3>3. Cardinality(R) < Cardinality(S)
            BY <3>1, <3>2
        <3> QED BY <3>3 DEF R, S
    <2>8. rank[d] = Cardinality(Reaches(w, d)) + 1 /\ rank[a] = Cardinality(Reaches(w, a)) + 1
        BY <2>1
    <2> HIDE DEF rank
    <2> QED BY <1>6, <2>1, <2>7, <2>8
<1> HIDE DEF rank
<1> QED
    BY <1>7, <1>8 DEF Ordered, I, N

-----------------------------------------------------------------------------
(* The policy.                                                             *)

LEMMA PolicyIsThePacks ==
  ASSUME NEW w, NEW registry, NEW referenced, DomainIssues(w, registry, referenced) = {}
  PROVE  PolicyIsOfPack(w, registry)
<1> DEFINE d == w.domain
<1> SUFFICES ASSUME d.mode = "domain_pack"
             PROVE  /\ d.domain \in DOMAIN registry
                    /\ d.snapshot.body.policy = registry[d.domain]
                    /\ d.snapshot.body.domain = d.profile.domain
    BY DEF PolicyIsOfPack
<1>1. d.profile # Nothing /\ d.snapshot # Nothing /\ ParityIssues(d, registry) = {}
    <2> DEFINE P1 == d.profile = Nothing
               P2 == d.snapshot = Nothing
    <2>1. /\ When(P1, "DOMAIN_PROFILE_NOT_FOUND") = {}
          /\ When(P2, "POLICY_SNAPSHOT_NOT_FOUND") = {}
          /\ ~P1 /\ ~P2 => ParityIssues(d, registry) = {}
        BY DEF DomainIssues
    <2>2. ~P1 /\ ~P2
        <3> HIDE DEF P1, P2
        <3> QED BY <2>1, WhenIsEmpty
    <2> QED BY <2>1, <2>2
<1>2. /\ registry # Nothing
      /\ ResolutionIssues(registry, d.domain, d.profile) = {}
      /\ Resolved(registry, d.domain, d.profile) = d.snapshot
    <2> DEFINE P == Resolved(registry, d.domain, d.profile) # d.snapshot
               R == ResolutionIssues(registry, d.domain, d.profile)
    <2>1. registry # Nothing /\ R = {} /\ When(P, "POLICY_SNAPSHOT_RESOLUTION_MISMATCH") = {}
        <3> HIDE DEF d
        <3> QED BY <1>1 DEF ParityIssues, d
    <2>2. ~P
        <3> HIDE DEF P
        <3> QED BY <2>1, WhenIsEmpty
    <2> QED BY <2>1, <2>2
<1>3. d.domain \in DOMAIN registry /\ d.profile.domain = d.domain
    BY <1>2 DEF ResolutionIssues
<1>4. d.snapshot = SnapshotOf([profile |-> d.profile.id, domain |-> d.domain,
                               policy |-> registry[d.domain]])
    BY <1>2 DEF Resolved
<1> HIDE DEF d
<1>5. d.snapshot.body.policy = registry[d.domain] /\ d.snapshot.body.domain = d.domain
    BY <1>4 DEF SnapshotOf
<1> QED
    BY <1>3, <1>5

-----------------------------------------------------------------------------
(* The loader.                                                             *)

LEMMA PartsAreLists ==
  ASSUME NEW w, FitsSchema(w)
  PROVE  LET p == PartsOf(w) IN
         IsList(p.chapters) /\ IsList(p.beats) /\ IsList(p.sequences) /\ IsList(p.artifacts)
<1>1. CASE w.layout = "aggregate"
    BY <1>1 DEF FitsSchema, PartsOf
<1>2. CASE w.layout = "split"
    <2> DEFINE p == PartsOf(w)
               All(kind) == AllOfKind(w.documents, kind)
    <2>1. Len(w.documents) \in Nat /\ DOMAIN w.documents = 1 .. Len(w.documents)
        <3>1. IsList(w.documents)
            BY DEF FitsSchema
        <3> QED BY <3>1, ListFacts
    <2>2. /\ p.chapters = All("chapter") /\ p.beats = All("beat")
          /\ p.sequences = All("sequence")
          /\ p.artifacts = FirstOfKind(w.documents, "artifact_manifest", <<>>)
        <3>1. w = [f \in WorkspaceFields |-> w[f]]
            BY DEF FitsSchema
        <3> QED BY <1>2, <3>1 DEF PartsOf, WorkspaceFields
    <2>3. IsList(All("chapter")) /\ IsList(All("beat")) /\ IsList(All("sequence"))
        BY <2>1, AllOfKindIsList
    <2>4. IsList(FirstOfKind(w.documents, "artifact_manifest", <<>>))
        <3> DEFINE M == All("artifact_manifest")
        <3>1. CASE M = <<>>
            BY <3>1, EmptyIsList DEF FirstOfKind
        <3>2. CASE M # <<>>
            <4>1. PICK n \in 1 .. Len(w.documents) \cap LoadedDocuments(w.documents) :
                    w.documents[n].kind = "artifact_manifest" /\ w.documents[n].value = M[1]
                BY <2>1, <3>2, AllOfKindIsList
            <4>2. w.documents[n].content = "whole" /\ n \in DOMAIN w.documents
                BY <2>1 DEF LoadedDocuments
            <4>3. IsList(M[1])
                BY <4>1, <4>2 DEF FitsSchema
            <4> QED BY <3>2, <4>3 DEF FirstOfKind
        <3> QED BY <3>1, <3>2
    <2> QED BY <2>2, <2>3, <2>4
<1> QED
    BY <1>1, <1>2 DEF FitsSchema

\* What an accepted workspace is.
LEMMA AcceptedWorkspace ==
  ASSUME NEW w \in Workspaces, NEW registry, LoadIssues(w, registry) = {}
  PROVE  /\ IsTree(PartsOf(w))
         /\ Ordered(PartsOf(w).artifacts)
         /\ PolicyIsOfPack(PartsOf(w), registry)
<1> DEFINE p == PartsOf(w)
           referenced == SnapshotReference(w)
<1>1. FitsSchema(w) /\ DomainIssues(p, registry, referenced) = {} /\ GraphIssues(p) = {}
    BY WorkspacesAssumption DEF LoadIssues
<1>2. IsList(p.chapters) /\ IsList(p.beats) /\ IsList(p.sequences) /\ IsList(p.artifacts)
    BY <1>1, PartsAreLists
<1> HIDE DEF p, referenced
<1>3. /\ ~DuplicateIds(p.chapters) /\ ~DuplicateIds(p.beats) /\ ~DuplicateIds(p.sequences)
      /\ HierarchyIssues(p) = {} /\ ArtifactIssues(p) = {}
    <2> DEFINE P1 == DuplicateIds(p.chapters)
               P2 == DuplicateIds(p.beats)
               P3 == DuplicateIds(p.sequences)
    <2>1. /\ When(P1, "DUPLICATE_CHAPTER_ID") = {}
          /\ When(P2, "DUPLICATE_BEAT_ID") = {}
          /\ When(P3, "DUPLICATE_SEQUENCE_ID") = {}
          /\ HierarchyIssues(p) = {} /\ AssetIssues(p) = {}
        <3>1. /\ When(P1, "DUPLICATE_CHAPTER_ID") \subseteq GraphIssues(p)
              /\ When(P2, "DUPLICATE_BEAT_ID") \subseteq GraphIssues(p)
              /\ When(P3, "DUPLICATE_SEQUENCE_ID") \subseteq GraphIssues(p)
            BY DEF GraphIssues, IdentityIssues
        <3>2. HierarchyIssues(p) \subseteq GraphIssues(p)
            BY DEF GraphIssues
        <3>3. AssetIssues(p) \subseteq GraphIssues(p)
            BY DEF GraphIssues
        <3> HIDE DEF P1, P2, P3
        <3> QED BY <1>1, <3>1, <3>2, <3>3
    <2>2. ~P1 /\ ~P2 /\ ~P3
        <3> HIDE DEF P1, P2, P3
        <3> QED BY <2>1, WhenIsEmpty
    <2> QED BY <2>1, <2>2 DEF AssetIssues
<1>4. IsTree(p)
    BY <1>2, <1>3, HierarchyIsATree
<1>5. Ordered(p.artifacts)
    BY <1>2, <1>3, ArtifactsAreOrdered
<1>6. PolicyIsOfPack(p, registry)
    BY <1>1, PolicyIsThePacks
<1> QED
    BY <1>4, <1>5, <1>6 DEF p

\* The loader (WorkspaceLoader.load) accepts nothing but workspaces that are
\* trees of chapters, beats and sequences, whose artifacts have an order, and
\* whose policy is the one of the pack they name.
THEOREM AcceptsOnlyTrees == Spec => []AcceptedIsATree
<1>1. Init => AcceptedIsATree
    BY DEF Init, AcceptedIsATree
<1>2. AcceptedIsATree /\ [Next]_vars => AcceptedIsATree'
    <2> SUFFICES ASSUME AcceptedIsATree, [Next]_vars PROVE AcceptedIsATree'
        OBVIOUS
    <2>1. CASE Load
        <3>1. PICK w \in Workspaces, resolution \in {"core_only", "domain_pack"} :
                verdict' = [workspace |-> PartsOf(w), registry |-> RegistryFor(resolution),
                            issues |-> LoadIssues(w, RegistryFor(resolution))]
            BY <2>1 DEF Load
        <3>2. ASSUME verdict'.issues = {}
              PROVE  /\ IsTree(PartsOf(w))
                     /\ Ordered(PartsOf(w).artifacts)
                     /\ PolicyIsOfPack(PartsOf(w), RegistryFor(resolution))
            <4>1. LoadIssues(w, RegistryFor(resolution)) = {}
                BY <3>1, <3>2
            <4> QED BY <4>1, AcceptedWorkspace
        <3>3. /\ verdict'.workspace = PartsOf(w)
              /\ verdict'.registry = RegistryFor(resolution)
            BY <3>1
        <3> QED BY <3>2, <3>3 DEF AcceptedIsATree
    <2>2. CASE \/ EditPack \/ Call \/ MapSource \/ Judge \/ Open \/ CheckCandidate
               \/ WriteNext \/ WriteFails \/ Crash \/ UNCHANGED vars
        <3>1. verdict' = verdict
            BY <2>2 DEF EditPack, Call, MapSource, Judge, Open, CheckCandidate, WriteNext,
               WriteFails, Crash, vars
        <3> QED BY <3>1 DEF AcceptedIsATree
    <2> QED BY <2>1, <2>2 DEF Next
<1> QED
    BY <1>1, <1>2, PTL DEF Spec

-----------------------------------------------------------------------------
(* The files of an outcome.                                                *)

\* What is still to be written, as the lists that write_outcome goes through.
Last4 == <<"workspace", "result", "report", "summary">>
Last3 == <<"result", "report", "summary">>
Last2 == <<"report", "summary">>
Last1 == <<"summary">>

\* What is on disk while the files of the outcome are written one by one.
Underway ==
    /\ todo \in {Last4, Last3, Last2, Last1}
    /\ todo = Last4 => outcome.workspace # Nothing
    /\ IF outcome.workspace = Nothing THEN disk["workspace"] = Nothing
       ELSE \A f \in Files : (\A n \in DOMAIN todo : todo[n] # f) => disk[f] = outcome

Agreed == disk["workspace"] # Nothing => \A f \in Files : disk[f] = disk["workspace"]

\* A directory agrees until the first file of an outcome has been written.
OutputInv ==
    /\ disk = [f \in Files |-> disk[f]]
    /\ stage = "candidate" => outcome.workspace # Nothing
    /\ stage = "writing" => Underway
    /\ (~torn /\ (stage = "writing" => todo = Last4)) => Agreed

LEMMA OutputInvInit == Init => OutputInv
BY DEF Init, OutputInv, Agreed, Files

LEMMA OutputInvStep == OutputInv /\ [Next]_vars => OutputInv'
<1> SUFFICES ASSUME OutputInv, [Next]_vars PROVE OutputInv'
    OBVIOUS
<1> USE DEF OutputInv
<1>1. CASE Load \/ EditPack \/ Call \/ MapSource \/ UNCHANGED vars
    BY <1>1 DEF Load, EditPack, Call, MapSource, vars, Underway, Agreed
<1>2. CASE Judge
    BY <1>2 DEF Judge, Agreed
<1>3. CASE Open
    <2>1. CASE Occupied /\ ~call.request.overwrite
        BY <1>3, <2>1 DEF Open, EndCall, Agreed
    <2>2. CASE ~(Occupied /\ ~call.request.overwrite) /\ outcome.workspace = Nothing
        <3>1. /\ stage' = "writing" /\ todo' = Last3 /\ outcome' = outcome /\ torn' = torn
              /\ disk' = [disk EXCEPT !["workspace"] = Nothing]
            BY <1>3, <2>2 DEF Open, Last3
        <3>2. disk'["workspace"] = Nothing /\ disk' = [f \in Files |-> disk'[f]]
            BY <3>1 DEF Files
        <3>3. Last3 # Last4
            BY DEF Last3, Last4
        <3> QED
            BY <2>2, <3>1, <3>2, <3>3 DEF Underway, Agreed
    <2>3. CASE ~(Occupied /\ ~call.request.overwrite) /\ outcome.workspace # Nothing
        BY <1>3, <2>3 DEF Open, Agreed
    <2> QED
        BY <2>1, <2>2, <2>3
<1>4. CASE CheckCandidate
    <2>1. CASE EndCall
        BY <1>4, <2>1 DEF CheckCandidate, EndCall, Agreed
    <2>2. CASE ~EndCall
        <3>1. /\ stage' = "writing" /\ todo' = Last4 /\ outcome' = outcome
              /\ disk' = disk /\ torn' = torn /\ stage = "candidate"
            BY <1>4, <2>2 DEF CheckCandidate, Last4
        <3>2. \A f \in Files : \E n \in DOMAIN Last4 : Last4[n] = f
            <4>1. DOMAIN Last4 = 1 .. 4 /\ Last4[1] = "workspace" /\ Last4[2] = "result"
                  /\ Last4[3] = "report" /\ Last4[4] = "summary"
                BY DEF Last4
            <4> QED
                BY <4>1 DEF Files
        <3> QED
            BY <3>1, <3>2 DEF Underway, Agreed
    <2> QED
        BY <2>1, <2>2
<1>5. CASE WriteNext
    <2> DEFINE f0 == Head(todo)
    <2>1. /\ stage = "writing" /\ Underway /\ disk' = [disk EXCEPT ![f0] = outcome]
        BY <1>5 DEF WriteNext
    <2>2. CASE todo = Last1
        <3>1. /\ f0 = "summary" /\ Len(todo) = 1
              /\ \A f \in Files \ {"summary"} : \A n \in DOMAIN todo : todo[n] # f
            BY <2>2 DEF Last1, Files
        <3>2. stage' = "idle" /\ torn' = FALSE
            BY <1>5, <3>1 DEF WriteNext, EndCall
        <3>3. disk' = [f \in Files |-> disk'[f]] /\ disk'["summary"] = outcome
              /\ \A f \in Files \ {"summary"} : disk'[f] = disk[f]
            BY <2>1, <3>1 DEF Files
        <3>4. Agreed'
            BY <2>1, <3>1, <3>3 DEF Underway, Agreed, Files
        <3> QED
            BY <3>2, <3>3, <3>4
    <2>3. CASE todo # Last1
        <3>1. /\ f0 \in Files /\ Len(todo) # 1
              /\ Tail(todo) \in {Last3, Last2, Last1}
              /\ todo # Last4 => f0 # "workspace"
              /\ \A f \in Files : (\A n \in DOMAIN Tail(todo) : Tail(todo)[n] # f)
                    => f = f0 \/ \A n \in DOMAIN todo : todo[n] # f
            <4>1. CASE todo = Last4
                <5>1. f0 = "workspace" /\ Len(todo) = 4 /\ Tail(todo) = Last3
                    BY <4>1 DEF Last4, Last3
                <5>2. /\ DOMAIN Last3 = 1 .. 3 /\ Last3[1] = "result" /\ Last3[2] = "report"
                      /\ Last3[3] = "summary"
                    BY DEF Last3
                <5>3. \A f : (\A n \in DOMAIN Last3 : Last3[n] # f)
                                => f \notin {"result", "report", "summary"}
                    BY <5>2
                <5>4. \A f \in Files : f \notin {"result", "report", "summary"} => f = f0
                    BY <5>1 DEF Files
                <5>5. f0 \in Files /\ Len(todo) # 1
                    BY <5>1 DEF Files
                <5> HIDE DEF OutputInv, f0
                <5> QED
                    <6>1. Tail(todo) \in {Last3, Last2, Last1}
                        BY <5>1
                    <6>2. \A f \in Files : (\A n \in DOMAIN Tail(todo) : Tail(todo)[n] # f)
                                => f = f0
                        BY <5>1, <5>3, <5>4
                    <6> QED
                        BY <4>1, <5>5, <6>1, <6>2
            <4>2. CASE todo = Last3
                <5>1. f0 = "result" /\ Len(todo) = 3 /\ Tail(todo) = Last2
                    BY <4>2 DEF Last2, Last3
                <5>2. /\ DOMAIN Last3 = 1 .. 3 /\ Last3[1] = "result" /\ Last3[2] = "report"
                      /\ Last3[3] = "summary" /\ DOMAIN Last2 = 1 .. 2
                      /\ Last2[1] = "report" /\ Last2[2] = "summary"
                    BY DEF Last3, Last2
                <5>3. \A f : (\A n \in DOMAIN Last2 : Last2[n] # f) => f \notin {"report", "summary"}
                    BY <5>2
                <5>4. \A f : f \notin {"result", "report", "summary"}
                                => \A n \in DOMAIN Last3 : Last3[n] # f
                    BY <5>2
                <5>5. f0 \in Files /\ Len(todo) # 1 /\ f0 # "workspace"
                    BY <5>1 DEF Files
                <5> HIDE DEF OutputInv, f0
                <5>6. Tail(todo) \in {Last3, Last2, Last1}
                    BY <5>1
                <5>7. ASSUME NEW f \in Files, \A n \in DOMAIN Tail(todo) : Tail(todo)[n] # f
                      PROVE f = f0 \/ \A n \in DOMAIN todo : todo[n] # f
                    <6>1. f \notin {"report", "summary"}
                        BY <5>1, <5>3, <5>7
                    <6>2. CASE f = "result"
                        BY <5>1, <6>2
                    <6>3. CASE f # "result"
                        BY <4>2, <5>4, <6>1, <6>3
                    <6> QED
                        BY <6>2, <6>3
                <5> QED
                    BY <5>5, <5>6, <5>7
            <4>3. CASE todo = Last2
                <5>1. f0 = "report" /\ Len(todo) = 2 /\ Tail(todo) = Last1
                    BY <4>3 DEF Last2, Last1
                <5>2. /\ DOMAIN Last2 = 1 .. 2 /\ Last2[1] = "report" /\ Last2[2] = "summary"
                      /\ DOMAIN Last1 = 1 .. 1 /\ Last1[1] = "summary"
                    BY DEF Last1, Last2
                <5>3. f0 \in Files /\ Len(todo) # 1 /\ f0 # "workspace"
                    BY <5>1 DEF Files
                <5> HIDE DEF OutputInv, f0
                <5>4. Tail(todo) \in {Last3, Last2, Last1}
                    BY <5>1
                <5>5. ASSUME NEW f \in Files, \A n \in DOMAIN Tail(todo) : Tail(todo)[n] # f
                      PROVE f = f0 \/ \A n \in DOMAIN todo : todo[n] # f
                    <6>1. f # "summary"
                        BY <5>1, <5>2, <5>5
                    <6>2. CASE f = "report"
                        BY <5>1, <6>2
                    <6>3. CASE f # "report"
                        BY <4>3, <5>2, <6>1, <6>3
                    <6> QED
                        BY <6>2, <6>3
                <5> QED
                    BY <5>3, <5>4, <5>5
            <4> QED
                BY <2>1, <2>3, <4>1, <4>2, <4>3 DEF Underway
        <3>2. stage' = stage /\ todo' = Tail(todo) /\ outcome' = outcome /\ torn' = torn
            BY <1>5, <3>1 DEF WriteNext
        <3>3. /\ disk' = [f \in Files |-> disk'[f]] /\ disk'[f0] = outcome
              /\ \A f \in Files \ {f0} : disk'[f] = disk[f]
            BY <2>1, <3>1
        <3>4. Last4 \notin {Last3, Last2, Last1}
            BY DEF Last4, Last3, Last2, Last1
        <3>5. Underway'
            BY <2>1, <3>1, <3>2, <3>3, <3>4 DEF Underway, Files
        <3> QED
            BY <2>1, <3>1, <3>2, <3>3, <3>4, <3>5
    <2> QED
        BY <2>2, <2>3
<1>6. CASE WriteFails
    <2>1. /\ stage = "writing" /\ Underway /\ stage' = "idle"
          /\ disk' = IF outcome.workspace = Nothing THEN disk
                     ELSE [disk EXCEPT !["workspace"] = Nothing]
        BY <1>6 DEF WriteFails, EndCall
    <2>2. disk' = [f \in Files |-> disk'[f]] /\ disk'["workspace"] = Nothing
        BY <2>1 DEF Underway, Files
    <2> QED
        BY <2>1, <2>2 DEF Agreed
<1>7. CASE Crash
    <2>1. Len(Last4) = 4 /\ stage' = "idle" /\ disk' = disk
          /\ torn' = (torn \/ (stage = "writing" /\ Len(todo) < 4))
        BY <1>7 DEF Crash, EndCall, Last4
    <2>2. ASSUME stage = "writing", todo # Last4 PROVE Len(todo) < Len(Last4)
        <3>1. todo = Last3 \/ todo = Last2 \/ todo = Last1
            BY <2>2 DEF Underway
        <3>2. Len(Last3) < 4 /\ Len(Last2) < 4 /\ Len(Last1) < 4 /\ Len(Last4) = 4
            BY DEF Last4, Last3, Last2, Last1
        <3> QED
            BY <3>1, <3>2
    <2>3. ~torn' => ~torn /\ (stage = "writing" => todo = Last4)
        BY <2>1, <2>2, Zenon
    <2> QED
        BY <2>1, <2>3 DEF Agreed
<1> QED
    BY <1>1, <1>2, <1>3, <1>4, <1>5, <1>6, <1>7 DEF Next

\* Between calls a workspace in the directory is there together with the
\* result, report and summary of the same outcome (write_outcome), whatever
\* failed, unless a process died while it was writing.
THEOREM OutputStaysTogether == Spec => []OutputAgrees
<1>1. Init => OutputInv
    BY OutputInvInit
<1>2. OutputInv /\ [Next]_vars => OutputInv'
    BY OutputInvStep
<1>3. OutputInv => OutputAgrees
    BY DEF OutputInv, OutputAgrees, Agreed
<1> QED
    BY <1>1, <1>2, <1>3, PTL DEF Spec
=============================================================================
