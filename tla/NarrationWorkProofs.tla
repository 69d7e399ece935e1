------------------------- MODULE NarrationWorkProofs -------------------------
(***************************************************************************)
(* Whatever artifacts a process starts from, as long as earlier calls made *)
(* them, and whichever objects callers hand in, alter or forget:           *)
(* everything an artifact rests on is of one lineage, a replay goes back   *)
(* to a call that happened (both unless an object that is taken at its     *)
(* word was altered), from the result on nothing is made from an altered   *)
(* object, and no file that differs from what was declared is taken or     *)
(* handed out by those who compare it.                                     *)
(* And however texts are edited and manifests are made up, the revisions   *)
(* of a narration that are accepted account for every node.                *)
(* A materializer is a chain of checks; the proofs read what the answer    *)
(* `accepted' of each chain says of the objects it was given.              *)
(***************************************************************************)
EXTENDS NarrationWork, SequenceTheorems, FiniteSetTheorems, TLAPS

-----------------------------------------------------------------------------
(* Parts of chains.                                                        *)

(* The rows of one part and of two.                                        *)
LEMMA OnePart == \A wrong, p, r : PartRows(wrong, <<<<p, r>>>>) = <<<<p \in wrong, r>>>>
BY DEF PartRows

LEMMA TwoParts == \A wrong, p, r, q, s :
  PartRows(wrong, <<<<p, r>>, <<q, s>>>>) = <<<<p \in wrong, r>>, <<q \in wrong, s>>>>
BY DEF PartRows

(* What an accepted request says of the objects it was declared for.       *)
LEMMA RequestAccepted ==
  ASSUME NEW x, NEW wrong, NEW document, NEW revision, NEW audio,
         RequestFault(x, wrong, document, revision, audio) = Fine
  PROVE  /\ audio.says.revision = revision.n /\ x.revision = revision /\ x.audio = audio.is
         /\ RequestParts(x) \cap wrong = {}
<1> DEFINE a == RequestPreflight(wrong, document, revision, audio)
           b == <<<<"shape" \in wrong, "STRUCTURE_INVALID">>,
                  <<"text" \in wrong, "STRUCTURE_INVALID">>>>
           c == <<<<"version" \in wrong, "UNSUPPORTED_VALUE">>>>
           d == RequestLineage(x, wrong, document, revision, audio)
           e == <<<<"mode" \in wrong, "UNSUPPORTED_VALUE">>>>
           f == ModePresence(x)
           g == <<<<x.transcript /\ "transcript" \in wrong, "TRANSCRIPT_INVALID">>>>
           h == <<<<"authorization" \in wrong, "AUTHORIZATION_FORBIDDEN">>>>
           i == <<<<"capability" \in wrong, "CAPABILITY_INVALID">>>>
           j == CapabilityRows(wrong)
           k == <<<<"extensions" \in wrong, "EXTENSIONS_FORBIDDEN">>>>
           l == <<<<"sensitive" \in wrong, "SENSITIVE_DATA">>>>
           m == <<<<"identity" \in wrong, "IDENTITY_MISMATCH">>>>
<1>parts. /\ RequestShape(wrong) = b
           /\ RequestVersions(wrong) = c
           /\ RequestModeRows(wrong) = e
           /\ CapabilityShape(wrong) = i
           /\ RequestSecrets(wrong) = l
    BY OnePart, TwoParts
        DEF RequestShape, RequestVersions, RequestModeRows, CapabilityShape, RequestSecrets
<1>1. FirstFault(Then(Then(Then(Then(Then(Then(Then(Then(Then(Then(Then(Then(a, b), c), d), e),
          Then(f, g)), h), i), f), j), k), l), m)) = Fine
  BY <1>parts DEF RequestFault, TranscriptRows, Then
<1>2. Chain(a, 1)
  BY DEF RequestPreflight, Chain, Fine
<1>package. ~a[1][1] => "package" \notin wrong
  BY DEF RequestPreflight
<1>3. Chain(b, 2)
  BY DEF Chain, Fine
<1>4. /\ ~b[1][1] => "shape" \notin wrong
      /\ ~b[2][1] => "text" \notin wrong
  OBVIOUS
<1>5. Chain(c, 1)
  BY DEF Chain, Fine
<1>6. ~c[1][1] => "version" \notin wrong
  OBVIOUS
<1>7. Chain(d, 1)
  BY DEF RequestLineage, Chain, Fine
<1>8. ~d[1][1] => /\ audio.says.revision = revision.n
                   /\ x.revision = revision /\ x.audio = audio.is /\ "packageHash" \notin wrong
  BY DEF RequestLineage
<1>9. Chain(e, 1)
  BY DEF Chain, Fine
<1>10. ~e[1][1] => "mode" \notin wrong
  OBVIOUS
<1>11. Chain(f, 1)
  BY DEF ModePresence, Chain, Fine
<1>12. Chain(g, 1)
  BY DEF Chain, Fine
<1>13. ~g[1][1] => (x.transcript => "transcript" \notin wrong)
  OBVIOUS
<1>14. Chain(h, 1)
  BY DEF Chain, Fine
<1>15. ~h[1][1] => "authorization" \notin wrong
  OBVIOUS
<1>16. Chain(i, 1)
  BY DEF Chain, Fine
<1>17. ~i[1][1] => "capability" \notin wrong
  OBVIOUS
<1>18. Chain(j, 1)
  BY DEF CapabilityRows, Chain, Fine
<1>19. ~j[1][1] => "capabilityMode" \notin wrong
  BY DEF CapabilityRows
<1>20. Chain(k, 1)
  BY DEF Chain, Fine
<1>21. ~k[1][1] => "extensions" \notin wrong
  OBVIOUS
<1>22. Chain(l, 1)
  BY DEF Chain, Fine
<1>23. ~l[1][1] => "sensitive" \notin wrong
  OBVIOUS
<1>24. Chain(m, 1)
  BY DEF Chain, Fine
<1>25. ~m[1][1] => "identity" \notin wrong
  OBVIOUS
<1> HIDE DEF a, b, c, d, e, f, g, h, i, j, k, l, m
<1>26. /\ IsChain(a) /\ (Clear(a) => \A z \in 1 .. 1 : ~a[z][1])
       /\ IsChain(b) /\ (Clear(b) => \A z \in 1 .. 2 : ~b[z][1])
       /\ IsChain(c) /\ (Clear(c) => \A z \in 1 .. 1 : ~c[z][1])
       /\ IsChain(d) /\ (Clear(d) => \A z \in 1 .. 1 : ~d[z][1])
       /\ IsChain(e) /\ (Clear(e) => \A z \in 1 .. 1 : ~e[z][1])
       /\ IsChain(f) /\ (Clear(f) => \A z \in 1 .. 1 : ~f[z][1])
       /\ IsChain(g) /\ (Clear(g) => \A z \in 1 .. 1 : ~g[z][1])
       /\ IsChain(h) /\ (Clear(h) => \A z \in 1 .. 1 : ~h[z][1])
       /\ IsChain(i) /\ (Clear(i) => \A z \in 1 .. 1 : ~i[z][1])
       /\ IsChain(j) /\ (Clear(j) => \A z \in 1 .. 1 : ~j[z][1])
       /\ IsChain(k) /\ (Clear(k) => \A z \in 1 .. 1 : ~k[z][1])
       /\ IsChain(l) /\ (Clear(l) => \A z \in 1 .. 1 : ~l[z][1])
       /\ IsChain(m) /\ (Clear(m) => \A z \in 1 .. 1 : ~m[z][1])
    BY <1>2, <1>3, <1>5, <1>7, <1>9, <1>11, <1>12, <1>14, <1>16, <1>18, <1>20, <1>22,
    <1>24, ChainClear
<1>27. Clear(a) /\ Clear(b) /\ Clear(c) /\ Clear(d) /\ Clear(e) /\ Clear(f) /\ Clear(g)
           /\ Clear(h) /\ Clear(i) /\ Clear(j) /\ Clear(k) /\ Clear(l) /\ Clear(m)
    BY <1>1, <1>26, ThenIsChain, AcceptedIsClear
<1> QED BY <1>package, <1>4, <1>6, <1>8, <1>10, <1>13, <1>15, <1>17, <1>19, <1>21, <1>23,
  <1>25, <1>26, <1>27 DEF RequestParts

LEMMA FourParts == \A wrong, p1, r1, p2, r2, p3, r3, p4, r4 :
  PartRows(wrong, <<<<p1, r1>>, <<p2, r2>>, <<p3, r3>>, <<p4, r4>>>>)
    = <<<<p1 \in wrong, r1>>, <<p2 \in wrong, r2>>, <<p3 \in wrong, r3>>, <<p4 \in wrong, r4>>>>
BY DEF PartRows

(* What a replay was compared with, when both dependencies were given. *)
LEMMA ReplayRead ==
  ASSUME NEW x, NEW wrong, NEW request, NEW sourceRequest, NEW sourceExecution
  PROVE  LET rs == ReplayRows(x, wrong, request, sourceRequest, sourceExecution) IN
         /\ IsChain(rs)
         /\ Clear(rs) /\ x.original # None /\ sourceRequest # None /\ sourceExecution # None =>
              /\ "replay" \notin wrong /\ "sourceIdentity" \notin wrong
              /\ sourceExecution.says.status = "SUCCEEDED"
              /\ sourceExecution.says.mode # "REPLAY"
              /\ sourceExecution.says.request = sourceRequest.is
              /\ x.original.request = sourceRequest.is
              /\ sourceRequest.is # request.is
              /\ x.original.execution = sourceExecution.is
<1> DEFINE rs == ReplayRows(x, wrong, request, sourceRequest, sourceExecution)
           given == x.original # None /\ sourceRequest # None /\ sourceExecution # None
           first == <<<<"replay" \in wrong, "REPLAY_EVIDENCE_INVALID">>,
                      <<\/ sourceRequest.says.mode = "REPLAY"
                        \/ sourceExecution.says.status # "SUCCEEDED"
                        \/ sourceExecution.says.mode = "REPLAY", "REPLAY_LINEAGE_INVALID">>>>
           second == ReplayBindings(x, wrong, request, sourceRequest, sourceExecution)
<1>1. rs = IF given THEN Then(first, second) ELSE <<>>
  BY DEF ReplayRows, Then
<1>2. Chain(first, 2) /\ Chain(<<>>, 0)
  BY DEF Chain, Fine
<1>3. Chain(second, 4)
  BY DEF ReplayBindings, Chain, Fine
<1>4. /\ ~first[1][1] => "replay" \notin wrong
      /\ ~first[2][1] => /\ sourceExecution.says.status = "SUCCEEDED"
                         /\ sourceExecution.says.mode # "REPLAY"
  OBVIOUS
<1>5. /\ ~second[1][1] => /\ sourceExecution.says.request = sourceRequest.is
                          /\ x.original.request = sourceRequest.is
      /\ ~second[2][1] => sourceRequest.is # request.is
      /\ ~second[3][1] => x.original.execution = sourceExecution.is
      /\ ~second[4][1] => "sourceIdentity" \notin wrong
  BY DEF ReplayBindings
<1>6. given <=> x.original # None /\ sourceRequest # None /\ sourceExecution # None
  OBVIOUS
<1> HIDE DEF rs, given, first, second
<1>7. /\ IsChain(<<>>)
      /\ IsChain(first) /\ (Clear(first) => \A z \in 1 .. 2 : ~first[z][1])
      /\ IsChain(second) /\ (Clear(second) => \A z \in 1 .. 4 : ~second[z][1])
  BY <1>2, <1>3, ChainClear
<1>8. /\ IsChain(Then(first, second))
      /\ Clear(Then(first, second)) => Clear(first) /\ Clear(second)
  BY <1>7, ThenIsChain
<1>9. IsChain(rs) /\ (Clear(rs) /\ given => Clear(first) /\ Clear(second))
  BY <1>1, <1>7, <1>8
<1>10. Clear(first) => ~first[1][1] /\ ~first[2][1]
  BY <1>7
<1>11. Clear(second) => ~second[1][1] /\ ~second[2][1] /\ ~second[3][1] /\ ~second[4][1]
  BY <1>7
<1> QED BY <1>4, <1>5, <1>6, <1>9, <1>10, <1>11 DEF rs

(* What an accepted execution says of the request it answers, and a replay  *)
(* of the call it repeats.                                                 *)
LEMMA ExecutionAccepted ==
  ASSUME NEW x, NEW wrong, NEW request, NEW sourceRequest, NEW sourceExecution,
         ExecutionFault(x, wrong, request, sourceRequest, sourceExecution) = Fine
  PROVE  /\ x.request = request.is /\ ModeMatches(x.mode, request.says.mode)
         /\ x.mode = "PAID_API" /\ x.status # "BLOCKED" => x.paid = "APPROVED"
         /\ x.mode = "REPLAY" <=> x.original # None
         /\ x.mode = "REPLAY" <=> sourceRequest # None
         /\ x.mode = "REPLAY" <=> sourceExecution # None
         /\ x.mode = "REPLAY" =>
              /\ Genuine(sourceExecution.is)
              /\ sourceExecution.says.status = "SUCCEEDED"
              /\ sourceExecution.says.mode # "REPLAY"
              /\ sourceExecution.says.request = sourceRequest.is
              /\ x.original.request = sourceRequest.is
              /\ sourceRequest.is # request.is
              /\ x.original.execution = sourceExecution.is
         /\ ExecutionParts(x) \cap wrong = {}
<1> DEFINE a == ExecutionPreflight(request, sourceRequest, sourceExecution)
           b == <<<<"mark" \in wrong, "NON_CANONICAL_SERIALIZATION">>,
                  <<"bytes" \in wrong, "STRUCTURE_INVALID">>>>
           c == <<<<"shape" \in wrong, "STRUCTURE_INVALID">>>>
           d == <<<<"version" \in wrong, "UNSUPPORTED_VALUE">>,
                  <<"mode" \in wrong, "UNSUPPORTED_VALUE">>>>
           e == DependencyPresence(x, sourceRequest, sourceExecution)
           f == CurrentBinding(x, wrong, request)
           g == ModeStatus(x)
           h == EvidencePresence(x)
           i == PaidRows(x, wrong)
           j == ReplayRows(x, wrong, request, sourceRequest, sourceExecution)
           k == ConfidenceRows(x, wrong, request)
           l == <<<<"sensitive" \in wrong, "STRUCTURE_INVALID">>>>
           m == <<<<"identity" \in wrong, "IDENTITY_MISMATCH">>>>
           n == <<<<"spacing" \in wrong, "NON_CANONICAL_SERIALIZATION">>>>
<1>parts. /\ ExecutionBytes(wrong) = b
           /\ ExecutionShape(wrong) = c
           /\ ExecutionSecrets(wrong) = l
           /\ ExecutionIdentity(wrong) = m
    BY OnePart, TwoParts DEF ExecutionBytes, ExecutionShape, ExecutionSecrets, ExecutionIdentity
<1>1. FirstFault(Then(Then(Then(Then(Then(Then(Then(Then(Then(Then(Then(Then(Then(a, b), c), d),
          e), f), g), h), i), j), k), l), m), n)) = Fine
  BY <1>parts DEF ExecutionFault, Then
<1>2. Chain(a, 2)
  BY DEF ExecutionPreflight, Chain, Fine
<1>3. ~a[2][1] => (sourceExecution # None => Genuine(sourceExecution.is))
  BY DEF ExecutionPreflight
<1>4. Chain(b, 2)
  BY DEF Chain, Fine
<1>5. /\ ~b[1][1] => "mark" \notin wrong
      /\ ~b[2][1] => "bytes" \notin wrong
  OBVIOUS
<1>6. Chain(c, 1)
  BY DEF Chain, Fine
<1>7. ~c[1][1] => "shape" \notin wrong
  OBVIOUS
<1>8. Chain(d, 2)
  BY DEF Chain, Fine
<1>9. /\ ~d[1][1] => "version" \notin wrong
      /\ ~d[2][1] => "mode" \notin wrong
  OBVIOUS
<1>10. Chain(e, 1)
  BY DEF DependencyPresence, Chain, Fine
<1>11. ~e[1][1] =>
           (x.mode = "REPLAY" <=> sourceRequest # None)
               /\ (x.mode = "REPLAY" <=> sourceExecution # None)
  BY DEF DependencyPresence
<1>12. Chain(f, 1)
  BY DEF CurrentBinding, Chain, Fine
<1>13. ~f[1][1] =>
           /\ x.request = request.is /\ "adapter" \notin wrong
           /\ ModeMatches(x.mode, request.says.mode)
  BY DEF CurrentBinding
<1>14. Chain(g, 1)
  BY DEF ModeStatus, Chain, Fine
<1>15. Chain(h, 1)
  BY DEF EvidencePresence, Chain, Fine
<1>16. ~h[1][1] =>
           (x.mode = "PAID_API" => x.paid # "none") /\ (x.mode = "REPLAY" <=> x.original # None)
  BY DEF EvidencePresence
<1>17. Chain(i, 1)
  BY DEF PaidRows, Chain, Fine
<1>18. ~i[1][1] =>
           (x.paid # "none" =>
               "paid" \notin wrong /\ (x.status # "BLOCKED" => x.paid = "APPROVED"))
  BY DEF PaidRows
<1>19. IsChain(j) /\ (Clear(j) =>
           (x.original # None /\ sourceRequest # None /\ sourceExecution # None =>
             /\ "replay" \notin wrong /\ "sourceIdentity" \notin wrong
             /\ sourceExecution.says.status = "SUCCEEDED"
             /\ sourceExecution.says.mode # "REPLAY"
             /\ sourceExecution.says.request = sourceRequest.is
             /\ x.original.request = sourceRequest.is
             /\ sourceRequest.is # request.is
             /\ x.original.execution = sourceExecution.is))
  BY ReplayRead
<1>20. Chain(k, 1)
  BY DEF ConfidenceRows, Chain, Fine
<1>21. ~k[1][1] => (x.confidence # "none" => "confidence" \notin wrong)
  BY DEF ConfidenceRows
<1>22. Chain(l, 1)
  BY DEF Chain, Fine
<1>23. ~l[1][1] => "sensitive" \notin wrong
  OBVIOUS
<1>24. Chain(m, 1)
  BY DEF Chain, Fine
<1>25. ~m[1][1] => "identity" \notin wrong
  OBVIOUS
<1>26. Chain(n, 1)
  BY DEF Chain, Fine
<1>27. ~n[1][1] => "spacing" \notin wrong
  OBVIOUS
<1> HIDE DEF a, b, c, d, e, f, g, h, i, j, k, l, m, n
<1>28. /\ IsChain(a) /\ (Clear(a) => \A z \in 1 .. 2 : ~a[z][1])
       /\ IsChain(b) /\ (Clear(b) => \A z \in 1 .. 2 : ~b[z][1])
       /\ IsChain(c) /\ (Clear(c) => \A z \in 1 .. 1 : ~c[z][1])
       /\ IsChain(d) /\ (Clear(d) => \A z \in 1 .. 2 : ~d[z][1])
       /\ IsChain(e) /\ (Clear(e) => \A z \in 1 .. 1 : ~e[z][1])
       /\ IsChain(f) /\ (Clear(f) => \A z \in 1 .. 1 : ~f[z][1])
       /\ IsChain(g) /\ (Clear(g) => \A z \in 1 .. 1 : ~g[z][1])
       /\ IsChain(h) /\ (Clear(h) => \A z \in 1 .. 1 : ~h[z][1])
       /\ IsChain(i) /\ (Clear(i) => \A z \in 1 .. 1 : ~i[z][1])
       /\ IsChain(k) /\ (Clear(k) => \A z \in 1 .. 1 : ~k[z][1])
       /\ IsChain(l) /\ (Clear(l) => \A z \in 1 .. 1 : ~l[z][1])
       /\ IsChain(m) /\ (Clear(m) => \A z \in 1 .. 1 : ~m[z][1])
       /\ IsChain(n) /\ (Clear(n) => \A z \in 1 .. 1 : ~n[z][1])
    BY <1>2, <1>4, <1>6, <1>8, <1>10, <1>12, <1>14, <1>15, <1>17, <1>20, <1>22, <1>24,
    <1>26, ChainClear
<1>29. Clear(a) /\ Clear(b) /\ Clear(c) /\ Clear(d) /\ Clear(e) /\ Clear(f) /\ Clear(g)
           /\ Clear(h) /\ Clear(i) /\ Clear(j) /\ Clear(k) /\ Clear(l) /\ Clear(m) /\ Clear(n)
    BY <1>1, <1>19, <1>28, ThenIsChain, AcceptedIsClear
<1> QED BY <1>3, <1>5, <1>7, <1>9, <1>11, <1>13, <1>16, <1>18, <1>19, <1>21, <1>23,
  <1>25, <1>27, <1>28, <1>29 DEF ExecutionParts

(* An accepted result was made of sound objects of one lineage.            *)
LEMMA ResultAccepted ==
  ASSUME NEW x, NEW wrong, NEW document, NEW revision, NEW audio, NEW request, NEW
    execution,
         ResultFault(x, wrong, document, revision, audio, request, execution) = Fine
  PROVE  /\ Sound(revision) /\ Sound(audio) /\ Sound(request) /\ Sound(execution)
         /\ audio.revision = revision.n
         /\ request.revision = revision /\ request.audio = audio /\ execution.request = request
         /\ x.revision = revision /\ x.audio = audio /\ x.request = request
                /\ x.execution = execution
         /\ ResultParts \cap wrong = {}
<1> DEFINE a == <<<<"evidenceShape" \in wrong, "STRUCTURE_INVALID">>,
                  <<"evidenceSpacing" \in wrong, "NON_CANONICAL_SERIALIZATION">>,
                  <<"evidenceVersion" \in wrong, "UNSUPPORTED_VALUE">>,
                  <<"evidenceIdentity" \in wrong, "IDENTITY_MISMATCH">>>>
           b == <<<<"evidenceUnlisted" \in wrong, "TIMING_ORIGIN_EVIDENCE_INVALID">>>>
           c == ResultPreflight(document, revision, audio, request, execution)
           d == <<<<"bytes" \in wrong, "STRUCTURE_INVALID">>>>
           e == <<<<"spacing" \in wrong, "NON_CANONICAL_SERIALIZATION">>>>
           f == <<<<"shape" \in wrong, "STRUCTURE_INVALID">>,
                  <<"version" \in wrong, "UNSUPPORTED_VALUE">>,
                  <<x.confidence # execution.confidence, "DEPENDENCY_BINDING_INVALID">>,
                  <<x.confidence = "NOT_APPLICABLE" /\ request.confidence # "UNSUPPORTED",
                   "CONFIDENCE_INVALID">>>>
           g == ResultBindings(x, wrong, document, revision, audio, request, execution)
           h == <<<<"source" \in wrong, "TIMESTAMP_SOURCE_FORBIDDEN">>,
                  <<"raw" \in wrong, "RAW_OBSERVATION_INVALID">>>>
           i == DeclaredTimings(wrong)
           j == <<<<"sensitive" \in wrong, "SENSITIVE_DATA">>>>
           k == <<<<"identity" \in wrong, "IDENTITY_MISMATCH">>>>
<1>evidence. PartRows(wrong, <<<<"evidenceShape", "STRUCTURE_INVALID">>,
                      <<"evidenceSpacing", "NON_CANONICAL_SERIALIZATION">>,
                      <<"evidenceVersion", "UNSUPPORTED_VALUE">>,
                      <<"evidenceIdentity", "IDENTITY_MISMATCH">>>>) = a
  BY FourParts
<1>parts. /\ EvidenceListed(wrong) = b
           /\ ResultBytes(wrong) = d
           /\ ResultSpacing(wrong) = e
           /\ ResultSecrets(wrong) = j
    BY OnePart DEF EvidenceListed, ResultBytes, ResultSpacing, ResultSecrets
<1>1. FirstFault(Then(Then(Then(Then(Then(Then(Then(Then(Then(Then(a, b), c), d), e), f), g), h),
          i), j), k)) = Fine
  BY <1>evidence, <1>parts DEF ResultFault, EvidenceRows, Then
<1>2. Chain(a, 4)
  BY DEF Chain, Fine
<1>3. /\ ~a[1][1] => "evidenceShape" \notin wrong
      /\ ~a[2][1] => "evidenceSpacing" \notin wrong
      /\ ~a[3][1] => "evidenceVersion" \notin wrong
      /\ ~a[4][1] => "evidenceIdentity" \notin wrong
  OBVIOUS
<1>4. Chain(b, 1)
  BY DEF Chain, Fine
<1>5. ~b[1][1] => "evidenceUnlisted" \notin wrong
  OBVIOUS
<1>6. Chain(c, 6)
  BY DEF ResultPreflight, Chain, Fine
<1>7. /\ ~c[1][1] => Sound(revision)
      /\ ~c[2][1] => Sound(audio) /\ Sound(request) /\ Sound(execution)
  BY DEF ResultPreflight
<1>8. Chain(d, 1)
  BY DEF Chain, Fine
<1>9. ~d[1][1] => "bytes" \notin wrong
  OBVIOUS
<1>10. Chain(e, 1)
  BY DEF Chain, Fine
<1>11. ~e[1][1] => "spacing" \notin wrong
  OBVIOUS
<1>12. Chain(f, 4)
  BY DEF Chain, Fine
<1>13. /\ ~f[1][1] => "shape" \notin wrong
       /\ ~f[2][1] => "version" \notin wrong
  OBVIOUS
<1>14. Chain(g, 1)
  BY DEF ResultBindings, Chain, Fine
<1>15. ~g[1][1] =>
           /\ audio.revision = revision.n
           /\ request.revision = revision /\ request.audio = audio
           /\ execution.request = request /\ "evidence" \notin wrong
           /\ x.revision = revision /\ x.audio = audio /\ x.request = request
           /\ x.execution = execution
  BY DEF ResultBindings
<1>16. Chain(h, 2)
  BY DEF Chain, Fine
<1>17. /\ ~h[1][1] => "source" \notin wrong
       /\ ~h[2][1] => "raw" \notin wrong
  OBVIOUS
<1>18. Chain(i, 1)
  BY DEF DeclaredTimings, Chain, Fine
<1>19. ~i[1][1] => "timings" \notin wrong
  BY DEF DeclaredTimings
<1>20. Chain(j, 1)
  BY DEF Chain, Fine
<1>21. ~j[1][1] => "sensitive" \notin wrong
  OBVIOUS
<1>22. Chain(k, 1)
  BY DEF Chain, Fine
<1>23. ~k[1][1] => "identity" \notin wrong
  OBVIOUS
<1> HIDE DEF a, b, c, d, e, f, g, h, i, j, k
<1>24. /\ IsChain(a) /\ (Clear(a) => \A z \in 1 .. 4 : ~a[z][1])
       /\ IsChain(b) /\ (Clear(b) => \A z \in 1 .. 1 : ~b[z][1])
       /\ IsChain(c) /\ (Clear(c) => \A z \in 1 .. 6 : ~c[z][1])
       /\ IsChain(d) /\ (Clear(d) => \A z \in 1 .. 1 : ~d[z][1])
       /\ IsChain(e) /\ (Clear(e) => \A z \in 1 .. 1 : ~e[z][1])
       /\ IsChain(f) /\ (Clear(f) => \A z \in 1 .. 4 : ~f[z][1])
       /\ IsChain(g) /\ (Clear(g) => \A z \in 1 .. 1 : ~g[z][1])
       /\ IsChain(h) /\ (Clear(h) => \A z \in 1 .. 2 : ~h[z][1])
       /\ IsChain(i) /\ (Clear(i) => \A z \in 1 .. 1 : ~i[z][1])
       /\ IsChain(j) /\ (Clear(j) => \A z \in 1 .. 1 : ~j[z][1])
       /\ IsChain(k) /\ (Clear(k) => \A z \in 1 .. 1 : ~k[z][1])
    BY <1>2, <1>4, <1>6, <1>8, <1>10, <1>12, <1>14, <1>16, <1>18, <1>20, <1>22,
    ChainClear
<1>25. Clear(a) /\ Clear(b) /\ Clear(c) /\ Clear(d) /\ Clear(e) /\ Clear(f) /\ Clear(g)
           /\ Clear(h) /\ Clear(i) /\ Clear(j) /\ Clear(k)
    BY <1>1, <1>24, ThenIsChain, AcceptedIsClear
<1> QED BY <1>3, <1>5, <1>7, <1>9, <1>11, <1>13, <1>15, <1>17, <1>19, <1>21, <1>23,
  <1>24, <1>25 DEF ResultParts, EvidenceParts

(* The dependency is what was registered. *)
LEMMA ComparedRead ==
  ASSUME NEW x
  PROVE  /\ IsChain(DependencyBytes(x))
         /\ Clear(DependencyBytes(x)) => Sound(x)
<1> DEFINE rs == DependencyBytes(x)
<1>1. Chain(rs, 2)
  BY DEF DependencyBytes, Chain, Fine
<1>2. ~rs[2][1] => Sound(x)
  BY DEF DependencyBytes
<1> HIDE DEF rs
<1>3. IsChain(rs) /\ (Clear(rs) => \A i \in 1 .. 2 : ~rs[i][1])
  BY <1>1, ChainClear
<1> QED BY <1>2, <1>3 DEF rs

LEMMA UnsoundRead ==
  ASSUME NEW objects
  PROVE  /\ IsChain(Unsound(objects))
         /\ Clear(Unsound(objects)) => (\A x \in objects : Sound(x))
<1> DEFINE rs == Unsound(objects)
<1>1. Chain(rs, 1)
  BY DEF Unsound, Chain, Fine
<1>2. ~rs[1][1] => (\A x \in objects : Sound(x))
  BY DEF Unsound
<1> HIDE DEF rs
<1>3. IsChain(rs) /\ (Clear(rs) => \A i \in 1 .. 1 : ~rs[i][1])
  BY <1>1, ChainClear
<1> QED BY <1>2, <1>3 DEF rs

LEMMA EnvelopeRead ==
  ASSUME NEW damaged
  PROVE  /\ IsChain(Envelope(damaged))
         /\ Clear(Envelope(damaged)) =>
              /\ "syntax" \notin damaged /\ "spacing" \notin damaged
              /\ "shape" \notin damaged
              /\ "version" \notin damaged
<1> DEFINE rs == Envelope(damaged)
<1>1. Chain(rs, 3)
  BY DEF Envelope, Chain, Fine
<1>2. /\ ~rs[1][1] => "syntax" \notin damaged /\ "spacing" \notin damaged
      /\ ~rs[2][1] => "shape" \notin damaged
      /\ ~rs[3][1] => "version" \notin damaged
  BY DEF Envelope
<1> HIDE DEF rs
<1>3. IsChain(rs) /\ (Clear(rs) => \A i \in 1 .. 3 : ~rs[i][1])
  BY <1>1, ChainClear
<1> QED BY <1>2, <1>3 DEF rs

LEMMA GroupsPreflightRead ==
  ASSUME NEW document, NEW revision, NEW result
  PROVE  /\ IsChain(GroupsPreflight(document, revision, result))
         /\ Clear(GroupsPreflight(document, revision, result)) => Sound(revision) /\ Sound(result)
<1> DEFINE rs == GroupsPreflight(document, revision, result)
<1>1. Chain(rs, 3)
  BY DEF GroupsPreflight, Chain, Fine
<1>2. ~rs[3][1] => Sound(revision) /\ Sound(result)
  BY DEF GroupsPreflight
<1> HIDE DEF rs
<1>3. IsChain(rs) /\ (Clear(rs) => \A i \in 1 .. 3 : ~rs[i][1])
  BY <1>1, ChainClear
<1> QED BY <1>2, <1>3 DEF rs

LEMMA GroupsBindingsRead ==
  ASSUME NEW document, NEW revision, NEW result
  PROVE  /\ IsChain(GroupsBindings(document, revision, result))
         /\ Clear(GroupsBindings(document, revision, result)) => result.revision = revision
<1> DEFINE rs == GroupsBindings(document, revision, result)
<1>1. Chain(rs, 1)
  BY DEF GroupsBindings, Chain, Fine
<1>2. ~rs[1][1] => result.revision = revision
  BY DEF GroupsBindings
<1> HIDE DEF rs
<1>3. IsChain(rs) /\ (Clear(rs) => \A i \in 1 .. 1 : ~rs[i][1])
  BY <1>1, ChainClear
<1> QED BY <1>2, <1>3 DEF rs

(* Caption groups are computed from a sound result.                        *)
LEMMA GroupsAccepted ==
  ASSUME NEW document, NEW revision, NEW result,
         GroupsFault(document, revision, result) = Fine
  PROVE  /\ Sound(revision) /\ Sound(result)
         /\ result.revision = revision
<1> DEFINE a == GroupsPreflight(document, revision, result)
           b == GroupsBindings(document, revision, result)
<1>1. FirstFault(Then(a, b)) = Fine
  BY DEF GroupsFault, Then
<1>2. IsChain(a) /\ (Clear(a) => Sound(revision) /\ Sound(result))
  BY GroupsPreflightRead
<1>3. IsChain(b) /\ (Clear(b) => result.revision = revision)
  BY GroupsBindingsRead
<1> HIDE DEF a, b
<1>4. Clear(a) /\ Clear(b)
    BY <1>1, <1>2, <1>3, ThenIsChain, AcceptedIsClear
<1> QED BY <1>2, <1>3, <1>4

LEMMA GroupsSemanticsRead ==
  ASSUME NEW x, NEW damaged, NEW result
  PROVE  /\ IsChain(GroupsSemantics(x, damaged, result))
         /\ Clear(GroupsSemantics(x, damaged, result)) =>
              /\ x.result = result
              /\ damaged \cap (GroupsParts \ {"spacing", "shape"}) = {}
<1> DEFINE rs == GroupsSemantics(x, damaged, result)
<1>1. Chain(rs, 13)
  BY DEF GroupsSemantics, Chain, Fine
<1>2. /\ ~rs[1][1] => "version" \notin damaged
      /\ ~rs[2][1] => x.result = result
      /\ ~rs[3][1] => "availability" \notin damaged
      /\ ~rs[4][1] => "count" \notin damaged
      /\ ~rs[5][1] => "groupVersion" \notin damaged
      /\ ~rs[6][1] => "groupBinding" \notin damaged
      /\ ~rs[7][1] => "ordinal" \notin damaged
      /\ ~rs[8][1] => "range" \notin damaged /\ "words" \notin damaged
  BY DEF GroupsSemantics
<1>3. /\ ~rs[9][1] => "policy" \notin damaged
      /\ ~rs[10][1] => "text" \notin damaged
      /\ ~rs[11][1] => "time" \notin damaged
      /\ ~rs[12][1] => "confidence" \notin damaged
      /\ ~rs[13][1] => "identity" \notin damaged
  BY DEF GroupsSemantics
<1> HIDE DEF rs
<1>4. IsChain(rs) /\ (Clear(rs) => \A i \in 1 .. 13 : ~rs[i][1])
  BY <1>1, ChainClear
<1> QED BY <1>2, <1>3, <1>4 DEF rs, GroupsParts

LEMMA GroupsLoadAccepted ==
  ASSUME NEW x, NEW damaged, NEW document, NEW revision, NEW result,
         GroupsLoadFault(x, damaged, document, revision, result) = Fine
  PROVE  /\ Sound(revision) /\ Sound(result)
         /\ result.revision = revision
         /\ x.result = result
         /\ GroupsParts \cap damaged = {}
<1> DEFINE a == GroupsPreflight(document, revision, result)
           b == <<<<"spacing" \in damaged, "NON_CANONICAL_SERIALIZATION">>>>
           c == GroupsBindings(document, revision, result)
           d == GroupsShape(damaged)
           e == GroupsSemantics(x, damaged, result)
<1>1. FirstFault(Then(Then(Then(Then(a, b), c), d), e)) = Fine
  BY DEF GroupsLoadFault, Then
<1>2. IsChain(a) /\ (Clear(a) => Sound(revision) /\ Sound(result))
  BY GroupsPreflightRead
<1>3. Chain(b, 1)
  BY DEF Chain, Fine
<1>4. ~b[1][1] => "spacing" \notin damaged
  OBVIOUS
<1>5. IsChain(c) /\ (Clear(c) => result.revision = revision)
  BY GroupsBindingsRead
<1>6. Chain(d, 1)
  BY DEF GroupsShape, Chain, Fine
<1>7. ~d[1][1] => "shape" \notin damaged
  BY DEF GroupsShape
<1>8. /\ IsChain(e)
      /\ Clear(e) =>
           /\ x.result = result
           /\ damaged \cap (GroupsParts \ {"spacing", "shape"}) = {}
  BY GroupsSemanticsRead
<1> HIDE DEF a, b, c, d, e
<1>9. /\ IsChain(b) /\ (Clear(b) => \A z \in 1 .. 1 : ~b[z][1])
      /\ IsChain(d) /\ (Clear(d) => \A z \in 1 .. 1 : ~d[z][1])
    BY <1>3, <1>6, ChainClear
<1>10. Clear(a) /\ Clear(b) /\ Clear(c) /\ Clear(d) /\ Clear(e)
    BY <1>1, <1>2, <1>5, <1>8, <1>9, ThenIsChain, AcceptedIsClear
<1> QED BY <1>2, <1>4, <1>5, <1>7, <1>8, <1>9, <1>10 DEF GroupsParts

LEMMA ReportPreflightRead ==
  ASSUME NEW document, NEW revision, NEW result, NEW groups
  PROVE  /\ IsChain(ReportPreflight(document, revision, result, groups))
         /\ Clear(ReportPreflight(document, revision, result, groups)) =>
              /\ Sound(revision)
              /\ Sound(result)
              /\ Sound(groups)
<1> DEFINE rs == ReportPreflight(document, revision, result, groups)
<1>1. Chain(rs, 8)
  BY DEF ReportPreflight, Chain, Fine
<1>2. /\ ~rs[4][1] => Sound(revision)
      /\ ~rs[6][1] => Sound(result)
      /\ ~rs[8][1] => Sound(groups)
  BY DEF ReportPreflight
<1> HIDE DEF rs
<1>3. IsChain(rs) /\ (Clear(rs) => \A i \in 1 .. 8 : ~rs[i][1])
  BY <1>1, ChainClear
<1> QED BY <1>2, <1>3 DEF rs

LEMMA ReportBindingsRead ==
  ASSUME NEW document, NEW revision, NEW result, NEW groups
  PROVE  /\ IsChain(ReportBindings(document, revision, result, groups))
         /\ Clear(ReportBindings(document, revision, result, groups)) =>
                result.revision = revision /\ groups.result = result
<1> DEFINE rs == ReportBindings(document, revision, result, groups)
<1>1. Chain(rs, 1)
  BY DEF ReportBindings, Chain, Fine
<1>2. ~rs[1][1] => result.revision = revision /\ groups.result = result
  BY DEF ReportBindings
<1> HIDE DEF rs
<1>3. IsChain(rs) /\ (Clear(rs) => \A i \in 1 .. 1 : ~rs[i][1])
  BY <1>1, ChainClear
<1> QED BY <1>2, <1>3 DEF rs

LEMMA ReportAccepted ==
  ASSUME NEW document, NEW revision, NEW result, NEW groups, NEW policy,
         ReportFault(document, revision, result, groups, policy) = Fine
  PROVE  /\ Sound(revision) /\ Sound(result) /\ Sound(groups)
         /\ result.revision = revision /\ groups.result = result
<1> DEFINE a == ReportPreflight(document, revision, result, groups)
           b == ReportBindings(document, revision, result, groups)
           c == ReportPolicyRows(policy)
<1>1. FirstFault(Then(Then(a, b), c)) = Fine
  BY DEF ReportFault, Then
<1>2. IsChain(a) /\ (Clear(a) => Sound(revision) /\ Sound(result) /\ Sound(groups))
  BY ReportPreflightRead
<1>3. IsChain(b) /\ (Clear(b) => result.revision = revision /\ groups.result = result)
  BY ReportBindingsRead
<1>4. Chain(c, 1)
  BY DEF ReportPolicyRows, Chain, Fine
<1> HIDE DEF a, b, c
<1>5. IsChain(c) /\ (Clear(c) => \A z \in 1 .. 1 : ~c[z][1])
    BY <1>4, ChainClear
<1>6. Clear(a) /\ Clear(b) /\ Clear(c)
    BY <1>1, <1>2, <1>3, <1>5, ThenIsChain, AcceptedIsClear
<1> QED BY <1>2, <1>3, <1>5, <1>6

LEMMA ReportLoadAccepted ==
  ASSUME NEW x, NEW damaged, NEW document, NEW revision, NEW result, NEW groups, NEW
    policy,
         ReportLoadFault(x, damaged, document, revision, result, groups, policy) = Fine
  PROVE  /\ Sound(revision) /\ Sound(result) /\ Sound(groups)
         /\ result.revision = revision /\ groups.result = result
         /\ x.result = result /\ x.groups = groups /\ x.policy = policy
         /\ ReportParts \cap damaged = {}
<1> DEFINE a == ReportPreflight(document, revision, result, groups)
           b == ReportBindings(document, revision, result, groups)
           c == ReportPolicyRows(policy)
           d == ReportSyntax(damaged)
           e == ReportShape(damaged)
           f == <<<<"version" \in damaged, "UNSUPPORTED_VALUE">>>>
           g == ReportDeclaration(x, damaged, result, groups)
           h == LoadedPolicy(x, damaged, policy)
           i == <<<<"metric" \in damaged, "DEPENDENCY_BINDING_INVALID">>,
                  <<"findingCount" \in damaged, "STRUCTURE_INVALID">>,
                  <<"finding" \in damaged, "FINDING_INVALID">>,
                  <<"identity" \in damaged, "IDENTITY_MISMATCH">>>>
<1>1. FirstFault(Then(Then(Then(Then(Then(Then(Then(Then(a, b), c), d), e), f), g), h), i)) = Fine
  BY DEF ReportLoadFault, Then
<1>2. IsChain(a) /\ (Clear(a) => Sound(revision) /\ Sound(result) /\ Sound(groups))
  BY ReportPreflightRead
<1>3. IsChain(b) /\ (Clear(b) => result.revision = revision /\ groups.result = result)
  BY ReportBindingsRead
<1>4. Chain(c, 1)
  BY DEF ReportPolicyRows, Chain, Fine
<1>5. Chain(d, 1)
  BY DEF ReportSyntax, Chain, Fine
<1>6. ~d[1][1] => "spacing" \notin damaged
  BY DEF ReportSyntax
<1>7. Chain(e, 1)
  BY DEF ReportShape, Chain, Fine
<1>8. ~e[1][1] => "shape" \notin damaged
  BY DEF ReportShape
<1>9. Chain(f, 1)
  BY DEF Chain, Fine
<1>10. ~f[1][1] => "version" \notin damaged
  OBVIOUS
<1>11. Chain(g, 1)
  BY DEF ReportDeclaration, Chain, Fine
<1>12. ~g[1][1] => "declaration" \notin damaged /\ x.result = result /\ x.groups = groups
  BY DEF ReportDeclaration
<1>13. Chain(h, 1)
  BY DEF LoadedPolicy, Chain, Fine
<1>14. ~h[1][1] => "policy" \notin damaged /\ x.policy = policy
  BY DEF LoadedPolicy
<1>15. Chain(i, 4)
  BY DEF Chain, Fine
<1>16. /\ ~i[1][1] => "metric" \notin damaged
       /\ ~i[2][1] => "findingCount" \notin damaged
       /\ ~i[3][1] => "finding" \notin damaged
       /\ ~i[4][1] => "identity" \notin damaged
  OBVIOUS
<1> HIDE DEF a, b, c, d, e, f, g, h, i
<1>17. /\ IsChain(c) /\ (Clear(c) => \A z \in 1 .. 1 : ~c[z][1])
       /\ IsChain(d) /\ (Clear(d) => \A z \in 1 .. 1 : ~d[z][1])
       /\ IsChain(e) /\ (Clear(e) => \A z \in 1 .. 1 : ~e[z][1])
       /\ IsChain(f) /\ (Clear(f) => \A z \in 1 .. 1 : ~f[z][1])
       /\ IsChain(g) /\ (Clear(g) => \A z \in 1 .. 1 : ~g[z][1])
       /\ IsChain(h) /\ (Clear(h) => \A z \in 1 .. 1 : ~h[z][1])
       /\ IsChain(i) /\ (Clear(i) => \A z \in 1 .. 4 : ~i[z][1])
    BY <1>4, <1>5, <1>7, <1>9, <1>11, <1>13, <1>15, ChainClear
<1>18. Clear(a) /\ Clear(b) /\ Clear(c) /\ Clear(d) /\ Clear(e) /\ Clear(f) /\ Clear(g)
           /\ Clear(h) /\ Clear(i)
    BY <1>1, <1>2, <1>3, <1>17, ThenIsChain, AcceptedIsClear
<1> QED BY <1>2, <1>3, <1>6, <1>8, <1>10, <1>12, <1>14, <1>16, <1>17, <1>18 DEF ReportParts

(* The checks that the emphasis compiler has the caption compiler make. *)
LEMMA PassedOn ==
  ASSUME NEW document, NEW revision, NEW result
  PROVE  LET rows == GroupsPreflight(document, revision, result) IN
         IsChain([i \in DOMAIN rows |-> <<rows[i][1], CaptionRefusal(rows[i][2])>>])
<1> DEFINE rows == GroupsPreflight(document, revision, result)
           passed == [i \in DOMAIN rows |-> <<rows[i][1], CaptionRefusal(rows[i][2])>>]
<1>1. Chain(rows, 3)
  BY DEF GroupsPreflight, Chain, Fine
<1> HIDE DEF rows
<1>2. DOMAIN rows = 1 .. 3
  BY <1>1 DEF Chain
<1>3. \A fault : CaptionRefusal(fault) # Fine
  BY DEF CaptionRefusal, Fine
<1>4. Chain(passed, 3)
  BY <1>2, <1>3 DEF Chain
<1> QED BY <1>4, ChainClear DEF rows

(* Emphasis events are computed from sound groups of the same result.      *)
LEMMA EventsRead ==
  ASSUME NEW document, NEW revision, NEW result, NEW groups, NEW snapshot, NEW
    manifest
  PROVE  /\ IsChain(EventsRows(document, revision, result, groups, snapshot, manifest))
         /\ Clear(EventsRows(document, revision, result, groups, snapshot, manifest)) =>
              /\ Sound(revision) /\ Sound(result) /\ Sound(groups) /\ Sound(snapshot)
              /\ result.revision = revision /\ groups.result = result
<1> DEFINE a == <<<<~Genuine(document), "TypeError">>,
                  <<~Sound(document), "DEPENDENCY_CONTENT_DRIFT">>,
                  <<~Genuine(revision), "TypeError">>,
                  <<~Sound(revision), "DEPENDENCY_CONTENT_DRIFT">>>>
           b == [i \in DOMAIN GroupsPreflight(document, revision, result) |->
                   <<GroupsPreflight(document, revision, result)[i][1],
                     CaptionRefusal(GroupsPreflight(document, revision, result)[i][2])>>]
           c == <<<<~Genuine(groups), "TypeError">>,
                  <<~Sound(groups), "DEPENDENCY_CONTENT_DRIFT">>>>
           d == PolicyRows(snapshot, manifest)
           e == EventsBindings(document, revision, result, groups)
           f == DerivedPartition(document, revision, result, groups)
<1>1. EventsRows(document, revision, result, groups, snapshot,
          manifest) = Then(Then(Then(Then(Then(a, b), c), d), e), f)
  BY DEF EventsRows, EventsPreflight, Then
<1>2. Chain(a, 4)
  BY DEF Chain, Fine
<1>3. ~a[4][1] => Sound(revision)
  OBVIOUS
<1>4. IsChain(b)
  BY PassedOn
<1>5. Chain(c, 2)
  BY DEF Chain, Fine
<1>6. ~c[2][1] => Sound(groups)
  OBVIOUS
<1>7. Chain(d, 2)
  BY DEF PolicyRows, Chain, Fine
<1>8. ~d[1][1] => Sound(snapshot)
  BY DEF PolicyRows
<1>9. Chain(e, 1)
  BY DEF EventsBindings, Chain, Fine
<1>10. ~e[1][1] => result.revision = revision /\ groups.result = result
  BY DEF EventsBindings
<1>11. Chain(f, 2)
  BY DEF DerivedPartition, CaptionRefusal, Chain, Fine
<1>12. ~f[1][1] => GroupsFault(document, revision, result) = Fine
  BY DEF DerivedPartition, CaptionRefusal
<1> HIDE DEF a, b, c, d, e, f
<1>13. /\ IsChain(a) /\ (Clear(a) => \A z \in 1 .. 4 : ~a[z][1])
       /\ IsChain(c) /\ (Clear(c) => \A z \in 1 .. 2 : ~c[z][1])
       /\ IsChain(d) /\ (Clear(d) => \A z \in 1 .. 2 : ~d[z][1])
       /\ IsChain(e) /\ (Clear(e) => \A z \in 1 .. 1 : ~e[z][1])
       /\ IsChain(f) /\ (Clear(f) => \A z \in 1 .. 2 : ~f[z][1])
    BY <1>2, <1>5, <1>7, <1>9, <1>11, ChainClear
<1>14. IsChain(EventsRows(document, revision, result, groups, snapshot, manifest))
           /\ (Clear(EventsRows(document, revision, result, groups, snapshot, manifest)) =>
                  Clear(a) /\ Clear(b) /\ Clear(c) /\ Clear(d) /\ Clear(e) /\ Clear(f))
    BY <1>1, <1>4, <1>13, ThenIsChain
<1> QED BY <1>3, <1>6, <1>8, <1>10, <1>12, <1>13, <1>14, GroupsAccepted

LEMMA EventsAccepted ==
  ASSUME NEW document, NEW revision, NEW result, NEW groups, NEW snapshot, NEW
    manifest,
         EventsFault(document, revision, result, groups, snapshot, manifest) = Fine
  PROVE  /\ Sound(revision) /\ Sound(result) /\ Sound(groups) /\ Sound(snapshot)
         /\ result.revision = revision /\ groups.result = result
<1> DEFINE a == EventsRows(document, revision, result, groups, snapshot, manifest)
<1>1. FirstFault(a) = Fine
  BY DEF EventsFault, Then
<1>2. /\ IsChain(a)
      /\ Clear(a) =>
           /\ Sound(revision) /\ Sound(result) /\ Sound(groups) /\ Sound(snapshot)
           /\ result.revision = revision /\ groups.result = result
  BY EventsRead
<1> HIDE DEF a
<1>3. Clear(a)
    BY <1>1, <1>2, ThenIsChain, AcceptedIsClear
<1> QED BY <1>2, <1>3

LEMMA EventsLoadAccepted ==
  ASSUME NEW x, NEW damaged, NEW document, NEW revision, NEW result, NEW groups, NEW
    snapshot, NEW manifest, NEW intents,
         EventsLoadFault(x, damaged, document, revision, result, groups, snapshot, manifest,
             intents) = Fine
  PROVE  /\ Sound(revision) /\ Sound(result) /\ Sound(groups) /\ Sound(snapshot)
         /\ result.revision = revision /\ groups.result = result
         /\ x.result = result /\ x.groups = groups /\ x.snapshot = snapshot /\ x.intents = intents
         /\ EventsParts \cap damaged = {}
<1> DEFINE a == EventsRows(document, revision, result, groups, snapshot, manifest)
           b == EventsSyntax(damaged)
           c == EventsShape(damaged)
           d == <<<<"version" \in damaged, "UNSUPPORTED_VALUE">>>>
           e == RootDeclarations(x, damaged, result, groups, snapshot)
           f == <<<<"count" \in damaged, "INTENT_INVALID">>,
                  <<"eventShape" \in damaged, "STRUCTURE_INVALID">>,
                  <<"eventVersion" \in damaged, "UNSUPPORTED_VALUE">>>>
           g == EventSemantics(x, damaged, intents)
           h == <<<<"identity" \in damaged, "IDENTITY_MISMATCH">>,
                  <<"spacing" \in damaged, "NON_CANONICAL_SERIALIZATION">>>>
<1>1. FirstFault(Then(Then(Then(Then(Then(Then(Then(a, b), c), d), e), f), g), h)) = Fine
  BY DEF EventsLoadFault, Then
<1>2. /\ IsChain(a)
      /\ Clear(a) =>
           /\ Sound(revision) /\ Sound(result) /\ Sound(groups) /\ Sound(snapshot)
           /\ result.revision = revision /\ groups.result = result
  BY EventsRead
<1>3. Chain(b, 1)
  BY DEF EventsSyntax, Chain, Fine
<1>4. ~b[1][1] => "syntax" \notin damaged
  BY DEF EventsSyntax
<1>5. Chain(c, 1)
  BY DEF EventsShape, Chain, Fine
<1>6. ~c[1][1] => "shape" \notin damaged
  BY DEF EventsShape
<1>7. Chain(d, 1)
  BY DEF Chain, Fine
<1>8. ~d[1][1] => "version" \notin damaged
  OBVIOUS
<1>9. Chain(e, 2)
  BY DEF RootDeclarations, Chain, Fine
<1>10. /\ ~e[1][1] => "availability" \notin damaged
       /\ ~e[2][1] =>
              "policy" \notin damaged /\ x.result = result /\ x.groups = groups
                  /\ x.snapshot = snapshot
  BY DEF RootDeclarations
<1>11. Chain(f, 3)
  BY DEF Chain, Fine
<1>12. /\ ~f[1][1] => "count" \notin damaged
       /\ ~f[2][1] => "eventShape" \notin damaged
       /\ ~f[3][1] => "eventVersion" \notin damaged
  OBVIOUS
<1>13. Chain(g, 6)
  BY DEF EventSemantics, Chain, Fine
<1>14. /\ ~g[1][1] => "ordinal" \notin damaged
       /\ ~g[2][1] => "intent" \notin damaged /\ x.intents = intents
       /\ ~g[3][1] => "group" \notin damaged
       /\ ~g[4][1] => "time" \notin damaged
       /\ ~g[5][1] => "confidence" \notin damaged
       /\ ~g[6][1] => "eventBinding" \notin damaged
  BY DEF EventSemantics
<1>15. Chain(h, 2)
  BY DEF Chain, Fine
<1>16. /\ ~h[1][1] => "identity" \notin damaged
       /\ ~h[2][1] => "spacing" \notin damaged
  OBVIOUS
<1> HIDE DEF a, b, c, d, e, f, g, h
<1>17. /\ IsChain(b) /\ (Clear(b) => \A z \in 1 .. 1 : ~b[z][1])
       /\ IsChain(c) /\ (Clear(c) => \A z \in 1 .. 1 : ~c[z][1])
       /\ IsChain(d) /\ (Clear(d) => \A z \in 1 .. 1 : ~d[z][1])
       /\ IsChain(e) /\ (Clear(e) => \A z \in 1 .. 2 : ~e[z][1])
       /\ IsChain(f) /\ (Clear(f) => \A z \in 1 .. 3 : ~f[z][1])
       /\ IsChain(g) /\ (Clear(g) => \A z \in 1 .. 6 : ~g[z][1])
       /\ IsChain(h) /\ (Clear(h) => \A z \in 1 .. 2 : ~h[z][1])
    BY <1>3, <1>5, <1>7, <1>9, <1>11, <1>13, <1>15, ChainClear
<1>18. Clear(a) /\ Clear(b) /\ Clear(c) /\ Clear(d) /\ Clear(e) /\ Clear(f) /\ Clear(g)
           /\ Clear(h)
    BY <1>1, <1>2, <1>17, ThenIsChain, AcceptedIsClear
<1> QED BY <1>2, <1>4, <1>6, <1>8, <1>10, <1>12, <1>14, <1>16, <1>17, <1>18 DEF EventsParts

(* Frames are computed from sound captions and events of one another.      *)
LEMMA FramesRead ==
  ASSUME NEW result, NEW groups, NEW events, NEW rate
  PROVE  /\ IsChain(FramesRows(result, groups, events, rate))
         /\ Clear(FramesRows(result, groups, events, rate)) =>
              /\ Sound(result) /\ Sound(groups) /\ Sound(events)
              /\ groups.result = result /\ events.result = result /\ events.groups = groups
<1> DEFINE a == DependencyBytes(result)
           b == DependencyBytes(groups)
           c == DependencyBytes(events)
           d == FramesBindings(result, groups, events)
           e == <<<<rate = 0, "FRAME_RATE_INVALID">>>>
<1>1. FramesRows(result, groups, events, rate) = Then(Then(Then(Then(a, b), c), d), e)
  BY DEF FramesRows, Then
<1>2. IsChain(a) /\ (Clear(a) => Sound(result))
  BY ComparedRead
<1>3. IsChain(b) /\ (Clear(b) => Sound(groups))
  BY ComparedRead
<1>4. IsChain(c) /\ (Clear(c) => Sound(events))
  BY ComparedRead
<1>5. Chain(d, 1)
  BY DEF FramesBindings, Chain, Fine
<1>6. ~d[1][1] => groups.result = result /\ events.result = result /\ events.groups = groups
  BY DEF FramesBindings
<1>7. Chain(e, 1)
  BY DEF Chain, Fine
<1> HIDE DEF a, b, c, d, e
<1>8. /\ IsChain(d) /\ (Clear(d) => \A z \in 1 .. 1 : ~d[z][1])
      /\ IsChain(e) /\ (Clear(e) => \A z \in 1 .. 1 : ~e[z][1])
    BY <1>5, <1>7, ChainClear
<1>9. IsChain(FramesRows(result, groups, events, rate))
          /\ (Clear(FramesRows(result, groups, events, rate)) =>
                 Clear(a) /\ Clear(b) /\ Clear(c) /\ Clear(d) /\ Clear(e))
    BY <1>1, <1>2, <1>3, <1>4, <1>8, ThenIsChain
<1> QED BY <1>2, <1>3, <1>4, <1>6, <1>8, <1>9

LEMMA FramesAccepted ==
  ASSUME NEW result, NEW groups, NEW events, NEW rate,
         FramesFault(result, groups, events, rate) = Fine
  PROVE  /\ Sound(result) /\ Sound(groups) /\ Sound(events)
         /\ groups.result = result /\ events.result = result /\ events.groups = groups
<1> DEFINE a == FramesRows(result, groups, events, rate)
<1>1. FirstFault(a) = Fine
  BY DEF FramesFault, Then
<1>2. /\ IsChain(a)
      /\ Clear(a) =>
           /\ Sound(result) /\ Sound(groups) /\ Sound(events)
           /\ groups.result = result /\ events.result = result /\ events.groups = groups
  BY FramesRead
<1> HIDE DEF a
<1>3. Clear(a)
    BY <1>1, <1>2, ThenIsChain, AcceptedIsClear
<1> QED BY <1>2, <1>3

LEMMA FramesLoadAccepted ==
  ASSUME NEW x, NEW damaged, NEW result, NEW groups, NEW events, NEW rate,
         FramesLoadFault(x, damaged, result, groups, events, rate) = Fine
  PROVE  /\ Sound(result) /\ Sound(groups) /\ Sound(events)
         /\ groups.result = result /\ events.result = result /\ events.groups = groups
         /\ x.result = result /\ x.groups = groups /\ x.events = events /\ x.rate = rate
         /\ FramesParts \cap damaged = {}
<1> DEFINE a == FramesRows(result, groups, events, rate)
           b == FramesSyntax(damaged)
           c == FramesShape(damaged)
           d == <<<<"version" \in damaged, "UNSUPPORTED_VALUE">>>>
           e == FramesDeclaration(x, damaged, result, groups, events)
           f == LoadedRate(x, damaged, rate)
           g == <<<<"spanCount" \in damaged, "SOURCE_RANGE_INVALID">>>>
           h == SpanDifference(damaged)
           i == <<<<"identity" \in damaged, "IDENTITY_MISMATCH">>,
                  <<"spacing" \in damaged, "NON_CANONICAL_SERIALIZATION">>>>
<1>1. FirstFault(Then(Then(Then(Then(Then(Then(Then(a, b), c), d), e), f), Then(g, h)), i)) = Fine
  BY DEF FramesLoadFault, LoadedSpans, Then
<1>2. /\ IsChain(a)
      /\ Clear(a) =>
           /\ Sound(result) /\ Sound(groups) /\ Sound(events)
           /\ groups.result = result /\ events.result = result /\ events.groups = groups
  BY FramesRead
<1>3. Chain(b, 1)
  BY DEF FramesSyntax, Chain, Fine
<1>4. ~b[1][1] => "syntax" \notin damaged
  BY DEF FramesSyntax
<1>5. Chain(c, 1)
  BY DEF FramesShape, Chain, Fine
<1>6. ~c[1][1] => "shape" \notin damaged
  BY DEF FramesShape
<1>7. Chain(d, 1)
  BY DEF Chain, Fine
<1>8. ~d[1][1] => "version" \notin damaged
  OBVIOUS
<1>9. Chain(e, 1)
  BY DEF FramesDeclaration, Chain, Fine
<1>10. ~e[1][1] =>
           "declaration" \notin damaged /\ x.result = result /\ x.groups = groups
               /\ x.events = events
  BY DEF FramesDeclaration
<1>11. Chain(f, 1)
  BY DEF LoadedRate, Chain, Fine
<1>12. ~f[1][1] => "rate" \notin damaged /\ x.rate = rate
  BY DEF LoadedRate
<1>13. Chain(g, 1)
  BY DEF Chain, Fine
<1>14. ~g[1][1] => "spanCount" \notin damaged
  OBVIOUS
<1>15. Chain(h, 3)
  BY DEF SpanDifference, Chain, Fine
<1>16. /\ ~h[1][1] => "span" \notin damaged
       /\ ~h[2][1] => "time" \notin damaged
       /\ ~h[3][1] => "frame" \notin damaged
  BY DEF SpanDifference
<1>17. Chain(i, 2)
  BY DEF Chain, Fine
<1>18. /\ ~i[1][1] => "identity" \notin damaged
       /\ ~i[2][1] => "spacing" \notin damaged
  OBVIOUS
<1> HIDE DEF a, b, c, d, e, f, g, h, i
<1>19. /\ IsChain(b) /\ (Clear(b) => \A z \in 1 .. 1 : ~b[z][1])
       /\ IsChain(c) /\ (Clear(c) => \A z \in 1 .. 1 : ~c[z][1])
       /\ IsChain(d) /\ (Clear(d) => \A z \in 1 .. 1 : ~d[z][1])
       /\ IsChain(e) /\ (Clear(e) => \A z \in 1 .. 1 : ~e[z][1])
       /\ IsChain(f) /\ (Clear(f) => \A z \in 1 .. 1 : ~f[z][1])
       /\ IsChain(g) /\ (Clear(g) => \A z \in 1 .. 1 : ~g[z][1])
       /\ IsChain(h) /\ (Clear(h) => \A z \in 1 .. 3 : ~h[z][1])
       /\ IsChain(i) /\ (Clear(i) => \A z \in 1 .. 2 : ~i[z][1])
    BY <1>3, <1>5, <1>7, <1>9, <1>11, <1>13, <1>15, <1>17, ChainClear
<1>20. Clear(a) /\ Clear(b) /\ Clear(c) /\ Clear(d) /\ Clear(e) /\ Clear(f) /\ Clear(g)
           /\ Clear(h) /\ Clear(i)
    BY <1>1, <1>2, <1>19, ThenIsChain, AcceptedIsClear
<1> QED BY <1>2, <1>4, <1>6, <1>8, <1>10, <1>12, <1>14, <1>16, <1>18, <1>19, <1>20 DEF FramesParts

(* A preview is computed from sound frames of the same captions and events. *)
LEMMA PreviewRead ==
  ASSUME NEW groups, NEW events, NEW frames, NEW layout
  PROVE  /\ IsChain(PreviewRows(groups, events, frames, layout))
         /\ Clear(PreviewRows(groups, events, frames, layout)) =>
              /\ Sound(groups) /\ Sound(events) /\ Sound(frames)
              /\ frames.groups = groups /\ frames.events = events
<1> DEFINE a == <<<<layout = "malformed", "GEOMETRY_INVALID">>>>
           b == Unsound({groups, events, frames})
           c == PreviewBindings(groups, events, frames)
<1>1. PreviewRows(groups, events, frames, layout) = Then(Then(a, b), c)
  BY DEF PreviewRows, Then
<1>2. Chain(a, 1)
  BY DEF Chain, Fine
<1>3. IsChain(b) /\ (Clear(b) => Sound(groups) /\ Sound(events) /\ Sound(frames))
  BY UnsoundRead
<1>4. Chain(c, 1)
  BY DEF PreviewBindings, Chain, Fine
<1>5. ~c[1][1] => frames.groups = groups /\ frames.events = events
  BY DEF PreviewBindings
<1> HIDE DEF a, b, c
<1>6. /\ IsChain(a) /\ (Clear(a) => \A z \in 1 .. 1 : ~a[z][1])
      /\ IsChain(c) /\ (Clear(c) => \A z \in 1 .. 1 : ~c[z][1])
    BY <1>2, <1>4, ChainClear
<1>7. IsChain(PreviewRows(groups, events, frames, layout))
          /\ (Clear(PreviewRows(groups, events, frames, layout)) =>
                 Clear(a) /\ Clear(b) /\ Clear(c))
    BY <1>1, <1>3, <1>6, ThenIsChain
<1> QED BY <1>3, <1>5, <1>6, <1>7

LEMMA PreviewAccepted ==
  ASSUME NEW groups, NEW events, NEW frames, NEW layout,
         PreviewDeclared(groups, events, frames, layout) = Fine
  PROVE  /\ Sound(groups) /\ Sound(events) /\ Sound(frames)
         /\ frames.groups = groups /\ frames.events = events
<1> DEFINE a == PreviewRows(groups, events, frames, layout)
<1>1. FirstFault(a) = Fine
  BY DEF PreviewDeclared, Then
<1>2. /\ IsChain(a)
      /\ Clear(a) =>
           /\ Sound(groups) /\ Sound(events) /\ Sound(frames)
           /\ frames.groups = groups /\ frames.events = events
  BY PreviewRead
<1> HIDE DEF a
<1>3. Clear(a)
    BY <1>1, <1>2, ThenIsChain, AcceptedIsClear
<1> QED BY <1>2, <1>3

LEMMA PreviewLoadAccepted ==
  ASSUME NEW x, NEW damaged, NEW groups, NEW events, NEW frames, NEW layout,
         PreviewLoadFault(x, damaged, groups, events, frames, layout) = Fine
  PROVE  /\ Sound(groups) /\ Sound(events) /\ Sound(frames)
         /\ frames.groups = groups /\ frames.events = events
         /\ x = PreviewOf(groups, events, frames, layout)
         /\ PreviewParts \cap damaged = {}
<1> DEFINE a == PreviewRows(groups, events, frames, layout)
           b == Envelope(damaged \ {"spacing"})
           c == <<<<"declaration" \in damaged \/ x # PreviewOf(groups, events, frames, layout),
                  "DEPENDENCY_BINDING_INVALID">>,
                <<"canvas" \in damaged, "GEOMETRY_INVALID">>,
                <<"sceneCount" \in damaged, "FRAME_BINDING_INVALID">>,
                <<"sceneVersion" \in damaged, "UNSUPPORTED_VALUE">>,
                <<"sceneRect" \in damaged, "GEOMETRY_INVALID">>,
                <<"scene" \in damaged, "FRAME_BINDING_INVALID">>,
                <<{"sceneIdentity", "identity"} \cap damaged # {}, "IDENTITY_MISMATCH">>,
                <<"spacing" \in damaged, "NON_CANONICAL_SERIALIZATION">>>>
<1>1. FirstFault(Then(Then(a, b), c)) = Fine
  BY DEF PreviewLoadFault, Then
<1>2. /\ IsChain(a)
      /\ Clear(a) =>
           /\ Sound(groups) /\ Sound(events) /\ Sound(frames)
           /\ frames.groups = groups /\ frames.events = events
  BY PreviewRead
<1>3. IsChain(b) /\ (Clear(b) =>
          "syntax" \notin damaged /\ "shape" \notin damaged /\ "version" \notin damaged)
  BY EnvelopeRead
<1>4. Chain(c, 8)
  BY DEF Chain, Fine
<1>5. /\ ~c[1][1] => "declaration" \notin damaged /\ x = PreviewOf(groups, events, frames, layout)
      /\ ~c[2][1] => "canvas" \notin damaged
      /\ ~c[3][1] => "sceneCount" \notin damaged
      /\ ~c[4][1] => "sceneVersion" \notin damaged
      /\ ~c[5][1] => "sceneRect" \notin damaged
      /\ ~c[6][1] => "scene" \notin damaged
      /\ ~c[7][1] => "sceneIdentity" \notin damaged /\ "identity" \notin damaged
      /\ ~c[8][1] => "spacing" \notin damaged
  OBVIOUS
<1> HIDE DEF a, b, c
<1>6. IsChain(c) /\ (Clear(c) => \A z \in 1 .. 8 : ~c[z][1])
    BY <1>4, ChainClear
<1>7. Clear(a) /\ Clear(b) /\ Clear(c)
    BY <1>1, <1>2, <1>3, <1>6, ThenIsChain, AcceptedIsClear
<1> QED BY <1>2, <1>3, <1>5, <1>6, <1>7 DEF PreviewParts

LEMMA CollisionRead ==
  ASSUME NEW preview
  PROVE  /\ IsChain(CollisionRows(preview))
         /\ Clear(CollisionRows(preview)) => Sound(preview)
<1> DEFINE a == DependencyBytes(preview)
           b == <<<<preview.frames.rate \in CoarseRates, "DEPENDENCY_CONTENT_DRIFT">>>>
<1>1. CollisionRows(preview) = Then(a, b)
  BY DEF CollisionRows, Then
<1>2. IsChain(a) /\ (Clear(a) => Sound(preview))
  BY ComparedRead
<1>3. Chain(b, 1)
  BY DEF Chain, Fine
<1> HIDE DEF a, b
<1>4. IsChain(b) /\ (Clear(b) => \A z \in 1 .. 1 : ~b[z][1])
    BY <1>3, ChainClear
<1>5. IsChain(CollisionRows(preview)) /\ (Clear(CollisionRows(preview)) => Clear(a) /\ Clear(b))
    BY <1>1, <1>2, <1>4, ThenIsChain
<1> QED BY <1>2, <1>4, <1>5

LEMMA CollisionAccepted ==
  ASSUME NEW preview,
         CollisionFault(preview) = Fine
  PROVE  Sound(preview)
<1> DEFINE a == CollisionRows(preview)
<1>1. FirstFault(a) = Fine
  BY DEF CollisionFault, Then
<1>2. IsChain(a) /\ (Clear(a) => Sound(preview))
  BY CollisionRead
<1> HIDE DEF a
<1>3. Clear(a)
    BY <1>1, <1>2, ThenIsChain, AcceptedIsClear
<1> QED BY <1>2, <1>3

LEMMA CollisionLoadAccepted ==
  ASSUME NEW x, NEW damaged, NEW preview,
         CollisionLoadFault(x, damaged, preview) = Fine
  PROVE  /\ Sound(preview)
         /\ x.preview = preview
         /\ (CollisionParts \cup FindingParts) \cap damaged = {}
<1> DEFINE a == CollisionRows(preview)
           b == Envelope(damaged)
           c == <<<<x.preview # preview, "DEPENDENCY_BINDING_INVALID">>,
                  <<"count" \in damaged, "FINDING_INVALID">>>>
           d == FindingRows(damaged)
           e == <<<<"identity" \in damaged, "IDENTITY_MISMATCH">>,
                  <<"tally" \in damaged, "NON_CANONICAL_SERIALIZATION">>>>
<1>1. FirstFault(Then(Then(Then(Then(a, b), c), d), e)) = Fine
  BY DEF CollisionLoadFault, Then
<1>2. IsChain(a) /\ (Clear(a) => Sound(preview))
  BY CollisionRead
<1>3. IsChain(b) /\ (Clear(b) =>
          "syntax" \notin damaged /\ "spacing" \notin damaged /\ "shape" \notin damaged
              /\ "version" \notin damaged)
  BY EnvelopeRead
<1>4. Chain(c, 2)
  BY DEF Chain, Fine
<1>5. /\ ~c[1][1] => x.preview = preview
      /\ ~c[2][1] => "count" \notin damaged
  OBVIOUS
<1>6. Chain(d, 5)
  BY DEF FindingRows, Chain, Fine
<1>7. /\ ~d[1][1] => "findingShape" \notin damaged
      /\ ~d[2][1] => "findingTypes" \notin damaged
      /\ ~d[3][1] => "findingVersion" \notin damaged
      /\ ~d[4][1] => "finding" \notin damaged
      /\ ~d[5][1] => "findingIdentity" \notin damaged
  BY DEF FindingRows
<1>8. Chain(e, 2)
  BY DEF Chain, Fine
<1>9. /\ ~e[1][1] => "identity" \notin damaged
      /\ ~e[2][1] => "tally" \notin damaged
  OBVIOUS
<1> HIDE DEF a, b, c, d, e
<1>10. /\ IsChain(c) /\ (Clear(c) => \A z \in 1 .. 2 : ~c[z][1])
       /\ IsChain(d) /\ (Clear(d) => \A z \in 1 .. 5 : ~d[z][1])
       /\ IsChain(e) /\ (Clear(e) => \A z \in 1 .. 2 : ~e[z][1])
    BY <1>4, <1>6, <1>8, ChainClear
<1>11. Clear(a) /\ Clear(b) /\ Clear(c) /\ Clear(d) /\ Clear(e)
    BY <1>1, <1>2, <1>3, <1>10, ThenIsChain, AcceptedIsClear
<1> QED BY <1>2, <1>3, <1>5, <1>7, <1>9, <1>10, <1>11 DEF CollisionParts, FindingParts

(* An edit list is of the preview, and of what the preview was made from. *)
LEMMA VideoRead ==
  ASSUME NEW groups, NEW events, NEW frames, NEW preview, NEW report, NEW rate, NEW
    cuts
  PROVE  /\ IsChain(VideoRows(groups, events, frames, preview, report, rate, cuts))
         /\ Clear(VideoRows(groups, events, frames, preview, report, rate, cuts)) =>
              /\ Sound(groups) /\ Sound(events) /\ Sound(frames)
              /\ Sound(preview) /\ Sound(report)
              /\ preview.groups = groups /\ preview.events = events /\ preview.frames = frames
                     /\ report.preview = preview
<1> DEFINE a == Unsound({groups, events, frames, preview, report})
           b == VideoBindings(groups, events, frames, preview, report, rate)
           c == <<<<cuts = "unresolved", "CUE_RESOLUTION_INVALID">>,
                  <<HasFindings(report), "V5_V6_COLLISION_BLOCKED">>>>
<1>1. VideoRows(groups, events, frames, preview, report, rate, cuts) = Then(Then(a, b), c)
  BY DEF VideoRows, Then
<1>2. /\ IsChain(a)
      /\ Clear(a) =>
           /\ Sound(groups) /\ Sound(events) /\ Sound(frames)
           /\ Sound(preview) /\ Sound(report)
  BY UnsoundRead
<1>3. Chain(b, 1)
  BY DEF VideoBindings, Chain, Fine
<1>4. ~b[1][1] =>
          preview.groups = groups /\ preview.events = events /\ preview.frames = frames
              /\ report.preview = preview
  BY DEF VideoBindings
<1>5. Chain(c, 2)
  BY DEF Chain, Fine
<1> HIDE DEF a, b, c
<1>6. /\ IsChain(b) /\ (Clear(b) => \A z \in 1 .. 1 : ~b[z][1])
      /\ IsChain(c) /\ (Clear(c) => \A z \in 1 .. 2 : ~c[z][1])
    BY <1>3, <1>5, ChainClear
<1>7. IsChain(VideoRows(groups, events, frames, preview, report, rate, cuts))
          /\ (Clear(VideoRows(groups, events, frames, preview, report, rate, cuts)) =>
                 Clear(a) /\ Clear(b) /\ Clear(c))
    BY <1>1, <1>2, <1>6, ThenIsChain
<1> QED BY <1>2, <1>4, <1>6, <1>7

LEMMA VideoAccepted ==
  ASSUME NEW groups, NEW events, NEW frames, NEW preview, NEW report, NEW rate, NEW
    cuts,
         VideoDeclared(groups, events, frames, preview, report, rate, cuts) = Fine
  PROVE  /\ Sound(groups) /\ Sound(events) /\ Sound(frames)
         /\ Sound(preview) /\ Sound(report)
         /\ preview.groups = groups /\ preview.events = events /\ preview.frames = frames
                /\ report.preview = preview
<1> DEFINE a == VideoRows(groups, events, frames, preview, report, rate, cuts)
<1>1. FirstFault(a) = Fine
  BY DEF VideoDeclared, Then
<1>2. /\ IsChain(a)
      /\ Clear(a) =>
           /\ Sound(groups) /\ Sound(events) /\ Sound(frames)
           /\ Sound(preview) /\ Sound(report)
           /\ preview.groups = groups /\ preview.events = events /\ preview.frames = frames
                  /\ report.preview = preview
  BY VideoRead
<1> HIDE DEF a
<1>3. Clear(a)
    BY <1>1, <1>2, ThenIsChain, AcceptedIsClear
<1> QED BY <1>2, <1>3

LEMMA VideoLoadAccepted ==
  ASSUME NEW x, NEW damaged, NEW groups, NEW events, NEW frames, NEW preview, NEW
    report, NEW rate, NEW cuts,
         VideoLoadFault(x, damaged, groups, events, frames, preview, report, rate, cuts) = Fine
  PROVE  /\ Sound(groups) /\ Sound(events) /\ Sound(frames)
         /\ Sound(preview) /\ Sound(report)
         /\ preview.groups = groups /\ preview.events = events /\ preview.frames = frames
                /\ report.preview = preview
         /\ x.preview = preview /\ x.report = report /\ x.cuts = cuts
         /\ VideoParts \cap damaged = {}
<1> DEFINE a == Envelope(damaged)
           b == StoredReferences(x, preview, report)
           c == VideoRows(groups, events, frames, preview, report, rate, cuts)
           d == <<<<"lineage" \in damaged, "DEPENDENCY_BINDING_INVALID">>,
                  <<{"sequence", "track"} \cap damaged # {}, "CUE_RESOLUTION_INVALID">>,
                  <<"collision" \in damaged, "TRACK_COLLISION">>,
                  <<"event" \in damaged \/ x.cuts # cuts, "CUE_RESOLUTION_INVALID">>,
                  <<"eventIdentity" \in damaged, "IDENTITY_MISMATCH">>,
                  <<"root" \in damaged, "CUE_RESOLUTION_INVALID">>,
                  <<"identity" \in damaged, "IDENTITY_MISMATCH">>>>
<1>1. FirstFault(Then(Then(Then(a, b), c), d)) = Fine
  BY DEF VideoLoadFault, Then
<1>2. IsChain(a) /\ (Clear(a) =>
          "syntax" \notin damaged /\ "spacing" \notin damaged /\ "shape" \notin damaged
              /\ "version" \notin damaged)
  BY EnvelopeRead
<1>3. Chain(b, 1)
  BY DEF StoredReferences, Chain, Fine
<1>4. ~b[1][1] => x.preview = preview /\ x.report = report
  BY DEF StoredReferences
<1>5. /\ IsChain(c)
      /\ Clear(c) =>
           /\ Sound(groups) /\ Sound(events) /\ Sound(frames)
           /\ Sound(preview) /\ Sound(report)
           /\ preview.groups = groups /\ preview.events = events /\ preview.frames = frames
                  /\ report.preview = preview
  BY VideoRead
<1>6. Chain(d, 7)
  BY DEF Chain, Fine
<1>7. /\ ~d[1][1] => "lineage" \notin damaged
      /\ ~d[2][1] => "sequence" \notin damaged /\ "track" \notin damaged
      /\ ~d[3][1] => "collision" \notin damaged
      /\ ~d[4][1] => "event" \notin damaged /\ x.cuts = cuts
      /\ ~d[5][1] => "eventIdentity" \notin damaged
      /\ ~d[6][1] => "root" \notin damaged
      /\ ~d[7][1] => "identity" \notin damaged
  OBVIOUS
<1> HIDE DEF a, b, c, d
<1>8. /\ IsChain(b) /\ (Clear(b) => \A z \in 1 .. 1 : ~b[z][1])
      /\ IsChain(d) /\ (Clear(d) => \A z \in 1 .. 7 : ~d[z][1])
    BY <1>3, <1>6, ChainClear
<1>9. Clear(a) /\ Clear(b) /\ Clear(c) /\ Clear(d)
    BY <1>1, <1>2, <1>5, <1>8, ThenIsChain, AcceptedIsClear
<1> QED BY <1>2, <1>4, <1>5, <1>7, <1>8, <1>9 DEF VideoParts

(* A soundtrack is of the video, and its recording of the frames' revision. *)
LEMMA SoundtrackRead ==
  ASSUME NEW video, NEW frames, NEW audio, NEW sounds
  PROVE  /\ IsChain(SoundtrackRows(video, frames, audio, sounds))
         /\ Clear(SoundtrackRows(video, frames, audio, sounds)) =>
              /\ Sound(video) /\ Sound(frames)
              /\ video.preview.frames = frames /\ audio.says.revision = frames.result.revision.n
<1> DEFINE a == Unsound({video, frames})
           b == <<<<~Genuine(audio.is), "DEPENDENCY_CONTENT_DRIFT">>>>
           c == SoundtrackBindings(video, frames, audio)
           d == <<<<sounds = "unresolved", "CUE_RESOLUTION_INVALID">>>>
<1>1. SoundtrackRows(video, frames, audio, sounds) = Then(Then(Then(a, b), c), d)
  BY DEF SoundtrackRows, Then
<1>2. IsChain(a) /\ (Clear(a) => Sound(video) /\ Sound(frames))
  BY UnsoundRead
<1>3. Chain(b, 1)
  BY DEF Chain, Fine
<1>4. Chain(c, 1)
  BY DEF SoundtrackBindings, Chain, Fine
<1>5. ~c[1][1] => video.preview.frames = frames /\ audio.says.revision = frames.result.revision.n
  BY DEF SoundtrackBindings
<1>6. Chain(d, 1)
  BY DEF Chain, Fine
<1> HIDE DEF a, b, c, d
<1>7. /\ IsChain(b) /\ (Clear(b) => \A z \in 1 .. 1 : ~b[z][1])
      /\ IsChain(c) /\ (Clear(c) => \A z \in 1 .. 1 : ~c[z][1])
      /\ IsChain(d) /\ (Clear(d) => \A z \in 1 .. 1 : ~d[z][1])
    BY <1>3, <1>4, <1>6, ChainClear
<1>8. IsChain(SoundtrackRows(video, frames, audio, sounds))
          /\ (Clear(SoundtrackRows(video, frames, audio, sounds)) =>
                 Clear(a) /\ Clear(b) /\ Clear(c) /\ Clear(d))
    BY <1>1, <1>2, <1>7, ThenIsChain
<1> QED BY <1>2, <1>5, <1>7, <1>8

LEMMA SoundtrackAccepted ==
  ASSUME NEW video, NEW frames, NEW audio, NEW sounds,
         SoundtrackDeclared(video, frames, audio, sounds) = Fine
  PROVE  /\ Sound(video) /\ Sound(frames)
         /\ video.preview.frames = frames /\ audio.says.revision = frames.result.revision.n
<1> DEFINE a == SoundtrackRows(video, frames, audio, sounds)
<1>1. FirstFault(a) = Fine
  BY DEF SoundtrackDeclared, Then
<1>2. /\ IsChain(a)
      /\ Clear(a) =>
           /\ Sound(video) /\ Sound(frames)
           /\ video.preview.frames = frames /\ audio.says.revision = frames.result.revision.n
  BY SoundtrackRead
<1> HIDE DEF a
<1>3. Clear(a)
    BY <1>1, <1>2, ThenIsChain, AcceptedIsClear
<1> QED BY <1>2, <1>3

LEMMA SoundtrackLoadAccepted ==
  ASSUME NEW x, NEW damaged, NEW video, NEW frames, NEW audio, NEW sounds,
         SoundtrackLoadFault(x, damaged, video, frames, audio, sounds) = Fine
  PROVE  /\ Sound(video) /\ Sound(frames)
         /\ video.preview.frames = frames /\ audio.says.revision = frames.result.revision.n
         /\ x.video = video /\ x.audio = audio.is /\ x.sounds = sounds
         /\ SoundtrackParts \cap damaged = {}
<1> DEFINE a == Envelope(damaged \cap {"syntax"})
           b == SoundtrackRows(video, frames, audio, sounds)
           c == Envelope(damaged \cap {"shape"})
           d == <<<<"declaration" \in damaged \/ <<x.video, x.audio>> # <<video, audio.is>>,
                  "DEPENDENCY_BINDING_INVALID">>,
                <<"evidence" \in damaged \/ x.sounds # sounds, "DEPENDENCY_CONTENT_DRIFT">>>>
           e == Envelope(damaged \cap {"version"})
           f == <<<<"decision" \in damaged, "DEPENDENCY_CONTENT_DRIFT">>,
                  <<"tracks" \in damaged, "CUE_RESOLUTION_INVALID">>,
                  <<"identity" \in damaged, "IDENTITY_MISMATCH">>>>
<1>1. FirstFault(Then(Then(Then(Then(Then(a, b), c), d), e), f)) = Fine
  BY DEF SoundtrackLoadFault, Then
<1>2. IsChain(a) /\ (Clear(a) => "syntax" \notin damaged)
  BY EnvelopeRead
<1>3. /\ IsChain(b)
      /\ Clear(b) =>
           /\ Sound(video) /\ Sound(frames)
           /\ video.preview.frames = frames /\ audio.says.revision = frames.result.revision.n
  BY SoundtrackRead
<1>4. IsChain(c) /\ (Clear(c) => "shape" \notin damaged)
  BY EnvelopeRead
<1>5. Chain(d, 2)
  BY DEF Chain, Fine
<1>6. /\ ~d[1][1] => "declaration" \notin damaged /\ x.video = video /\ x.audio = audio.is
      /\ ~d[2][1] => "evidence" \notin damaged /\ x.sounds = sounds
  OBVIOUS
<1>7. IsChain(e) /\ (Clear(e) => "version" \notin damaged)
  BY EnvelopeRead
<1>8. Chain(f, 3)
  BY DEF Chain, Fine
<1>9. /\ ~f[1][1] => "decision" \notin damaged
      /\ ~f[2][1] => "tracks" \notin damaged
      /\ ~f[3][1] => "identity" \notin damaged
  OBVIOUS
<1> HIDE DEF a, b, c, d, e, f
<1>10. /\ IsChain(d) /\ (Clear(d) => \A z \in 1 .. 2 : ~d[z][1])
       /\ IsChain(f) /\ (Clear(f) => \A z \in 1 .. 3 : ~f[z][1])
    BY <1>5, <1>8, ChainClear
<1>11. Clear(a) /\ Clear(b) /\ Clear(c) /\ Clear(d) /\ Clear(e) /\ Clear(f)
    BY <1>1, <1>2, <1>3, <1>4, <1>7, <1>10, ThenIsChain, AcceptedIsClear
<1> QED BY <1>2, <1>3, <1>4, <1>6, <1>7, <1>9, <1>10, <1>11 DEF SoundtrackParts

(* What is published is sound, and one chain. *)
LEMMA PublicationAccepted ==
  ASSUME NEW result, NEW groups, NEW events, NEW frames,
         PublicationFault(result, groups, events, frames) = Fine
  PROVE  /\ Sound(result) /\ Sound(groups) /\ Sound(events) /\ Sound(frames)
         /\ frames.result = result /\ frames.groups = groups /\ frames.events = events
<1> DEFINE a == Unsound({result, groups, events, frames})
           b == PublicationBindings(result, groups, events, frames)
<1>1. FirstFault(Then(a, b)) = Fine
  BY DEF PublicationFault, Then
<1>2. /\ IsChain(a)
      /\ Clear(a) =>
           /\ Sound(result) /\ Sound(groups)
           /\ Sound(events) /\ Sound(frames)
  BY UnsoundRead
<1>3. Chain(b, 1)
  BY DEF PublicationBindings, Chain, Fine
<1>4. ~b[1][1] => groups.result = result /\ events.result = result /\ frames.result = result
            /\ events.groups = groups /\ frames.groups = groups /\ frames.events = events
  BY DEF PublicationBindings
<1> HIDE DEF a, b
<1>5. IsChain(b) /\ (Clear(b) => \A z \in 1 .. 1 : ~b[z][1])
    BY <1>3, ChainClear
<1>6. Clear(a) /\ Clear(b)
    BY <1>1, <1>2, <1>5, ThenIsChain, AcceptedIsClear
<1> QED BY <1>2, <1>4, <1>5, <1>6
-----------------------------------------------------------------------------
(* What the registries and the stored bytes are like after every call.     *)

RegistryInv ==
  /\ \A x \in made \cup held : WellMade(x)
  /\ wire.of = None \/ WellMade(wire.of)
  /\ FilesAreExact

(* Unless an object that it takes at its word was altered, an artifact is  *)
(* of one lineage, and a replay repeats a call that happened.              *)
TrueToWord(x) ==
  TakenAtTheirWord(x) \cap drifted = {} => OfOneLineage(x) /\ RepeatsAnOriginal(x)

(* A call that answers: it refuses, or it registers one artifact that is   *)
(* well made, from nothing altered, and exactly what was declared.         *)
Registered(x) ==
  /\ made' = made \cup {x}
  /\ WellMade(x) /\ MadeFrom(x) \cap drifted = {} /\ TrueToWord(x)
  /\ reply'.exact

Answered ==
  /\ held' = held /\ wire' = wire
  /\ \/ made' = made /\ reply'.verdict # Fine
     \/ \E x : Registered(x)

LEMMA Registers ==
  ASSUME NEW x, NEW fault, NEW exact, Answer(x, fault, exact),
         fault = Fine => WellMade(x) /\ MadeFrom(x) \cap drifted = {}
                         /\ TrueToWord(x) /\ exact
  PROVE  Answered
<1>1. /\ reply' = [verdict |-> fault, exact |-> exact] /\ held' = held /\ wire' = wire
      /\ fault = Fine => made' = made \cup {x}
      /\ fault # Fine => made' = made
  BY DEF Answer
<1>2. reply'.verdict = fault /\ (exact => reply'.exact)
  BY <1>1
<1>3. CASE fault = Fine
  BY <1>1, <1>2, <1>3 DEF Answered, Registered
<1>4. CASE fault # Fine
  BY <1>1, <1>2, <1>4 DEF Answered
<1> QED BY <1>3, <1>4

(* What stored bytes describe was registered once, and what was altered is *)
(* not written but by those that write what the object says.               *)
LEMMA StoredIsWellMade ==
  ASSUME RegistryInv, wire.of.kind \notin {"none", "request", "execution"},
         NEW parts, NEW damaged \in OneWrong(parts)
  PROVE  WellMade(wire.of) /\ Damage(damaged) \subseteq parts
<1>1. WellMade(wire.of)
  BY DEF RegistryInv, None
<1>2. ~wire.altered
  BY DEF RegistryInv, FilesAreExact, WrittenIsSound
<1>3. damaged \subseteq parts
  BY DEF OneWrong
<1> QED BY <1>1, <1>2, <1>3 DEF Damage

-----------------------------------------------------------------------------
(* Declared artifacts.                                                     *)

(* What was not altered says what it was registered as.                    *)
LEMMA ObjectRead ==
  ASSUME NEW x, NEW object \in ObjectsOf(x)
  PROVE  object.is = x /\ (x \notin drifted => object.says = x)
BY DEF ObjectsOf, Says

LEMMA ObjectsRead ==
  ASSUME NEW k, NEW object \in Objects(k)
  PROVE  object \in ObjectsOf(object.is) /\ object.is \in OfKind(k)
<1>1. PICK x \in OfKind(k) : object \in ObjectsOf(x)
  BY DEF Objects
<1>2. object.is = x
  BY <1>1, ObjectRead
<1> QED BY <1>1, <1>2

LEMMA RequestsAreAnswered == ASSUME RegistryInv, MaterializeRequest PROVE Answered
<1>1. PICK x \in RequestPayloads, document \in Documents : \E audio \in ObjectsOf(x.audio) :
        \/ Answer(x, RequestFault(x, {}, document, x.revision, audio), TRUE)
        \/ \E part \in RequestParts(x) :
             Answer(x, RequestFault(x, {part}, document, x.revision, audio), FALSE)
        \/ \E revision \in Revisions, given \in Objects("audio") :
             /\ <<revision, given.is>> # <<x.revision, x.audio>>
             /\ Answer(x, RequestFault(x, {}, document, revision, given), FALSE)
  BY DEF MaterializeRequest
<1> PICK audio \in ObjectsOf(x.audio) :
        \/ Answer(x, RequestFault(x, {}, document, x.revision, audio), TRUE)
        \/ \E part \in RequestParts(x) :
             Answer(x, RequestFault(x, {part}, document, x.revision, audio), FALSE)
        \/ \E revision \in Revisions, given \in Objects("audio") :
             /\ <<revision, given.is>> # <<x.revision, x.audio>>
             /\ Answer(x, RequestFault(x, {}, document, revision, given), FALSE)
  BY <1>1
<1>2. x.kind = "request"
  BY DEF RequestPayloads
<1>3. ASSUME NEW wrong, NEW revision, NEW given, given \in ObjectsOf(given.is),
             RequestFault(x, wrong, document, revision, given) = Fine
      PROVE  /\ WellMade(x) /\ MadeFrom(x) \cap drifted = {} /\ TrueToWord(x)
             /\ RequestParts(x) \cap wrong = {} /\ revision = x.revision /\ given.is = x.audio
  <2>1. /\ given.says.revision = revision.n /\ x.revision = revision /\ x.audio = given.is
        /\ RequestParts(x) \cap wrong = {}
    BY <1>3, RequestAccepted
  <2>2. TakenAtTheirWord(x) = {x.audio}
    BY <1>2 DEF TakenAtTheirWord
  <2>3. WellMade(x)
    BY <1>2, <2>2 DEF WellMade, AsCompiled, PaidWasApproved, ShowsOnePreview
  <2>4. x.audio \notin drifted => given.says = x.audio
    BY <1>3, <2>1, ObjectRead
  <2>5. TrueToWord(x)
    BY <1>2, <2>1, <2>2, <2>4 DEF TrueToWord, OfOneLineage, RepeatsAnOriginal
  <2>6. MadeFrom(x) = {}
    BY <1>2 DEF MadeFrom
  <2> QED BY <2>1, <2>3, <2>5, <2>6
<1>4. audio \in ObjectsOf(audio.is)
  BY ObjectRead
<1>5. CASE Answer(x, RequestFault(x, {}, document, x.revision, audio), TRUE)
  BY <1>3, <1>4, <1>5, Registers
<1>6. CASE \E part \in RequestParts(x) :
             Answer(x, RequestFault(x, {part}, document, x.revision, audio), FALSE)
  BY <1>3, <1>4, <1>6, Registers
<1>7. CASE \E revision \in Revisions, given \in Objects("audio") :
             /\ <<revision, given.is>> # <<x.revision, x.audio>>
             /\ Answer(x, RequestFault(x, {}, document, revision, given), FALSE)
  <2>1. PICK revision \in Revisions, given \in Objects("audio") :
          /\ <<revision, given.is>> # <<x.revision, x.audio>>
          /\ Answer(x, RequestFault(x, {}, document, revision, given), FALSE)
    BY <1>7
  <2>2. given \in ObjectsOf(given.is)
    BY ObjectsRead
  <2>3. RequestFault(x, {}, document, revision, given) # Fine
    BY <1>3, <2>1, <2>2
  <2> QED BY <2>1, <2>3, Registers
<1> QED BY <1>5, <1>6, <1>7

LEMMA ExecutionsAreAnswered == ASSUME RegistryInv, MaterializeExecution PROVE Answered
<1>1. PICK x \in ExecutionPayloads : \E named \in NamedObjects(x) :
        \/ Answer(x, ExecutionFault(x, {}, named[1], named[2], named[3]), TRUE)
        \/ \E part \in ExecutionParts(x) :
             Answer(x, ExecutionFault(x, {part}, named[1], named[2], named[3]), FALSE)
        \/ \E request \in Objects("request"), sourceRequest \in Objects("request") \cup {None},
              sourceExecution \in Objects("execution") \cup {None} :
             /\ <<request, sourceRequest, sourceExecution>> \notin NamedObjects(x)
             /\ Answer(x, ExecutionFault(x, {}, request, sourceRequest, sourceExecution), FALSE)
  BY DEF MaterializeExecution
<1>2. /\ x.kind = "execution"
      /\ x.original = None \/ x.original.execution \in OfKind("execution")
  BY DEF ExecutionPayloads, Originals
<1>3. ASSUME NEW wrong, NEW request, request \in ObjectsOf(request.is),
             NEW sourceRequest,
             sourceRequest = None \/ sourceRequest \in ObjectsOf(sourceRequest.is),
             NEW sourceExecution,
             sourceExecution = None \/ sourceExecution \in ObjectsOf(sourceExecution.is),
             ExecutionFault(x, wrong, request, sourceRequest, sourceExecution) = Fine
      PROVE  /\ WellMade(x) /\ MadeFrom(x) \cap drifted = {} /\ TrueToWord(x)
             /\ ExecutionParts(x) \cap wrong = {}
             /\ <<request, sourceRequest, sourceExecution>> \in NamedObjects(x)
  <2>1. /\ x.request = request.is /\ ModeMatches(x.mode, request.says.mode)
        /\ x.mode = "PAID_API" /\ x.status # "BLOCKED" => x.paid = "APPROVED"
        /\ x.mode = "REPLAY" <=> x.original # None
        /\ x.mode = "REPLAY" <=> sourceRequest # None
        /\ x.mode = "REPLAY" <=> sourceExecution # None
        /\ x.mode = "REPLAY" =>
              /\ Genuine(sourceExecution.is)
              /\ sourceExecution.says.status = "SUCCEEDED"
              /\ sourceExecution.says.mode # "REPLAY"
              /\ sourceExecution.says.request = sourceRequest.is
              /\ x.original.request = sourceRequest.is
              /\ sourceRequest.is # request.is
              /\ x.original.execution = sourceExecution.is
        /\ ExecutionParts(x) \cap wrong = {}
    BY <1>3, ExecutionAccepted
  <2>2. x.request \in TakenAtTheirWord(x)
    BY <1>2 DEF TakenAtTheirWord
  <2>3. x.original # None => x.original.execution \in TakenAtTheirWord(x)
    BY <1>2 DEF TakenAtTheirWord
  <2>4. WellMade(x)
    BY <1>2, <2>1, <2>2 DEF WellMade, AsCompiled, PaidWasApproved, ShowsOnePreview
  <2>5. ASSUME TakenAtTheirWord(x) \cap drifted = {} PROVE OfOneLineage(x)
    <3>1. request.says = x.request
      BY <1>3, <2>1, <2>2, <2>5, ObjectRead
    <3> QED BY <1>2, <2>1, <3>1 DEF OfOneLineage
  <2>6. ASSUME TakenAtTheirWord(x) \cap drifted = {}, x.mode = "REPLAY"
        PROVE  RepeatsAnOriginal(x)
    <3>1. sourceExecution.says = x.original.execution
      BY <1>3, <2>1, <2>3, <2>6, ObjectRead
    <3>2. x.original.execution \in made /\ x.original.execution.kind = "execution"
      BY <1>2, <2>1, <2>6 DEF Genuine, OfKind
    <3>3. x.original.execution.mode = "PAID_API" => x.original.execution.paid = "APPROVED"
      BY <2>1, <2>6, <3>1, <3>2 DEF RegistryInv, WellMade, PaidWasApproved
    <3> QED BY <2>1, <2>6, <3>1, <3>3 DEF RepeatsAnOriginal
  <2>7. TrueToWord(x)
    BY <2>5, <2>6 DEF TrueToWord, RepeatsAnOriginal
  <2>8. MadeFrom(x) = {}
    BY <1>2 DEF MadeFrom
  <2>9. /\ request \in ObjectsOf(x.request)
        /\ x.original = None => sourceRequest = None /\ sourceExecution = None
        /\ x.original # None => /\ sourceRequest \in ObjectsOf(x.original.request)
                                /\ sourceExecution \in ObjectsOf(x.original.execution)
    BY <1>3, <2>1
  <2>10. <<request, sourceRequest, sourceExecution>> \in NamedObjects(x)
    BY <2>9 DEF NamedObjects
  <2> QED BY <2>1, <2>4, <2>7, <2>8, <2>10
<1>4. PICK named \in NamedObjects(x) :
        \/ Answer(x, ExecutionFault(x, {}, named[1], named[2], named[3]), TRUE)
        \/ \E part \in ExecutionParts(x) :
             Answer(x, ExecutionFault(x, {part}, named[1], named[2], named[3]), FALSE)
        \/ \E request \in Objects("request"), sourceRequest \in Objects("request") \cup {None},
              sourceExecution \in Objects("execution") \cup {None} :
             /\ <<request, sourceRequest, sourceExecution>> \notin NamedObjects(x)
             /\ Answer(x, ExecutionFault(x, {}, request, sourceRequest, sourceExecution), FALSE)
  BY <1>1
<1>5. /\ named[1] \in ObjectsOf(named[1].is)
      /\ named[2] = None \/ named[2] \in ObjectsOf(named[2].is)
      /\ named[3] = None \/ named[3] \in ObjectsOf(named[3].is)
  <2>1. /\ named[1] \in ObjectsOf(x.request)
        /\ named[2] = None \/ named[2] \in ObjectsOf(x.original.request)
        /\ named[3] = None \/ named[3] \in ObjectsOf(x.original.execution)
    BY DEF NamedObjects
  <2> QED BY <2>1, ObjectRead
<1>6. CASE Answer(x, ExecutionFault(x, {}, named[1], named[2], named[3]), TRUE)
  BY <1>3, <1>5, <1>6, Registers
<1>7. CASE \E part \in ExecutionParts(x) :
             Answer(x, ExecutionFault(x, {part}, named[1], named[2], named[3]), FALSE)
  BY <1>3, <1>5, <1>7, Registers
<1>8. CASE \E request \in Objects("request"), sourceRequest \in Objects("request") \cup {None},
              sourceExecution \in Objects("execution") \cup {None} :
             /\ <<request, sourceRequest, sourceExecution>> \notin NamedObjects(x)
             /\ Answer(x, ExecutionFault(x, {}, request, sourceRequest, sourceExecution), FALSE)
  <2>1. PICK request \in Objects("request"), sourceRequest \in Objects("request") \cup {None},
             sourceExecution \in Objects("execution") \cup {None} :
          /\ <<request, sourceRequest, sourceExecution>> \notin NamedObjects(x)
          /\ Answer(x, ExecutionFault(x, {}, request, sourceRequest, sourceExecution), FALSE)
    BY <1>8
  <2>2. /\ request \in ObjectsOf(request.is)
        /\ sourceRequest = None \/ sourceRequest \in ObjectsOf(sourceRequest.is)
        /\ sourceExecution = None \/ sourceExecution \in ObjectsOf(sourceExecution.is)
    BY ObjectsRead
  <2>3. ExecutionFault(x, {}, request, sourceRequest, sourceExecution) # Fine
    BY <1>3, <2>1, <2>2
  <2> QED BY <2>1, <2>3, Registers
<1> QED BY <1>4, <1>6, <1>7, <1>8

LEMMA ResultsAreAnswered == ASSUME RegistryInv, MaterializeResult PROVE Answered
<1>1. PICK x \in ResultPayloads, document \in Documents :
        \/ Answer(x, ResultFault(x, {}, document, x.revision, x.audio, x.request, x.execution),
                  TRUE)
        \/ \E part \in ResultParts :
             Answer(x, ResultFault(x, {part}, document, x.revision, x.audio, x.request,
                                   x.execution), FALSE)
        \/ \E revision \in Revisions, audio \in OfKind("audio"),
              request \in OfKind("request"), execution \in OfKind("execution") :
             /\ <<revision, audio, request, execution>>
                   # <<x.revision, x.audio, x.request, x.execution>>
             /\ Answer(x, ResultFault(x, {}, document, revision, audio, request, execution),
                    FALSE)
  BY DEF MaterializeResult
<1>2. x.kind = "result"
  BY DEF ResultPayloads
<1>3. ASSUME NEW wrong, NEW revision, NEW audio, NEW request, NEW execution,
             ResultFault(x, wrong, document, revision, audio, request, execution) = Fine
      PROVE  /\ WellMade(x) /\ MadeFrom(x) \cap drifted = {}
             /\ TrueToWord(x)
             /\ ResultParts \cap wrong = {}
             /\ revision = x.revision /\ audio = x.audio
             /\ request = x.request /\ execution = x.execution
  <2>1. /\ Sound(revision) /\ Sound(audio) /\ Sound(request) /\ Sound(execution)
        /\ audio.revision = revision.n
        /\ request.revision = revision /\ request.audio = audio /\ execution.request = request
        /\ x.revision = revision /\ x.audio = audio /\ x.request = request
               /\ x.execution = execution
        /\ ResultParts \cap wrong = {}
    BY <1>3, ResultAccepted
  <2>2. WellMade(x) /\ TrueToWord(x)
    BY <1>2, <2>1
       DEF WellMade, TrueToWord, TakenAtTheirWord, OfOneLineage, RepeatsAnOriginal,
           AsCompiled, PaidWasApproved, ShowsOnePreview
  <2>3. MadeFrom(x) = {x.revision, x.audio, x.request, x.execution}
    BY <1>2 DEF MadeFrom
  <2> QED BY <2>1, <2>2, <2>3 DEF Sound
<1>4. CASE Answer(x, ResultFault(x, {}, document, x.revision, x.audio, x.request, x.execution),
                  TRUE)
  BY <1>3, <1>4, Registers
<1>5. CASE \E part \in ResultParts :
             Answer(x, ResultFault(x, {part}, document, x.revision, x.audio, x.request,
                                   x.execution), FALSE)
  BY <1>3, <1>5, Registers
<1>6. CASE \E revision \in Revisions, audio \in OfKind("audio"),
              request \in OfKind("request"), execution \in OfKind("execution") :
             /\ <<revision, audio, request, execution>>
                   # <<x.revision, x.audio, x.request, x.execution>>
             /\ Answer(x, ResultFault(x, {}, document, revision, audio, request, execution),
                    FALSE)
  <2>1. PICK revision, audio, request, execution :
          /\ ~(revision = x.revision /\ audio = x.audio /\ request = x.request
                 /\ execution = x.execution)
          /\ Answer(x, ResultFault(x, {}, document, revision, audio, request, execution), FALSE)
    BY <1>6
  <2>2. ResultFault(x, {}, document, revision, audio, request, execution) # Fine
    BY <1>3, <2>1
  <2> QED BY <2>1, <2>2, Registers
<1> QED BY <1>1, <1>4, <1>5, <1>6
-----------------------------------------------------------------------------
(* Compiled artifacts, and stored ones that are taken back.                *)

(* Caption groups: of one result.                                          *)
LEMMA GroupsAnswered == ASSUME RegistryInv, CompileGroups \/ LoadGroups PROVE Answered
<1>1. ASSUME NEW revision, NEW result,
             Sound(revision) /\ Sound(result),
             result.revision = revision
      PROVE  WellMade(GroupsOfResult(result))
          /\ MadeFrom(GroupsOfResult(result)) \cap drifted = {}
          /\ TrueToWord(GroupsOfResult(result))
  <2> DEFINE x == GroupsOfResult(result)
  <2>1. x.kind = "groups" /\ x.result = result
    BY DEF GroupsOfResult
  <2>2. AsCompiled(x)
    BY <2>1 DEF AsCompiled
  <2> HIDE DEF x
  <2>3. WellMade(x) /\ TrueToWord(x)
    BY <1>1, <2>1, <2>2
       DEF WellMade, TrueToWord, TakenAtTheirWord, OfOneLineage, RepeatsAnOriginal,
           PaidWasApproved, ShowsOnePreview
  <2>4. MadeFrom(x) = {result, result.revision}
    BY <2>1 DEF MadeFrom
  <2> QED BY <1>1, <2>3, <2>4 DEF Sound, x
<1>2. CASE CompileGroups
  <2>1. PICK document \in Documents, revision \in Revisions, result \in Results :
          Answer(GroupsOfResult(result), GroupsFault(document, revision, result), TRUE)
    BY <1>2 DEF CompileGroups
  <2>2. GroupsFault(document, revision, result) = Fine =>
           /\ Sound(revision) /\ Sound(result)
           /\ result.revision = revision
    BY GroupsAccepted
  <2>3. GroupsFault(document, revision, result) = Fine =>
           WellMade(GroupsOfResult(result)) /\ MadeFrom(GroupsOfResult(result)) \cap drifted = {}
           /\ TrueToWord(GroupsOfResult(result))
    BY <1>1, <2>1, <2>2
  <2> QED BY <2>1, <2>3, Registers
<1>3. CASE LoadGroups
  <2>1. PICK document \in Documents, revision \in Revisions, result \in Results, damaged
     \in OneWrong(GroupsParts) :
          /\ wire.of.kind = "groups"
          /\ Answer(GroupsOfResult(result),
                 GroupsLoadFault(wire.of, Damage(damaged), document, revision, result),
                    Damage(damaged) = {} /\ wire.of = GroupsOfResult(result))
    BY <1>3 DEF LoadGroups
  <2>2. WellMade(wire.of) /\ Damage(damaged) \subseteq GroupsParts
    BY <2>1, StoredIsWellMade
  <2>3. ASSUME GroupsLoadFault(wire.of, Damage(damaged), document, revision, result) = Fine
        PROVE  /\ Sound(revision) /\ Sound(result)
               /\ result.revision = revision
               /\ Damage(damaged) = {} /\ wire.of = GroupsOfResult(result)
    <3>1. /\ Sound(revision) /\ Sound(result)
          /\ result.revision = revision
          /\ wire.of.result = result
          /\ GroupsParts \cap Damage(damaged) = {}
      BY <2>3, GroupsLoadAccepted
    <3>2. wire.of = GroupsOfResult(wire.of.result)
      BY <2>1, <2>2 DEF WellMade, AsCompiled
    <3> QED BY <2>2, <3>1, <3>2
  <2>4. GroupsLoadFault(wire.of, Damage(damaged), document, revision, result) = Fine =>
           WellMade(GroupsOfResult(result)) /\ MadeFrom(GroupsOfResult(result)) \cap drifted = {}
           /\ TrueToWord(GroupsOfResult(result))
    BY <1>1, <2>1, <2>3
  <2> QED BY <2>1, <2>3, <2>4, Registers
<1> QED BY <1>2, <1>3

(* Alignment reports: of a result and its own groups.                      *)
LEMMA ReportAnswered == ASSUME RegistryInv, CompileReport \/ LoadReport PROVE Answered
<1>1. ASSUME NEW revision, NEW result, NEW groups, NEW policy,
             Sound(revision) /\ Sound(result) /\ Sound(groups),
             result.revision = revision /\ groups.result = result
      PROVE  WellMade(ReportOf(result, groups, policy))
          /\ MadeFrom(ReportOf(result, groups, policy)) \cap drifted = {}
          /\ TrueToWord(ReportOf(result, groups, policy))
  <2> DEFINE x == ReportOf(result, groups, policy)
  <2>1. x.kind = "report" /\ x.result = result /\ x.groups = groups /\ x.policy = policy
    BY DEF ReportOf
  <2>2. AsCompiled(x)
    BY <2>1 DEF AsCompiled
  <2> HIDE DEF x
  <2>3. WellMade(x) /\ TrueToWord(x)
    BY <1>1, <2>1, <2>2
       DEF WellMade, TrueToWord, TakenAtTheirWord, OfOneLineage, RepeatsAnOriginal,
           PaidWasApproved, ShowsOnePreview
  <2>4. MadeFrom(x) = {result, groups, result.revision}
    BY <2>1 DEF MadeFrom
  <2> QED BY <1>1, <2>3, <2>4 DEF Sound, x
<1>2. CASE CompileReport
  <2>1. PICK document \in Documents, revision \in Revisions, result \in Results, groups
     \in OfKind("groups"), policy \in ReportPolicies :
          Answer(ReportOf(result, groups, policy),
              ReportFault(document, revision, result, groups, policy), TRUE)
    BY <1>2 DEF CompileReport
  <2>2. ReportFault(document, revision, result, groups, policy) = Fine =>
           /\ Sound(revision) /\ Sound(result) /\ Sound(groups)
           /\ result.revision = revision /\ groups.result = result
    BY ReportAccepted
  <2>3. ReportFault(document, revision, result, groups, policy) = Fine =>
           WellMade(ReportOf(result, groups, policy))
               /\ MadeFrom(ReportOf(result, groups, policy)) \cap drifted = {}
               /\ TrueToWord(ReportOf(result, groups, policy))
    BY <1>1, <2>1, <2>2
  <2> QED BY <2>1, <2>3, Registers
<1>3. CASE LoadReport
  <2>1. PICK document \in Documents, revision \in Revisions, result \in Results, groups
     \in OfKind("groups"), policy \in ReportPolicies, damaged \in OneWrong(ReportParts) :
          /\ wire.of.kind = "report"
          /\ Answer(ReportOf(result, groups, policy),
                 ReportLoadFault(wire.of, Damage(damaged), document, revision, result, groups,
                     policy),
                    Damage(damaged) = {} /\ wire.of = ReportOf(result, groups, policy))
    BY <1>3 DEF LoadReport
  <2>2. WellMade(wire.of) /\ Damage(damaged) \subseteq ReportParts
    BY <2>1, StoredIsWellMade
  <2>3. ASSUME ReportLoadFault(wire.of, Damage(damaged), document, revision, result, groups,
            policy) = Fine
        PROVE  /\ Sound(revision) /\ Sound(result) /\ Sound(groups)
               /\ result.revision = revision /\ groups.result = result
               /\ Damage(damaged) = {} /\ wire.of = ReportOf(result, groups, policy)
    <3>1. /\ Sound(revision) /\ Sound(result) /\ Sound(groups)
          /\ result.revision = revision /\ groups.result = result
          /\ wire.of.result = result /\ wire.of.groups = groups /\ wire.of.policy = policy
          /\ ReportParts \cap Damage(damaged) = {}
      BY <2>3, ReportLoadAccepted
    <3>2. wire.of = ReportOf(wire.of.result, wire.of.groups, wire.of.policy)
      BY <2>1, <2>2 DEF WellMade, AsCompiled
    <3> QED BY <2>2, <3>1, <3>2
  <2>4. ReportLoadFault(wire.of, Damage(damaged), document, revision, result, groups,
            policy) = Fine =>
           WellMade(ReportOf(result, groups, policy))
               /\ MadeFrom(ReportOf(result, groups, policy)) \cap drifted = {}
               /\ TrueToWord(ReportOf(result, groups, policy))
    BY <1>1, <2>1, <2>3
  <2> QED BY <2>1, <2>3, <2>4, Registers
<1> QED BY <1>2, <1>3

(* Emphasis events: of a result, its groups, a policy and some intents.     *)
LEMMA EventsAnswered == ASSUME RegistryInv, CompileEvents \/ LoadEvents PROVE Answered
<1>1. ASSUME NEW revision, NEW result, NEW groups, NEW snapshot, NEW intents,
             Sound(revision) /\ Sound(result) /\ Sound(groups) /\ Sound(snapshot),
             result.revision = revision /\ groups.result = result
      PROVE  WellMade(EventsOf(result, groups, snapshot, intents))
          /\ MadeFrom(EventsOf(result, groups, snapshot, intents)) \cap drifted = {}
          /\ TrueToWord(EventsOf(result, groups, snapshot, intents))
  <2> DEFINE x == EventsOf(result, groups, snapshot, intents)
  <2>1. x.kind = "events" /\ x.result = result /\ x.groups = groups /\ x.snapshot = snapshot
            /\ x.intents = intents
    BY DEF EventsOf
  <2>2. AsCompiled(x)
    BY <2>1 DEF AsCompiled
  <2> HIDE DEF x
  <2>3. WellMade(x) /\ TrueToWord(x)
    BY <1>1, <2>1, <2>2
       DEF WellMade, TrueToWord, TakenAtTheirWord, OfOneLineage, RepeatsAnOriginal,
           PaidWasApproved, ShowsOnePreview
  <2>4. MadeFrom(x) = {result, groups, snapshot, result.revision}
    BY <2>1 DEF MadeFrom
  <2> QED BY <1>1, <2>3, <2>4 DEF Sound, x
<1>2. CASE CompileEvents
  <2>1. PICK document \in Documents, revision \in Revisions, result \in Results, groups
     \in OfKind("groups"), snapshot \in OfKind("snapshot"), manifest \in Manifests,
     intents \in Intents :
          Answer(EventsOf(result, groups, snapshot, intents),
              EventsFault(document, revision, result, groups, snapshot, manifest), TRUE)
    BY <1>2 DEF CompileEvents
  <2>2. EventsFault(document, revision, result, groups, snapshot, manifest) = Fine =>
           /\ Sound(revision) /\ Sound(result) /\ Sound(groups) /\ Sound(snapshot)
           /\ result.revision = revision /\ groups.result = result
    BY EventsAccepted
  <2>3. EventsFault(document, revision, result, groups, snapshot, manifest) = Fine =>
           WellMade(EventsOf(result, groups, snapshot, intents))
               /\ MadeFrom(EventsOf(result, groups, snapshot, intents)) \cap drifted = {}
               /\ TrueToWord(EventsOf(result, groups, snapshot, intents))
    BY <1>1, <2>1, <2>2
  <2> QED BY <2>1, <2>3, Registers
<1>3. CASE LoadEvents
  <2>1. PICK document \in Documents, revision \in Revisions, result \in Results, groups
     \in OfKind("groups"), snapshot \in OfKind("snapshot"), manifest \in Manifests,
     intents \in Intents, damaged \in OneWrong(EventsParts) :
          /\ wire.of.kind = "events"
          /\ Answer(EventsOf(result, groups, snapshot, intents),
                 EventsLoadFault(wire.of, Damage(damaged), document, revision, result, groups,
                     snapshot, manifest, intents),
                    Damage(damaged) = {} /\ wire.of = EventsOf(result, groups, snapshot, intents))
    BY <1>3 DEF LoadEvents
  <2>2. WellMade(wire.of) /\ Damage(damaged) \subseteq EventsParts
    BY <2>1, StoredIsWellMade
  <2>3. ASSUME EventsLoadFault(wire.of, Damage(damaged), document, revision, result, groups,
            snapshot, manifest, intents) = Fine
        PROVE  /\ Sound(revision) /\ Sound(result) /\ Sound(groups) /\ Sound(snapshot)
               /\ result.revision = revision /\ groups.result = result
               /\ Damage(damaged) = {} /\ wire.of = EventsOf(result, groups, snapshot, intents)
    <3>1. /\ Sound(revision) /\ Sound(result) /\ Sound(groups) /\ Sound(snapshot)
          /\ result.revision = revision /\ groups.result = result
          /\ wire.of.result = result /\ wire.of.groups = groups /\ wire.of.snapshot = snapshot
                 /\ wire.of.intents = intents
          /\ EventsParts \cap Damage(damaged) = {}
      BY <2>3, EventsLoadAccepted
    <3>2. wire.of = EventsOf(wire.of.result, wire.of.groups, wire.of.snapshot, wire.of.intents)
      BY <2>1, <2>2 DEF WellMade, AsCompiled
    <3> QED BY <2>2, <3>1, <3>2
  <2>4. EventsLoadFault(wire.of, Damage(damaged), document, revision, result, groups, snapshot,
            manifest, intents) = Fine =>
           WellMade(EventsOf(result, groups, snapshot, intents))
               /\ MadeFrom(EventsOf(result, groups, snapshot, intents)) \cap drifted = {}
               /\ TrueToWord(EventsOf(result, groups, snapshot, intents))
    BY <1>1, <2>1, <2>3
  <2> QED BY <2>1, <2>3, <2>4, Registers
<1> QED BY <1>2, <1>3

(* Word-to-frame artifacts: of a result, its groups and their events.       *)
LEMMA FramesAnswered == ASSUME RegistryInv, CompileFrames \/ LoadFrames PROVE Answered
<1>1. ASSUME NEW result, NEW groups, NEW events, NEW rate,
             Sound(result) /\ Sound(groups) /\ Sound(events),
             groups.result = result /\ events.result = result /\ events.groups = groups
      PROVE  WellMade(FramesOf(result, groups, events, rate))
          /\ MadeFrom(FramesOf(result, groups, events, rate)) \cap drifted = {}
          /\ TrueToWord(FramesOf(result, groups, events, rate))
  <2> DEFINE x == FramesOf(result, groups, events, rate)
  <2>1. x.kind = "frames" /\ x.result = result /\ x.groups = groups /\ x.events = events
            /\ x.rate = rate
    BY DEF FramesOf
  <2>2. AsCompiled(x)
    BY <2>1 DEF AsCompiled
  <2> HIDE DEF x
  <2>3. WellMade(x) /\ TrueToWord(x)
    BY <1>1, <2>1, <2>2
       DEF WellMade, TrueToWord, TakenAtTheirWord, OfOneLineage, RepeatsAnOriginal,
           PaidWasApproved, ShowsOnePreview
  <2>4. MadeFrom(x) = {result, groups, events}
    BY <2>1 DEF MadeFrom
  <2> QED BY <1>1, <2>3, <2>4 DEF Sound, x
<1>2. CASE CompileFrames
  <2>1. PICK result \in Results, groups \in OfKind("groups"), events \in OfKind("events"),
     rate \in Rates :
          Answer(FramesOf(result, groups, events, rate),
              FramesFault(result, groups, events, rate), TRUE)
    BY <1>2 DEF CompileFrames
  <2>2. FramesFault(result, groups, events, rate) = Fine =>
           /\ Sound(result) /\ Sound(groups) /\ Sound(events)
           /\ groups.result = result /\ events.result = result /\ events.groups = groups
    BY FramesAccepted
  <2>3. FramesFault(result, groups, events, rate) = Fine =>
           WellMade(FramesOf(result, groups, events, rate))
               /\ MadeFrom(FramesOf(result, groups, events, rate)) \cap drifted = {}
               /\ TrueToWord(FramesOf(result, groups, events, rate))
    BY <1>1, <2>1, <2>2
  <2> QED BY <2>1, <2>3, Registers
<1>3. CASE LoadFrames
  <2>1. PICK result \in Results, groups \in OfKind("groups"), events \in OfKind("events"),
     rate \in Rates, damaged \in OneWrong(FramesParts) :
          /\ wire.of.kind = "frames"
          /\ Answer(FramesOf(result, groups, events, rate),
                 FramesLoadFault(wire.of, Damage(damaged), result, groups, events, rate),
                    Damage(damaged) = {} /\ wire.of = FramesOf(result, groups, events, rate))
    BY <1>3 DEF LoadFrames
  <2>2. WellMade(wire.of) /\ Damage(damaged) \subseteq FramesParts
    BY <2>1, StoredIsWellMade
  <2>3. ASSUME FramesLoadFault(wire.of, Damage(damaged), result, groups, events, rate) = Fine
        PROVE  /\ Sound(result) /\ Sound(groups) /\ Sound(events)
               /\ groups.result = result /\ events.result = result /\ events.groups = groups
               /\ Damage(damaged) = {} /\ wire.of = FramesOf(result, groups, events, rate)
    <3>1. /\ Sound(result) /\ Sound(groups) /\ Sound(events)
          /\ groups.result = result /\ events.result = result /\ events.groups = groups
          /\ wire.of.result = result /\ wire.of.groups = groups /\ wire.of.events = events
                 /\ wire.of.rate = rate
          /\ FramesParts \cap Damage(damaged) = {}
      BY <2>3, FramesLoadAccepted
    <3>2. wire.of = FramesOf(wire.of.result, wire.of.groups, wire.of.events, wire.of.rate)
      BY <2>1, <2>2 DEF WellMade, AsCompiled
    <3> QED BY <2>2, <3>1, <3>2
  <2>4. FramesLoadFault(wire.of, Damage(damaged), result, groups, events, rate) = Fine =>
           WellMade(FramesOf(result, groups, events, rate))
               /\ MadeFrom(FramesOf(result, groups, events, rate)) \cap drifted = {}
               /\ TrueToWord(FramesOf(result, groups, events, rate))
    BY <1>1, <2>1, <2>3
  <2> QED BY <2>1, <2>3, <2>4, Registers
<1> QED BY <1>2, <1>3

(* Previews: of frames and the groups and events these are of.             *)
LEMMA PreviewAnswered == ASSUME RegistryInv, CompilePreview \/ LoadPreview PROVE Answered
<1>1. ASSUME NEW groups, NEW events, NEW frames, NEW layout,
             Sound(groups) /\ Sound(events) /\ Sound(frames),
             frames.groups = groups /\ frames.events = events
      PROVE  WellMade(PreviewOf(groups, events, frames, layout))
          /\ MadeFrom(PreviewOf(groups, events, frames, layout)) \cap drifted = {}
          /\ TrueToWord(PreviewOf(groups, events, frames, layout))
  <2> DEFINE x == PreviewOf(groups, events, frames, layout)
  <2>1. x.kind = "preview" /\ x.groups = groups /\ x.events = events /\ x.frames = frames
            /\ x.layout = layout
    BY DEF PreviewOf
  <2>2. AsCompiled(x)
    BY <2>1 DEF AsCompiled
  <2> HIDE DEF x
  <2>3. WellMade(x) /\ TrueToWord(x)
    BY <1>1, <2>1, <2>2
       DEF WellMade, TrueToWord, TakenAtTheirWord, OfOneLineage, RepeatsAnOriginal,
           PaidWasApproved, ShowsOnePreview
  <2>4. MadeFrom(x) = {groups, events, frames}
    BY <2>1 DEF MadeFrom
  <2> QED BY <1>1, <2>3, <2>4 DEF Sound, x
<1>2. CASE CompilePreview
  <2>1. PICK groups \in OfKind("groups"), events \in OfKind("events"), frames \in
     OfKind("frames"), layout \in Layouts :
          Answer(PreviewOf(groups, events, frames, layout),
              PreviewDeclared(groups, events, frames, layout), TRUE)
    BY <1>2 DEF CompilePreview
  <2>2. PreviewDeclared(groups, events, frames, layout) = Fine =>
           /\ Sound(groups) /\ Sound(events) /\ Sound(frames)
           /\ frames.groups = groups /\ frames.events = events
    BY PreviewAccepted
  <2>3. PreviewDeclared(groups, events, frames, layout) = Fine =>
           WellMade(PreviewOf(groups, events, frames, layout))
               /\ MadeFrom(PreviewOf(groups, events, frames, layout)) \cap drifted = {}
               /\ TrueToWord(PreviewOf(groups, events, frames, layout))
    BY <1>1, <2>1, <2>2
  <2> QED BY <2>1, <2>3, Registers
<1>3. CASE LoadPreview
  <2>1. PICK groups \in OfKind("groups"), events \in OfKind("events"), frames \in
     OfKind("frames"), layout \in Layouts, damaged \in OneWrong(PreviewParts) :
          /\ wire.of.kind = "preview"
          /\ Answer(PreviewOf(groups, events, frames, layout),
                 PreviewLoadFault(wire.of, Damage(damaged), groups, events, frames, layout),
                    Damage(damaged) = {} /\ wire.of = PreviewOf(groups, events, frames, layout))
    BY <1>3 DEF LoadPreview
  <2>2. WellMade(wire.of) /\ Damage(damaged) \subseteq PreviewParts
    BY <2>1, StoredIsWellMade
  <2>3. ASSUME PreviewLoadFault(wire.of, Damage(damaged), groups, events, frames, layout) = Fine
        PROVE  /\ Sound(groups) /\ Sound(events) /\ Sound(frames)
               /\ frames.groups = groups /\ frames.events = events
               /\ Damage(damaged) = {} /\ wire.of = PreviewOf(groups, events, frames, layout)
    <3>1. /\ Sound(groups) /\ Sound(events) /\ Sound(frames)
          /\ frames.groups = groups /\ frames.events = events
          /\ wire.of = PreviewOf(groups, events, frames, layout)
          /\ PreviewParts \cap Damage(damaged) = {}
      BY <2>3, PreviewLoadAccepted
    <3>2. wire.of = PreviewOf(wire.of.groups, wire.of.events, wire.of.frames, wire.of.layout)
      BY <2>1, <2>2 DEF WellMade, AsCompiled
    <3> QED BY <2>2, <3>1, <3>2
  <2>4. PreviewLoadFault(wire.of, Damage(damaged), groups, events, frames, layout) = Fine =>
           WellMade(PreviewOf(groups, events, frames, layout))
               /\ MadeFrom(PreviewOf(groups, events, frames, layout)) \cap drifted = {}
               /\ TrueToWord(PreviewOf(groups, events, frames, layout))
    BY <1>1, <2>1, <2>3
  <2> QED BY <2>1, <2>3, <2>4, Registers
<1> QED BY <1>2, <1>3

(* Collision reports: of one preview.                                      *)
LEMMA CollisionAnswered == ASSUME RegistryInv, CompileCollision \/ LoadCollision PROVE Answered
<1>1. ASSUME NEW preview,
             Sound(preview)
      PROVE  WellMade(CollisionOf(preview)) /\ MadeFrom(CollisionOf(preview)) \cap drifted = {}
             /\ TrueToWord(CollisionOf(preview))
  <2> DEFINE x == CollisionOf(preview)
  <2>1. x.kind = "collision" /\ x.preview = preview
    BY DEF CollisionOf
  <2>2. AsCompiled(x)
    BY <2>1 DEF AsCompiled
  <2> HIDE DEF x
  <2>3. WellMade(x) /\ TrueToWord(x)
    BY <1>1, <2>1, <2>2
       DEF WellMade, TrueToWord, TakenAtTheirWord, OfOneLineage, RepeatsAnOriginal,
           PaidWasApproved, ShowsOnePreview
  <2>4. MadeFrom(x) = {preview}
    BY <2>1 DEF MadeFrom
  <2> QED BY <1>1, <2>3, <2>4 DEF Sound, x
<1>2. CASE CompileCollision
  <2>1. PICK preview \in OfKind("preview") :
          Answer(CollisionOf(preview), CollisionFault(preview), TRUE)
    BY <1>2 DEF CompileCollision
  <2>2. CollisionFault(preview) = Fine =>
           /\ Sound(preview)
    BY CollisionAccepted
  <2>3. CollisionFault(preview) = Fine =>
           WellMade(CollisionOf(preview)) /\ MadeFrom(CollisionOf(preview)) \cap drifted = {}
           /\ TrueToWord(CollisionOf(preview))
    BY <1>1, <2>1, <2>2
  <2> QED BY <2>1, <2>3, Registers
<1>3. CASE LoadCollision
  <2>1. PICK preview \in OfKind("preview"), damaged \in OneWrong(CollisionParts \cup
     FindingParts) :
          /\ wire.of.kind = "collision"
          /\ Answer(CollisionOf(preview), CollisionLoadFault(wire.of, Damage(damaged), preview),
                    Damage(damaged) = {} /\ wire.of = CollisionOf(preview))
    BY <1>3 DEF LoadCollision
  <2>2. WellMade(wire.of) /\ Damage(damaged) \subseteq CollisionParts \cup FindingParts
    BY <2>1, StoredIsWellMade
  <2>3. ASSUME CollisionLoadFault(wire.of, Damage(damaged), preview) = Fine
        PROVE  /\ Sound(preview)
               /\ Damage(damaged) = {} /\ wire.of = CollisionOf(preview)
    <3>1. /\ Sound(preview)
          /\ wire.of.preview = preview
          /\ (CollisionParts \cup FindingParts) \cap Damage(damaged) = {}
      BY <2>3, CollisionLoadAccepted
    <3>2. wire.of = CollisionOf(wire.of.preview)
      BY <2>1, <2>2 DEF WellMade, AsCompiled
    <3> QED BY <2>2, <3>1, <3>2
  <2>4. CollisionLoadFault(wire.of, Damage(damaged), preview) = Fine =>
           WellMade(CollisionOf(preview)) /\ MadeFrom(CollisionOf(preview)) \cap drifted = {}
           /\ TrueToWord(CollisionOf(preview))
    BY <1>1, <2>1, <2>3
  <2> QED BY <2>1, <2>3, <2>4, Registers
<1> QED BY <1>2, <1>3

(* Edit lists: of a preview that is of one lineage, and of its report.      *)
LEMMA VideoAnswered == ASSUME RegistryInv, CompileVideo \/ LoadVideo PROVE Answered
<1>1. ASSUME NEW groups, NEW events, NEW frames, NEW preview \in OfKind("preview"), NEW
   report, NEW cuts,
             Sound(groups) /\ Sound(events) /\ Sound(frames),
             Sound(preview) /\ Sound(report),
             preview.groups = groups /\ preview.events = events /\ preview.frames = frames
                 /\ report.preview = preview
      PROVE  WellMade(VideoOf(preview, report, cuts))
          /\ MadeFrom(VideoOf(preview, report, cuts)) \cap drifted = {}
          /\ TrueToWord(VideoOf(preview, report, cuts))
  <2> DEFINE x == VideoOf(preview, report, cuts)
  <2>1. x.kind = "video" /\ x.preview = preview /\ x.report = report /\ x.cuts = cuts
    BY DEF VideoOf
  <2>2. preview.frames.groups = preview.groups
    BY <1>1 DEF Sound, OfKind, RegistryInv, WellMade, OfOneLineage, TakenAtTheirWord
  <2>3. AsCompiled(x)
    BY <2>1 DEF AsCompiled
  <2> HIDE DEF x
  <2>4. WellMade(x) /\ TrueToWord(x)
    BY <1>1, <2>1, <2>2, <2>3
       DEF WellMade, TrueToWord, TakenAtTheirWord, OfOneLineage, RepeatsAnOriginal,
           PaidWasApproved, ShowsOnePreview
  <2>5. MadeFrom(x) = {preview.groups, preview.events, preview.frames, preview, report}
    BY <2>1 DEF MadeFrom
  <2> QED BY <1>1, <2>2, <2>4, <2>5 DEF Sound, x
<1>2. CASE CompileVideo
  <2>1. PICK groups \in OfKind("groups"), events \in OfKind("events"), frames \in
     OfKind("frames"), preview \in OfKind("preview"), report \in OfKind("collision"), rate
     \in Rates, cuts \in Cuts :
          Answer(VideoOf(preview, report, cuts),
              VideoDeclared(groups, events, frames, preview, report, rate, cuts), TRUE)
    BY <1>2 DEF CompileVideo
  <2>2. VideoDeclared(groups, events, frames, preview, report, rate, cuts) = Fine =>
           /\ Sound(groups) /\ Sound(events) /\ Sound(frames)
           /\ Sound(preview) /\ Sound(report)
           /\ preview.groups = groups /\ preview.events = events /\ preview.frames = frames
                  /\ report.preview = preview
    BY VideoAccepted
  <2>3. VideoDeclared(groups, events, frames, preview, report, rate, cuts) = Fine =>
           WellMade(VideoOf(preview, report, cuts))
               /\ MadeFrom(VideoOf(preview, report, cuts)) \cap drifted = {}
               /\ TrueToWord(VideoOf(preview, report, cuts))
    BY <1>1, <2>1, <2>2
  <2> QED BY <2>1, <2>3, Registers
<1>3. CASE LoadVideo
  <2>1. PICK groups \in OfKind("groups"), events \in OfKind("events"), frames \in
     OfKind("frames"), preview \in OfKind("preview"), report \in OfKind("collision"), rate
     \in Rates, cuts \in Cuts, damaged \in OneWrong(VideoParts) :
          /\ wire.of.kind = "video"
          /\ Answer(VideoOf(preview, report, cuts),
                 VideoLoadFault(wire.of, Damage(damaged), groups, events, frames, preview,
                     report, rate, cuts),
                    Damage(damaged) = {} /\ wire.of = VideoOf(preview, report, cuts))
    BY <1>3 DEF LoadVideo
  <2>2. WellMade(wire.of) /\ Damage(damaged) \subseteq VideoParts
    BY <2>1, StoredIsWellMade
  <2>3. ASSUME VideoLoadFault(wire.of, Damage(damaged), groups, events, frames, preview, report,
            rate, cuts) = Fine
        PROVE  /\ Sound(groups) /\ Sound(events) /\ Sound(frames)
               /\ Sound(preview) /\ Sound(report)
               /\ preview.groups = groups /\ preview.events = events /\ preview.frames = frames
                      /\ report.preview = preview
               /\ Damage(damaged) = {} /\ wire.of = VideoOf(preview, report, cuts)
    <3>1. /\ Sound(groups) /\ Sound(events) /\ Sound(frames)
          /\ Sound(preview) /\ Sound(report)
          /\ preview.groups = groups /\ preview.events = events /\ preview.frames = frames
                 /\ report.preview = preview
          /\ wire.of.preview = preview /\ wire.of.report = report /\ wire.of.cuts = cuts
          /\ VideoParts \cap Damage(damaged) = {}
      BY <2>3, VideoLoadAccepted
    <3>2. wire.of = VideoOf(wire.of.preview, wire.of.report, wire.of.cuts)
      BY <2>1, <2>2 DEF WellMade, AsCompiled
    <3> QED BY <2>2, <3>1, <3>2
  <2>4. VideoLoadFault(wire.of, Damage(damaged), groups, events, frames, preview, report, rate,
            cuts) = Fine =>
           WellMade(VideoOf(preview, report, cuts))
               /\ MadeFrom(VideoOf(preview, report, cuts)) \cap drifted = {}
               /\ TrueToWord(VideoOf(preview, report, cuts))
    BY <1>1, <2>1, <2>3
  <2> QED BY <2>1, <2>3, <2>4, Registers
<1> QED BY <1>2, <1>3

(* Soundtracks: of a video, and of a recording of its revision.             *)
LEMMA SoundtrackAnswered == ASSUME RegistryInv, CompileSoundtrack \/ LoadSoundtrack PROVE Answered
<1>1. ASSUME NEW video \in OfKind("video"), NEW frames \in OfKind("frames"),
             NEW audio \in Objects("audio"), NEW sounds,
             Sound(video) /\ Sound(frames),
             video.preview.frames = frames /\ audio.says.revision = frames.result.revision.n
      PROVE  WellMade(SoundtrackOf(video, audio.is, sounds))
          /\ MadeFrom(SoundtrackOf(video, audio.is, sounds)) \cap drifted = {}
          /\ TrueToWord(SoundtrackOf(video, audio.is, sounds))
  <2> DEFINE x == SoundtrackOf(video, audio.is, sounds)
  <2>1. x.kind = "soundtrack" /\ x.video = video /\ x.audio = audio.is /\ x.sounds = sounds
    BY DEF SoundtrackOf
  <2>2. video.preview.frames.groups = video.preview.groups
    BY <1>1 DEF Sound, OfKind, RegistryInv, WellMade, ShowsOnePreview
  <2>3. frames.groups.result = frames.result
    BY <1>1 DEF Sound, OfKind, RegistryInv, WellMade, OfOneLineage, TakenAtTheirWord
  <2>4. audio.says.revision = video.preview.groups.result.revision.n
    BY <1>1, <2>2, <2>3
  <2>5. AsCompiled(x)
    BY <2>1 DEF AsCompiled
  <2> HIDE DEF x
  <2>6. TakenAtTheirWord(x) = {audio.is}
    BY <2>1 DEF TakenAtTheirWord
  <2>7. WellMade(x)
    BY <2>1, <2>5, <2>6 DEF WellMade, PaidWasApproved, ShowsOnePreview
  <2>8. audio.is \notin drifted => audio.says = audio.is
    BY ObjectsRead, ObjectRead
  <2>9. TrueToWord(x)
    BY <2>1, <2>4, <2>6, <2>8 DEF TrueToWord, OfOneLineage, RepeatsAnOriginal
  <2>10. MadeFrom(x) = {video, video.preview.frames}
    BY <2>1 DEF MadeFrom
  <2> QED BY <1>1, <2>7, <2>9, <2>10 DEF Sound, x
<1>2. CASE CompileSoundtrack
  <2>1. PICK video \in OfKind("video"), frames \in OfKind("frames"), audio \in
     Objects("audio"), sounds \in Sounds :
          Answer(SoundtrackOf(video, audio.is, sounds),
              SoundtrackDeclared(video, frames, audio, sounds), TRUE)
    BY <1>2 DEF CompileSoundtrack
  <2>2. SoundtrackDeclared(video, frames, audio, sounds) = Fine =>
           /\ Sound(video) /\ Sound(frames)
           /\ video.preview.frames = frames /\ audio.says.revision = frames.result.revision.n
    BY SoundtrackAccepted
  <2>3. SoundtrackDeclared(video, frames, audio, sounds) = Fine =>
           WellMade(SoundtrackOf(video, audio.is, sounds))
               /\ MadeFrom(SoundtrackOf(video, audio.is, sounds)) \cap drifted = {}
               /\ TrueToWord(SoundtrackOf(video, audio.is, sounds))
    BY <1>1, <2>1, <2>2
  <2> QED BY <2>1, <2>3, Registers
<1>3. CASE LoadSoundtrack
  <2>1. PICK video \in OfKind("video"), frames \in OfKind("frames"), audio \in
     Objects("audio"), sounds \in Sounds, damaged \in OneWrong(SoundtrackParts) :
          /\ wire.of.kind = "soundtrack"
          /\ Answer(SoundtrackOf(video, audio.is, sounds),
                 SoundtrackLoadFault(wire.of, Damage(damaged), video, frames, audio, sounds),
                    Damage(damaged) = {} /\ wire.of = SoundtrackOf(video, audio.is, sounds))
    BY <1>3 DEF LoadSoundtrack
  <2>2. WellMade(wire.of) /\ Damage(damaged) \subseteq SoundtrackParts
    BY <2>1, StoredIsWellMade
  <2>3. ASSUME SoundtrackLoadFault(wire.of, Damage(damaged), video, frames, audio, sounds) = Fine
        PROVE  /\ Sound(video) /\ Sound(frames)
               /\ video.preview.frames = frames /\ audio.says.revision = frames.result.revision.n
               /\ Damage(damaged) = {} /\ wire.of = SoundtrackOf(video, audio.is, sounds)
    <3>1. /\ Sound(video) /\ Sound(frames)
          /\ video.preview.frames = frames /\ audio.says.revision = frames.result.revision.n
          /\ wire.of.video = video /\ wire.of.audio = audio.is /\ wire.of.sounds = sounds
          /\ SoundtrackParts \cap Damage(damaged) = {}
      BY <2>3, SoundtrackLoadAccepted
    <3>2. wire.of = SoundtrackOf(wire.of.video, wire.of.audio, wire.of.sounds)
      BY <2>1, <2>2 DEF WellMade, AsCompiled
    <3> QED BY <2>2, <3>1, <3>2
  <2>4. SoundtrackLoadFault(wire.of, Damage(damaged), video, frames, audio, sounds) = Fine =>
           WellMade(SoundtrackOf(video, audio.is, sounds))
               /\ MadeFrom(SoundtrackOf(video, audio.is, sounds)) \cap drifted = {}
               /\ TrueToWord(SoundtrackOf(video, audio.is, sounds))
    BY <1>1, <2>1, <2>3
  <2> QED BY <2>1, <2>3, <2>4, Registers
<1> QED BY <1>2, <1>3

(* Publications: of one chain, the frames as they were computed.            *)
LEMMA PublicationAnswered == ASSUME RegistryInv, PublishTimings PROVE Answered
<1>1. ASSUME NEW result, NEW groups, NEW events, NEW frames \in OfKind("frames"),
             Sound(result) /\ Sound(groups) /\ Sound(events) /\ Sound(frames),
             frames.result = result /\ frames.groups = groups /\ frames.events = events
      PROVE  WellMade(PublicationOf(result, groups, events, frames))
          /\ MadeFrom(PublicationOf(result, groups, events, frames)) \cap drifted = {}
          /\ TrueToWord(PublicationOf(result, groups, events, frames))
  <2> DEFINE x == PublicationOf(result, groups, events, frames)
  <2>1. x.kind = "publication" /\ x.result = result /\ x.groups = groups /\ x.events = events
            /\ x.frames = frames
    BY DEF PublicationOf
  <2>2. frames = FramesOf(frames.result, frames.groups, frames.events, frames.rate)
    BY <1>1 DEF Sound, OfKind, RegistryInv, WellMade, AsCompiled
  <2>3. AsCompiled(x)
    BY <2>1 DEF AsCompiled
  <2> HIDE DEF x
  <2>4. WellMade(x) /\ TrueToWord(x)
    BY <1>1, <2>1, <2>2, <2>3
       DEF WellMade, TrueToWord, TakenAtTheirWord, OfOneLineage, RepeatsAnOriginal,
           PaidWasApproved, ShowsOnePreview
  <2>5. MadeFrom(x) = {result, groups, events, frames}
    BY <2>1 DEF MadeFrom
  <2> QED BY <1>1, <2>2, <2>4, <2>5 DEF Sound, x
<1>2. CASE PublishTimings
  <2>1. PICK result \in Results, groups \in OfKind("groups"), events \in OfKind("events"),
     frames \in OfKind("frames") :
          Answer(PublicationOf(result, groups, events, frames),
              PublicationFault(result, groups, events, frames), TRUE)
    BY <1>2 DEF PublishTimings
  <2>2. PublicationFault(result, groups, events, frames) = Fine =>
           /\ Sound(result) /\ Sound(groups) /\ Sound(events) /\ Sound(frames)
           /\ frames.result = result /\ frames.groups = groups /\ frames.events = events
    BY PublicationAccepted
  <2>3. PublicationFault(result, groups, events, frames) = Fine =>
           WellMade(PublicationOf(result, groups, events, frames))
               /\ MadeFrom(PublicationOf(result, groups, events, frames)) \cap drifted = {}
               /\ TrueToWord(PublicationOf(result, groups, events, frames))
    BY <1>1, <2>1, <2>2
  <2> QED BY <2>1, <2>3, Registers
<1> QED BY <1>2
-----------------------------------------------------------------------------
(* Steps.                                                                  *)

Fresh == made' \ made
UnalteredOnly == \A x \in Fresh : MadeFrom(x) \cap drifted = {} /\ TrueToWord(x)

LEMMA AnswersKeep == ASSUME RegistryInv, Answered PROVE RegistryInv' /\ UnalteredOnly
<1>1. held' = held /\ wire' = wire
  BY DEF Answered
<1>2. CASE made' = made /\ reply'.verdict # Fine
  BY <1>1, <1>2
      DEF RegistryInv, FilesAreExact, AcceptedIsExact, WrittenIsSound, UnalteredOnly, Fresh
<1>3. CASE \E x : Registered(x)
  <2>1. PICK x : Registered(x)
    BY <1>3
  <2>2. /\ made' = made \cup {x} /\ reply'.exact
        /\ WellMade(x) /\ MadeFrom(x) \cap drifted = {} /\ TrueToWord(x)
    BY <2>1 DEF Registered
  <2>3. RegistryInv'
    BY <1>1, <2>2 DEF RegistryInv, FilesAreExact, AcceptedIsExact, WrittenIsSound
  <2>4. UnalteredOnly
    BY <2>2 DEF UnalteredOnly, Fresh
  <2> QED BY <2>3, <2>4
<1> QED BY <1>2, <1>3 DEF Answered

LEMMA WritesKeep ==
  ASSUME RegistryInv, NEW x \in made, NEW refused \in BOOLEAN, Write(x, refused),
         x \in drifted => refused \/ x.kind \in {"request", "execution"}
  PROVE  RegistryInv' /\ UnalteredOnly
<1>1. held' = held /\ made' = made
  BY DEF Write
<1>2. UnalteredOnly
  BY <1>1 DEF UnalteredOnly, Fresh
<1>3. CASE refused
  <2>1. reply'.verdict # Fine /\ wire' = wire
    BY <1>3 DEF Write, Fine
  <2> QED BY <1>1, <1>2, <2>1 DEF RegistryInv, FilesAreExact, AcceptedIsExact, WrittenIsSound
<1>4. CASE ~refused
  <2>1. wire' = [of |-> x, altered |-> x \in drifted] /\ reply' = reply
    BY <1>4 DEF Write
  <2>2. wire'.of = x /\ (wire'.altered => x \in drifted)
    BY <2>1
  <2>3. WellMade(x)
    BY DEF RegistryInv
  <2> QED BY <1>1, <1>2, <1>4, <2>1, <2>2, <2>3
          DEF RegistryInv, FilesAreExact, AcceptedIsExact, WrittenIsSound
<1> QED BY <1>3, <1>4

(* The serializers that compare the object with what was registered.       *)
LEMMA SerializersKeep ==
  ASSUME RegistryInv,
         \/ WriteRequest \/ WriteExecution \/ WriteResult \/ WriteGroups \/ WriteReport
         \/ WriteEvents \/ WriteFrames \/ WritePreview \/ WriteCollision \/ WriteVideo
         \/ WriteSoundtrack \/ WriteReceipt
  PROVE  RegistryInv' /\ UnalteredOnly
<1>1. CASE WriteRequest \/ WriteExecution
  <2>1. PICK x \in held \cap drifted : x.kind \in {"request", "execution"} /\ Write(x, FALSE)
    BY <1>1 DEF WriteRequest, WriteExecution
  <2>2. x \in made
    BY <2>1 DEF Write
  <2> QED BY <2>1, <2>2, WritesKeep
<1>2. CASE ~(WriteRequest \/ WriteExecution)
  <2>1. \E x : Write(x, x \in drifted)
    BY <1>2 DEF WriteResult, WriteGroups, WriteReport, WriteEvents, WriteFrames, WritePreview,
       WriteCollision, WriteVideo, WriteSoundtrack, WriteReceipt
  <2>2. PICK x : Write(x, x \in drifted)
    BY <2>1
  <2>3. x \in made /\ (x \in drifted) \in BOOLEAN
    BY <2>2 DEF Write
  <2> QED BY <2>2, <2>3, WritesKeep
<1> QED BY <1>1, <1>2

LEMMA NextKeeps == ASSUME RegistryInv, Next PROVE RegistryInv' /\ UnalteredOnly
<1>1. CASE MaterializeRequest \/ MaterializeExecution \/ MaterializeResult
  BY <1>1, RequestsAreAnswered, ExecutionsAreAnswered, ResultsAreAnswered, AnswersKeep
<1>2. CASE CompileGroups \/ LoadGroups \/ CompileReport \/ LoadReport \/ CompileEvents \/ LoadEvents
  BY <1>2, GroupsAnswered, ReportAnswered, EventsAnswered, AnswersKeep
<1>3. CASE CompileFrames \/ LoadFrames \/ CompilePreview \/ LoadPreview
           \/ CompileCollision \/ LoadCollision
  BY <1>3, FramesAnswered, PreviewAnswered, CollisionAnswered, AnswersKeep
<1>4. CASE CompileVideo \/ LoadVideo \/ CompileSoundtrack \/ LoadSoundtrack \/ PublishTimings
  BY <1>4, VideoAnswered, SoundtrackAnswered, PublicationAnswered, AnswersKeep
<1>5. CASE \/ WriteRequest \/ WriteExecution \/ WriteResult \/ WriteGroups \/ WriteReport
           \/ WriteEvents \/ WriteFrames \/ WritePreview \/ WriteCollision \/ WriteVideo
           \/ WriteSoundtrack \/ WriteReceipt
  BY <1>5, SerializersKeep
<1>6. CASE \E x \in made : Drift(x) \/ Forget(x)
  <2>1. held' = held /\ made' \subseteq made /\ wire' = wire /\ reply' = reply
    BY <1>6 DEF Drift, Forget
  <2> QED BY <2>1
          DEF RegistryInv, FilesAreExact, AcceptedIsExact, WrittenIsSound, UnalteredOnly, Fresh
<1>7. CASE Handled
  <2>1. held' = held /\ made' = made /\ wire' = wire /\ reply'.exact
    BY <1>7 DEF Handled
  <2> QED BY <2>1
          DEF RegistryInv, FilesAreExact, AcceptedIsExact, WrittenIsSound, UnalteredOnly, Fresh
<1> QED BY <1>1, <1>2, <1>3, <1>4, <1>5, <1>6, <1>7 DEF Next

-----------------------------------------------------------------------------
(* The lists of a narration, and what is checked of them, by length.       *)
Listed(s, n) == s = [i \in 1 .. n |-> s[i]]

LEMMA ListsJoin ==
  ASSUME NEW m \in Nat, NEW n \in Nat, NEW s, NEW t, Listed(s, m), Listed(t, n)
  PROVE  /\ Listed(Then(s, t), m + n)
         /\ \A i \in 1 .. m : Then(s, t)[i] = s[i]
         /\ \A i \in 1 .. n : Then(s, t)[m + i] = t[i]
<1> DEFINE S == {s[i] : i \in 1 .. m} \cup {t[i] : i \in 1 .. n}
<1>1. s \in [1 .. m -> S] /\ t \in [1 .. n -> S]
  BY DEF Listed
<1> HIDE DEF S
<1>2. s \in Seq(S) /\ t \in Seq(S)
  BY <1>1, SeqDef
<1>3. Len(s) = m /\ Len(t) = n
  BY <1>1, <1>2, LenProperties
<1>4. Then(s, t) \in Seq(S) /\ Len(Then(s, t)) = m + n
  BY <1>2, <1>3, ConcatProperties DEF Then
<1>5. Then(s, t) \in [1 .. m + n -> S]
  BY <1>4, LenProperties
<1>6. \A i \in 1 .. m + n : Then(s, t)[i] = IF i <= m THEN s[i] ELSE t[i - m]
  BY <1>2, <1>3, ConcatProperties DEF Then
<1>7. ASSUME NEW i \in 1 .. n PROVE Then(s, t)[m + i] = t[i]
  <2>1. m + i \in 1 .. m + n /\ ~(m + i <= m) /\ (m + i) - m = i
    OBVIOUS
  <2> QED BY <1>6, <2>1
<1>8. ASSUME NEW i \in 1 .. m PROVE Then(s, t)[i] = s[i]
  <2>1. i \in 1 .. m + n /\ i <= m
    OBVIOUS
  <2> QED BY <1>6, <2>1
<1>9. Listed(Then(s, t), m + n)
  BY <1>5 DEF Listed
<1> QED BY <1>7, <1>8, <1>9

LEMMA ListsAreListed ==
  ASSUME NEW s, s \in Seq({s[i] : i \in DOMAIN s})
  PROVE  Len(s) \in Nat /\ DOMAIN s = 1 .. Len(s) /\ Listed(s, Len(s))
<1> DEFINE E == {s[i] : i \in DOMAIN s}
<1>1. s \in Seq(E)
  OBVIOUS
<1> HIDE DEF E
<1>2. Len(s) \in Nat /\ s \in [1 .. Len(s) -> E] /\ DOMAIN s = 1 .. Len(s)
  BY <1>1, LenProperties
<1> QED BY <1>2 DEF Listed

LEMMA SmallestNumber ==
  ASSUME NEW T \in SUBSET Nat, T # {}
  PROVE  \E i \in T : \A j \in T : i <= j
<1> DEFINE R == OpToRel(<, Nat)
<1>1. IsWellFoundedOn(R, Nat)
  BY NatLessThanWellFounded
<1>2. \A i, j \in Nat : j < i => <<j, i>> \in R
  BY DEF OpToRel
<1> HIDE DEF R
<1>3. PICK i \in T : \A j \in T : ~(<<j, i>> \in R)
  BY <1>1, WFMin
<1>4. \A j \in T : ~(j < i) /\ i \in Nat /\ j \in Nat
  BY <1>2, <1>3
<1> QED BY <1>4

(* Of checks one after the other that refuse nothing, none refuses.        *)
LEMMA NoneRefused ==
  ASSUME NEW n \in Nat, NEW s, Listed(s, n), Narration!FirstRefusal(s) = Fine
  PROVE  \A i \in 1 .. n : s[i] = Fine
<1> DEFINE T == {i \in 1 .. n : s[i] # Fine}
<1>1. DOMAIN s = 1 .. n /\ Narration!Fine = Fine
  BY DEF Listed, Fine, Narration!Fine
<1>2. SUFFICES ASSUME T # {} PROVE FALSE
  OBVIOUS
<1>3. PICK i \in T : \A j \in T : i <= j
  <2>1. T \in SUBSET Nat
    OBVIOUS
  <2> HIDE DEF T
  <2> QED BY <1>2, <2>1, SmallestNumber
<1>4. \E k \in DOMAIN s : s[k] # Fine /\ \A j \in 1 .. k - 1 : s[j] = Fine
  <2>1. \A j \in 1 .. i - 1 : j \in 1 .. n /\ ~(i <= j)
    OBVIOUS
  <2> QED BY <1>1, <1>3, <2>1
<1>5. Narration!FirstRefusal(s) # Fine
  BY <1>1, <1>4 DEF Narration!FirstRefusal
<1> QED BY <1>5

(* Nor has any row of an accepted chain a reason to.                       *)
LEMMA NoRowHolds ==
  \A rs, n : n \in Nat /\ Chain(rs, n) /\ Narration!FirstFault(rs) = Fine =>
    \A i \in 1 .. n : ~rs[i][1]
<1>1. \A rs : Narration!FirstFault(rs) = FirstFault(rs)
  BY DEF Narration!FirstFault, FirstFault, Fine, Narration!Fine
<1> QED BY <1>1, Accepted

-----------------------------------------------------------------------------
(* What an accepted text says.                                             *)

NodeRows(n, i) ==
    LET x == n.nodes[i] IN
    <<<<Narration!RangeInvalid(n, x, TRUE), "SOURCE_RANGE_INVALID">>,
      <<x.up # 0 /\ Narration!Outside(x, n.nodes[x.up]), "HIERARCHY_INVALID">>,
      <<Narration!SiblingOrderInvalid(n, i), "HIERARCHY_INVALID">>>>

NodesPass(n) ==
    \A i \in DOMAIN n.nodes :
        /\ ~Narration!RangeInvalid(n, n.nodes[i], TRUE)
        /\ n.nodes[i].up # 0 => ~Narration!Outside(n.nodes[i], n.nodes[n.nodes[i].up])
        /\ ~Narration!SiblingOrderInvalid(n, i)

TokensPass(n) ==
    \A i \in DOMAIN n.tokens :
        LET t == n.tokens[i] IN
        /\ ~Narration!RangeInvalid(n, t, FALSE)
        /\ i > 1 => t.order > n.tokens[i - 1].order /\ t.start >= n.tokens[i - 1].end
        /\ t.up # 0 /\ ~Narration!Outside(t, n.nodes[t.up])

LEMMA TextPasses ==
  ASSUME NEW n, Narration!IsNarration(n), NEW wrong, Narration!TextFault(n, wrong) = Fine
  PROVE  NodesPass(n) /\ TokensPass(n)
<1> DEFINE N == Len(n.nodes)
           T == Len(n.tokens)
           ones == [i \in DOMAIN n.nodes |-> Narration!NodeFault(n, i)]
           twos == [i \in DOMAIN n.tokens |-> Narration!FirstFault(Narration!TokenRows(n, i))]
<1>1. /\ N \in Nat /\ DOMAIN n.nodes = 1 .. N
      /\ T \in Nat /\ DOMAIN n.tokens = 1 .. T
  BY ListsAreListed DEF Narration!IsNarration
<1> HIDE DEF N, T
<1>2. PICK a, b, c : /\ Listed(a, 1) /\ Listed(b, 1) /\ Listed(c, 1)
                     /\ Narration!TextFault(n, wrong)
                         = Narration!FirstRefusal(Then(Then(Then(Then(a, ones), b), twos), c))
  <2>1. \A x : Listed(<<x>>, 1)
    BY DEF Listed
  <2> QED BY <2>1 DEF Narration!TextFault, Then
<1>3. Listed(a, 1) /\ Listed(b, 1) /\ Listed(c, 1)
  BY <1>2
<1>4. Listed(ones, N) /\ Listed(twos, T)
  BY <1>1 DEF Listed
<1> DEFINE p == Then(a, ones)
           q == Then(p, b)
           r == Then(q, twos)
           s == Then(r, c)
<1>5. Listed(p, 1 + N) /\ \A i \in 1 .. N : p[1 + i] = ones[i]
  <2> HIDE DEF ones
  <2> QED BY <1>1, <1>3, <1>4, ListsJoin
<1>6. 1 + N \in Nat /\ 1 + N + 1 \in Nat /\ 1 + N + 1 + T \in Nat /\ 1 + N + 1 + T + 1 \in Nat
  BY <1>1
<1>7. Narration!FirstRefusal(s) = Fine
  BY <1>2
<1> HIDE DEF p
<1>8. Listed(q, 1 + N + 1) /\ \A i \in 1 .. 1 + N : q[i] = p[i]
  BY <1>3, <1>5, <1>6, ListsJoin
<1> HIDE DEF q
<1>9. /\ Listed(r, 1 + N + 1 + T) /\ \A i \in 1 .. 1 + N + 1 : r[i] = q[i]
      /\ \A i \in 1 .. T : r[1 + N + 1 + i] = twos[i]
  <2> HIDE DEF twos
  <2> QED BY <1>1, <1>4, <1>6, <1>8, ListsJoin
<1> HIDE DEF r
<1>10. Listed(s, 1 + N + 1 + T + 1) /\ \A i \in 1 .. 1 + N + 1 + T : s[i] = r[i]
  BY <1>3, <1>6, <1>9, ListsJoin
<1> HIDE DEF s
<1>11. \A i \in 1 .. 1 + N + 1 + T + 1 : s[i] = Fine
  BY <1>6, <1>7, <1>10, NoneRefused
<1>12. ASSUME NEW i \in 1 .. N PROVE ones[i] = Fine
  <2>1. 1 + i \in 1 .. 1 + N /\ 1 + i \in 1 .. 1 + N + 1 /\ 1 + i \in 1 .. 1 + N + 1 + T
        /\ 1 + i \in 1 .. 1 + N + 1 + T + 1
    BY <1>1
  <2> HIDE DEF ones
  <2> QED BY <1>5, <1>8, <1>9, <1>10, <1>11, <2>1
<1>13. ASSUME NEW i \in 1 .. T PROVE twos[i] = Fine
  <2>1. 1 + N + 1 + i \in 1 .. 1 + N + 1 + T /\ 1 + N + 1 + i \in 1 .. 1 + N + 1 + T + 1
    BY <1>1
  <2> HIDE DEF twos
  <2> QED BY <1>9, <1>10, <1>11, <2>1
<1>14. ASSUME NEW i \in DOMAIN n.nodes
       PROVE  /\ ~Narration!RangeInvalid(n, n.nodes[i], TRUE)
              /\ n.nodes[i].up # 0 => ~Narration!Outside(n.nodes[i], n.nodes[n.nodes[i].up])
              /\ ~Narration!SiblingOrderInvalid(n, i)
  <2> DEFINE rows == NodeRows(n, i)
  <2>1. Narration!FirstFault(rows) = Fine
    BY <1>1, <1>12 DEF Narration!NodeFault, NodeRows
  <2>2. Chain(rows, 3)
    BY DEF Chain, NodeRows, Fine
  <2>3. ~rows[1][1] /\ ~rows[2][1] /\ ~rows[3][1]
    <3> HIDE DEF rows
    <3> QED BY <2>1, <2>2, NoRowHolds
  <2> QED BY <2>3 DEF NodeRows
<1>15. ASSUME NEW i \in DOMAIN n.tokens
       PROVE  LET t == n.tokens[i] IN
              /\ ~Narration!RangeInvalid(n, t, FALSE)
              /\ i > 1 => t.order > n.tokens[i - 1].order /\ t.start >= n.tokens[i - 1].end
              /\ t.up # 0 /\ ~Narration!Outside(t, n.nodes[t.up])
  <2> DEFINE t == n.tokens[i]
             rows == Narration!TokenRows(n, i)
  <2>1. Narration!FirstFault(rows) = Fine
    BY <1>1, <1>13
  <2>2. Chain(rows, 8)
    BY DEF Chain, Narration!TokenRows, Fine
  <2>3. ~rows[1][1] /\ ~rows[2][1] /\ ~rows[3][1] /\ ~rows[5][1] /\ ~rows[6][1]
    <3> HIDE DEF rows
    <3> QED BY <2>1, <2>2, NoRowHolds
  <2>4. /\ ~Narration!RangeInvalid(n, t, FALSE)
        /\ i > 1 => ~(t.order <= n.tokens[i - 1].order) /\ ~(t.start < n.tokens[i - 1].end)
        /\ t.up # 0 /\ ~Narration!Outside(t, n.nodes[t.up])
    BY <2>3 DEF Narration!TokenRows
  <2>5. i > 1 => i - 1 \in DOMAIN n.tokens /\ i \in Nat
    BY <1>1
  <2>6. /\ t.order \in Nat /\ t.start \in Nat
        /\ i > 1 => n.tokens[i - 1].order \in Nat /\ n.tokens[i - 1].end \in Nat
    BY <2>5 DEF Narration!IsNarration
  <2> HIDE DEF t
  <2>7. /\ ~(t.order <= n.tokens[i - 1].order) /\ i > 1 => t.order > n.tokens[i - 1].order
        /\ ~(t.start < n.tokens[i - 1].end) /\ i > 1 => t.start >= n.tokens[i - 1].end
    BY <2>6
  <2> QED BY <2>4, <2>7 DEF t
<1> QED BY <1>14, <1>15 DEF NodesPass, TokensPass

-----------------------------------------------------------------------------
(* What a sequence has at some of its places.                              *)

LEMMA SameCount == \A S : Narration!Cardinality(S) = Cardinality(S)
BY DEF Narration!Cardinality, Cardinality

(* The places of a list of the picked: in order, and every one once.       *)
Places(P, q) ==
  /\ q \in [1 .. Cardinality(P) -> P]
  /\ \A a, b \in 1 .. Cardinality(P) : a < b => q[a] < q[b]
  /\ \A i \in P : \E a \in 1 .. Cardinality(P) : q[a] = i

LEMMA PickedHasPlaces ==
  ASSUME NEW P \in SUBSET Nat, IsFiniteSet(P)
  PROVE  /\ Cardinality(P) \in Nat
         /\ \E q : /\ Places(P, q)
                   /\ \A s : Narration!Picked(s, P) = [k \in 1 .. Cardinality(P) |-> s[q[k]]]
<1> DEFINE N == Cardinality(P)
           UpTo(i) == {j \in P : j <= i}
           rank == [i \in P |-> Cardinality(UpTo(i))]
           at(k) == CHOOSE i \in P : Narration!Cardinality(UpTo(i)) = k
           q == [k \in 1 .. N |-> at(k)]
<1>0. \A s : Narration!Picked(s, P) = [k \in 1 .. N |-> s[at(k)]]
  <2>1. \A s : Narration!Picked(s, P) = [k \in 1 .. Narration!Cardinality(P) |-> s[at(k)]]
    BY DEF Narration!Picked
  <2> QED BY <2>1, SameCount
<1>1. N \in Nat
  BY FS_CardinalityType
<1>2. ASSUME NEW i \in P
      PROVE  IsFiniteSet(UpTo(i)) /\ Cardinality(UpTo(i)) \in 1 .. N
  <2>1. UpTo(i) \in SUBSET P /\ i \in UpTo(i)
    OBVIOUS
  <2> HIDE DEF UpTo
  <2>2. IsFiniteSet(UpTo(i)) /\ Cardinality(UpTo(i)) \in Nat /\ Cardinality(UpTo(i)) <= N
    BY <2>1, FS_Subset, FS_CardinalityType
  <2>3. Cardinality(UpTo(i)) # 0
    BY <2>1, <2>2, FS_EmptySet
  <2> QED BY <1>1, <2>2, <2>3
<1>3. ASSUME NEW i \in P, NEW j \in P, i < j
      PROVE  Cardinality(UpTo(i)) < Cardinality(UpTo(j))
  <2>1. UpTo(i) \in SUBSET UpTo(j) /\ j \in UpTo(j) /\ j \notin UpTo(i)
    <3>1. i \in Nat /\ j \in Nat /\ \A k \in P : k \in Nat /\ (k <= i => k <= j)
      BY <1>3
    <3>2. i < j /\ j <= j /\ ~(j <= i)
      BY <1>3, <3>1
    <3>3. \A k \in UpTo(i) : k \in UpTo(j)
      BY <3>1
    <3> QED BY <3>2, <3>3
  <2> HIDE DEF UpTo
  <2>2. UpTo(i) # UpTo(j)
    BY <2>1
  <2>3. /\ Cardinality(UpTo(i)) <= Cardinality(UpTo(j))
        /\ Cardinality(UpTo(i)) # Cardinality(UpTo(j))
    BY <1>2, <2>1, <2>2, FS_Subset
  <2> QED BY <1>2, <2>3
<1>4. /\ \A i, j \in P : Cardinality(UpTo(i)) = Cardinality(UpTo(j)) => i = j
      /\ \A i, j \in P : Cardinality(UpTo(i)) < Cardinality(UpTo(j)) => i < j
  <2>1. \A i, j \in P : i < j \/ j < i \/ i = j
    OBVIOUS
  <2>2. \A i \in P : Cardinality(UpTo(i)) \in Nat
    BY <1>2
  <2> HIDE DEF UpTo
  <2> QED BY <1>3, <2>1, <2>2
<1> HIDE DEF UpTo
<1>5. rank \in Injection(P, 1 .. N)
  <2>1. rank \in [P -> 1 .. N]
    BY <1>2
  <2>2. \A i, j \in P : rank[i] = rank[j] => i = j
    BY <1>4
  <2> HIDE DEF rank
  <2> QED BY <2>1, <2>2 DEF Injection, IsInjective
<1>6. rank \in Surjection(P, 1 .. N)
  <2>1. IsFiniteSet(1 .. N) /\ Cardinality(1 .. N) = N
    <3>1. IsFiniteSet(1 .. N) /\ Cardinality(1 .. N) = IF 1 > N THEN 0 ELSE N - 1 + 1
      BY <1>1, FS_Interval
    <3> HIDE DEF N
    <3> QED BY <1>1, <3>1
  <2> HIDE DEF N, rank
  <2> QED BY <1>5, <2>1, FS_Injection DEF N
<1>7. \A k \in 1 .. N : at(k) \in P /\ Cardinality(UpTo(at(k))) = k
  <2> SUFFICES ASSUME NEW k \in 1 .. N PROVE \E i \in P : Cardinality(UpTo(i)) = k
    BY SameCount
  <2>1. PICK i \in P : rank[i] = k
    BY <1>6 DEF Surjection
  <2> QED BY <2>1
<1> HIDE DEF at
<1>8. q \in [1 .. N -> P] /\ \A a, b \in 1 .. N : a < b => q[a] < q[b]
  <2>1. \A a, b \in 1 .. N : a < b => at(a) < at(b)
    <3> SUFFICES ASSUME NEW a \in 1 .. N, NEW b \in 1 .. N, a < b PROVE at(a) < at(b)
      OBVIOUS
    <3>1. /\ at(a) \in P /\ Cardinality(UpTo(at(a))) = a
          /\ at(b) \in P /\ Cardinality(UpTo(at(b))) = b
      BY <1>7
    <3> QED BY <1>4, <3>1
  <2> QED BY <1>7, <2>1
<1>9. ASSUME NEW i \in P PROVE \E a \in 1 .. N : q[a] = i
  <2> DEFINE a == Cardinality(UpTo(i))
  <2>1. a \in 1 .. N /\ at(a) \in P /\ Cardinality(UpTo(at(a))) = a
    BY <1>2, <1>7
  <2>2. at(a) = i
    <3> HIDE DEF a
    <3> QED BY <1>4, <2>1 DEF a
  <2>3. q[a] = i
    BY <2>1, <2>2
  <2> QED BY <2>1, <2>3
<1>10. \A s : Narration!Picked(s, P) = [k \in 1 .. N |-> s[q[k]]]
  <2> SUFFICES ASSUME NEW s PROVE Narration!Picked(s, P) = [k \in 1 .. N |-> s[q[k]]]
    OBVIOUS
  <2>1. [k \in 1 .. N |-> s[q[k]]] = [k \in 1 .. N |-> s[at(k)]]
    OBVIOUS
  <2> QED BY <1>0, <2>1
<1>11. Places(P, q)
  <2> HIDE DEF q
  <2> QED BY <1>8, <1>9 DEF Places
<1> QED BY <1>1, <1>10, <1>11

(* Places of a list make a finite set.                                     *)
LEMMA PlacesAreNumbers ==
  ASSUME NEW n \in Nat, NEW P \in SUBSET (1 .. n)
  PROVE  P \in SUBSET Nat /\ IsFiniteSet(P)
<1>1. IsFiniteSet(1 .. n)
  BY FS_Interval
<1>2. IsFiniteSet(P)
  BY <1>1, FS_Subset
<1>3. 1 .. n \subseteq Nat
  OBVIOUS
<1> QED BY <1>2, <1>3

(* What is picked of a list without duplicates has none either, and it is  *)
(* what is at those places.                                                *)
Differ(s, P) == \A i, j \in P : s[i] = s[j] => i = j
OneEach(s, P, t) ==
  /\ Cardinality(P) \in Nat /\ Listed(t, Cardinality(P))
  /\ \A a, b \in 1 .. Cardinality(P) : t[a] = t[b] => a = b
  /\ \A a \in 1 .. Cardinality(P) : \E i \in P : t[a] = s[i]
  /\ \A i \in P : \E a \in 1 .. Cardinality(P) : t[a] = s[i]

LEMMA PickedApart ==
  \A n \in Nat : \A P \in SUBSET (1 .. n) : \A s :
    Differ(s, P) => OneEach(s, P, Narration!Picked(s, P))
<1> SUFFICES ASSUME NEW n \in Nat, NEW P \in SUBSET (1 .. n), NEW s, Differ(s, P)
             PROVE  OneEach(s, P, Narration!Picked(s, P))
  OBVIOUS
<1> DEFINE N == Cardinality(P)
<1>1. P \in SUBSET Nat /\ IsFiniteSet(P)
  BY PlacesAreNumbers
<1>2. N \in Nat
  BY <1>1, PickedHasPlaces
<1>3. PICK q : Places(P, q) /\ Narration!Picked(s, P) = [k \in 1 .. N |-> s[q[k]]]
  BY <1>1, PickedHasPlaces
<1>4. /\ \A a \in 1 .. N : q[a] \in P
      /\ \A a, b \in 1 .. N : q[a] = q[b] => a = b
      /\ \A i \in P : \E a \in 1 .. N : q[a] = i
  <2>1. \A a \in 1 .. N : q[a] \in P /\ q[a] \in Nat
    BY <1>1, <1>3 DEF Places
  <2>2. \A a, b \in 1 .. N : a < b => q[a] < q[b]
    BY <1>3 DEF Places
  <2>3. \A a, b \in 1 .. N : a < b \/ b < a \/ a = b
    BY <1>2
  <2>4. \A a, b \in 1 .. N : q[a] = q[b] => a = b
    <3> HIDE DEF N
    <3> QED BY <2>1, <2>2, <2>3
  <2> QED BY <1>3, <2>1, <2>4 DEF Places
<1> HIDE DEF N
<1>5. \A a \in 1 .. N : Narration!Picked(s, P)[a] = s[q[a]]
  BY <1>3
<1>6. Listed(Narration!Picked(s, P), N)
  BY <1>3 DEF Listed
<1> HIDE DEF Narration!Picked
<1>7. ASSUME NEW a \in 1 .. N, NEW b \in 1 .. N,
             Narration!Picked(s, P)[a] = Narration!Picked(s, P)[b]
      PROVE  a = b
  <2>1. q[a] \in P /\ q[b] \in P /\ s[q[a]] = s[q[b]]
    BY <1>4, <1>5, <1>7
  <2>2. q[a] = q[b]
    BY <2>1 DEF Differ
  <2> QED BY <1>4, <2>2
<1>8. ASSUME NEW a \in 1 .. N PROVE \E i \in P : Narration!Picked(s, P)[a] = s[i]
  <2>1. q[a] \in P /\ Narration!Picked(s, P)[a] = s[q[a]]
    BY <1>4, <1>5
  <2> QED BY <2>1
<1>9. ASSUME NEW i \in P PROVE \E a \in 1 .. N : Narration!Picked(s, P)[a] = s[i]
  <2>1. PICK a \in 1 .. N : q[a] = i
    BY <1>4
  <2>2. Narration!Picked(s, P)[a] = s[i]
    BY <1>5, <2>1
  <2> QED BY <2>2
<1> QED BY <1>2, <1>6, <1>7, <1>8, <1>9 DEF N, OneEach

-----------------------------------------------------------------------------
(* Siblings stand one after the other, and so do the tokens of a text.     *)

Passes(n) == Narration!IsNarration(n) /\ NodesPass(n) /\ TokensPass(n)

LEMMA NodesOfText ==
  ASSUME NEW n, Passes(n)
  PROVE  /\ Len(n.nodes) \in Nat /\ DOMAIN n.nodes = 1 .. Len(n.nodes)
         /\ Len(n.tokens) \in Nat /\ DOMAIN n.tokens = 1 .. Len(n.tokens)
         /\ \A i \in DOMAIN n.nodes :
              /\ n.nodes[i].order \in Nat /\ n.nodes[i].start \in Nat /\ n.nodes[i].end \in Nat
              /\ n.nodes[i].start <= n.nodes[i].end
              /\ n.nodes[i].type \in {"SECTION", "PARAGRAPH", "SENTENCE"}
              /\ n.nodes[i].type = "SECTION" => n.nodes[i].up = 0
              /\ n.nodes[i].type # "SECTION" =>
                   /\ n.nodes[i].up \in DOMAIN n.nodes
                   /\ n.nodes[n.nodes[i].up].start <= n.nodes[i].start
                   /\ n.nodes[i].end <= n.nodes[n.nodes[i].up].end
              /\ n.nodes[i].type = "PARAGRAPH" => n.nodes[n.nodes[i].up].type = "SECTION"
              /\ n.nodes[i].type = "SENTENCE" => n.nodes[n.nodes[i].up].type = "PARAGRAPH"
         /\ \A i \in DOMAIN n.tokens :
              /\ n.tokens[i].order \in Nat /\ n.tokens[i].start \in Nat /\ n.tokens[i].end \in Nat
              /\ n.tokens[i].start < n.tokens[i].end
              /\ n.tokens[i].up \in DOMAIN n.nodes
              /\ n.nodes[n.tokens[i].up].type = "SENTENCE"
              /\ n.nodes[n.tokens[i].up].start <= n.tokens[i].start
              /\ n.tokens[i].end <= n.nodes[n.tokens[i].up].end
<1>1. /\ Len(n.nodes) \in Nat /\ DOMAIN n.nodes = 1 .. Len(n.nodes)
      /\ Len(n.tokens) \in Nat /\ DOMAIN n.tokens = 1 .. Len(n.tokens)
  BY ListsAreListed DEF Passes, Narration!IsNarration
<1>2. ASSUME NEW i \in DOMAIN n.nodes
      PROVE  /\ n.nodes[i].order \in Nat /\ n.nodes[i].start \in Nat /\ n.nodes[i].end \in Nat
             /\ n.nodes[i].type \in {"SECTION", "PARAGRAPH", "SENTENCE"}
             /\ n.nodes[i].up \in {0} \cup DOMAIN n.nodes
             /\ n.nodes[i].type = "SECTION" => n.nodes[i].up = 0
             /\ n.nodes[i].type # "SECTION" => n.nodes[i].up # 0
             /\ n.nodes[i].type = "PARAGRAPH" => n.nodes[n.nodes[i].up].type = "SECTION"
             /\ n.nodes[i].type = "SENTENCE" => n.nodes[n.nodes[i].up].type = "PARAGRAPH"
  BY DEF Passes, Narration!IsNarration
<1>3. ASSUME NEW i \in DOMAIN n.nodes PROVE n.nodes[i].start <= n.nodes[i].end
  <2>1. ~(n.nodes[i].start > n.nodes[i].end)
    BY DEF Passes, NodesPass, Narration!RangeInvalid
  <2> QED BY <1>2, <2>1
<1>4. ASSUME NEW i \in DOMAIN n.nodes, n.nodes[i].type # "SECTION"
      PROVE  /\ n.nodes[i].up \in DOMAIN n.nodes
             /\ n.nodes[n.nodes[i].up].start <= n.nodes[i].start
             /\ n.nodes[i].end <= n.nodes[n.nodes[i].up].end
  <2> DEFINE x == n.nodes[i]
             y == n.nodes[x.up]
  <2>1. x.up \in DOMAIN n.nodes /\ x.up # 0
    BY <1>2, <1>4
  <2>2. ~(x.start < y.start) /\ ~(x.end > y.end)
    BY <2>1 DEF Passes, NodesPass, Narration!Outside
  <2>3. x.start \in Nat /\ x.end \in Nat /\ y.start \in Nat /\ y.end \in Nat
    BY <1>2, <2>1
  <2> HIDE DEF y
  <2>4. y.start <= x.start /\ x.end <= y.end
    BY <2>2, <2>3
  <2> QED BY <2>1, <2>4 DEF y
<1>5. ASSUME NEW i \in DOMAIN n.tokens
      PROVE  /\ n.tokens[i].order \in Nat /\ n.tokens[i].start \in Nat /\ n.tokens[i].end \in Nat
             /\ n.tokens[i].start < n.tokens[i].end
             /\ n.tokens[i].up \in DOMAIN n.nodes
             /\ n.nodes[n.tokens[i].up].type = "SENTENCE"
             /\ n.nodes[n.tokens[i].up].start <= n.tokens[i].start
             /\ n.tokens[i].end <= n.nodes[n.tokens[i].up].end
  <2> DEFINE t == n.tokens[i]
             y == n.nodes[t.up]
  <2>1. t.up # 0
    BY DEF Passes, TokensPass
  <2>2. t.order \in Nat /\ t.start \in Nat /\ t.end \in Nat
    BY DEF Passes, Narration!IsNarration
  <2>3. t.up \in DOMAIN n.nodes /\ y.type = "SENTENCE"
    BY <2>1 DEF Passes, Narration!IsNarration
  <2>4. y.start \in Nat /\ y.end \in Nat
    BY <1>2, <2>3
  <2>5. ~(t.start > t.end) /\ ~(t.start = t.end) /\ ~(t.start < y.start) /\ ~(t.end > y.end)
    BY DEF Passes, TokensPass, Narration!RangeInvalid, Narration!Outside
  <2> HIDE DEF t, y
  <2>6. t.start < t.end /\ y.start <= t.start /\ t.end <= y.end
    BY <2>2, <2>4, <2>5
  <2> QED BY <2>2, <2>3, <2>6 DEF t, y
<1> QED BY <1>1, <1>2, <1>3, <1>4, <1>5

LEMMA SiblingsInOrder ==
  ASSUME NEW n, Passes(n)
  PROVE  \A i \in DOMAIN n.nodes : \A j \in Narration!ElderSiblings(n, i) :
           n.nodes[j].order < n.nodes[i].order /\ n.nodes[j].end <= n.nodes[i].start
<1> DEFINE Elders(i) == Narration!ElderSiblings(n, i)
           Before(j, i) == n.nodes[j].order < n.nodes[i].order /\ n.nodes[j].end <= n.nodes[i].start
           T == {i \in DOMAIN n.nodes : \E j \in Elders(i) : ~Before(j, i)}
<1>1. SUFFICES ASSUME T # {} PROVE FALSE
  OBVIOUS
<1>2. DOMAIN n.nodes = 1 .. Len(n.nodes) /\ Len(n.nodes) \in Nat
  BY NodesOfText
<1>3. PICK i \in T : \A k \in T : i <= k
  <2>1. T \in SUBSET Nat
    BY <1>2
  <2> HIDE DEF T
  <2> QED BY <1>1, <2>1, SmallestNumber
<1>4. i \in DOMAIN n.nodes /\ i \in Nat
  BY <1>2
<1>5. \A j : j \in Elders(i) <=> j \in 1 .. i - 1 /\ n.nodes[j].up = n.nodes[i].up
  BY DEF Narration!ElderSiblings
<1>6. PICK j \in Elders(i) : ~Before(j, i)
  OBVIOUS
<1>7. \E p \in Elders(i) : \A k \in Elders(i) : k <= p
  <2> DEFINE D == {i - k : k \in Elders(i)}
  <2>1. D \in SUBSET Nat /\ D # {}
    BY <1>4, <1>5, <1>6
  <2>2. PICK d \in D : \A e \in D : d <= e
    <3> HIDE DEF D
    <3> QED BY <2>1, SmallestNumber
  <2>3. PICK p \in Elders(i) : d = i - p
    OBVIOUS
  <2>4. ASSUME NEW k \in Elders(i) PROVE k <= p
    <3>1. i - p <= i - k
      BY <2>2, <2>3
    <3>2. i \in Nat /\ p \in Nat /\ k \in Nat
      BY <1>4, <1>5
    <3> QED BY <3>1, <3>2
  <2> QED BY <2>4
<1> DEFINE p == CHOOSE q \in Elders(i) : \A k \in Elders(i) : k <= q
<1>8. p \in Elders(i) /\ \A k \in Elders(i) : k <= p
  BY <1>7
<1>9. ~(n.nodes[i].order <= n.nodes[p].order) /\ ~(n.nodes[i].start < n.nodes[p].end)
  <2>1. ~Narration!SiblingOrderInvalid(n, i)
    BY <1>4 DEF Passes, NodesPass
  <2> QED BY <1>6, <2>1 DEF Narration!SiblingOrderInvalid
<1> HIDE DEF p
<1>10. p \in 1 .. i - 1 /\ p \in DOMAIN n.nodes /\ n.nodes[p].up = n.nodes[i].up
       /\ j \in 1 .. i - 1 /\ j \in DOMAIN n.nodes /\ n.nodes[j].up = n.nodes[i].up /\ j <= p
  BY <1>2, <1>4, <1>5, <1>6, <1>8
<1>11. \A k \in DOMAIN n.nodes :
         /\ n.nodes[k].order \in Nat /\ n.nodes[k].start \in Nat /\ n.nodes[k].end \in Nat
         /\ n.nodes[k].start <= n.nodes[k].end
  BY NodesOfText
<1>12. Before(p, i)
  BY <1>4, <1>9, <1>10, <1>11
<1>13. CASE j = p
  BY <1>6, <1>12, <1>13
<1>14. CASE j # p
  <2>1. j \in 1 .. p - 1 /\ ~(i <= p)
    BY <1>4, <1>10, <1>14
  <2>2. j \in Elders(p)
    BY <1>10, <2>1 DEF Narration!ElderSiblings
  <2>3. p \notin T
    BY <1>3, <2>1
  <2>4. Before(j, p)
    BY <1>10, <2>2, <2>3
  <2>5. n.nodes[j].order < n.nodes[i].order /\ n.nodes[j].end <= n.nodes[i].start
    <3>1. /\ n.nodes[j].order \in Nat /\ n.nodes[p].order \in Nat /\ n.nodes[i].order \in Nat
          /\ n.nodes[j].end \in Nat /\ n.nodes[p].start \in Nat /\ n.nodes[p].end \in Nat
          /\ n.nodes[i].start \in Nat /\ n.nodes[p].start <= n.nodes[p].end
      BY <1>4, <1>10, <1>11
    <3> QED BY <1>12, <2>4, <3>1
  <2> QED BY <1>6, <2>5
<1> QED BY <1>13, <1>14

LEMMA TokensInOrder ==
  ASSUME NEW n, Passes(n)
  PROVE  \A i \in DOMAIN n.tokens : \A j \in 1 .. i - 1 :
           n.tokens[j].order < n.tokens[i].order /\ n.tokens[j].end <= n.tokens[i].start
<1> DEFINE Before(j, i) ==
             n.tokens[j].order < n.tokens[i].order /\ n.tokens[j].end <= n.tokens[i].start
           T == {i \in DOMAIN n.tokens : \E j \in 1 .. i - 1 : ~Before(j, i)}
<1>1. SUFFICES ASSUME T # {} PROVE FALSE
  OBVIOUS
<1>2. DOMAIN n.tokens = 1 .. Len(n.tokens) /\ Len(n.tokens) \in Nat
  BY NodesOfText
<1>3. PICK i \in T : \A k \in T : i <= k
  <2>1. T \in SUBSET Nat
    BY <1>2
  <2> HIDE DEF T
  <2> QED BY <1>1, <2>1, SmallestNumber
<1>4. i \in DOMAIN n.tokens /\ i \in Nat
  BY <1>2
<1>5. PICK j \in 1 .. i - 1 : ~Before(j, i)
  OBVIOUS
<1> DEFINE p == i - 1
<1>6. i > 1 /\ p \in DOMAIN n.tokens /\ j \in DOMAIN n.tokens /\ ~(i <= p) /\ j <= p
  BY <1>2, <1>4
<1>7. n.tokens[i].order > n.tokens[p].order /\ n.tokens[i].start >= n.tokens[p].end
  BY <1>4, <1>6 DEF Passes, TokensPass
<1> HIDE DEF p
<1>8. \A k \in DOMAIN n.tokens :
         /\ n.tokens[k].order \in Nat /\ n.tokens[k].start \in Nat /\ n.tokens[k].end \in Nat
         /\ n.tokens[k].start < n.tokens[k].end
  BY NodesOfText
<1>9. Before(p, i)
  BY <1>4, <1>6, <1>7, <1>8
<1>10. CASE j = p
  BY <1>5, <1>9, <1>10
<1>11. CASE j # p
  <2>1. j \in 1 .. p - 1
    BY <1>2, <1>6, <1>11
  <2>2. p \notin T
    BY <1>3, <1>6
  <2>3. Before(j, p)
    BY <1>6, <2>1, <2>2
  <2>4. /\ n.tokens[j].order \in Nat /\ n.tokens[p].order \in Nat /\ n.tokens[i].order \in Nat
        /\ n.tokens[j].end \in Nat /\ n.tokens[p].start \in Nat /\ n.tokens[p].end \in Nat
        /\ n.tokens[i].start \in Nat /\ n.tokens[p].start < n.tokens[p].end
    BY <1>4, <1>6, <1>8
  <2>5. Before(j, i)
    BY <1>9, <2>3, <2>4
  <2> QED BY <1>5, <2>5
<1> QED BY <1>10, <1>11

-----------------------------------------------------------------------------
(* No two nodes of a revision have the same identifier.                    *)

LEMMA SiblingsApart ==
  ASSUME NEW n, Passes(n), NEW i \in DOMAIN n.nodes, NEW j \in DOMAIN n.nodes,
         n.nodes[i].up = n.nodes[j].up, n.nodes[i].order = n.nodes[j].order
  PROVE  i = j
<1>1. i \in Nat /\ j \in Nat /\ n.nodes[i].order \in Nat /\ n.nodes[j].order \in Nat
      /\ DOMAIN n.nodes = 1 .. Len(n.nodes) /\ Len(n.nodes) \in Nat
  BY NodesOfText
<1>2. CASE i < j
  <2>1. i \in Narration!ElderSiblings(n, j)
    BY <1>1, <1>2 DEF Narration!ElderSiblings
  <2>2. n.nodes[i].order < n.nodes[j].order
    BY <2>1, SiblingsInOrder
  <2> QED BY <1>1, <2>2
<1>3. CASE j < i
  <2>1. j \in Narration!ElderSiblings(n, i)
    BY <1>1, <1>3 DEF Narration!ElderSiblings
  <2>2. n.nodes[j].order < n.nodes[i].order
    BY <2>1, SiblingsInOrder
  <2> QED BY <1>1, <2>2
<1> QED BY <1>1, <1>2, <1>3

LEMMA IdsApart ==
  ASSUME NEW n, Passes(n)
  PROVE  /\ DOMAIN Narration!NodeIds(n) = DOMAIN n.nodes
         /\ \A i \in DOMAIN n.nodes : /\ "type" \in DOMAIN Narration!NodeIds(n)[i]
                                      /\ Narration!NodeIds(n)[i].type = n.nodes[i].type
         /\ \A i, j \in DOMAIN n.nodes :
              Narration!NodeIds(n)[i] = Narration!NodeIds(n)[j] => i = j
<1> DEFINE ids == Narration!NodeIds(n)
           Up(i) == n.nodes[i].up
<1>1. \A x, y, u, v : Narration!NodeId(n, x, u) = Narration!NodeId(n, y, v) =>
                        x.order = y.order /\ u = v
  BY DEF Narration!NodeId
<1>2. \A x, u : "type" \in DOMAIN Narration!NodeId(n, x, u)
                /\ Narration!NodeId(n, x, u).type = x.type
  BY DEF Narration!NodeId
<1>3. \A i \in DOMAIN n.nodes :
        /\ n.nodes[i].type \in {"SECTION", "PARAGRAPH", "SENTENCE"}
        /\ n.nodes[i].type = "SECTION" => Up(i) = 0
        /\ n.nodes[i].type = "PARAGRAPH" =>
             Up(i) \in DOMAIN n.nodes /\ n.nodes[Up(i)].type = "SECTION"
        /\ n.nodes[i].type = "SENTENCE" =>
             Up(i) \in DOMAIN n.nodes /\ n.nodes[Up(i)].type = "PARAGRAPH"
  BY NodesOfText
<1>4. /\ DOMAIN ids = DOMAIN n.nodes
      /\ \A i \in DOMAIN n.nodes :
           /\ n.nodes[i].type = "SECTION" => ids[i] = Narration!SectionId(n, i)
           /\ n.nodes[i].type = "PARAGRAPH" => ids[i] = Narration!ParagraphId(n, i)
           /\ n.nodes[i].type = "SENTENCE" => ids[i] = Narration!SentenceId(n, i)
  BY <1>3 DEF Narration!NodeIds
<1> HIDE DEF ids
<1>5. ASSUME NEW i \in DOMAIN n.nodes
      PROVE  "type" \in DOMAIN ids[i] /\ ids[i].type = n.nodes[i].type
  BY <1>2, <1>3, <1>4
      DEF Narration!SectionId, Narration!ParagraphId, Narration!SentenceId
<1>6. \A i, j \in DOMAIN n.nodes :
        /\ n.nodes[i].type = "SECTION" /\ n.nodes[j].type = "SECTION"
        /\ Narration!SectionId(n, i) = Narration!SectionId(n, j)
        => i = j
  <2> SUFFICES ASSUME NEW i \in DOMAIN n.nodes, NEW j \in DOMAIN n.nodes,
                      n.nodes[i].type = "SECTION", n.nodes[j].type = "SECTION",
                      Narration!SectionId(n, i) = Narration!SectionId(n, j)
               PROVE  i = j
    OBVIOUS
  <2>1. n.nodes[i].order = n.nodes[j].order
    BY <1>1 DEF Narration!SectionId
  <2> QED BY <1>3, <2>1, SiblingsApart
<1>7. \A i, j \in DOMAIN n.nodes :
        /\ n.nodes[i].type = "PARAGRAPH" /\ n.nodes[j].type = "PARAGRAPH"
        /\ Narration!ParagraphId(n, i) = Narration!ParagraphId(n, j)
        => i = j
  <2> SUFFICES ASSUME NEW i \in DOMAIN n.nodes, NEW j \in DOMAIN n.nodes,
                      n.nodes[i].type = "PARAGRAPH", n.nodes[j].type = "PARAGRAPH",
                      Narration!ParagraphId(n, i) = Narration!ParagraphId(n, j)
               PROVE  i = j
    OBVIOUS
  <2>1. /\ n.nodes[i].order = n.nodes[j].order
        /\ Narration!SectionId(n, Up(i)) = Narration!SectionId(n, Up(j))
    BY <1>1 DEF Narration!ParagraphId
  <2>2. Up(i) = Up(j)
    BY <1>3, <1>6, <2>1
  <2> QED BY <2>1, <2>2, SiblingsApart
<1>8. \A i, j \in DOMAIN n.nodes :
        /\ n.nodes[i].type = "SENTENCE" /\ n.nodes[j].type = "SENTENCE"
        /\ Narration!SentenceId(n, i) = Narration!SentenceId(n, j)
        => i = j
  <2> SUFFICES ASSUME NEW i \in DOMAIN n.nodes, NEW j \in DOMAIN n.nodes,
                      n.nodes[i].type = "SENTENCE", n.nodes[j].type = "SENTENCE",
                      Narration!SentenceId(n, i) = Narration!SentenceId(n, j)
               PROVE  i = j
    OBVIOUS
  <2>1. /\ n.nodes[i].order = n.nodes[j].order
        /\ Narration!ParagraphId(n, Up(i)) = Narration!ParagraphId(n, Up(j))
    BY <1>1 DEF Narration!SentenceId
  <2>2. Up(i) = Up(j)
    BY <1>3, <1>7, <2>1
  <2> QED BY <2>1, <2>2, SiblingsApart
<1>9. ASSUME NEW i \in DOMAIN n.nodes, NEW j \in DOMAIN n.nodes, ids[i] = ids[j]
      PROVE  i = j
  <2>1. n.nodes[i].type = n.nodes[j].type
    BY <1>5, <1>9
  <2> QED BY <1>3, <1>4, <1>6, <1>7, <1>8, <1>9, <2>1
<1> QED BY <1>4, <1>5, <1>9 DEF ids

(* A list without duplicates, of nodes of the given types.                 *)
Apart(s, n, types) ==
  /\ Listed(s, n) /\ \A a, b \in 1 .. n : s[a] = s[b] => a = b
  /\ \A a \in 1 .. n : "type" \in DOMAIN s[a] /\ s[a].type \in types

LEMMA JoinedApart ==
  ASSUME NEW m \in Nat, NEW n \in Nat, NEW s, NEW t, NEW S, NEW T,
         Apart(s, m, S), Apart(t, n, T), S \cap T = {}
  PROVE  Apart(Then(s, t), m + n, S \cup T)
<1> DEFINE u == Then(s, t)
<1>1. /\ Listed(u, m + n) /\ \A i \in 1 .. m : u[i] = s[i]
      /\ \A i \in 1 .. n : u[m + i] = t[i]
  BY ListsJoin DEF Apart
<1> HIDE DEF u
<1>2. ASSUME NEW a \in 1 .. m + n
      PROVE  \/ a \in 1 .. m /\ u[a] = s[a] /\ u[a].type \in S
             \/ /\ a - m \in 1 .. n /\ m + (a - m) = a
                /\ u[a] = t[a - m] /\ u[a].type \in T
  <2>1. a \in 1 .. m \/ (a - m \in 1 .. n /\ m + (a - m) = a)
    OBVIOUS
  <2>2. (\A i \in 1 .. m : s[i].type \in S) /\ \A i \in 1 .. n : t[i].type \in T
    BY DEF Apart
  <2>3. a - m \in 1 .. n => u[m + (a - m)] = t[a - m]
    BY <1>1
  <2> QED BY <1>1, <2>1, <2>2, <2>3
<1>3. ASSUME NEW a \in 1 .. m + n, NEW b \in 1 .. m + n, u[a] = u[b] PROVE a = b
  <2>1. \/ a \in 1 .. m /\ b \in 1 .. m /\ s[a] = s[b]
        \/ /\ a - m \in 1 .. n /\ m + (a - m) = a
           /\ b - m \in 1 .. n /\ m + (b - m) = b /\ t[a - m] = t[b - m]
    BY <1>2, <1>3
  <2>2. /\ \A i, j \in 1 .. m : s[i] = s[j] => i = j
        /\ \A i, j \in 1 .. n : t[i] = t[j] => i = j
    BY DEF Apart
  <2>3. CASE a \in 1 .. m /\ b \in 1 .. m /\ s[a] = s[b]
    BY <2>2, <2>3
  <2>4. CASE /\ a - m \in 1 .. n /\ m + (a - m) = a
             /\ b - m \in 1 .. n /\ m + (b - m) = b /\ t[a - m] = t[b - m]
    <3>1. a - m = b - m
      BY <2>2, <2>4
    <3> QED BY <2>4, <3>1
  <2> QED BY <2>1, <2>3, <2>4
<1>4. ASSUME NEW a \in 1 .. m + n PROVE "type" \in DOMAIN u[a] /\ u[a].type \in S \cup T
  BY <1>2 DEF Apart
<1> QED BY <1>1, <1>3, <1>4 DEF Apart, u

Types == {"SECTION", "PARAGRAPH", "SENTENCE", "TOKEN"}

LEMMA ViewsApart ==
  ASSUME NEW n, Passes(n)
  PROVE  \E k \in Nat : Apart(Narration!NodeViews(n), k, Types)
<1> DEFINE ids == Narration!NodeIds(n)
           At(type) == {i \in DOMAIN n.nodes : n.nodes[i].type = type}
           Of(type) == Narration!Picked(ids, At(type))
           tokens == Narration!TokenIds(n)
           N == Len(n.nodes)
           T == Len(n.tokens)
<1>1. /\ N \in Nat /\ DOMAIN n.nodes = 1 .. N
      /\ T \in Nat /\ DOMAIN n.tokens = 1 .. T
  BY NodesOfText
<1> HIDE DEF N, T
<1>2. /\ \A i \in DOMAIN n.nodes : "type" \in DOMAIN ids[i] /\ ids[i].type = n.nodes[i].type
      /\ \A i, j \in DOMAIN n.nodes : ids[i] = ids[j] => i = j
  BY IdsApart
<1>3. Narration!NodeViews(n)
        = Then(Then(Then(Of("SECTION"), Of("PARAGRAPH")), Of("SENTENCE")), tokens)
  BY DEF Narration!NodeViews, Then
<1> HIDE DEF ids
<1>4. ASSUME NEW type PROVE \E k \in Nat : Apart(Of(type), k, {type})
  <2> DEFINE P == At(type)
  <2>1. P \in SUBSET (1 .. N) /\ \A i \in P : i \in DOMAIN n.nodes /\ n.nodes[i].type = type
    BY <1>1
  <2>2. Differ(ids, P)
    BY <1>2 DEF Differ
  <2> HIDE DEF P
  <2>3. OneEach(ids, P, Narration!Picked(ids, P))
    BY <1>1, <2>1, <2>2, PickedApart
  <2>4. Apart(Narration!Picked(ids, P), Cardinality(P), {type})
    BY <1>2, <2>1, <2>3 DEF Apart, OneEach
  <2> QED BY <2>3, <2>4 DEF P, OneEach
<1>5. Apart(tokens, T, {"TOKEN"})
  <2>1. Listed(tokens, T)
    BY <1>1 DEF Listed, Narration!TokenIds
  <2>2. \A i \in DOMAIN n.tokens : /\ "type" \in DOMAIN tokens[i] /\ tokens[i].type = "TOKEN"
                                   /\ tokens[i].order = n.tokens[i].order
    BY DEF Narration!TokenIds
  <2> HIDE DEF tokens
  <2>3. ASSUME NEW i \in DOMAIN n.tokens, NEW j \in DOMAIN n.tokens, tokens[i] = tokens[j]
        PROVE  i = j
    <3>1. n.tokens[i].order = n.tokens[j].order
      BY <2>2, <2>3
    <3>2. n.tokens[i].order \in Nat /\ n.tokens[j].order \in Nat
      BY NodesOfText
    <3>3. i \in 1 .. j - 1 => n.tokens[i].order < n.tokens[j].order
      BY TokensInOrder
    <3>4. j \in 1 .. i - 1 => n.tokens[j].order < n.tokens[i].order
      BY TokensInOrder
    <3>5. i \in 1 .. j - 1 \/ j \in 1 .. i - 1 \/ i = j
      BY <1>1
    <3> QED BY <3>1, <3>2, <3>3, <3>4, <3>5
  <2> QED BY <1>1, <2>1, <2>2, <2>3 DEF Apart
<1> HIDE DEF Of, tokens
<1>6. PICK a \in Nat : Apart(Of("SECTION"), a, {"SECTION"})
  BY <1>4
<1>7. PICK b \in Nat : Apart(Of("PARAGRAPH"), b, {"PARAGRAPH"})
  BY <1>4
<1>8. PICK c \in Nat : Apart(Of("SENTENCE"), c, {"SENTENCE"})
  BY <1>4
<1> DEFINE p == Then(Of("SECTION"), Of("PARAGRAPH"))
           q == Then(p, Of("SENTENCE"))
<1>9. Apart(p, a + b, {"SECTION"} \cup {"PARAGRAPH"})
  BY <1>6, <1>7, JoinedApart
<1> HIDE DEF p
<1>10. Apart(q, a + b + c, {"SECTION"} \cup {"PARAGRAPH"} \cup {"SENTENCE"})
  <2>1. a + b \in Nat /\ ({"SECTION"} \cup {"PARAGRAPH"}) \cap {"SENTENCE"} = {}
    OBVIOUS
  <2> QED BY <1>8, <1>9, <2>1, JoinedApart
<1> HIDE DEF q
<1>11. Apart(Then(q, tokens), a + b + c + T,
             {"SECTION"} \cup {"PARAGRAPH"} \cup {"SENTENCE"} \cup {"TOKEN"})
  <2>1. /\ a + b + c \in Nat
        /\ ({"SECTION"} \cup {"PARAGRAPH"} \cup {"SENTENCE"}) \cap {"TOKEN"} = {}
    OBVIOUS
  <2> QED BY <1>1, <1>5, <1>10, <2>1, JoinedApart
<1>12. {"SECTION"} \cup {"PARAGRAPH"} \cup {"SENTENCE"} \cup {"TOKEN"} = Types
  BY DEF Types
<1>13. a + b + c + T \in Nat
  BY <1>1
<1> QED BY <1>3, <1>11, <1>12, <1>13 DEF p, q

-----------------------------------------------------------------------------
(* Manifests.                                                              *)

IsRecord(r) ==
  /\ DOMAIN r = {"successor", "predecessor", "relation", "supersedes"}
  /\ r.relation \in Narration!Relations

IsManifest(m) ==
  /\ DOMAIN m = {"records", "removed"}
  /\ \E k \in Nat : Listed(m.records, k) /\ \A i \in 1 .. k : IsRecord(m.records[i])

LEMMA RecordsAreRecords ==
  \A x, claim, initial : IsRecord(Narration!Record(x, claim, initial))
BY DEF IsRecord, Narration!Record, Narration!Relations

LEMMA MappingsAreManifests ==
  ASSUME NEW views, NEW k \in Nat, Listed(views, k), NEW previous, NEW initial,
         NEW m \in Narration!Mappings(views, previous, initial)
  PROVE  IsManifest(m)
<1>1. DOMAIN views = 1 .. k
  BY DEF Listed
<1> DEFINE At(nodes, type) == {i \in DOMAIN nodes : nodes[i].type = type}
           Claims(type) ==
             [At(views, type) -> {Narration!None} \cup {previous[i] : i \in At(previous, type)}]
           Full(claims) == Narration!Manifest(views, previous, initial, claims)
           Both(f, g) == Narration!Joined(f, g)
<1>2. PICK claims : m = Full(claims)
  <2>1. Narration!Mappings(views, previous, initial)
          = {Full(Both(Both(a, b), Both(c, d))) :
               a \in Claims("SECTION"), b \in Claims("PARAGRAPH"),
               c \in Claims("SENTENCE"), d \in Claims("TOKEN")}
    BY DEF Narration!Mappings
  <2> HIDE DEF Full, Both, Claims
  <2> QED BY <2>1
<1>3. /\ DOMAIN m = {"records", "removed"}
      /\ m.records = [i \in 1 .. k |-> Narration!Record(views[i], claims[i], initial)]
  BY <1>1, <1>2 DEF Narration!Manifest
<1>4. Listed(m.records, k)
  BY <1>3 DEF Listed
<1>5. \A i \in 1 .. k : IsRecord(m.records[i])
  BY <1>3, RecordsAreRecords
<1> QED BY <1>3, <1>4, <1>5 DEF IsManifest

LEMMA ShorterIsListed ==
  ASSUME NEW s, NEW k \in Nat, Listed(s, k)
  PROVE  \E l \in Nat : /\ Listed(SubSeq(s, 2, Len(s)), l)
                        /\ \A i \in 1 .. l : \E j \in 1 .. k : SubSeq(s, 2, Len(s))[i] = s[j]
<1> DEFINE S == {s[i] : i \in 1 .. k}
           t == SubSeq(s, 2, Len(s))
           l == IF 2 <= k THEN k - 2 + 1 ELSE 0
<1>1. s \in [1 .. k -> S]
  BY DEF Listed
<1>2. \A i \in 2 .. k : s[i] \in S
  OBVIOUS
<1> HIDE DEF S
<1>3. s \in Seq(S)
  BY <1>1, SeqDef
<1>4. Len(s) = k /\ 2 \in Int /\ k \in Int
  BY <1>1, <1>3, LenProperties
<1>5. t \in Seq(S) /\ Len(t) = l
  BY <1>2, <1>4, SubSeqProperties
<1>6. l \in Nat
  OBVIOUS
<1>7. t \in [1 .. l -> S]
  <2> HIDE DEF t, l
  <2> QED BY <1>5, LenProperties
<1>8. Listed(t, l)
  <2> HIDE DEF t, l
  <2> QED BY <1>7 DEF Listed
<1>9. \A i \in 1 .. l : t[i] \in S
  <2> HIDE DEF t, l
  <2> QED BY <1>7
<1> QED BY <1>6, <1>8, <1>9 DEF S

LEMMA DoubtfulAreManifests ==
  ASSUME NEW m, IsManifest(m), NEW previous, NEW d \in Narration!Doubtful(m, previous)
  PROVE  IsManifest(d)
<1>1. PICK k \in Nat : Listed(m.records, k) /\ \A i \in 1 .. k : IsRecord(m.records[i])
  BY DEF IsManifest
<1>2. DOMAIN m = {"records", "removed"} /\ DOMAIN m.records = 1 .. k
  BY <1>1 DEF IsManifest, Listed
<1>3. \/ d = [m EXCEPT !.records = SubSeq(m.records, 2, Len(m.records))]
      \/ \E i \in DOMAIN m.records, r \in Narration!Relations :
           d = [m EXCEPT !.records[i].relation = r]
      \/ \E i \in DOMAIN m.records : d = [m EXCEPT !.records[i].supersedes = Narration!None]
      \/ \E x : d = [m EXCEPT !.removed = x]
  <2>1. \/ d \in {[m EXCEPT !.records = SubSeq(m.records, 2, Len(m.records))]}
        \/ d \in {[m EXCEPT !.records[i].relation = relation] :
                   i \in DOMAIN m.records, relation \in Narration!Relations}
        \/ d \in {[m EXCEPT !.records[i].supersedes = Narration!None] : i \in DOMAIN m.records}
        \/ d \in {[m EXCEPT !.removed = Append(m.removed, previous[i])] : i \in DOMAIN previous}
        \/ d = [m EXCEPT !.removed = SubSeq(m.removed, 2, Len(m.removed))]
        \/ d = [m EXCEPT !.removed = Narration!Reverse(m.removed)]
    BY DEF Narration!Doubtful
  <2> QED BY <2>1
<1>4. CASE d = [m EXCEPT !.records = SubSeq(m.records, 2, Len(m.records))]
  <2> DEFINE t == SubSeq(m.records, 2, Len(m.records))
  <2>1. DOMAIN d = {"records", "removed"} /\ d.records = t
    BY <1>2, <1>4
  <2> HIDE DEF t
  <2>2. PICK l \in Nat : Listed(t, l) /\ \A i \in 1 .. l : \E j \in 1 .. k : t[i] = m.records[j]
    BY <1>1, ShorterIsListed DEF t
  <2> QED BY <1>1, <2>1, <2>2 DEF IsManifest
<1>5. ASSUME NEW i \in DOMAIN m.records, NEW r \in Narration!Relations,
             d = [m EXCEPT !.records[i].relation = r]
      PROVE  IsManifest(d)
  <2>1. /\ DOMAIN d = {"records", "removed"}
        /\ d.records = [m.records EXCEPT ![i].relation = r]
    BY <1>2, <1>5
  <2>2. Listed(d.records, k)
    BY <1>2, <2>1 DEF Listed
  <2>3. ASSUME NEW j \in 1 .. k PROVE IsRecord(d.records[j])
    BY <1>1, <1>2, <2>1 DEF IsRecord
  <2> QED BY <2>1, <2>2, <2>3 DEF IsManifest
<1>6. ASSUME NEW i \in DOMAIN m.records, d = [m EXCEPT !.records[i].supersedes = Narration!None]
      PROVE  IsManifest(d)
  <2>1. /\ DOMAIN d = {"records", "removed"}
        /\ d.records = [m.records EXCEPT ![i].supersedes = Narration!None]
    BY <1>2, <1>6
  <2>2. Listed(d.records, k)
    BY <1>2, <2>1 DEF Listed
  <2>3. ASSUME NEW j \in 1 .. k PROVE IsRecord(d.records[j])
    BY <1>1, <1>2, <2>1 DEF IsRecord
  <2> QED BY <2>1, <2>2, <2>3 DEF IsManifest
<1>7. ASSUME NEW x, d = [m EXCEPT !.removed = x] PROVE IsManifest(d)
  <2>1. DOMAIN d = {"records", "removed"} /\ d.records = m.records
    BY <1>2, <1>7
  <2> QED BY <1>1, <2>1 DEF IsManifest
<1> QED BY <1>3, <1>4, <1>5, <1>6, <1>7

(* What an accepted manifest of a successor says.                          *)
LEMMA ManifestAccepted ==
  ASSUME NEW m, NEW views, NEW previous,
         Narration!ManifestFault(m, views, previous, FALSE) = Fine
  PROVE  /\ \A i \in DOMAIN m.records :
              /\ ~Narration!RecordInvalid(m, i, {previous[j] : j \in DOMAIN previous})
              /\ ~Narration!FamilyBroken(m, m.records[i])
         /\ m.removed = Narration!Unclaimed(m, previous)
<1> DEFINE nodes == {previous[j] : j \in DOMAIN previous}
           shape == <<<<Len(m.records) # Len(views), "IDENTITY_MISMATCH">>,
              <<\E i \in DOMAIN m.records : /\ i \in DOMAIN views
                                            /\ m.records[i].successor # views[i],
                "IDENTITY_MISMATCH">>>>
           rows == <<<<\E i \in DOMAIN m.records : Narration!RecordInvalid(m, i, nodes),
                       "IDENTITY_MISMATCH">>,
                  <<m.removed # Narration!Unclaimed(m, previous), "IDENTITY_MISMATCH">>,
                  <<\E i \in DOMAIN m.records : Narration!FamilyBroken(m, m.records[i]),
                    "IDENTITY_MISMATCH">>>>
<1>1. Narration!Fine = Fine
  BY DEF Fine, Narration!Fine
<1>2. Narration!FirstFault(rows) = Fine
  BY <1>1 DEF Narration!ManifestFault
<1>3. Chain(rows, 3)
  BY DEF Chain, Fine
<1>4. ~rows[1][1] /\ ~rows[2][1] /\ ~rows[3][1]
  <2> HIDE DEF rows
  <2> QED BY <1>2, <1>3, NoRowHolds
<1> QED BY <1>4

(* A record that continues a node is kept, and no other record claims the  *)
(* same node.                                                              *)
LEMMA ClaimsAreUnique ==
  ASSUME NEW m, IsManifest(m), NEW views, NEW previous,
         Narration!ManifestFault(m, views, previous, FALSE) = Fine
  PROVE  /\ \A i \in DOMAIN m.records : m.records[i].predecessor # Narration!None =>
              m.records[i].relation \in Narration!Kept
         /\ \A i, j \in DOMAIN m.records :
              /\ m.records[i].predecessor = m.records[j].predecessor
              /\ m.records[i].predecessor # Narration!None
              => i = j
<1> DEFINE nodes == {previous[j] : j \in DOMAIN previous}
<1>1. PICK k \in Nat : Listed(m.records, k) /\ \A i \in 1 .. k : IsRecord(m.records[i])
  BY DEF IsManifest
<1>2. DOMAIN m.records = 1 .. k
  BY <1>1 DEF Listed
<1>3. \A i \in DOMAIN m.records : ~Narration!RecordInvalid(m, i, nodes)
  BY ManifestAccepted
<1> HIDE DEF nodes
<1>4. ASSUME NEW i \in DOMAIN m.records, m.records[i].predecessor # Narration!None
      PROVE  m.records[i].relation \in Narration!Kept /\ ~Narration!ClaimInvalid(m, i, nodes)
  <2>1. m.records[i].relation \in Narration!Relations
    BY <1>1, <1>2 DEF IsRecord
  <2>2. ~Narration!RecordInvalid(m, i, nodes)
    BY <1>3
  <2>3. m.records[i].relation # "INITIAL"
    BY <2>2 DEF Narration!RecordInvalid
  <2>4. m.records[i].relation # "INSERTED"
    BY <1>4, <2>2 DEF Narration!RecordInvalid, Narration!InsertedInvalid
  <2>5. m.records[i].relation \in Narration!Kept
    BY <2>1, <2>3, <2>4 DEF Narration!Relations, Narration!Kept
  <2>6. ~Narration!ClaimInvalid(m, i, nodes)
    BY <2>2, <2>5 DEF Narration!RecordInvalid
  <2> QED BY <2>5, <2>6
<1>5. ASSUME NEW i \in DOMAIN m.records, NEW j \in DOMAIN m.records, j < i,
             m.records[i].predecessor = m.records[j].predecessor,
             m.records[i].predecessor # Narration!None
      PROVE  FALSE
  <2>1. j \in 1 .. i - 1
    BY <1>2, <1>5
  <2>2. m.records[j].relation \in Narration!Kept /\ ~Narration!ClaimInvalid(m, i, nodes)
    BY <1>4, <1>5
  <2> QED BY <1>5, <2>1, <2>2 DEF Narration!ClaimInvalid
<1>6. ASSUME NEW i \in DOMAIN m.records, NEW j \in DOMAIN m.records,
             m.records[i].predecessor = m.records[j].predecessor,
             m.records[i].predecessor # Narration!None
      PROVE  i = j
  <2>1. i < j \/ j < i \/ i = j
    BY <1>2
  <2> QED BY <1>5, <1>6, <2>1
<1>7. \A i \in DOMAIN m.records : m.records[i].predecessor # Narration!None =>
        m.records[i].relation \in Narration!Kept
  BY <1>4
<1>8. \A i, j \in DOMAIN m.records :
        /\ m.records[i].predecessor = m.records[j].predecessor
        /\ m.records[i].predecessor # Narration!None
        => i = j
  BY <1>6
<1> HIDE DEF nodes
<1> QED BY <1>7, <1>8

(* A node is continued by one record or removed once.                      *)
Once(m, x) ==
  Narration!Cardinality({i \in DOMAIN m.records : m.records[i].predecessor = x})
  + Narration!Cardinality({i \in DOMAIN m.removed : m.removed[i] = x}) = 1

LEMMA NodesAreAccounted ==
  ASSUME NEW k \in Nat, NEW previous, Apart(previous, k, Types),
         NEW m, IsManifest(m), NEW views,
         Narration!ManifestFault(m, views, previous, FALSE) = Fine,
         NEW h \in DOMAIN previous
  PROVE  Once(m, previous[h])
<1> DEFINE x == previous[h]
           C == {i \in DOMAIN m.records : m.records[i].predecessor = x}
           R == {i \in DOMAIN m.removed : m.removed[i] = x}
           claimed == Narration!Claimed(m)
           P == {i \in DOMAIN previous : previous[i] \notin claimed}
<1>1. DOMAIN previous = 1 .. k /\ Differ(previous, P)
  BY DEF Apart, Listed, Differ
<1>2. OneEach(previous, P, m.removed)
  <2>1. m.removed = Narration!Picked(previous, P)
    BY ManifestAccepted DEF Narration!Unclaimed
  <2>2. P \in SUBSET (1 .. k)
    BY <1>1
  <2> HIDE DEF P
  <2> QED BY <1>1, <2>1, <2>2, PickedApart
<1>x. x \in {previous[i] : i \in DOMAIN previous}
  OBVIOUS
<1> HIDE DEF x
<1>3. x # Narration!None
  <2>1. "type" \in DOMAIN x
    BY <1>1, <1>x DEF Apart
  <2>2. DOMAIN Narration!None = {"kind"}
    BY DEF Narration!None
  <2> QED BY <2>1, <2>2
<1>4. \A i \in C : x \in claimed
  BY <1>3, ClaimsAreUnique DEF Narration!Claimed
<1>5. ASSUME x \in claimed
      PROVE  Narration!Cardinality(C) + Narration!Cardinality(R) = 1
  <2>1. PICK i \in DOMAIN m.records : m.records[i].predecessor = x
    BY <1>5 DEF Narration!Claimed
  <2>2. C = {i}
    BY <1>3, <2>1, ClaimsAreUnique
  <2>3. R = {}
    BY <1>2, <1>5 DEF OneEach, Listed
  <2>4. Narration!Cardinality(C) = 1 /\ Narration!Cardinality(R) = 0
    BY <2>2, <2>3, SameCount, FS_EmptySet, FS_Singleton
  <2> QED BY <2>4
<1>6. ASSUME x \notin claimed
      PROVE  Narration!Cardinality(C) + Narration!Cardinality(R) = 1
  <2>1. C = {}
    BY <1>4, <1>6
  <2>2. PICK i \in P : previous[i] = x
    BY <1>6, <1>x
  <2>3. PICK a \in 1 .. Cardinality(P) : m.removed[a] = x
    BY <1>2, <2>2 DEF OneEach
  <2>4. DOMAIN m.removed = 1 .. Cardinality(P)
    BY <1>2 DEF OneEach, Listed
  <2>5. \A b \in 1 .. Cardinality(P) : m.removed[b] = x => b = a
    BY <1>2, <2>3 DEF OneEach
  <2>6. R = {a}
    BY <2>3, <2>4, <2>5
  <2>7. Narration!Cardinality(C) = 0 /\ Narration!Cardinality(R) = 1
    BY <2>1, <2>6, SameCount, FS_EmptySet, FS_Singleton
  <2> QED BY <2>7
<1>7. Once(m, x)
  <2>1. Narration!Cardinality(C) + Narration!Cardinality(R) = 1
    BY <1>5, <1>6
  <2> QED BY <2>1 DEF Once
<1> QED BY <1>7 DEF x

LEMMA FamiliesAreKept ==
  ASSUME NEW m, IsManifest(m), NEW views, NEW previous,
         Narration!ManifestFault(m, views, previous, FALSE) = Fine,
         NEW i \in DOMAIN m.records,
         m.records[i].predecessor # Narration!None, m.records[i].successor.under # Narration!None
  PROVE  \E j \in DOMAIN m.records :
           /\ m.records[j].successor = m.records[i].successor.under
           /\ m.records[j].predecessor = m.records[i].predecessor.under
<1>1. ~Narration!FamilyBroken(m, m.records[i])
  BY ManifestAccepted
<1>2. m.records[i].relation \in Narration!Kept
  BY ClaimsAreUnique
<1> QED BY <1>1, <1>2 DEF Narration!FamilyBroken

-----------------------------------------------------------------------------
(* The words of a node stand side by side.                                 *)

(* The places of the words among the tokens.                               *)
WordPlaces(n) == {i \in DOMAIN n.tokens : n.tokens[i].spoken}

Covers(n, i, t) == n.nodes[i].start <= t.start /\ t.end <= n.nodes[i].end

(* A token lies in its sentence, paragraph and section.                    *)
Paragraph(n, t) == n.nodes[t.up].up
Section(n, t) == n.nodes[Paragraph(n, t)].up

Lies(n, t) ==
  /\ Narration!NodesAbove(n, t) = {t.up, Paragraph(n, t), Section(n, t)}
  /\ \A i \in Narration!NodesAbove(n, t) : i \in DOMAIN n.nodes /\ Covers(n, i, t)
  /\ n.nodes[t.up].type = "SENTENCE" /\ n.nodes[Paragraph(n, t)].type = "PARAGRAPH"
  /\ n.nodes[Section(n, t)].type = "SECTION" /\ n.nodes[Section(n, t)].up = 0

LEMMA AncestorsCover ==
  ASSUME NEW n, Passes(n), NEW k \in DOMAIN n.tokens
  PROVE  Lies(n, n.tokens[k])
<1> DEFINE t == n.tokens[k]
           u == t.up
           p == n.nodes[u].up
           s == n.nodes[p].up
<1>0. ASSUME NEW i \in DOMAIN n.nodes, n.nodes[i].type # "SECTION"
      PROVE  /\ n.nodes[i].up \in DOMAIN n.nodes
             /\ n.nodes[n.nodes[i].up].start <= n.nodes[i].start
             /\ n.nodes[i].end <= n.nodes[n.nodes[i].up].end
             /\ n.nodes[n.nodes[i].up].start \in Nat /\ n.nodes[n.nodes[i].up].end \in Nat
             /\ n.nodes[i].type = "PARAGRAPH" => n.nodes[n.nodes[i].up].type = "SECTION"
             /\ n.nodes[i].type = "SENTENCE" => n.nodes[n.nodes[i].up].type = "PARAGRAPH"
  <2>1. n.nodes[i].up \in DOMAIN n.nodes
    BY <1>0, NodesOfText
  <2> QED BY <1>0, <2>1, NodesOfText
<1>1. /\ t.start \in Nat /\ t.end \in Nat /\ u \in DOMAIN n.nodes /\ n.nodes[u].type = "SENTENCE"
      /\ n.nodes[u].start <= t.start /\ t.end <= n.nodes[u].end
      /\ n.nodes[u].start \in Nat /\ n.nodes[u].end \in Nat
  BY NodesOfText
<1>2. /\ p \in DOMAIN n.nodes /\ n.nodes[p].type = "PARAGRAPH"
      /\ n.nodes[p].start <= n.nodes[u].start /\ n.nodes[u].end <= n.nodes[p].end
      /\ n.nodes[p].start \in Nat /\ n.nodes[p].end \in Nat
  BY <1>0, <1>1
<1>3. /\ s \in DOMAIN n.nodes /\ n.nodes[s].type = "SECTION" /\ n.nodes[s].up = 0
      /\ n.nodes[s].start <= n.nodes[p].start /\ n.nodes[p].end <= n.nodes[s].end
      /\ n.nodes[s].start \in Nat /\ n.nodes[s].end \in Nat
  <2>1. n.nodes[s].type = "SECTION" => n.nodes[s].up = 0
    <3>1. s \in DOMAIN n.nodes
      BY <1>0, <1>2
    <3>2. \A i \in DOMAIN n.nodes : n.nodes[i].type = "SECTION" => n.nodes[i].up = 0
      BY NodesOfText
    <3> QED BY <3>1, <3>2
  <2> QED BY <1>0, <1>2, <2>1
<1>4. u # 0
  <2>1. DOMAIN n.nodes = 1 .. Len(n.nodes) /\ Len(n.nodes) \in Nat
    BY NodesOfText
  <2> QED BY <1>1, <2>1
<1>5. Narration!NodesAbove(n, t) = {u, p, s}
  BY <1>4 DEF Narration!NodesAbove
<1>6. p = Paragraph(n, t) /\ s = Section(n, t)
  BY DEF Paragraph, Section
<1> HIDE DEF u, p, s
<1>7. Covers(n, u, t) /\ Covers(n, p, t) /\ Covers(n, s, t)
  BY <1>1, <1>2, <1>3 DEF Covers
<1>8. u = t.up
  BY DEF u
<1> HIDE DEF t
<1>9. Lies(n, t)
  BY <1>1, <1>2, <1>3, <1>5, <1>6, <1>7, <1>8 DEF Lies
<1> QED BY <1>9 DEF t

(* A word is a token, and a word ends before the next one starts.          *)
Word(n, w) ==
  /\ \E k \in DOMAIN n.tokens : w = n.tokens[k]
  /\ w.start \in Nat /\ w.end \in Nat /\ w.start < w.end

LEMMA WordsInOrder ==
  ASSUME NEW n, Passes(n)
  PROVE  \E last \in Nat :
           /\ DOMAIN Narration!Words(n) = 1 .. last
           /\ \A a \in 1 .. last : Word(n, Narration!Words(n)[a])
           /\ \A a, b \in 1 .. last : a < b =>
                Narration!Words(n)[a].end <= Narration!Words(n)[b].start
<1> DEFINE P == WordPlaces(n)
           T == Len(n.tokens)
           words == Narration!Words(n)
<1>1. T \in Nat /\ DOMAIN n.tokens = 1 .. T
  BY NodesOfText
<1>2. P \in SUBSET (1 .. T)
  BY <1>1 DEF WordPlaces
<1>3. words = Narration!Picked(n.tokens, P)
  BY DEF Narration!Words, WordPlaces
<1> HIDE DEF P, T, words
<1>4. P \in SUBSET Nat /\ IsFiniteSet(P)
  BY <1>1, <1>2, PlacesAreNumbers
<1>5. PICK q : Places(P, q) /\ words = [k \in 1 .. Cardinality(P) |-> n.tokens[q[k]]]
  BY <1>3, <1>4, PickedHasPlaces
<1>6. Cardinality(P) \in Nat /\ DOMAIN words = 1 .. Cardinality(P)
  BY <1>4, <1>5, PickedHasPlaces
<1>7. \A a \in 1 .. Cardinality(P) : q[a] \in 1 .. T /\ words[a] = n.tokens[q[a]]
  BY <1>2, <1>5 DEF Places
<1>8. ASSUME NEW a \in 1 .. Cardinality(P) PROVE Word(n, words[a])
  <2>1. q[a] \in DOMAIN n.tokens /\ words[a] = n.tokens[q[a]]
    BY <1>1, <1>7
  <2> QED BY <2>1, NodesOfText DEF Word
<1>9. ASSUME NEW a \in 1 .. Cardinality(P), NEW b \in 1 .. Cardinality(P), a < b
      PROVE  words[a].end <= words[b].start
  <2>1. q[a] < q[b] /\ q[a] \in 1 .. T /\ q[b] \in 1 .. T
    BY <1>5, <1>7, <1>9 DEF Places
  <2>2. q[a] \in 1 .. q[b] - 1 /\ q[b] \in DOMAIN n.tokens
    BY <1>1, <2>1
  <2> QED BY <1>7, <2>2, TokensInOrder
<1> QED BY <1>6, <1>8, <1>9 DEF words

(* Of two siblings, one of which has a word before and one after a word of *)
(* the other, both are the same.                                           *)
LEMMA SameSibling ==
  ASSUME NEW n, Passes(n), NEW i \in DOMAIN n.nodes, NEW j \in DOMAIN n.nodes,
         n.nodes[i].up = n.nodes[j].up,
         NEW a, NEW b, NEW c, Word(n, a), Word(n, b), Word(n, c),
         a.end <= b.start, b.end <= c.start,
         Covers(n, i, a), Covers(n, j, b), Covers(n, i, c)
  PROVE  i = j
<1> DEFINE x == n.nodes[i]
           y == n.nodes[j]
<1>1. /\ DOMAIN n.nodes = 1 .. Len(n.nodes) /\ Len(n.nodes) \in Nat
      /\ x.start \in Nat /\ x.end \in Nat /\ y.start \in Nat /\ y.end \in Nat
  BY NodesOfText
<1>2. /\ a.start \in Nat /\ a.end \in Nat /\ a.start < a.end
      /\ b.start \in Nat /\ b.end \in Nat /\ b.start < b.end
      /\ c.start \in Nat /\ c.end \in Nat /\ c.start < c.end
  BY DEF Word
<1>3. x.start <= a.start /\ y.start <= b.start /\ b.end <= y.end /\ c.end <= x.end
  BY DEF Covers
<1>4. ASSUME i < j PROVE FALSE
  <2>1. i \in Narration!ElderSiblings(n, j)
    BY <1>1, <1>4 DEF Narration!ElderSiblings
  <2>2. x.end <= y.start
    BY <2>1, SiblingsInOrder
  <2> HIDE DEF x, y
  <2> QED BY <1>1, <1>2, <1>3, <2>2
<1>5. ASSUME j < i PROVE FALSE
  <2>1. j \in Narration!ElderSiblings(n, i)
    BY <1>1, <1>5 DEF Narration!ElderSiblings
  <2>2. y.end <= x.start
    BY <2>1, SiblingsInOrder
  <2> HIDE DEF x, y
  <2> QED BY <1>1, <1>2, <1>3, <2>2
<1> QED BY <1>1, <1>4, <1>5

LEMMA WordsLie ==
  ASSUME NEW n, Passes(n), NEW w, Word(n, w)
  PROVE  /\ Narration!NodesAbove(n, w) = {w.up, Paragraph(n, w), Section(n, w)}
         /\ \A i \in Narration!NodesAbove(n, w) : i \in DOMAIN n.nodes /\ Covers(n, i, w)
         /\ n.nodes[w.up].type = "SENTENCE" /\ n.nodes[Paragraph(n, w)].type = "PARAGRAPH"
         /\ n.nodes[Section(n, w)].type = "SECTION" /\ n.nodes[Section(n, w)].up = 0
<1>1. PICK k \in DOMAIN n.tokens : w = n.tokens[k]
  BY DEF Word
<1>2. Lies(n, w)
  BY <1>1, AncestorsCover
<1> QED BY <1>2 DEF Lies

LEMMA WordsBetween ==
  ASSUME NEW n, Passes(n), NEW i, NEW a, NEW b, NEW c, Word(n, a), Word(n, b), Word(n, c),
         a.end <= b.start, b.end <= c.start,
         i \in Narration!NodesAbove(n, a), i \in Narration!NodesAbove(n, c)
  PROVE  i \in Narration!NodesAbove(n, b)
<1>1. ASSUME NEW x \in Narration!NodesAbove(n, a), x \in Narration!NodesAbove(n, c),
             NEW y \in Narration!NodesAbove(n, b), n.nodes[x].up = n.nodes[y].up
      PROVE  x = y
  <2>1. /\ x \in DOMAIN n.nodes /\ y \in DOMAIN n.nodes
        /\ Covers(n, x, a) /\ Covers(n, y, b) /\ Covers(n, x, c)
    BY <1>1, WordsLie
  <2> QED BY <1>1, <2>1, SameSibling
<1>2. /\ Narration!NodesAbove(n, a) = {a.up, Paragraph(n, a), Section(n, a)}
      /\ Narration!NodesAbove(n, b) = {b.up, Paragraph(n, b), Section(n, b)}
      /\ Narration!NodesAbove(n, c) = {c.up, Paragraph(n, c), Section(n, c)}
  BY WordsLie
<1>3. /\ n.nodes[a.up].type = "SENTENCE" /\ n.nodes[c.up].type = "SENTENCE"
      /\ n.nodes[Paragraph(n, a)].type = "PARAGRAPH" /\ n.nodes[Paragraph(n, c)].type = "PARAGRAPH"
      /\ n.nodes[Section(n, a)].type = "SECTION" /\ n.nodes[Section(n, c)].type = "SECTION"
      /\ n.nodes[Section(n, a)].up = 0 /\ n.nodes[Section(n, b)].up = 0
  BY WordsLie
<1>4. /\ Paragraph(n, a) = n.nodes[a.up].up /\ Section(n, a) = n.nodes[Paragraph(n, a)].up
      /\ Paragraph(n, b) = n.nodes[b.up].up /\ Section(n, b) = n.nodes[Paragraph(n, b)].up
      /\ Paragraph(n, c) = n.nodes[c.up].up /\ Section(n, c) = n.nodes[Paragraph(n, c)].up
  BY DEF Paragraph, Section
<1>5. Section(n, a) = Section(n, c) => Section(n, b) = Section(n, a)
  BY <1>1, <1>2, <1>3
<1>6. Paragraph(n, a) = Paragraph(n, c) => Paragraph(n, b) = Paragraph(n, a)
  BY <1>1, <1>2, <1>4, <1>5
<1>7. ASSUME a.up = c.up PROVE b.up = a.up
  <2>1. Paragraph(n, b) = Paragraph(n, a)
    BY <1>4, <1>6, <1>7
  <2>2. n.nodes[a.up].up = n.nodes[b.up].up
    BY <1>4, <2>1
  <2>3. a.up \in Narration!NodesAbove(n, a) /\ a.up \in Narration!NodesAbove(n, c)
        /\ b.up \in Narration!NodesAbove(n, b)
    BY <1>2, <1>7
  <2> QED BY <1>1, <2>2, <2>3
<1>8. \/ i = a.up /\ i = c.up
      \/ i = Paragraph(n, a) /\ i = Paragraph(n, c)
      \/ i = Section(n, a) /\ i = Section(n, c)
  BY <1>2, <1>3
<1> QED BY <1>2, <1>5, <1>6, <1>7, <1>8

(* The words of a node, and those of an elder sibling.                     *)
RangesHold(n) ==
  /\ \A i \in DOMAIN n.nodes :
        \A a, c \in Narration!WordsUnder(n, i) : \A b \in a .. c : b \in Narration!WordsUnder(n, i)
  /\ \A i \in DOMAIN n.nodes : \A j \in Narration!ElderSiblings(n, i) :
        \A a \in Narration!WordsUnder(n, j), b \in Narration!WordsUnder(n, i) : a < b

LEMMA NodesAreRanges == ASSUME NEW n, Passes(n) PROVE RangesHold(n)
<1> DEFINE words == Narration!Words(n)
<1>1. PICK last \in Nat :
        /\ DOMAIN words = 1 .. last
        /\ \A a \in 1 .. last : Word(n, words[a])
        /\ \A a, b \in 1 .. last : a < b => words[a].end <= words[b].start
  BY WordsInOrder
<1>2. \A i, k : k \in Narration!WordsUnder(n, i) <=>
                  k \in 1 .. last /\ i \in Narration!NodesAbove(n, words[k])
  BY <1>1 DEF Narration!WordsUnder
<1> HIDE DEF words
<1>3. ASSUME NEW i \in DOMAIN n.nodes, NEW a \in Narration!WordsUnder(n, i),
             NEW c \in Narration!WordsUnder(n, i), NEW b \in a .. c
      PROVE  b \in Narration!WordsUnder(n, i)
  <2>1. a \in 1 .. last /\ c \in 1 .. last
    BY <1>2
  <2>2. b \in 1 .. last /\ (b = a \/ b = c \/ (a < b /\ b < c))
    BY <2>1
  <2>3. CASE b = a \/ b = c
    BY <2>3
  <2>4. CASE a < b /\ b < c
    <3>1. words[a].end <= words[b].start /\ words[b].end <= words[c].start
      BY <1>1, <2>1, <2>2, <2>4
    <3>2. i \in Narration!NodesAbove(n, words[a]) /\ i \in Narration!NodesAbove(n, words[c])
      BY <1>2
    <3>3. Word(n, words[a]) /\ Word(n, words[b]) /\ Word(n, words[c])
      BY <1>1, <2>1, <2>2
    <3>4. i \in Narration!NodesAbove(n, words[b])
      BY <3>1, <3>2, <3>3, WordsBetween
    <3> QED BY <1>2, <2>2, <3>4
  <2> QED BY <2>2, <2>3, <2>4
<1>4. ASSUME NEW i \in DOMAIN n.nodes, NEW j \in Narration!ElderSiblings(n, i),
             NEW a \in Narration!WordsUnder(n, j), NEW b \in Narration!WordsUnder(n, i)
      PROVE  a < b
  <2> DEFINE v == words[a]
             w == words[b]
             x == n.nodes[j]
             y == n.nodes[i]
  <2>1. a \in 1 .. last /\ b \in 1 .. last /\ Word(n, v) /\ Word(n, w)
    BY <1>1, <1>2
  <2>2. j \in Narration!NodesAbove(n, v) /\ i \in Narration!NodesAbove(n, w)
    BY <1>2
  <2>3. Covers(n, j, v) /\ Covers(n, i, w) /\ j \in DOMAIN n.nodes
    BY <2>1, <2>2, WordsLie
  <2>4. x.end <= y.start
    BY SiblingsInOrder
  <2>5. x.end \in Nat /\ y.start \in Nat
    BY <2>3, NodesOfText
  <2>6. v.end <= x.end /\ y.start <= w.start
    BY <2>3 DEF Covers
  <2>7. b < a => w.end <= v.start
    BY <1>1, <2>1
  <2>8. /\ v.start \in Nat /\ v.end \in Nat /\ v.start < v.end
        /\ w.start \in Nat /\ w.end \in Nat /\ w.start < w.end
    BY <2>1 DEF Word
  <2> HIDE DEF v, w, x, y
  <2>9. ~(b < a)
    BY <2>4, <2>5, <2>6, <2>7, <2>8
  <2>10. a # b
    <3>1. a = b => v = w
      BY DEF v, w
    <3> QED BY <2>4, <2>5, <2>6, <2>8, <3>1
  <2> QED BY <2>1, <2>9, <2>10
<1> QED BY <1>3, <1>4 DEF RangesHold

-----------------------------------------------------------------------------
(* A text with one number other than it should be is still a narration.    *)

LEMMA ListedIsSeq ==
  ASSUME NEW k \in Nat, NEW s, Listed(s, k)
  PROVE  s \in Seq({s[i] : i \in DOMAIN s})
<1>1. s \in [1 .. k -> {s[i] : i \in 1 .. k}] /\ DOMAIN s = 1 .. k
  BY DEF Listed
<1> QED BY <1>1, SeqDef

Lists == {"text", "nodes", "tokens", "projection"}

(* What the types of a node and of a token ask of the nodes around them.   *)
NodeFits(nodes, i) ==
  /\ nodes[i] \in [type : {"SECTION", "PARAGRAPH", "SENTENCE"},
                   up : {0} \cup DOMAIN nodes, order : Nat, start : Nat, end : Nat]
  /\ nodes[i].type = "SECTION" => nodes[i].up = 0
  /\ nodes[i].type = "PARAGRAPH" => nodes[i].up # 0 /\ nodes[nodes[i].up].type = "SECTION"
  /\ nodes[i].type = "SENTENCE" => nodes[i].up # 0 /\ nodes[nodes[i].up].type = "PARAGRAPH"

TokenFits(nodes, t) ==
  /\ DOMAIN t = {"spoken", "up", "order", "ordinal", "start", "end", "shown"}
  /\ t.spoken \in BOOLEAN /\ t.order \in Nat /\ t.start \in Nat /\ t.end \in Nat
  /\ t.up # 0 => t.up \in DOMAIN nodes /\ nodes[t.up].type = "SENTENCE"

Fits(n) ==
  /\ DOMAIN n = Lists
  /\ \A list \in Lists : \E k \in Nat : Listed(n[list], k)
  /\ \A i \in DOMAIN n.nodes : NodeFits(n.nodes, i)
  /\ \A i \in DOMAIN n.tokens : TokenFits(n.nodes, n.tokens[i])

LEMMA NarrationsFit == \A n : Narration!IsNarration(n) <=> Fits(n)
<1>1. ASSUME NEW n, Narration!IsNarration(n) PROVE Fits(n)
  <2>1. ASSUME NEW list \in Lists PROVE \E k \in Nat : Listed(n[list], k)
    <3>1. n[list] \in Seq({n[list][i] : i \in DOMAIN n[list]})
      BY <1>1 DEF Narration!IsNarration, Lists
    <3> DEFINE s == n[list]
    <3>2. s \in Seq({s[i] : i \in DOMAIN s})
      BY <3>1
    <3> HIDE DEF s
    <3>3. \E k \in Nat : Listed(s, k)
      BY <3>2, ListsAreListed
    <3> QED BY <3>3 DEF s
  <2>2. \A i \in DOMAIN n.nodes : NodeFits(n.nodes, i)
    BY <1>1 DEF Narration!IsNarration, NodeFits
  <2>3. \A i \in DOMAIN n.tokens : TokenFits(n.nodes, n.tokens[i])
    BY <1>1 DEF Narration!IsNarration, TokenFits
  <2>4. DOMAIN n = Lists
    BY <1>1 DEF Narration!IsNarration, Lists
  <2> QED BY <2>1, <2>2, <2>3, <2>4 DEF Fits
<1>2. ASSUME NEW n, Fits(n) PROVE Narration!IsNarration(n)
  <2>1. ASSUME NEW list \in Lists PROVE n[list] \in Seq({n[list][i] : i \in DOMAIN n[list]})
    <3> DEFINE s == n[list]
    <3>1. \E k \in Nat : Listed(s, k)
      BY <1>2 DEF Fits
    <3> HIDE DEF s
    <3>2. s \in Seq({s[i] : i \in DOMAIN s})
      BY <3>1, ListedIsSeq
    <3> QED BY <3>2 DEF s
  <2>2. DOMAIN n = Lists
    BY <1>2 DEF Fits
  <2>3. \A i \in DOMAIN n.nodes : NodeFits(n.nodes, i)
    BY <1>2 DEF Fits
  <2>4. \A i \in DOMAIN n.tokens : TokenFits(n.nodes, n.tokens[i])
    BY <1>2 DEF Fits
  <2>5. \A list \in DOMAIN n : n[list] \in Seq({n[list][i] : i \in DOMAIN n[list]})
    BY <2>1, <2>2
  <2>6. DOMAIN n = {"text", "nodes", "tokens", "projection"}
    BY <2>2 DEF Lists
  <2>7. \A i \in DOMAIN n.nodes :
          LET x == n.nodes[i] IN
          /\ x \in [type : {"SECTION", "PARAGRAPH", "SENTENCE"},
                   up : {0} \cup DOMAIN n.nodes, order : Nat, start : Nat, end : Nat]
          /\ x.type = "SECTION" => x.up = 0
          /\ x.type = "PARAGRAPH" => x.up # 0 /\ n.nodes[x.up].type = "SECTION"
          /\ x.type = "SENTENCE" => x.up # 0 /\ n.nodes[x.up].type = "PARAGRAPH"
    BY <2>3 DEF NodeFits
  <2>8. \A i \in DOMAIN n.tokens :
          LET t == n.tokens[i] IN
          /\ DOMAIN t = {"spoken", "up", "order", "ordinal", "start", "end", "shown"}
          /\ t.spoken \in BOOLEAN /\ {t.order, t.start, t.end} \subseteq Nat
          /\ t.up # 0 => t.up \in DOMAIN n.nodes /\ n.nodes[t.up].type = "SENTENCE"
    BY <2>4 DEF TokenFits
  <2> QED BY <2>5, <2>6, <2>7, <2>8 DEF Narration!IsNarration
<1> QED BY <1>1, <1>2

LEMMA NodeMayDiffer ==
  ASSUME NEW n, Fits(n), NEW i \in DOMAIN n.nodes, NEW y,
         y \in [type : {"SECTION", "PARAGRAPH", "SENTENCE"},
                up : {0} \cup DOMAIN n.nodes, order : Nat, start : Nat, end : Nat],
         y.type = n.nodes[i].type, y.up = n.nodes[i].up
  PROVE  Fits([n EXCEPT !.nodes[i] = y])
<1> DEFINE x == [n EXCEPT !.nodes[i] = y]
           s == [n.nodes EXCEPT ![i] = y]
<1>1. /\ DOMAIN x = Lists /\ x.nodes = s
      /\ x.text = n.text /\ x.tokens = n.tokens /\ x.projection = n.projection
  BY DEF Fits, Lists
<1>2. /\ DOMAIN s = DOMAIN n.nodes
      /\ \A j \in DOMAIN n.nodes : s[j] = IF j = i THEN y ELSE n.nodes[j]
  OBVIOUS
<1>3. \E k \in Nat : Listed(s, k)
  BY DEF Fits, Lists, Listed
<1> HIDE DEF x, s
<1>4. ASSUME NEW list \in Lists PROVE \E k \in Nat : Listed(x[list], k)
  <2>1. CASE list = "nodes"
    BY <1>1, <1>3, <2>1
  <2>2. CASE list # "nodes"
    BY <1>1, <2>2 DEF Fits, Lists
  <2> QED BY <2>1, <2>2
<1>5. \A j \in DOMAIN n.nodes : s[j].type = n.nodes[j].type /\ s[j].up = n.nodes[j].up
  BY <1>2
<1>6. ASSUME NEW j \in DOMAIN s PROVE NodeFits(s, j)
  <2>1. NodeFits(n.nodes, j) /\ j \in DOMAIN n.nodes
    BY <1>2 DEF Fits
  <2>2. n.nodes[j].up # 0 => n.nodes[j].up \in DOMAIN n.nodes
    BY <2>1 DEF NodeFits
  <2>3. s[j] \in [type : {"SECTION", "PARAGRAPH", "SENTENCE"},
                  up : {0} \cup DOMAIN s, order : Nat, start : Nat, end : Nat]
    BY <1>2, <2>1 DEF NodeFits
  <2> QED BY <1>5, <2>1, <2>2, <2>3 DEF NodeFits
<1>7. ASSUME NEW j \in DOMAIN n.tokens PROVE TokenFits(s, n.tokens[j])
  <2>1. TokenFits(n.nodes, n.tokens[j])
    BY DEF Fits
  <2> QED BY <1>2, <1>5, <2>1 DEF TokenFits
<1>8. Fits(x)
  BY <1>1, <1>4, <1>6, <1>7 DEF Fits
<1> QED BY <1>8 DEF x

LEMMA TokenMayDiffer ==
  ASSUME NEW n, Fits(n), NEW i \in DOMAIN n.tokens, NEW y, TokenFits(n.nodes, y)
  PROVE  Fits([n EXCEPT !.tokens[i] = y])
<1> DEFINE x == [n EXCEPT !.tokens[i] = y]
           s == [n.tokens EXCEPT ![i] = y]
<1>1. /\ DOMAIN x = Lists /\ x.tokens = s
      /\ x.text = n.text /\ x.nodes = n.nodes /\ x.projection = n.projection
  BY DEF Fits, Lists
<1>2. /\ DOMAIN s = DOMAIN n.tokens
      /\ \A j \in DOMAIN n.tokens : s[j] = IF j = i THEN y ELSE n.tokens[j]
  OBVIOUS
<1>3. \E k \in Nat : Listed(s, k)
  BY DEF Fits, Lists, Listed
<1> HIDE DEF x, s
<1>4. ASSUME NEW list \in Lists PROVE \E k \in Nat : Listed(x[list], k)
  <2>1. CASE list = "tokens"
    BY <1>1, <1>3, <2>1
  <2>2. CASE list # "tokens"
    BY <1>1, <2>2 DEF Fits, Lists
  <2> QED BY <2>1, <2>2
<1>5. \A j \in DOMAIN s : TokenFits(n.nodes, s[j])
  BY <1>2 DEF Fits
<1>6. Fits(x)
  BY <1>1, <1>4, <1>5 DEF Fits
<1> QED BY <1>6 DEF x

LEMMA OtherNodesFit ==
  ASSUME NEW n, Fits(n), Len(n.text) \in Nat, NEW i \in DOMAIN n.nodes,
         NEW y \in Narration!OtherNodes(n, n.nodes[i])
  PROVE  Fits([n EXCEPT !.nodes[i] = y])
<1> DEFINE x == n.nodes[i]
<1>1. x \in [type : {"SECTION", "PARAGRAPH", "SENTENCE"},
            up : {0} \cup DOMAIN n.nodes, order : Nat, start : Nat, end : Nat]
  BY DEF Fits, NodeFits
<1>2. PICK k \in Nat : \/ y = [x EXCEPT !.start = k]
                       \/ y = [x EXCEPT !.end = k]
                       \/ y = [x EXCEPT !.order = k]
  <2> HIDE DEF x
  <2>1. 0 .. Len(n.text) \subseteq Nat /\ 0 .. Len(n.text) + 1 \subseteq Nat /\ 1 .. 2 \subseteq Nat
    OBVIOUS
  <2>2. y \in Narration!OtherNodes(n, x)
    BY DEF x
  <2> QED BY <2>1, <2>2 DEF Narration!OtherNodes
<1>3. /\ y \in [type : {"SECTION", "PARAGRAPH", "SENTENCE"},
                up : {0} \cup DOMAIN n.nodes, order : Nat, start : Nat, end : Nat]
      /\ y.type = x.type /\ y.up = x.up
  <2> HIDE DEF x
  <2> QED BY <1>1, <1>2
<1> QED BY <1>3, NodeMayDiffer

LEMMA OtherTokensFit ==
  ASSUME NEW n, Fits(n), Len(n.text) \in Nat, NEW i \in DOMAIN n.tokens,
         NEW y \in Narration!OtherTokens(n, n.tokens[i])
  PROVE  Fits([n EXCEPT !.tokens[i] = y])
<1> DEFINE t == n.tokens[i]
           places == {0} \cup {j \in DOMAIN n.nodes : n.nodes[j].type = "SENTENCE"}
<1>1. TokenFits(n.nodes, t)
  BY DEF Fits
<1>2. \/ \E k \in Nat : \E o : y = [t EXCEPT !.start = k, !.shown = o]
      \/ \E k \in Nat : y = [t EXCEPT !.end = k]
      \/ \E k \in Nat : y = [t EXCEPT !.order = k]
      \/ \E k \in places : y = [t EXCEPT !.up = k]
      \/ \E o : y = [t EXCEPT !.ordinal = o]
  <2>1. 0 .. Len(n.text) \subseteq Nat /\ 0 .. Len(n.text) + 1 \subseteq Nat /\ 1 .. 2 \subseteq Nat
    OBVIOUS
  <2>2. y \in Narration!OtherTokens(n, t)
    OBVIOUS
  <2> HIDE DEF t
  <2>3. \/ y \in {[t EXCEPT !.start = k, !.shown = Narration!Slice(n, [start |-> k, end |-> t.end])] :
                    k \in 0 .. Len(n.text)}
        \/ y \in {[t EXCEPT !.end = k] : k \in 0 .. Len(n.text) + 1}
        \/ y \in {[t EXCEPT !.order = k] : k \in 1 .. 2}
        \/ y \in {[t EXCEPT !.up = k] : k \in places}
        \/ y \in {[t EXCEPT !.ordinal = o] : o \in {<<>>, <<0>>, <<1>>}}
    BY <2>2 DEF Narration!OtherTokens
  <2> HIDE DEF places
  <2> QED BY <2>1, <2>3
<1>3. TokenFits(n.nodes, y)
  <2> HIDE DEF t
  <2>1. \A k \in places : k # 0 => k \in DOMAIN n.nodes /\ n.nodes[k].type = "SENTENCE"
    OBVIOUS
  <2> HIDE DEF places
  <2>2. /\ DOMAIN t = {"spoken", "up", "order", "ordinal", "start", "end", "shown"}
        /\ t.spoken \in BOOLEAN /\ t.order \in Nat /\ t.start \in Nat /\ t.end \in Nat
        /\ t.up # 0 => t.up \in DOMAIN n.nodes /\ n.nodes[t.up].type = "SENTENCE"
    BY <1>1 DEF TokenFits
  <2>3. /\ DOMAIN y = {"spoken", "up", "order", "ordinal", "start", "end", "shown"}
        /\ y.spoken \in BOOLEAN /\ y.order \in Nat /\ y.start \in Nat /\ y.end \in Nat
        /\ y.up = t.up \/ y.up \in places
    BY <1>2, <2>2
  <2> QED BY <2>1, <2>2, <2>3 DEF TokenFits
<1> QED BY <1>3, TokenMayDiffer

LEMMA ShorterProjectionFits ==
  ASSUME NEW n, Fits(n)
  PROVE  Fits([n EXCEPT !.projection = SubSeq(n.projection, 2, Len(n.projection))])
<1> DEFINE s == SubSeq(n.projection, 2, Len(n.projection))
           x == [n EXCEPT !.projection = s]
<1>1. \E l \in Nat : Listed(s, l)
  <2>1. \E k \in Nat : Listed(n.projection, k)
    BY DEF Fits, Lists
  <2> QED BY <2>1, ShorterIsListed
<1> HIDE DEF s
<1>2. /\ DOMAIN x = Lists /\ x.projection = s
      /\ x.text = n.text /\ x.nodes = n.nodes /\ x.tokens = n.tokens
  BY DEF Fits, Lists
<1> HIDE DEF x
<1>3. ASSUME NEW list \in Lists PROVE \E k \in Nat : Listed(x[list], k)
  <2>1. CASE list = "projection"
    BY <1>1, <1>2, <2>1
  <2>2. CASE list # "projection"
    BY <1>2, <2>2 DEF Fits, Lists
  <2> QED BY <2>1, <2>2
<1>4. Fits(x)
  BY <1>2, <1>3 DEF Fits
<1> QED BY <1>4 DEF s, x

LEMMA AlteredAreNarrations ==
  ASSUME NEW n, Narration!IsNarration(n), NEW x \in Narration!Altered(n)
  PROVE  Narration!IsNarration(x)
<1>1. Fits(n)
  BY NarrationsFit
<1>2. Len(n.text) \in Nat
  <2>1. n.text \in Seq({n.text[i] : i \in DOMAIN n.text})
    BY DEF Narration!IsNarration
  <2> QED BY <2>1, ListsAreListed
<1>3. \/ \E i \in DOMAIN n.nodes : \E y \in Narration!OtherNodes(n, n.nodes[i]) :
           x = [n EXCEPT !.nodes[i] = y]
      \/ \E i \in DOMAIN n.tokens : \E y \in Narration!OtherTokens(n, n.tokens[i]) :
           x = [n EXCEPT !.tokens[i] = y]
      \/ x = [n EXCEPT !.projection = SubSeq(n.projection, 2, Len(n.projection))]
  <2> DEFINE A == UNION {{[n EXCEPT !.nodes[i] = y] : y \in Narration!OtherNodes(n, n.nodes[i])} :
                           i \in DOMAIN n.nodes}
             B == UNION {{[n EXCEPT !.tokens[i] = y] : y \in Narration!OtherTokens(n, n.tokens[i])} :
                           i \in DOMAIN n.tokens}
             C == {[n EXCEPT !.projection = SubSeq(n.projection, 2, Len(n.projection))]}
  <2>1. x \in (A \cup B) \cup C
    BY DEF Narration!Altered
  <2>2. CASE x \in A
    BY <2>2
  <2>3. CASE x \in B
    BY <2>3
  <2>4. CASE x \in C
    BY <2>4
  <2>5. x \in A \/ x \in B \/ x \in C
    <3> HIDE DEF A, B, C
    <3> QED BY <2>1
  <2> QED BY <2>2, <2>3, <2>4, <2>5
<1>4. ASSUME NEW i \in DOMAIN n.nodes, NEW y \in Narration!OtherNodes(n, n.nodes[i]),
             x = [n EXCEPT !.nodes[i] = y]
      PROVE  Fits(x)
  BY <1>1, <1>2, <1>4, OtherNodesFit
<1>5. ASSUME NEW i \in DOMAIN n.tokens, NEW y \in Narration!OtherTokens(n, n.tokens[i]),
             x = [n EXCEPT !.tokens[i] = y]
      PROVE  Fits(x)
  BY <1>1, <1>2, <1>5, OtherTokensFit
<1>6. ASSUME x = [n EXCEPT !.projection = SubSeq(n.projection, 2, Len(n.projection))]
      PROVE  Fits(x)
  BY <1>1, <1>6, ShorterProjectionFits
<1>7. Fits(x)
  BY <1>3, <1>4, <1>5, <1>6
<1> QED BY <1>7, NarrationsFit

-----------------------------------------------------------------------------
(* Revisions.                                                              *)

(* What a revision says of itself, and of its predecessor.                 *)
Written(r) ==
  Passes(r.narration) /\ r.views = Narration!NodeViews(r.narration)

Descends(r) ==
  /\ Written(r)
  /\ r.parent # Narration!None =>
       /\ Written(r.parent) /\ IsManifest(r.manifest)
       /\ Narration!ManifestFault(r.manifest, r.views, r.parent.views, FALSE) = Fine

LineageInv == \A r \in revisions : Descends(r)

LEMMA DeclaredDescends ==
  ASSUME NEW n, Passes(n), NEW given, given # Narration!None => Written(given),
         NEW previous, previous = IF given = Narration!None THEN <<>> ELSE given.views,
         NEW m, IsManifest(m),
         Narration!ManifestFault(m, Narration!NodeViews(n), previous, given = Narration!None) = Fine
  PROVE  Descends(Narration!Revision(n, Narration!NodeViews(n), m, given))
<1> DEFINE r == Narration!Revision(n, Narration!NodeViews(n), m, given)
<1>1. /\ r.narration = n /\ r.views = Narration!NodeViews(n)
      /\ r.manifest = m /\ r.parent = given
  BY DEF Narration!Revision
<1> HIDE DEF r
<1>2. Written(r)
  BY <1>1 DEF Written
<1>3. ASSUME given # Narration!None
      PROVE  Narration!ManifestFault(m, r.views, given.views, FALSE) = Fine
  <2>1. previous = given.views /\ (given = Narration!None) = FALSE
    BY <1>3
  <2> QED BY <1>1, <2>1
<1>4. Descends(r)
  BY <1>1, <1>2, <1>3 DEF Descends
<1> QED BY <1>4 DEF r

LEMMA DeclareKeeps ==
  ASSUME LineageInv, NEW n, Passes(n), NEW given \in revisions \cup {Narration!None},
         NEW doubts, Narration!Declare(n, given, doubts)
  PROVE  LineageInv'
<1> DEFINE views == Narration!NodeViews(n)
           previous == IF given = Narration!None THEN <<>> ELSE given.views
           Fault(m) == Narration!ManifestFault(m, views, previous, given = Narration!None)
           Outcome(m) == IF Fault(m) = Narration!Fine
                         THEN Narration!Publish(Narration!Revision(n, views, m, given))
                         ELSE Narration!Refuse(Fault(m))
<1>1. PICK m \in Narration!Mappings(views, previous, given = Narration!None) :
        \/ Outcome(m)
        \/ doubts /\ Fault(m) = Narration!Fine /\ \E d \in Narration!Doubtful(m, previous) : Outcome(d)
  BY DEF Narration!Declare
<1>2. IsManifest(m)
  <2>1. PICK k \in Nat : Listed(views, k)
    BY ViewsApart DEF Apart
  <2> HIDE DEF views, previous
  <2> QED BY <1>1, <2>1, MappingsAreManifests
<1>3. given # Narration!None => Written(given)
  BY DEF LineageInv, Descends
<1>4. ASSUME NEW d, IsManifest(d), Outcome(d) PROVE LineageInv'
  <2>1. CASE Fault(d) = Narration!Fine
    <3>1. Descends(Narration!Revision(n, views, d, given))
      <4>1. Fault(d) = Fine
        BY <2>1 DEF Fine, Narration!Fine
      <4> QED BY <1>3, <1>4, <4>1, DeclaredDescends
    <3>2. revisions' = revisions \cup {Narration!Revision(n, views, d, given)}
      BY <1>4, <2>1 DEF Narration!Publish
    <3> HIDE DEF views
    <3> QED BY <3>1, <3>2 DEF LineageInv
  <2>2. CASE Fault(d) # Narration!Fine
    <3>1. revisions' = revisions
      BY <1>4, <2>2 DEF Narration!Refuse
    <3> QED BY <3>1 DEF LineageInv
  <2> QED BY <2>1, <2>2
<1>5. ASSUME NEW d \in Narration!Doubtful(m, previous) PROVE IsManifest(d)
  BY <1>2, DoubtfulAreManifests
<1> HIDE DEF Outcome, Fault
<1> QED BY <1>1, <1>2, <1>4, <1>5

(* A text is checked as part of a declaration.                             *)
LEMMA AcceptedTexts ==
  ASSUME NEW n, NEW named, NEW given, Narration!NarrationFault(n, {}, named, given) = Fine
  PROVE  Narration!TextFault(n, {}) = Fine
<1>1. PICK a, c : Narration!NarrationFault(n, {}, named, given)
                    = Narration!FirstRefusal(<<a, Narration!TextFault(n, {}), c>>)
  BY DEF Narration!NarrationFault
<1> DEFINE s == <<a, Narration!TextFault(n, {}), c>>
<1>2. Listed(s, 3)
  BY DEF Listed
<1>3. Narration!FirstRefusal(s) = Fine
  BY <1>1
<1>4. s[2] = Narration!TextFault(n, {})
  OBVIOUS
<1> HIDE DEF s
<1>5. s[2] = Fine
  BY <1>2, <1>3, NoneRefused
<1> QED BY <1>4, <1>5

LEMMA MaterializeKeeps ==
  ASSUME LineageInv, Narration!Materialize
  PROVE  LineageInv'
<1>1. PICK n \in Narrations :
        \E named, given \in {r \in revisions : {n, r.narration} \subseteq Edited} \cup {Narration!None} :
          LET Fault(wrong) == Narration!NarrationFault(n, wrong, named, given) IN
          IF Fault({}) # Narration!Fine THEN Narration!Refuse(Fault({}))
          ELSE \/ Narration!Declare(n, given, TRUE)
               \/ \E wrong \in Narration!WrongParts :
                    Fault(wrong) # Narration!Fine /\ Narration!Refuse(Fault(wrong))
               \/ \E x \in Narration!Altered(n) :
                    IF Narration!TextFault(x, {}) # Narration!Fine
                    THEN Narration!Refuse(Narration!TextFault(x, {}))
                    ELSE given = Narration!None /\ Narration!Declare(x, given, FALSE)
  BY DEF Narration!Materialize
<1>2. PICK named, given \in {r \in revisions : {n, r.narration} \subseteq Edited} \cup {Narration!None} :
        \/ \E fault : Narration!Refuse(fault)
        \/ /\ Narration!NarrationFault(n, {}, named, given) = Narration!Fine
           /\ Narration!Declare(n, given, TRUE)
        \/ \E x \in Narration!Altered(n) :
             /\ Narration!TextFault(x, {}) = Narration!Fine
             /\ Narration!Declare(x, given, FALSE)
  BY <1>1
<1>3. given \in revisions \cup {Narration!None}
  OBVIOUS
<1>4. Narration!IsNarration(n)
  BY NarrationsAssumption
<1>5. CASE \E fault : Narration!Refuse(fault)
  BY <1>5 DEF Narration!Refuse, LineageInv
<1>6. CASE /\ Narration!NarrationFault(n, {}, named, given) = Narration!Fine
           /\ Narration!Declare(n, given, TRUE)
  <2>1. Narration!TextFault(n, {}) = Fine
    BY <1>6, AcceptedTexts DEF Fine, Narration!Fine
  <2>2. Passes(n)
    BY <1>4, <2>1, TextPasses DEF Passes
  <2> QED BY <1>3, <1>6, <2>2, DeclareKeeps
<1>7. ASSUME NEW x \in Narration!Altered(n), Narration!TextFault(x, {}) = Narration!Fine,
             Narration!Declare(x, given, FALSE)
      PROVE  LineageInv'
  <2>1. Narration!TextFault(x, {}) = Fine
    BY <1>7 DEF Fine, Narration!Fine
  <2>2. Narration!IsNarration(x)
    BY <1>4, AlteredAreNarrations
  <2>3. Passes(x)
    BY <2>1, <2>2, TextPasses DEF Passes
  <2> QED BY <1>3, <1>7, <2>3, DeclareKeeps
<1> QED BY <1>2, <1>5, <1>6, <1>7

LEMMA LineageKeeps ==
  ASSUME LineageInv, [NarrationNext]_<<inNarration, lineageVars, contractVars>>
  PROVE  LineageInv'
<1>1. CASE Narration!Materialize
  BY <1>1, MaterializeKeeps
<1>2. CASE revisions' = revisions
  BY <1>2 DEF LineageInv
<1>3. Narration!Resolve => revisions' = revisions
  BY DEF Narration!Resolve
<1>4. Narration!Handled => revisions' = revisions
  BY DEF Narration!Handled
<1>5. UNCHANGED lineageVars => revisions' = revisions
  BY DEF lineageVars
<1> QED BY <1>1, <1>2, <1>3, <1>4, <1>5 DEF NarrationNext, Narration!Next

LEMMA LineageFollows == LineageInv => LineageHolds
<1> SUFFICES ASSUME LineageInv PROVE LineageHolds
  OBVIOUS
<1>1. ASSUME NEW r \in revisions, r.parent # Narration!None
      PROVE  /\ \E k \in Nat : Apart(r.parent.views, k, Types)
             /\ IsManifest(r.manifest)
             /\ Narration!ManifestFault(r.manifest, r.views, r.parent.views, FALSE) = Fine
  <2>1. Descends(r)
    BY DEF LineageInv
  <2>2. Written(r.parent)
    BY <1>1, <2>1 DEF Descends
  <2>3. \E k \in Nat : Apart(Narration!NodeViews(r.parent.narration), k, Types)
    BY <2>2, ViewsApart DEF Written
  <2> QED BY <1>1, <2>1, <2>2, <2>3 DEF Descends, Written
<1>2. Narration!EveryNodeAccountedFor
  <2>1. ASSUME NEW r \in revisions, r.parent # Narration!None,
               NEW x \in {r.parent.views[i] : i \in DOMAIN r.parent.views}
        PROVE  Narration!Cardinality({i \in DOMAIN r.manifest.records :
                                        r.manifest.records[i].predecessor = x})
               + Narration!Cardinality({i \in DOMAIN r.manifest.removed :
                                          r.manifest.removed[i] = x}) = 1
    <3>1. PICK k \in Nat : Apart(r.parent.views, k, Types)
      BY <1>1, <2>1
    <3>2. PICK h \in DOMAIN r.parent.views : x = r.parent.views[h]
      OBVIOUS
    <3>3. Once(r.manifest, x)
      BY <1>1, <2>1, <3>1, <3>2, NodesAreAccounted
    <3> QED BY <3>3 DEF Once
  <2> QED BY <2>1 DEF Narration!EveryNodeAccountedFor
<1>3. Narration!FamiliesStayTogether
  <2>1. ASSUME NEW r \in revisions, r.parent # Narration!None, NEW i \in DOMAIN r.manifest.records,
               r.manifest.records[i].predecessor # Narration!None,
               r.manifest.records[i].successor.under # Narration!None
        PROVE  \E j \in DOMAIN r.manifest.records :
                 /\ r.manifest.records[j].successor = r.manifest.records[i].successor.under
                 /\ r.manifest.records[j].predecessor = r.manifest.records[i].predecessor.under
    BY <1>1, <2>1, FamiliesAreKept
  <2> QED BY <2>1 DEF Narration!FamiliesStayTogether
<1>4. Narration!NodesAreWordRanges
  <2>1. ASSUME NEW r \in revisions PROVE RangesHold(r.narration)
    BY NodesAreRanges DEF LineageInv, Descends, Written
  <2> QED BY <2>1 DEF Narration!NodesAreWordRanges, RangesHold
<1> QED BY <1>2, <1>3, <1>4 DEF LineageHolds, Narration!TreesHoldTogether

-----------------------------------------------------------------------------
(* A narration over its life: while revisions are declared, nothing is     *)
(* built, and while something is built, no revision is declared.           *)

LEMMA Initially == NarrationInit => RegistryInv
<1>1. ASSUME Init PROVE RegistryInv
  <2>1. held \in Worlds /\ made = held /\ ~wire.altered /\ wire.of = None /\ reply.exact
    BY <1>1 DEF Init, RegistryInit
  <2>2. \A x \in held : WellMade(x)
    BY <2>1, WorldsAssumption
  <2> QED BY <2>1, <2>2 DEF RegistryInv, FilesAreExact, AcceptedIsExact, WrittenIsSound
<1>2. ASSUME NothingBuilt PROVE RegistryInv
  <2>1. held = {} /\ made = {} /\ ~wire.altered /\ wire.of = None /\ reply.exact
    BY <1>2 DEF NothingBuilt
  <2> QED BY <2>1 DEF RegistryInv, FilesAreExact, AcceptedIsExact, WrittenIsSound
<1> QED BY <1>1, <1>2 DEF NarrationInit

LEMMA StepKeeps ==
  ASSUME RegistryInv, [NarrationNext]_<<inNarration, lineageVars, contractVars>>
  PROVE  RegistryInv' /\ (UnalteredOnly \/ UNCHANGED contractVars)
<1>1. CASE Next
  BY <1>1, NextKeeps
<1>2. CASE UNCHANGED contractVars
  <2>1. held' = held /\ made' = made /\ wire' = wire /\ reply' = reply
    BY <1>2 DEF contractVars
  <2> QED BY <1>2, <2>1 DEF RegistryInv, FilesAreExact, AcceptedIsExact, WrittenIsSound
<1> QED BY <1>1, <1>2 DEF NarrationNext

LEMMA Always == NarrationSpec => []RegistryInv
BY Initially, StepKeeps, PTL DEF NarrationSpec

(* What every step makes.                                                  *)
LEMMA MakesTrue ==
  ASSUME RegistryInv, [NarrationNext]_<<inNarration, lineageVars, contractVars>>
  PROVE  [\A x \in made' \ made : TrueToWord(x)]_contractVars
BY StepKeeps DEF UnalteredOnly, Fresh

(* However an artifact is put together, what it rests on is of one         *)
(* revision and recording; a request, an execution and a soundtrack are so *)
(* unless an object that they take at its word was altered before.         *)
THEOREM LineageIsOne == NarrationSpec => OneLineage
<1>1. RegistryInv /\ [NarrationNext]_<<inNarration, lineageVars, contractVars>>
        => [\A x \in made' \ made :
               TakenAtTheirWord(x) \cap drifted = {} => OfOneLineage(x)]_contractVars
  BY MakesTrue DEF TrueToWord
<1> QED BY <1>1, Always, PTL DEF NarrationSpec, OneLineage

(* A replay goes back to a call that happened, and that was approved if it *)
(* was paid for, unless that call or a request was altered before.         *)
THEOREM ReplaysGoBack == NarrationSpec => ReplaysAnOriginal
<1>1. RegistryInv /\ [NarrationNext]_<<inNarration, lineageVars, contractVars>>
        => [\A x \in made' \ made :
               TakenAtTheirWord(x) \cap drifted = {} => RepeatsAnOriginal(x)]_contractVars
  BY MakesTrue DEF TrueToWord
<1> QED BY <1>1, Always, PTL DEF NarrationSpec, ReplaysAnOriginal

(* A declaration or stored file that is accepted says exactly what was     *)
(* declared or computed, and altered content is not handed out by the      *)
(* serializers that compare it.                                            *)
THEOREM FilesStayExact == NarrationSpec => []FilesAreExact
<1>1. RegistryInv => FilesAreExact
  BY DEF RegistryInv
<1> QED BY <1>1, Always, PTL

(* From the result on, nothing is made from an altered object.             *)
THEOREM AlteredGoesNowhere == NarrationSpec => NothingFromDrift
<1>1. RegistryInv /\ [NarrationNext]_<<inNarration, lineageVars, contractVars>>
        => [\A x \in made' \ made : MadeFrom(x) \cap drifted = {}]_contractVars
  BY StepKeeps DEF UnalteredOnly, Fresh
<1> QED BY <1>1, Always, PTL DEF NarrationSpec, NothingFromDrift

(* However texts are edited and whatever a manifest claims, of the         *)
(* revisions that are accepted each node of a predecessor is continued by  *)
(* one node or removed, families stay together, and the words of a node    *)
(* stand side by side, before those of the next sibling.                   *)
THEOREM LineagesHold == NarrationSpec => []LineageHolds
<1>1. NarrationInit => LineageInv
  BY DEF NarrationInit, Narration!Init, LineageInv
<1>2. LineageInv /\ [NarrationNext]_<<inNarration, lineageVars, contractVars>> => LineageInv'
  BY LineageKeeps
<1> QED BY <1>1, <1>2, LineageFollows, PTL DEF NarrationSpec
=============================================================================
