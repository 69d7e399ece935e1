------------------------- MODULE AlignmentContracts -------------------------
(***************************************************************************)
(* Alignment requests, adapter executions and alignment results            *)
(* (contracts/alignment.py, alignment_execution.py, alignment_result.py).  *)
(* Each materializer is the ordered list of its checks; `wrong' names the  *)
(* parts of the declaration that are not what the contract wants, and the  *)
(* other conditions compare what is declared with the objects given.  The  *)
(* recording of a request, and the request and the source of an execution, *)
(* are objects of the registry, which say what they say by now.            *)
(***************************************************************************)
EXTENDS ContractRegistry

CONSTANTS
    RequestModes,       \* modes a request is tried with
    ExecutionModes,     \* modes an execution is tried with
    Evidence            \* the allowlisted records of where timings come from

Statuses == {"SUCCEEDED", "FAILED", "BLOCKED"}
Availabilities == {"AVAILABLE", "UNAVAILABLE", "NOT_APPLICABLE"}

-----------------------------------------------------------------------------
(* Requests. *)

RequestParts(x) ==
    {"package", "packageHash", "shape", "text", "version", "mode", "authorization",
     "capability", "capabilityMode", "extensions", "sensitive", "identity"}
    \cup (IF x.transcript THEN {"transcript"} ELSE {})

\* The payload names the mode, the transcript and the confidence it expects.
RequestPayloads ==
    [kind : {"request"}, revision : OfKind("revision"), audio : OfKind("audio"),
     mode : RequestModes, transcript : BOOLEAN, confidence : {"SUPPORTED", "UNSUPPORTED"}]

\* The raw package a narration comes from is a part: it is genuine or not.
RequestPreflight(wrong, document, revision, audio) ==
    <<<<\/ "package" \in wrong
        \/ ~Sound(document) \/ ~Sound(revision) \/ ~Genuine(audio.is), "TypeError">>>>

\* RequestLineage without the recording's own revision.
RequestLineageAnyAudio(x, wrong, document, revision, audio) ==
    <<<<\/ "packageHash" \in wrong
        \/ document.current # revision.n
        \/ x.revision # revision
        \/ x.audio # audio.is, "LINEAGE_MISMATCH">>>>

\* An object with string keys and none too many or too few, then NFC strings.
RequestShape(wrong) ==
    PartRows(wrong, <<<<"shape", "STRUCTURE_INVALID">>, <<"text", "STRUCTURE_INVALID">>>>)

RequestVersions(wrong) == PartRows(wrong, <<<<"version", "UNSUPPORTED_VALUE">>>>)

RequestModeRows(wrong) == PartRows(wrong, <<<<"mode", "UNSUPPORTED_VALUE">>>>)

\* Project and document are the same throughout: one document is modelled.
RequestLineage(x, wrong, document, revision, audio) ==
    <<<<\/ "packageHash" \in wrong
        \/ document.current # revision.n
        \/ audio.says.revision # revision.n
        \/ x.revision # revision
        \/ x.audio # audio.is, "LINEAGE_MISMATCH">>>>

\* Only a free call sends the narration itself, and so names no transcript.
ModePresence(x) == <<<<x.transcript = (x.mode = "FREE_API"), "MODE_PRESENCE_MISMATCH">>>>

TranscriptRows(x, wrong) ==
    ModePresence(x) \o <<<<x.transcript /\ "transcript" \in wrong, "TRANSCRIPT_INVALID">>>>

\* Closed fields, tokens, tags and enumerations of the adapter's capability.
CapabilityShape(wrong) == PartRows(wrong, <<<<"capability", "CAPABILITY_INVALID">>>>)

\* LOCAL, REPLAY, FREE_API and MANUAL_UI each have one capability that fits.
CapabilityRows(wrong) ==
    <<<<"capabilityMode" \in wrong, "MODE_CAPABILITY_MISMATCH">>>>

\* No key, path, address or secret anywhere in what was handed in.
RequestSecrets(wrong) == PartRows(wrong, <<<<"sensitive", "SENSITIVE_DATA">>>>)

RequestFault(x, wrong, document, revision, audio) ==
    FirstFault(RequestPreflight(wrong, document, revision, audio)
        \o RequestShape(wrong)
        \o RequestVersions(wrong)
        \o RequestLineage(x, wrong, document, revision, audio)
        \o RequestModeRows(wrong)
        \o TranscriptRows(x, wrong)
        \o <<<<"authorization" \in wrong, "AUTHORIZATION_FORBIDDEN">>>>
        \o CapabilityShape(wrong)
        \o ModePresence(x)
        \o CapabilityRows(wrong)
        \o <<<<"extensions" \in wrong, "EXTENSIONS_FORBIDDEN">>>>
        \o RequestSecrets(wrong)
        \o <<<<"identity" \in wrong, "IDENTITY_MISMATCH">>>>)

-----------------------------------------------------------------------------
(* Executions. *)

ExecutionParts(x) ==
    {"bytes", "mark", "shape", "version", "mode", "adapter", "sensitive", "identity", "spacing"}
    \cup (IF x.paid # "none" THEN {"paid"} ELSE {})
    \cup (IF x.original # None THEN {"replay", "sourceIdentity"} ELSE {})
    \cup (IF x.confidence # "none" THEN {"confidence"} ELSE {})

\* A replay names the execution it repeats and that execution's request.
Originals == {None} \cup [kind : {"original"}, request : OfKind("request"),
                          execution : OfKind("execution")]

ExecutionPayloads ==
    [kind : {"execution"}, request : OfKind("request"), mode : ExecutionModes,
     status : Statuses, paid : {"none", "APPROVED", "DENIED"}, original : Originals,
     confidence : {"none"} \cup Availabilities]

ExecutionPreflight(request, sourceRequest, sourceExecution) ==
    <<<<~Genuine(request.is), "TypeError">>,
      <<\/ sourceRequest # None /\ ~Genuine(sourceRequest.is)
        \/ sourceExecution # None /\ ~Genuine(sourceExecution.is), "NOT_MATERIALIZED">>>>

\* Stored bytes are JSON without a byte order mark, a key or number twice read.
ExecutionBytes(wrong) ==
    PartRows(wrong, <<<<"mark", "NON_CANONICAL_SERIALIZATION">>, <<"bytes", "STRUCTURE_INVALID">>>>)

\* An object with string keys, none unknown and none missing.
ExecutionShape(wrong) == PartRows(wrong, <<<<"shape", "STRUCTURE_INVALID">>>>)

DependencyPresence(x, sourceRequest, sourceExecution) ==
    <<<<\/ (sourceRequest = None) = (x.mode = "REPLAY")
        \/ (sourceExecution = None) = (x.mode = "REPLAY"), "REPLAY_EVIDENCE_INVALID">>>>

ModeMatches(mode, requestMode) ==
    IF mode = "PAID_API" THEN requestMode = "FREE_API" ELSE mode = requestMode

CurrentBinding(x, wrong, request) ==
    <<<<\/ x.request # request.is
        \/ "adapter" \in wrong
        \/ ~ModeMatches(x.mode, request.says.mode), "REQUEST_BINDING_INVALID">>>>

ModeStatus(x) ==
    <<<<x.status = "BLOCKED" /\ x.mode \in {"LOCAL", "REPLAY"}, "MODE_STATUS_INVALID">>>>

EvidencePresence(x) ==
    <<<<\/ (x.paid # "none") # (x.mode = "PAID_API")
        \/ (x.original # None) # (x.mode = "REPLAY")
        \/ (x.confidence # "none") # (x.status # "BLOCKED"), "EVIDENCE_PRESENCE_INVALID">>>>

\* A paid call was approved for this very request, a blocked one was denied.
PaidRows(x, wrong) ==
    <<<<x.paid # "none" /\ \/ "paid" \in wrong
                           \/ x.paid # (IF x.status = "BLOCKED" THEN "DENIED" ELSE "APPROVED"),
        "PAID_FALLBACK_AUTHORIZATION_INVALID">>>>

\* What is repeated is what the evidence names, and is not this request; the
\* last row is an execution declared under the identity of its source.
ReplayBindings(x, wrong, request, sourceRequest, sourceExecution) ==
    <<<<\/ ~ModeMatches(sourceExecution.says.mode, sourceRequest.says.mode)
        \/ sourceExecution.says.request # sourceRequest.is
        \/ x.original.request # sourceRequest.is, "REPLAY_EVIDENCE_INVALID">>,
      <<sourceRequest.is = request.is, "REPLAY_LINEAGE_INVALID">>,
      <<x.original.execution # sourceExecution.is, "REPLAY_EVIDENCE_INVALID">>,
      <<"sourceIdentity" \in wrong, "REPLAY_LINEAGE_INVALID">>>>

\* ReplayRows taking a call that did not succeed.
ReplayRowsAnyStatus(x, wrong, request, sourceRequest, sourceExecution) ==
    IF x.original = None \/ None \in {sourceRequest, sourceExecution} THEN <<>> ELSE
    <<<<"replay" \in wrong, "REPLAY_EVIDENCE_INVALID">>,
      <<sourceRequest.says.mode = "REPLAY" \/ sourceExecution.says.mode = "REPLAY",
        "REPLAY_LINEAGE_INVALID">>>>
    \o ReplayBindings(x, wrong, request, sourceRequest, sourceExecution)

\* What is repeated says that it succeeded, and that it was no repetition itself.
ReplayRows(x, wrong, request, sourceRequest, sourceExecution) ==
    IF x.original = None \/ None \in {sourceRequest, sourceExecution} THEN <<>> ELSE
    <<<<"replay" \in wrong, "REPLAY_EVIDENCE_INVALID">>,
      <<\/ sourceRequest.says.mode = "REPLAY"
        \/ sourceExecution.says.status # "SUCCEEDED"
        \/ sourceExecution.says.mode = "REPLAY", "REPLAY_LINEAGE_INVALID">>>>
    \o ReplayBindings(x, wrong, request, sourceRequest, sourceExecution)

ConfidenceRows(x, wrong, request) ==
    LET allowed == IF x.status = "FAILED" \/ request.says.confidence = "UNSUPPORTED"
                   THEN {"NOT_APPLICABLE"} ELSE {"AVAILABLE", "UNAVAILABLE"}
    IN <<<<x.confidence # "none" /\ ("confidence" \in wrong \/ x.confidence \notin allowed),
           "CONFIDENCE_AVAILABILITY_INVALID">>>>

\* Paths, addresses and control characters are not told from a wrong shape.
ExecutionSecrets(wrong) == PartRows(wrong, <<<<"sensitive", "STRUCTURE_INVALID">>>>)

\* Identifier and hash are those of everything else that is declared.
ExecutionIdentity(wrong) == PartRows(wrong, <<<<"identity", "IDENTITY_MISMATCH">>>>)

ExecutionFault(x, wrong, request, sourceRequest, sourceExecution) ==
    FirstFault(ExecutionPreflight(request, sourceRequest, sourceExecution)
        \o ExecutionBytes(wrong)
        \o ExecutionShape(wrong)
        \o <<<<"version" \in wrong, "UNSUPPORTED_VALUE">>,
             <<"mode" \in wrong, "UNSUPPORTED_VALUE">>>>
        \o DependencyPresence(x, sourceRequest, sourceExecution)
        \o CurrentBinding(x, wrong, request)
        \o ModeStatus(x)
        \o EvidencePresence(x)
        \o PaidRows(x, wrong)
        \o ReplayRows(x, wrong, request, sourceRequest, sourceExecution)
        \o ConfidenceRows(x, wrong, request)
        \o ExecutionSecrets(wrong)
        \o ExecutionIdentity(wrong)
        \o <<<<"spacing" \in wrong, "NON_CANONICAL_SERIALIZATION">>>>)

-----------------------------------------------------------------------------
(* Results. *)

EvidenceParts == {"evidenceShape", "evidenceSpacing", "evidenceVersion", "evidenceIdentity",
                  "evidenceUnlisted"}
ResultParts == {"bytes", "shape", "version", "evidence", "source", "raw", "timings",
                "sensitive", "identity", "spacing"} \cup EvidenceParts

ResultPayloads ==
    [kind : {"result"}, revision : OfKind("revision"), audio : OfKind("audio"),
     request : OfKind("request"), execution : OfKind("execution"),
     confidence : Availabilities]

\* Only the recorded evidence of this repository vouches for timings, and it
\* names one revision, audio, request and execution.
EvidenceJoins(revision, audio, request, execution) ==
    [revision |-> revision, audio |-> audio, request |-> request, execution |-> execution]
        \in Evidence

\* Evidence is loaded from bytes, and only the bytes kept in this repository are
\* taken.
EvidenceListed(wrong) ==
    PartRows(wrong, <<<<"evidenceUnlisted", "TIMING_ORIGIN_EVIDENCE_INVALID">>>>)

EvidenceRows(wrong) ==
    PartRows(wrong, <<<<"evidenceShape", "STRUCTURE_INVALID">>,
                      <<"evidenceSpacing", "NON_CANONICAL_SERIALIZATION">>,
                      <<"evidenceVersion", "UNSUPPORTED_VALUE">>,
                      <<"evidenceIdentity", "IDENTITY_MISMATCH">>>>)
    \o EvidenceListed(wrong)

\* Stored bytes are JSON without a key twice or a fraction, and laid out exactly.
ResultBytes(wrong) == PartRows(wrong, <<<<"bytes", "STRUCTURE_INVALID">>>>)
ResultSpacing(wrong) == PartRows(wrong, <<<<"spacing", "NON_CANONICAL_SERIALIZATION">>>>)

\* Every dependency's identity is computed again from its content.
ResultPreflight(document, revision, audio, request, execution) ==
    <<<<~Sound(document) \/ ~Sound(revision)
        \/ \E d \in {audio, request, execution} : ~Genuine(d), "TypeError">>,
      <<\E d \in {audio, request, execution} : ~Sound(d), "DEPENDENCY_CONTENT_DRIFT">>,
      <<execution.status # "SUCCEEDED", "EXECUTION_NOT_SUCCESSFUL">>,
      <<execution.mode # "REPLAY", "TIMESTAMP_SOURCE_FORBIDDEN">>,
      <<request.mode # "REPLAY", "DEPENDENCY_CONTENT_DRIFT">>,
      <<~EvidenceJoins(revision, audio, request, execution), "TIMING_ORIGIN_EVIDENCE_INVALID">>>>

ResultBindings(x, wrong, document, revision, audio, request, execution) ==
    <<<<\/ document.current # revision.n
        \/ audio.revision # revision.n
        \/ request.revision # revision \/ request.audio # audio
        \/ execution.request # request
        \/ "evidence" \in wrong
        \/ <<x.revision, x.audio, x.request, x.execution>>
              # <<revision, audio, request, execution>>, "DEPENDENCY_BINDING_INVALID">>>>

\* The timings themselves are computed again (CaptionGroups) and compared.
DeclaredTimings(wrong) == <<<<"timings" \in wrong, "TIMING_INVALID">>>>

ResultSecrets(wrong) == PartRows(wrong, <<<<"sensitive", "SENSITIVE_DATA">>>>)

ResultFault(x, wrong, document, revision, audio, request, execution) ==
    FirstFault(EvidenceRows(wrong)
        \o ResultPreflight(document, revision, audio, request, execution)
        \o ResultBytes(wrong)
        \o ResultSpacing(wrong)
        \o <<<<"shape" \in wrong, "STRUCTURE_INVALID">>,
             <<"version" \in wrong, "UNSUPPORTED_VALUE">>,
             <<x.confidence # execution.confidence, "DEPENDENCY_BINDING_INVALID">>,
             <<x.confidence = "NOT_APPLICABLE" /\ request.confidence # "UNSUPPORTED",
               "CONFIDENCE_INVALID">>>>
        \o ResultBindings(x, wrong, document, revision, audio, request, execution)
        \o <<<<"source" \in wrong, "TIMESTAMP_SOURCE_FORBIDDEN">>,
             <<"raw" \in wrong, "RAW_OBSERVATION_INVALID">>>>
        \o DeclaredTimings(wrong)
        \o ResultSecrets(wrong)
        \o <<<<"identity" \in wrong, "IDENTITY_MISMATCH">>>>)
=============================================================================
