----------------------------- MODULE AudioIntake -----------------------------
(***************************************************************************)
(* How a recording becomes an audio artifact: materialize_audio_artifact   *)
(* of contracts/audio.py.  An authorized reader - a protocol the program   *)
(* does not implement, modelled as one that reports what it finds - opens  *)
(* the file, reads it, and reads the same object again, all of it inside   *)
(* open_snapshot, while others rewrite, replace or remove the file.  What  *)
(* the contract judges afterwards is the snapshot it was handed: the bytes *)
(* of the first read and the evidence of both, and never the file itself.  *)
(***************************************************************************)
EXTENDS Refusals

CONSTANTS
    Clerks,
    Declarations,  \* [wrong, revision, path, hash, rate, channels, frames]
    Binding,       \* the narration revision the caller has
    Waves,         \* the byte contents a recording may have, by their header
    MaxDataBytes,  \* the largest data chunk
    MaxRewrites    \* bound on changes of the file

VARIABLES
    recording,     \* the file at the path: [object, wave], or None
    rewrites,
    clerk          \* of each clerk: its step, the declaration, what the reader
                   \* opened, the bytes it took, what it found again, the answer

intakeVars == <<recording, rewrites, clerk>>

Waiting == [step |-> "idle", declared |-> None, opened |-> None, taken |-> None,
            again |-> None, answer |-> None]

IntakeInit ==
    /\ recording = None
    /\ rewrites = 0
    /\ clerk = [c \in Clerks |-> Waiting]

-----------------------------------------------------------------------------
(* The declaration. *)

\* The parts of the input in the order _parse_input takes them.
InputParts ==
    << <<"fields", "STRUCTURE_INVALID">>, <<"schema", "UNSUPPORTED_ENUM">>,
       <<"reference fields", "STRUCTURE_INVALID">>, <<"reference schema", "UNSUPPORTED_ENUM">>,
       <<"reference kind", "UNSUPPORTED_ENUM">>, <<"logical path", "STRUCTURE_INVALID">>,
       <<"extensions", "EXTENSION_INVALID">>, <<"identifiers", "STRUCTURE_INVALID">>,
       <<"media hash", "STRUCTURE_INVALID">>, <<"counts", "STRUCTURE_INVALID">> >>

\* What a logical path may not be, in the order in which it is asked; a path
\* is the set of what is wrong with it.
PathParts ==
    << <<"length", "PATH_SYNTAX_INVALID">>, <<"device", "PATH_DEVICE_FORBIDDEN">>,
       <<"unc", "PATH_UNC_FORBIDDEN">>, <<"drive", "PATH_TRAVERSAL">>,
       <<"uri", "AUDIO_INPUT_URI_FORBIDDEN">>, <<"absolute", "PATH_TRAVERSAL">>,
       <<"separators", "PATH_SYNTAX_INVALID">>, <<"control characters", "PATH_SYNTAX_INVALID">>,
       <<"not NFC", "PATH_SYNTAX_INVALID">>, <<"empty segment", "PATH_SYNTAX_INVALID">>,
       <<"dots", "PATH_TRAVERSAL">>, <<"stream", "PATH_ADS_FORBIDDEN">>,
       <<"trailing", "PATH_RESERVED_NAME">>, <<"reserved", "PATH_RESERVED_NAME">> >>

DeclarationRows(d) ==
    PartRows(d.wrong, InputParts)
    \o << <<d.revision # Binding, "REVISION_MISMATCH">> >>
    \o PartRows(d.path, PathParts)

-----------------------------------------------------------------------------
(* The recording. *)

SampleRates == 8000 .. 192000

\* The bytes as _decode_wave reads them, first question first.
WaveRows(w) ==
    << <<w.length < 44, "DECODE_FAILED">>,
       <<~w.riff \/ w.riffSize # w.length - 8, "DECODE_FAILED">>,
       <<~w.format \/ ~w.data, "DECODE_FAILED">>,
       <<w.dataLength > MaxDataBytes, "SIZE_OUT_OF_BOUNDS">>,
       <<w.length # 44 + w.dataLength, "DECODE_FAILED">>,
       <<w.align = 0 \/ (w.align # 0 /\ w.dataLength % w.align # 0), "DECODE_FAILED">>,
       <<\/ w.tag # 1 \/ w.channels \notin {1, 2} \/ w.rate \notin SampleRates
         \/ w.bits # 16 \/ w.align # w.channels * 2 \/ w.byteRate # w.rate * w.align,
            "FORMAT_UNSUPPORTED">> >>

Frames(w) == w.dataLength \div w.align

\* Fewer declared frames than there are is a mismatch, more a truncated file.
MetadataRows(d, w) ==
    << <<d.rate # w.rate \/ d.channels # w.channels \/ d.frames < Frames(w), "METADATA_MISMATCH">>,
       <<d.frames > Frames(w), "TRUNCATED">> >>

\* The bytes of the snapshot: their length, their hash, what they decode to.
SnapshotRows(d, w) ==
    << <<w.length > 44 + MaxDataBytes, "SIZE_OUT_OF_BOUNDS">>,
       <<w.length = 0, "EMPTY">>,
       <<d.hash # w, "HASH_MISMATCH">> >>
    \o WaveRows(w)

ContentRows(d, w) == << <<Frames(w) = 0, "EMPTY">> >> \o MetadataRows(d, w)

\* The evidence of the first read: where the object lies, and that its length
\* and hash are those of the bytes.
OpenEvidence(k) ==
    << <<~k.opened.contained, "CONTAINMENT_FAILED">>,
       <<k.opened.wave.length # k.taken.length, "READ_FAILED">> >>

\* Two reads of one length are taken for the same bytes.
EvidenceByLength(k) ==
    << <<~k.again.complete, "READ_FAILED">>,
       <<~k.again.contained, "CONTAINMENT_FAILED">>,
       <<k.again.object # k.opened.object \/ k.again.wave.length # k.opened.wave.length,
            "IDENTITY_CHANGED">> >>

\* The evidence of the second read, judged by what it says itself of the object
\* that was opened and of the one it found.
EvidenceRows(k) ==
    << <<~k.again.complete, "READ_FAILED">>,
       <<~k.again.contained, "CONTAINMENT_FAILED">>,
       <<\/ k.again.object # k.opened.object \/ k.again.wave.length # k.opened.wave.length
         \/ k.again.wave # k.taken, "IDENTITY_CHANGED">> >>

-----------------------------------------------------------------------------

Stands(c, step) == clerk[c].step = step
Refusal(reason) == [Waiting EXCEPT !.answer = [verdict |-> reason, artifact |-> None]]
Refuses(c, reason) == clerk' = [clerk EXCEPT ![c] = Refusal(reason)]

Declare(c) ==
    /\ Stands(c, "idle")
    /\ \E d \in Declarations :
        LET fault == FirstFault(DeclarationRows(d)) IN
        clerk' = [clerk EXCEPT ![c] =
            IF fault = Fine
            THEN [Waiting EXCEPT !.step = "open", !.declared = d]
            ELSE Refusal(fault)]
    /\ UNCHANGED <<recording, rewrites>>

\* The reader opens the object at the path, or raises, or hands over something
\* that is no snapshot.
OpenSnapshot(c) ==
    /\ Stands(c, "open")
    /\ \/ \E reason \in {"OPEN_FAILED", "READ_FAILED"} : Refuses(c, reason)
       \/ /\ recording # None
          /\ \E contained \in BOOLEAN :
                clerk' = [clerk EXCEPT ![c].step = "take", ![c].opened =
                    [object |-> recording.object, wave |-> recording.wave, contained |-> contained]]
    /\ UNCHANGED <<recording, rewrites>>

\* What the reader has in hand: an object that left the path is as it was when it
\* was opened (and if it was rewritten first, no artifact comes of it either).
InHand(c) ==
    IF recording # None /\ recording.object = clerk[c].opened.object
    THEN recording.wave ELSE clerk[c].opened.wave

\* The reader takes the bytes of the object it opened.
TakeBytes(c) ==
    /\ Stands(c, "take")
    /\ clerk' = [clerk EXCEPT ![c].step = "again", ![c].taken = InHand(c)]
    /\ UNCHANGED <<recording, rewrites>>

\* And once more, with what lies at the path by then and where the root is; the
\* second read may stop short.
ReadAgain(c) ==
    /\ Stands(c, "again")
    /\ \E complete, contained \in BOOLEAN :
          clerk' = [clerk EXCEPT ![c].step = "judge", ![c].again =
              [object |-> IF recording = None THEN 0 ELSE recording.object,
               wave |-> InHand(c), complete |-> complete, contained |-> contained]]
    /\ UNCHANGED <<recording, rewrites>>

Artifact(c) ==
    LET w == clerk[c].taken IN
    [revision |-> clerk[c].declared.revision, bytes |-> w,
     rate |-> w.rate, channels |-> w.channels, frames |-> Frames(w)]

Admits(c) ==
    clerk' = [clerk EXCEPT ![c].step = "idle",
                           ![c].answer = [verdict |-> Fine, artifact |-> Artifact(c)]]

\* What is wrong with the snapshot: the first evidence, the bytes, the declaration.
SnapshotFault(k) ==
    LET opening == FirstFault(OpenEvidence(k))
        bytes == FirstFault(SnapshotRows(k.declared, k.taken)) IN
    IF opening # Fine THEN opening
    ELSE IF bytes # Fine THEN bytes
    ELSE FirstFault(ContentRows(k.declared, k.taken))

\* The snapshot is judged, and last the second evidence, which the reader's
\* snapshot may also fail to hand over.
Judge(c) ==
    LET fault == SnapshotFault(clerk[c])
        last == FirstFault(EvidenceRows(clerk[c])) IN
    /\ Stands(c, "judge")
    /\ IF fault # Fine THEN Refuses(c, fault)
       ELSE \/ Refuses(c, "READ_FAILED")
            \/ IF last # Fine THEN Refuses(c, last) ELSE Admits(c)
    /\ UNCHANGED <<recording, rewrites>>

\* Somebody puts the file there, rewrites the file in place, puts another one in
\* its place, or removes it.
Rewrite ==
    /\ rewrites < MaxRewrites
    /\ rewrites' = rewrites + 1
    /\ \/ recording # None /\ \E w \in Waves : recording' = [recording EXCEPT !.wave = w]
       \/ \E w \in Waves : recording' = [object |-> rewrites + 1, wave |-> w]
       \/ recording' = None
    /\ UNCHANGED clerk

IntakeNext ==
    \/ \E c \in Clerks :
          Declare(c) \/ OpenSnapshot(c) \/ TakeBytes(c) \/ ReadAgain(c) \/ Judge(c)
    \/ Rewrite

IntakeSpec == IntakeInit /\ [][IntakeNext]_intakeVars

-----------------------------------------------------------------------------
(* Properties. *)

\* An artifact is for the revision it was declared for and says of its bytes
\* what they are: a header and that many whole frames of two bytes a channel,
\* as declared.
ArtifactsAreSound ==
    \A c \in Clerks : clerk[c].answer # None =>
        LET a == clerk[c].answer.artifact IN
        a # None =>
            /\ a.revision = Binding
            /\ clerk[c].declared.hash = a.bytes
            /\ a.bytes.length = 44 + a.frames * a.channels * 2
            /\ a.frames > 0
            /\ <<a.rate, a.channels, a.frames>> =
                 <<clerk[c].declared.rate, clerk[c].declared.channels, clerk[c].declared.frames>>

\* The bytes of an artifact were found twice in one object that lay at the path
\* both times, whatever was rewritten or replaced between the two reads; what
\* happens to the file afterwards, while the bytes are decoded, nobody looks at.
BytesWereFoundTwice ==
    \A c \in Clerks : clerk[c].answer # None =>
        LET a == clerk[c].answer.artifact IN
        a # None =>
            /\ clerk[c].opened.contained /\ clerk[c].again.contained
            /\ clerk[c].again.object = clerk[c].opened.object
            /\ clerk[c].taken = a.bytes /\ clerk[c].again.wave = a.bytes

RecordingsAreSound == ArtifactsAreSound /\ BytesWereFoundTwice
=============================================================================
