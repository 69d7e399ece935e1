---------------------------- MODULE TimingFiles ----------------------------
(***************************************************************************)
(* The file protocol of publish_timing_artifacts                           *)
(* (contracts/timing_publication.py): three files are written into a       *)
(* staging directory named after the publication, read back, and the       *)
(* directory is renamed to `timing', which must not exist.  Publishers of  *)
(* the same or of different publications run side by side; every file      *)
(* operation may fail, and a publisher may die between two of them.        *)
(* What has to agree before the first file is in CaptionContracts.         *)
(***************************************************************************)
EXTENDS Naturals, FiniteSets

CONSTANTS
    Publishers,
    Publications,   \* what a publisher may publish; it names the staging directory
    TimingFileNames \* word_timeline.json, caption_groups.json, emphasis_events.json

\* A directory: the publication its files belong to, and which are there.
Absent == [of |-> "nobody", files |-> {}]
Exists(dir) == dir # Absent
Whole(dir) == dir.files = TimingFileNames

VARIABLES
    timing,     \* the published directory
    staging,    \* of each publication
    publisher   \* of each process: its publication, next step, answer and what it has written

timingVars == <<timing, staging, publisher>>

NoAnswer == "none"
Publisher(x, step, answer) == [of |-> x, step |-> step, answer |-> answer, written |-> {}]
Idle == Publisher(NoAnswer, "idle", NoAnswer)

TimingInit ==
    /\ timing = Absent
    /\ staging = [x \in Publications |-> Absent]
    /\ publisher = [p \in Publishers |-> Idle]

Own(p) == staging[publisher[p].of]
Goes(p, step) == publisher' = [publisher EXCEPT ![p].step = step]
Rejects(p, step, reason) ==
    publisher' = [publisher EXCEPT ![p].step = step, ![p].answer = reason]

\* The project root, or its parent, is not a plain directory any more: asked
\* before the first file and again before the promotion.
RefuseRoot(p) ==
    /\ \/ /\ publisher[p].step = "idle"
          /\ \E x \in Publications : publisher' =
                [publisher EXCEPT ![p] = Publisher(x, "end", "PATH_INVALID")]
       \/ publisher[p].step = "promote" /\ Rejects(p, "clean", "PATH_INVALID")
    /\ UNCHANGED <<timing, staging>>

\* Neither the published directory nor this staging directory may exist.
CheckTarget(p) ==
    /\ publisher[p].step = "idle"
    /\ \E x \in Publications :
          publisher' = [publisher EXCEPT ![p] =
              IF Exists(timing) \/ Exists(staging[x])
              THEN Publisher(x, "end", "TARGET_EXISTS")
              ELSE Publisher(x, "make", NoAnswer)]
    /\ UNCHANGED <<timing, staging>>

\* MakeStaging that is content with a directory that is there.
MakeStagingAnyway(p) ==
    /\ publisher[p].step = "make"
    /\ Goes(p, "write")
    /\ staging' = IF Exists(Own(p)) THEN staging
                  ELSE [staging EXCEPT ![publisher[p].of] = [of |-> publisher[p].of, files |-> {}]]
    /\ UNCHANGED timing

\* mkdir fails where the directory has come into being, or for no reason of
\* ours; what is there then is left alone.
MakeStaging(p) ==
    /\ publisher[p].step = "make"
    /\ \/ /\ ~Exists(Own(p))
          /\ staging' = [staging EXCEPT ![publisher[p].of] = [of |-> publisher[p].of, files |-> {}]]
          /\ Goes(p, "write")
       \/ Rejects(p, "end", "WRITE_FAILED") /\ UNCHANGED staging
    /\ UNCHANGED timing

\* The files are written in their order, each created exclusively and read
\* back; a write that fails may leave the file behind.
WriteFile(p) ==
    LET left == TimingFileNames \ publisher[p].written
        next == CHOOSE f \in left : TRUE
        created == [staging EXCEPT ![publisher[p].of].files = @ \cup {next}] IN
    /\ publisher[p].step = "write"
    /\ \/ /\ left # {} /\ Exists(Own(p)) /\ next \notin Own(p).files
          /\ staging' = created
          /\ publisher' = [publisher EXCEPT ![p].written = @ \cup {next}]
       \/ /\ left # {}
          /\ UNCHANGED staging \/ (Exists(Own(p)) /\ staging' = created)
          /\ Rejects(p, "clean", "WRITE_FAILED")
       \/ /\ left = {}
          /\ Goes(p, "promote")
          /\ UNCHANGED staging
    /\ UNCHANGED timing

\* _check_before_promotion.
CheckPromotion(p) ==
    /\ publisher[p].step = "promote"
    /\ \/ Exists(timing) /\ Rejects(p, "clean", "TARGET_EXISTS")
       \/ ~Exists(timing) /\ ~Exists(Own(p)) /\ Rejects(p, "clean", "PROMOTION_FAILED")
       \/ ~Exists(timing) /\ Exists(Own(p)) /\ Goes(p, "rename")
    /\ UNCHANGED <<timing, staging>>

\* The rename replaces nothing: it fails where the published directory has
\* appeared since.  (An empty one it would replace; there never is one.)
Rename(p) ==
    /\ publisher[p].step = "rename"
    /\ \/ /\ Exists(Own(p)) /\ timing.files = {}
          /\ timing' = Own(p)
          /\ staging' = [staging EXCEPT ![publisher[p].of] = Absent]
          /\ Goes(p, "verify")
       \/ Rejects(p, "clean", "PROMOTION_FAILED") /\ UNCHANGED <<timing, staging>>

\* The published files are read once more; reading may fail.
VerifyPublished(p) ==
    /\ publisher[p].step = "verify"
    /\ \/ timing.of = publisher[p].of /\ Whole(timing) /\ Rejects(p, "end", "RECEIPT")
       \/ Rejects(p, "clean", "PROMOTION_FAILED")
    /\ UNCHANGED <<timing, staging>>

\* _safe_cleanup takes away what it can of the staging directory of this
\* name, whoever made it.
CleanFile(p) ==
    /\ publisher[p].step = "clean"
    /\ \E f \in Own(p).files :
          staging' = [staging EXCEPT ![publisher[p].of].files = @ \ {f}]
    /\ UNCHANGED <<timing, publisher>>

CleanDirectory(p) ==
    /\ publisher[p].step = "clean"
    /\ \/ Own(p).files = {} /\ staging' = [staging EXCEPT ![publisher[p].of] = Absent]
       \/ UNCHANGED staging
    /\ Goes(p, "end")
    /\ UNCHANGED timing

\* A publisher dies; what it made stays.
PublisherDies(p) ==
    /\ publisher[p].step \notin {"idle", "end"}
    /\ Goes(p, "end")
    /\ UNCHANGED <<timing, staging>>

TimingStep(p) ==
    \/ RefuseRoot(p) \/ CheckTarget(p) \/ MakeStaging(p) \/ WriteFile(p) \/ CheckPromotion(p)
    \/ Rename(p)
    \/ VerifyPublished(p) \/ CleanFile(p) \/ CleanDirectory(p) \/ PublisherDies(p)

TimingNext == \E p \in Publishers : TimingStep(p)

TimingSpec == TimingInit /\ [][TimingNext]_timingVars

-----------------------------------------------------------------------------
(* Properties. *)

\* What is published is all three files of one publication, though another
\* publisher of the same one may clean up after a failure at any time, and a
\* receipt is only given for what is published.
PublishedIsWhole ==
    /\ Exists(timing) => Whole(timing)
    /\ \A p \in Publishers : publisher[p].answer = "RECEIPT" =>
            Whole(timing) /\ timing.of = publisher[p].of
=============================================================================
