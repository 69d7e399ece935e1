-------------------------- MODULE LocalStoresProofs --------------------------
(***************************************************************************)
(* Proofs about the stores of a local project, for any number of processes,*)
(* failures and deaths: the revision store, the timing files, the render   *)
(* cache, the intake of recordings, the payloads under the soft quota, the *)
(* artifact registry with its trash, and the catalog of assets.  Each has  *)
(* an inductive invariant of its own (the trash one rests on the           *)
(* registry's, the hard limit's on both); the areas share no variable.     *)
(***************************************************************************)
EXTENDS LocalStores, WellFoundedInduction, NaturalsInduction, SequenceTheorems, FiniteSetTheorems, TLAPS

-----------------------------------------------------------------------------
(* The revisions of a project.                                             *)

RevisionTypes ==
  /\ TypeOK
  /\ \A c \in Callers : pc[c] \notin {"idle", "quarantined"} => rev[c] \in Revisions
  /\ \A c \in Callers : pc[c] \in {"repointing", "recovered"} => Verified(rev[c])

(* What holds as long as no recovery ran into a publication: a publisher's *)
(* staging directory has what it wrote, nobody publishes while another     *)
(* recovers, what was named can be loaded, and a recovery that is about to *)
(* move the pointer moves it from nothing that verifies to the newest      *)
(* revision that does.                                                     *)
Staged ==
  \A c \in Callers :
    /\ pc[c] = "staging" => stage[c] = {}
    /\ pc[c] = "described" => stage[c] = {"files"}
    /\ pc[c] = "staged" => stage[c] = Parts

Apart == \A c, d \in Callers : pc[c] \in Publishing => pc[d] \notin Recovering

Named ==
  /\ \A c \in Callers : pc[c] \in {"pointing", "published"} => Verified(rev[c])
  /\ damage = 0 => active = NoRevision \/ Verified(active)

Chosen ==
  \A c \in Callers : pc[c] = "repointing" =>
    Newest(rev[c]) /\ (Verified(active) => active = rev[c])

RevInv == RevisionTypes /\ (~overlapped => Staged /\ Apart /\ Named /\ Chosen)

LEMMA RevisionsInitially == Init => RevInv
<1> SUFFICES ASSUME Init PROVE RevInv
  OBVIOUS
<1>1. \A c \in Callers : pc[c] = "idle"
  BY DEF Init
<1>2. stage \in [Callers -> (SUBSET Parts) \cup {Gone}]
  <2>1. Gone \in (SUBSET Parts) \cup {Gone}
    OBVIOUS
  <2> QED BY <2>1 DEF Init
<1>3. TypeOK
  <2>1. 0 \in 0 .. MaxDamage
    BY WorkspaceAssumption
  <2>2. dir \in [Revisions -> {"absent", "complete", "incomplete"}]
    BY DEF Init
  <2>3. pc \in [Callers -> Phases] /\ rev \in [Callers -> Revisions \cup {NoRevision}]
    BY DEF Init, Phases
  <2> QED BY <1>2, <2>1, <2>2, <2>3 DEF Init, TypeOK
<1> QED BY <1>1, <1>3 DEF Init, RevInv, RevisionTypes, Staged, Apart, Named, Chosen, Publishing

(* A caller's step, by what it does to the others: their places stay, and  *)
(* a revision that verifies goes on to.                                    *)
CallerStep(c) ==
  \/ \E r \in Revisions : Publish(c, r)
  \/ WriteFiles(c) \/ WriteManifest(c) \/ Install(c) \/ Point(c)
  \/ Recover(c) \/ ChooseRevision(c) \/ NothingToRecover(c) \/ Repoint(c)
  \/ Finish(c) \/ Crash(c)

LEMMA CallerStepsKeep ==
  ASSUME RevInv, NEW c \in Callers, CallerStep(c)
  PROVE  /\ \A d \in Callers \ {c} : pc'[d] = pc[d] /\ rev'[d] = rev[d]
         /\ \A r \in Revisions : Verified(r) => dir'[r] = "complete"
         /\ damage' = damage
         /\ ~overlapped' => ~overlapped
BY DEF RevInv, RevisionTypes, TypeOK, CallerStep, Publish, WriteFiles, WriteManifest, Install, Point,
   Recover, ChooseRevision, NothingToRecover, Repoint, Finish, Crash, Goto, Return, Verified

LEMMA RevisionTypesStep ==
  ASSUME RevInv, NEW c \in Callers, CallerStep(c)
  PROVE  RevisionTypes'
<1> USE DEF RevInv, RevisionTypes, TypeOK, Goto, Return
<1>0. ASSUME NEW s, s \in SUBSET Parts \/ s = Gone, NEW d \in Callers
      PROVE  /\ [stage EXCEPT ![d] = s] \in [Callers -> (SUBSET Parts) \cup {Gone}]
             /\ [e \in Callers |-> s] \in [Callers -> (SUBSET Parts) \cup {Gone}]
  <2>1. s \in (SUBSET Parts) \cup {Gone}
    BY <1>0
  <2>2. stage \in [Callers -> (SUBSET Parts) \cup {Gone}]
    OBVIOUS
  <2> QED BY <2>1, <2>2
<1>1. TypeOK'
  <2>1. ASSUME NEW r \in Revisions, Publish(c, r) PROVE TypeOK'
    BY <2>1 DEF Publish, Phases, Publishing
  <2>2. CASE WriteFiles(c) \/ WriteManifest(c)
    <3>1. PICK part \in Parts : Write(c, part)
      BY <2>2 DEF WriteFiles, WriteManifest, Parts
    <3>2. stage' \in [Callers -> (SUBSET Parts) \cup {Gone}]
      BY <3>1 DEF Write, Gone
    <3> QED BY <2>2, <3>2 DEF WriteFiles, WriteManifest, Phases, Publishing
  <2>3. CASE Install(c)
    <3>1. stage' = [stage EXCEPT ![c] = Gone]
      BY <2>3 DEF Install
    <3>2. dir' \in [Revisions -> {"absent", "complete", "incomplete"}]
      BY <2>3 DEF Install, Contents
    <3> QED BY <1>0, <2>3, <3>1, <3>2 DEF Install, Phases, Publishing
  <2>4. CASE Point(c) \/ Repoint(c)
    BY <2>4 DEF Point, Repoint, Phases, Publishing, Recovering
  <2>5. CASE Recover(c)
    BY <1>0, <2>5 DEF Recover, Phases, Recovering
  <2>6. CASE ChooseRevision(c)
    BY <2>6 DEF ChooseRevision, Phases, Recovering, Verified
  <2>7. CASE NothingToRecover(c) \/ Finish(c) \/ Crash(c)
    BY <1>0, <2>7 DEF NothingToRecover, Finish, Crash, Phases
  <2> QED BY <2>1, <2>2, <2>3, <2>4, <2>5, <2>6, <2>7 DEF CallerStep
<1>2. pc'[c] \notin {"idle", "quarantined"} => rev'[c] \in Revisions
  BY DEF CallerStep, Publish, WriteFiles, WriteManifest, Install, Point,
     Recover, ChooseRevision, NothingToRecover, Repoint, Finish, Crash, Verified
<1>3. pc'[c] \in {"repointing", "recovered"} => rev'[c] \in Revisions /\ dir'[rev'[c]] = "complete"
  BY DEF CallerStep, Publish, WriteFiles, WriteManifest, Install, Point,
     Recover, ChooseRevision, NothingToRecover, Repoint, Finish, Crash, Verified, Newest
<1> QED BY <1>1, <1>2, <1>3, CallerStepsKeep DEF Verified

LEMMA StagedStep ==
  ASSUME RevInv, NEW c \in Callers, CallerStep(c), ~overlapped'
  PROVE  Staged'
<1>1. ~overlapped /\ Staged
  BY CallerStepsKeep DEF RevInv
<1>2. CASE Recover(c)
  <2>1. \A d \in Callers : pc'[d] \notin Publishing
    BY <1>2 DEF Recover, Busy, Goto, RevInv, RevisionTypes, TypeOK, Publishing
  <2> QED BY <2>1 DEF Staged, Publishing
<1>3. CASE ~Recover(c)
  <2>1. \A d \in Callers \ {c} : stage'[d] = stage[d]
    BY <1>3 DEF RevInv, RevisionTypes, TypeOK, CallerStep, Publish, WriteFiles, WriteManifest,
       Install, Point, ChooseRevision, NothingToRecover, Repoint, Finish, Crash, Return, Write
  <2>2. /\ pc'[c] = "staging" => stage'[c] = {}
        /\ pc'[c] = "described" => stage'[c] = {"files"}
        /\ pc'[c] = "staged" => stage'[c] = Parts
    BY <1>1, <1>3 DEF RevInv, RevisionTypes, TypeOK, CallerStep, Publish, WriteFiles, WriteManifest,
       Install, Point, ChooseRevision, NothingToRecover, Repoint, Finish, Crash, Return, Goto, Write,
       Staged, Parts, Gone
  <2> QED BY <1>1, <2>1, <2>2, CallerStepsKeep DEF Staged
<1> QED BY <1>2, <1>3

LEMMA ApartStep ==
  ASSUME RevInv, NEW c \in Callers, CallerStep(c), ~overlapped'
  PROVE  Apart'
<1>1. Apart
  BY CallerStepsKeep DEF RevInv
<1>2. pc'[c] \in Publishing => \A d \in Callers \ {c} : pc[d] \notin Recovering
  BY <1>1 DEF Apart, RevInv, RevisionTypes, TypeOK, CallerStep, Publish, WriteFiles, WriteManifest,
     Install, Point, Recover, ChooseRevision, NothingToRecover, Repoint, Finish, Crash, Return, Goto,
     Busy, Publishing, Recovering
<1>3. pc'[c] \in Recovering => \A d \in Callers \ {c} : pc[d] \notin Publishing
  BY <1>1 DEF Apart, RevInv, RevisionTypes, TypeOK, CallerStep, Publish, WriteFiles, WriteManifest,
     Install, Point, Recover, ChooseRevision, NothingToRecover, Repoint, Finish, Crash, Return, Goto,
     Busy, Publishing, Recovering
<1>4. Publishing \cap Recovering = {}
  BY DEF Publishing, Recovering
<1> QED BY <1>1, <1>2, <1>3, <1>4, CallerStepsKeep DEF Apart

(* A publisher installs a whole revision, so what it points at verifies.   *)
LEMMA NamedStep ==
  ASSUME RevInv, RevisionTypes', NEW c \in Callers, CallerStep(c), ~overlapped'
  PROVE  Named'
<1>1. ~overlapped /\ Staged /\ Named
  BY CallerStepsKeep DEF RevInv
<1>2. pc'[c] \in {"pointing", "published"} => rev'[c] \in Revisions /\ dir'[rev'[c]] = "complete"
  BY <1>1 DEF Named, Staged, RevInv, RevisionTypes, TypeOK, CallerStep, Publish, WriteFiles, WriteManifest,
     Install, Point, Recover, ChooseRevision, NothingToRecover, Repoint, Finish, Crash, Return, Goto,
     Contents, Verified
<1>3. active' = active \/ Verified(active')
  BY <1>1 DEF Named, RevInv, RevisionTypes, CallerStep, Publish, WriteFiles, WriteManifest,
     Install, Point, Recover, ChooseRevision, NothingToRecover, Repoint, Finish, Crash, Goto
<1> QED BY <1>1, <1>2, <1>3, CallerStepsKeep DEF Named, Verified, RevInv, RevisionTypes, TypeOK

LEMMA ChosenStep ==
  ASSUME RevInv, NEW c \in Callers, CallerStep(c), ~overlapped'
  PROVE  Chosen'
<1>1. Chosen /\ Apart
  BY CallerStepsKeep DEF RevInv
<1> USE DEF RevInv, RevisionTypes, TypeOK, Goto, Return
<1>2. CASE \E d \in Callers : pc'[d] = "repointing"
  <2>1. \A d \in Callers : pc[d] \notin Publishing
    BY <1>1, <1>2, CallerStepsKeep DEF Apart, CallerStep, Publish, WriteFiles, WriteManifest,
       Install, Point, Recover, ChooseRevision, NothingToRecover, Repoint, Finish, Crash,
       Busy, Publishing, Recovering
  <2>2. UNCHANGED dir
    BY <2>1 DEF CallerStep, Publish, WriteFiles, WriteManifest, Install, Point, Recover,
       ChooseRevision, NothingToRecover, Repoint, Finish, Crash, Publishing
  <2>3. pc'[c] = "repointing" => Newest(rev'[c]) /\ ~Verified(active) /\ UNCHANGED active
    BY <2>1, CallerStepsKeep DEF CallerStep, Publish, WriteFiles, WriteManifest, Install, Point, Recover,
       ChooseRevision, NothingToRecover, Repoint, Finish, Crash, Publishing, Newest
  <2>4. UNCHANGED active \/ Newest(active')
    BY <1>1, <2>1 DEF CallerStep, Publish, WriteFiles, WriteManifest, Install, Point, Recover,
       ChooseRevision, NothingToRecover, Repoint, Finish, Crash, Publishing, Chosen
  <2>5. \A r, s \in Revisions : Newest(r) /\ Newest(s) => r = s
    BY WorkspaceAssumption DEF Newest
  <2>6. \A r : (Verified(r) <=> r \in Revisions /\ dir'[r] = "complete")
    BY <2>2 DEF Verified
  <2>7. \A d \in Callers : pc'[d] = "repointing" =>
          Newest(rev'[d]) /\ (Verified(active') => active' = rev'[d])
    BY <1>1, <2>3, <2>4, <2>5, CallerStepsKeep DEF Chosen, Newest, Verified
  <2> QED BY <2>2, <2>7 DEF Chosen, Newest, Verified
<1>3. CASE \A d \in Callers : pc'[d] # "repointing"
  BY <1>3 DEF Chosen
<1> QED BY <1>2, <1>3

LEMMA RevisionsStep == RevInv /\ [Next]_vars => RevInv'
<1> SUFFICES ASSUME RevInv, [Next]_vars PROVE RevInv'
  OBVIOUS
<1>1. ASSUME NEW c \in Callers, CallerStep(c) PROVE RevInv'
  BY <1>1, RevisionTypesStep, StagedStep, ApartStep, NamedStep, ChosenStep DEF RevInv
<1>2. CASE Rot
  <2>1. \A c \in Callers : pc[c] = "idle" /\ pc'[c] = "idle"
    BY <1>2 DEF Rot, Busy, RevInv, RevisionTypes, TypeOK
  <2>2. TypeOK'
    BY <1>2, WorkspaceAssumption DEF Rot, RevInv, RevisionTypes, TypeOK
  <2>3. damage' # 0
    BY <1>2, WorkspaceAssumption DEF Rot, RevInv, RevisionTypes, TypeOK
  <2> QED BY <2>1, <2>2, <2>3 DEF RevInv, RevisionTypes, Staged, Apart, Named, Chosen, Publishing
<1>3. CASE UNCHANGED vars
  BY <1>3 DEF vars, RevInv, RevisionTypes, TypeOK, Staged, Apart, Named, Chosen, Newest, Verified
<1> QED BY <1>1, <1>2, <1>3 DEF Next, CallerStep

(* However publications and recoveries interleave and wherever they die,   *)
(* what publish or recover answered, and what the pointer names, can be    *)
(* loaded.                                                                 *)
THEOREM NamedRevisionsVerify == StoresSpec => []WhatIsNamedVerifies
<1>1. StoresInit => RevInv
  BY RevisionsInitially DEF StoresInit
<1>2. [StoresNext]_storeVars => [Next]_vars
  BY DEF StoresNext, storeVars
<1>3. RevInv => WhatIsNamedVerifies
  BY DEF RevInv, RevisionTypes, Named, WhatIsNamedVerifies, ActiveIsVerified, RecoveredIsVerified,
     PublishedIsVerified
<1> QED BY <1>1, <1>2, <1>3, RevisionsStep, PTL DEF StoresSpec

(* No recovery moves a pointer from a revision that verifies, and no call  *)
(* takes such a revision away.                                             *)
THEOREM RecoveryLosesNothing == StoresSpec => NothingIsLost
<1>1. StoresInit => RevInv
  BY RevisionsInitially DEF StoresInit
<1>2. [StoresNext]_storeVars => [Next]_vars
  BY DEF StoresNext, storeVars
<1>3. RevInv /\ [Next]_vars =>
        [~overlapped' /\ Verified(active) /\ active' # active /\ damage' = damage =>
           \E c \in Callers : pc[c] = "pointing" /\ active' = rev[c]]_vars
  <2> SUFFICES ASSUME RevInv, Next, ~overlapped', Verified(active), active' # active, damage' = damage
               PROVE  \E c \in Callers : pc[c] = "pointing" /\ active' = rev[c]
    OBVIOUS
  <2>1. PICK c \in Callers : CallerStep(c)
    BY WorkspaceAssumption DEF Next, CallerStep, Rot, RevInv, RevisionTypes, TypeOK
  <2>2. Chosen
    BY <2>1, CallerStepsKeep DEF RevInv
  <2> QED BY <2>1, <2>2 DEF CallerStep, Publish, WriteFiles, WriteManifest, Install, Point, Recover,
       ChooseRevision, NothingToRecover, Repoint, Finish, Crash, Goto, Chosen
<1>4. RevInv /\ [Next]_vars =>
        [\A r \in Revisions : Verified(r) /\ damage' = damage => dir'[r] = "complete"]_vars
  <2> SUFFICES ASSUME RevInv, Next, NEW r \in Revisions, Verified(r), damage' = damage
               PROVE  dir'[r] = "complete"
    OBVIOUS
  <2>1. PICK c \in Callers : CallerStep(c)
    BY WorkspaceAssumption DEF Next, CallerStep, Rot, RevInv, RevisionTypes, TypeOK
  <2> QED BY <2>1, CallerStepsKeep
<1>5. StoresSpec => RecoveryRollsNothingBack
  BY <1>1, <1>2, <1>3, RevisionsStep, PTL DEF StoresSpec, RecoveryRollsNothingBack
<1>6. StoresSpec => VerifiedStays
  BY <1>1, <1>2, <1>4, RevisionsStep, PTL DEF StoresSpec, VerifiedStays
<1> QED BY <1>5, <1>6 DEF NothingIsLost

-----------------------------------------------------------------------------
(* The timing files.                                                       *)

Steps == {"idle", "make", "write", "promote", "rename", "verify", "clean", "end"}
Answers == {"none", "PATH_INVALID", "TARGET_EXISTS", "WRITE_FAILED", "PROMOTION_FAILED", "RECEIPT"}

(* A publisher that has made its staging directory and not yet given it up.*)
Owning == {"write", "promote", "rename", "clean"}

(* The directory has what its user has written, and is whole once that is  *)
(* everything.                                                             *)
Filled(m, d) ==
  /\ m.step = "write" => m.written \subseteq d.files
  /\ m.step \in {"promote", "rename"} => Timing!Whole(d)

(* As long as nothing is published, a staging directory in use has one     *)
(* user, and is filled.                                                    *)
OneOwner ==
  timing = Timing!Absent =>
    /\ \A p \in Publishers : publisher[p].step # "verify"
    /\ \A p \in Publishers : publisher[p].step \in Owning => Timing!Exists(Timing!Own(p))
    /\ \A p, q \in Publishers :
         /\ publisher[p].step \in Owning /\ publisher[q].step \in Owning
         /\ publisher[p].of = publisher[q].of
         => p = q
    /\ \A p \in Publishers : Filled(publisher[p], Timing!Own(p))

Directory(x) == {Timing!Absent} \cup [of : {x}, files : SUBSET TimingFileNames]

TimingTypes ==
  /\ publisher \in [Publishers -> [of : Publications \cup {Timing!NoAnswer}, step : Steps,
                                   answer : Answers, written : SUBSET TimingFileNames]]
  /\ DOMAIN staging = Publications
  /\ staging = [x \in Publications |-> staging[x]]
  /\ \A x \in Publications : staging[x] \in Directory(x)
  /\ \A p \in Publishers : publisher[p].step \notin {"idle", "end"} => publisher[p].of \in Publications
  /\ \A p \in Publishers : publisher[p].step = "make" => publisher[p].written = {}
  /\ timing = Timing!Absent \/ timing.files = TimingFileNames

TimingInv == TimingTypes /\ OneOwner /\ Timing!PublishedIsWhole

LEMMA TimingInitially == Timing!TimingInit => TimingInv
<1> SUFFICES ASSUME Timing!TimingInit PROVE TimingInv
  OBVIOUS
<1>1. /\ timing = Timing!Absent
      /\ staging = [x \in Publications |-> Timing!Absent]
      /\ publisher = [p \in Publishers |-> [of |-> Timing!NoAnswer, step |-> "idle",
                                            answer |-> Timing!NoAnswer, written |-> {}]]
  BY DEF Timing!TimingInit, Timing!Idle, Timing!Publisher
<1>2. Timing!NoAnswer \in Answers /\ Timing!NoAnswer # "RECEIPT" /\ ~Timing!Exists(Timing!Absent)
  BY DEF Timing!NoAnswer, Timing!Exists, Answers
<1>3. TimingTypes
  BY <1>1, <1>2 DEF TimingTypes, Directory, Steps
<1>4. OneOwner
  BY <1>1 DEF OneOwner, Owning, Filled
<1>5. Timing!PublishedIsWhole
  BY <1>1, <1>2 DEF Timing!PublishedIsWhole
<1> QED BY <1>3, <1>4, <1>5 DEF TimingInv

(* One step of a publisher.  The others see at most that its staging       *)
(* directory changes, and that there is a published directory.             *)
LEMMA TimingTypeStep ==
  ASSUME TimingInv, NEW p \in Publishers, Timing!TimingStep(p)
  PROVE  TimingTypes'
<1> USE DEF TimingInv, TimingTypes, Steps, Answers, Timing!NoAnswer, Timing!Goes, Timing!Rejects,
          Timing!Publisher
<1>1. CASE Timing!RefuseRoot(p)
  BY <1>1 DEF Timing!RefuseRoot
<1>2. CASE Timing!CheckTarget(p)
  BY <1>2 DEF Timing!CheckTarget
<1>3. CASE Timing!MakeStaging(p)
  BY <1>3 DEF Timing!MakeStaging, Directory
<1>4. CASE Timing!WriteFile(p)
  <2> DEFINE x == publisher[p].of
             unwritten == TimingFileNames \ publisher[p].written
             next == CHOOSE f \in unwritten : TRUE
             created == [staging EXCEPT ![x].files = @ \cup {next}]
  <2>1. x \in Publications /\ staging[x] \in Directory(x)
    BY <1>4 DEF Timing!WriteFile
  <2>2. CASE unwritten = {}
    BY <1>4, <2>2 DEF Timing!WriteFile
  <2>3. CASE unwritten # {}
    <3>1. next \in TimingFileNames
      BY <2>3
    <3>2. /\ \/ UNCHANGED staging
             \/ Timing!Exists(staging[x]) /\ staging' = created
          /\ UNCHANGED timing
          /\ \/ publisher' = [publisher EXCEPT ![p].written = @ \cup {next}]
             \/ Timing!Rejects(p, "clean", "WRITE_FAILED")
      BY <1>4, <2>3 DEF Timing!WriteFile, Timing!Own
    <3> HIDE DEF unwritten, next
    <3>3. CASE UNCHANGED staging
      BY <1>4, <3>1, <3>2, <3>3 DEF Timing!WriteFile
    <3>4. CASE Timing!Exists(staging[x]) /\ staging' = created
      <4>1. staging[x] \in [of : {x}, files : SUBSET TimingFileNames]
        BY <2>1, <3>4 DEF Directory, Timing!Exists
      <4>2. [staging[x] EXCEPT !.files = @ \cup {next}] \in [of : {x}, files : SUBSET TimingFileNames]
        BY <3>1, <4>1
      <4>3. \A y \in Publications : staging'[y] \in Directory(y)
        BY <2>1, <3>4, <4>2 DEF Directory
      <4>4. staging' = [y \in Publications |-> staging'[y]]
        BY <3>4
      <4> QED BY <1>4, <3>1, <3>2, <4>3, <4>4 DEF Timing!WriteFile
    <3> QED BY <3>2, <3>3, <3>4
  <2> QED BY <2>2, <2>3
<1>5. CASE Timing!CheckPromotion(p)
  BY <1>5 DEF Timing!CheckPromotion
<1>6. CASE Timing!Rename(p)
  <2>1. CASE UNCHANGED <<timing, staging>>
    BY <1>6, <2>1 DEF Timing!Rename
  <2>2. CASE /\ timing.files = {} /\ timing' = Timing!Own(p)
             /\ staging' = [staging EXCEPT ![publisher[p].of] = Timing!Absent]
             /\ Timing!Goes(p, "verify")
    <3>1. timing = Timing!Absent /\ publisher[p].step = "rename"
      BY <1>6, <2>2, FilesAssumption DEF Timing!Rename
    <3>2. timing'.files = TimingFileNames
      BY <2>2, <3>1 DEF OneOwner, Filled, Timing!Whole
    <3>3. \A y \in Publications : staging'[y] \in Directory(y)
      BY <2>2 DEF Directory
    <3> QED BY <1>6, <2>2, <3>1, <3>2, <3>3
  <2> QED BY <1>6, <2>1, <2>2 DEF Timing!Rename
<1>7. CASE Timing!VerifyPublished(p)
  BY <1>7 DEF Timing!VerifyPublished
<1>8. CASE Timing!CleanFile(p)
  <2> DEFINE x == publisher[p].of
  <2>1. PICK f \in staging[x].files : staging' = [staging EXCEPT ![x].files = @ \ {f}]
    BY <1>8 DEF Timing!CleanFile, Timing!Own
  <2>2. x \in Publications /\ staging[x] \in [of : {x}, files : SUBSET TimingFileNames]
    BY <1>8, <2>1 DEF Timing!CleanFile, Directory, Timing!Absent
  <2>3. [staging[x] EXCEPT !.files = @ \ {f}] \in [of : {x}, files : SUBSET TimingFileNames]
    BY <2>2
  <2>4. \A y \in Publications : staging'[y] \in Directory(y)
    BY <2>1, <2>2, <2>3 DEF Directory
  <2>5. DOMAIN staging' = Publications /\ staging' = [y \in Publications |-> staging'[y]]
    BY <2>1
  <2> QED BY <1>8, <2>4, <2>5 DEF Timing!CleanFile
<1>9. CASE Timing!CleanDirectory(p)
  BY <1>9 DEF Timing!CleanDirectory, Directory
<1>10. CASE Timing!PublisherDies(p)
  BY <1>10 DEF Timing!PublisherDies
<1> QED BY <1>1, <1>2, <1>3, <1>4, <1>5, <1>6, <1>7, <1>8, <1>9, <1>10 DEF Timing!TimingStep

LEMMA OneOwnerStep ==
  ASSUME TimingInv, TimingTypes', NEW p \in Publishers, Timing!TimingStep(p)
  PROVE  OneOwner'
<1> SUFFICES ASSUME timing' = Timing!Absent PROVE OneOwner'
  BY DEF OneOwner
<1>1. timing = Timing!Absent
  <2>1. CASE Timing!Rename(p)
    BY <2>1, FilesAssumption DEF Timing!Rename, TimingInv, TimingTypes, OneOwner, Timing!Whole, Timing!Absent
  <2>2. CASE ~Timing!Rename(p)
    BY <2>2 DEF Timing!TimingStep, Timing!RefuseRoot, Timing!CheckTarget, Timing!MakeStaging,
       Timing!WriteFile, Timing!CheckPromotion, Timing!VerifyPublished, Timing!CleanFile,
       Timing!CleanDirectory, Timing!PublisherDies
  <2> QED BY <2>1, <2>2
<1>2. \A x \in Publications : \A d \in [of : {x}, files : SUBSET TimingFileNames] : Timing!Exists(d)
  BY FilesAssumption DEF Timing!Exists
<1>3. \A x \in Publications : Timing!Exists(staging[x]) =>
        staging[x] \in [of : {x}, files : SUBSET TimingFileNames]
  BY DEF TimingInv, TimingTypes, Directory, Timing!Exists
<1> DEFINE x == publisher[p].of
           Others == \A q \in Publishers \ {p} :
                       /\ publisher'[q] = publisher[q]
                       /\ publisher[q].step \in Owning =>
                            staging'[publisher[q].of] = staging[publisher[q].of]
           Mine == /\ publisher'[p].step # "verify"
                   /\ publisher'[p].step \in Owning =>
                        /\ publisher'[p].of = x
                        /\ Timing!Exists(staging'[x])
                        /\ \A q \in Publishers \ {p} :
                             publisher[q].step \in Owning => publisher[q].of # x
                   /\ Filled(publisher'[p], staging'[x])
<1>4. publisher[p].step \in Owning =>
        /\ x \in Publications /\ Timing!Exists(staging[x])
        /\ staging[x] \in [of : {x}, files : SUBSET TimingFileNames]
        /\ \A q \in Publishers \ {p} : publisher[q].step \in Owning => publisher[q].of # x
        /\ Filled(publisher[p], staging[x])
  BY <1>1, <1>3 DEF TimingInv, TimingTypes, OneOwner, Owning, Timing!Own
<1>5. \A q \in Publishers : publisher[q].step \in Owning => publisher[q].of \in Publications
  BY DEF TimingInv, TimingTypes, Owning
<1>6. publisher[p].step # "verify"
  BY <1>1 DEF TimingInv, OneOwner
<1> USE DEF TimingInv, TimingTypes, Timing!Goes, Timing!Rejects, Timing!Own, Timing!Publisher
<1>7. Others /\ Mine
  <2>1. CASE Timing!RefuseRoot(p)
    BY <1>4, <2>1 DEF Timing!RefuseRoot, Owning, Filled
  <2>2. CASE Timing!CheckTarget(p)
    BY <2>2 DEF Timing!CheckTarget, Owning, Filled
  <2>3. CASE Timing!MakeStaging(p)
    <3>1. CASE UNCHANGED staging /\ Timing!Rejects(p, "end", "WRITE_FAILED")
      BY <3>1 DEF Owning, Filled
    <3>2. CASE /\ ~Timing!Exists(staging[x]) /\ Timing!Goes(p, "write")
               /\ staging' = [staging EXCEPT ![x] = [of |-> x, files |-> {}]]
      <4>1. x \in Publications
        BY <2>3 DEF Timing!MakeStaging
      <4>2. \A q \in Publishers \ {p} : publisher[q].step \in Owning => publisher[q].of # x
        BY <1>1, <3>2 DEF OneOwner
      <4>3. Timing!Exists(staging'[x])
        BY <1>2, <3>2, <4>1
      <4>4. /\ \A q \in Publishers \ {p} : publisher'[q] = publisher[q]
            /\ publisher'[p].step = "write" /\ publisher'[p].of = x
        BY <3>2
      <4>5. Others
        BY <1>5, <3>2, <4>2, <4>4
      <4>6. Filled(publisher'[p], staging'[x])
        BY <2>3, <3>2, <4>1, <4>4 DEF Filled, Timing!MakeStaging
      <4>7. Mine
        BY <4>2, <4>3, <4>4, <4>6
      <4> QED BY <4>5, <4>7
    <3> QED BY <2>3, <3>1, <3>2 DEF Timing!MakeStaging
  <2>4. CASE Timing!WriteFile(p)
    <3>1. publisher[p].step = "write"
      BY <2>4 DEF Timing!WriteFile
    <3>2. /\ \A q \in Publishers \ {p} : publisher'[q] = publisher[q]
          /\ publisher'[p].of = x
          /\ publisher'[p].step \in {"write", "clean", "promote"}
          /\ publisher'[p].step = "promote" =>
               UNCHANGED staging /\ TimingFileNames \ publisher[p].written = {}
      BY <2>4, <3>1 DEF Timing!WriteFile
    <3>3. x \in Publications /\ staging[x] \in [of : {x}, files : SUBSET TimingFileNames]
      BY <1>4, <3>1 DEF Owning
    <3>4. PICK f : \/ UNCHANGED staging
                   \/ staging' = [staging EXCEPT ![x].files = @ \cup {f}]
      BY <2>4 DEF Timing!WriteFile
    <3>5. /\ \A y \in Publications \ {x} : staging'[y] = staging[y]
          /\ staging'[x].of = x /\ staging[x].files \subseteq staging'[x].files
      BY <3>3, <3>4
    <3>6. Timing!Exists(staging'[x])
      BY <3>3, <3>5, FilesAssumption DEF Timing!Exists
    <3>7. publisher'[p].step = "write" => publisher'[p].written \subseteq staging'[x].files
      <4> DEFINE unwritten == TimingFileNames \ publisher[p].written
                 next == CHOOSE g \in unwritten : TRUE
      <4>1. publisher'[p].step = "write" =>
              /\ publisher' = [publisher EXCEPT ![p].written = @ \cup {next}]
              /\ staging' = [staging EXCEPT ![x].files = @ \cup {next}]
        BY <2>4, <3>1 DEF Timing!WriteFile
      <4> HIDE DEF next
      <4>2. publisher[p].written \subseteq staging[x].files
        BY <1>4, <3>1 DEF Owning, Filled
      <4> QED BY <3>3, <4>1, <4>2
    <3>8. publisher'[p].step = "promote" => Timing!Whole(staging'[x])
      BY <1>4, <3>1, <3>2, <3>3 DEF Owning, Filled, Timing!Whole
    <3>9. Filled(publisher'[p], staging'[x])
      BY <3>2, <3>7, <3>8 DEF Filled
    <3> QED BY <1>4, <1>5, <3>1, <3>2, <3>3, <3>5, <3>6, <3>9 DEF Owning
  <2>5. CASE Timing!CheckPromotion(p)
    BY <1>4, <2>5 DEF Timing!CheckPromotion, Owning, Filled
  <2>6. CASE Timing!Rename(p)
    <3>1. UNCHANGED <<timing, staging>> /\ Timing!Rejects(p, "clean", "PROMOTION_FAILED")
      BY <1>1, <1>4, <2>6 DEF Timing!Rename, Timing!Exists, Owning
    <3> QED BY <1>4, <2>6, <3>1 DEF Timing!Rename, Owning, Filled
  <2>7. CASE Timing!VerifyPublished(p)
    BY <1>6, <2>7 DEF Timing!VerifyPublished
  <2>8. CASE Timing!CleanFile(p)
    <3>1. publisher[p].step = "clean" /\ UNCHANGED publisher
      BY <2>8 DEF Timing!CleanFile
    <3>2. PICK f : staging' = [staging EXCEPT ![x].files = @ \ {f}]
      BY <2>8 DEF Timing!CleanFile
    <3>3. x \in Publications /\ staging'[x].of = x
      BY <1>4, <3>1, <3>2 DEF Owning
    <3>4. Timing!Exists(staging'[x])
      BY <3>3, FilesAssumption DEF Timing!Exists
    <3> QED BY <1>4, <1>5, <3>1, <3>2, <3>3, <3>4 DEF Owning, Filled
  <2>9. CASE Timing!CleanDirectory(p)
    <3>1. publisher[p].step = "clean" /\ Timing!Goes(p, "end")
      BY <2>9 DEF Timing!CleanDirectory
    <3>2. \A y \in Publications \ {x} : staging'[y] = staging[y]
      BY <2>9 DEF Timing!CleanDirectory
    <3> QED BY <1>4, <1>5, <3>1, <3>2 DEF Owning, Filled
  <2>10. CASE Timing!PublisherDies(p)
    BY <2>10 DEF Timing!PublisherDies, Owning, Filled
  <2> QED BY <2>1, <2>2, <2>3, <2>4, <2>5, <2>6, <2>7, <2>8, <2>9, <2>10 DEF Timing!TimingStep
<1> HIDE DEF Timing!Goes, Timing!Rejects
<1>8. \A q \in Publishers \ {p} : publisher[q].step \in Owning =>
        Timing!Exists(staging[publisher[q].of])
  BY <1>1 DEF OneOwner
<1>9. \A q \in Publishers \ {p} : Filled(publisher[q], staging[publisher[q].of])
  BY <1>1 DEF OneOwner
<1>10. \A q \in Publishers \ {p} : publisher[q].step # "verify"
  BY <1>1 DEF OneOwner
<1>11. \A q, r \in Publishers \ {p} :
         /\ publisher[q].step \in Owning /\ publisher[r].step \in Owning
         /\ publisher[q].of = publisher[r].of
         => q = r
  BY <1>1 DEF OneOwner
<1>12. \A q \in Publishers : publisher'[q].step # "verify"
  BY <1>7, <1>10
<1>13. \A q \in Publishers : publisher'[q].step \in Owning => Timing!Exists(staging'[publisher'[q].of])
  BY <1>7, <1>8
<1>14. \A q \in Publishers : Filled(publisher'[q], staging'[publisher'[q].of])
  <2>1. Filled(publisher'[p], staging'[publisher'[p].of])
    BY <1>7 DEF Owning, Filled
  <2>2. ASSUME NEW q \in Publishers \ {p}
        PROVE  Filled(publisher'[q], staging'[publisher'[q].of])
    BY <1>7, <1>9, <2>2 DEF Owning, Filled
  <2> QED BY <2>1, <2>2
<1>15. \A q, r \in Publishers :
         /\ publisher'[q].step \in Owning /\ publisher'[r].step \in Owning
         /\ publisher'[q].of = publisher'[r].of
         => q = r
  BY <1>7, <1>11
<1> QED BY <1>12, <1>13, <1>14, <1>15 DEF OneOwner

LEMMA PublishedStep ==
  ASSUME TimingInv, NEW p \in Publishers, Timing!TimingStep(p)
  PROVE  Timing!PublishedIsWhole'
<1> USE FilesAssumption DEF TimingInv, TimingTypes, Timing!PublishedIsWhole, Timing!Whole, Timing!Exists,
        Timing!Goes, Timing!Rejects, Timing!Publisher, Answers, Timing!NoAnswer
<1>1. CASE Timing!RefuseRoot(p) \/ Timing!CheckTarget(p) \/ Timing!MakeStaging(p)
  BY <1>1 DEF Timing!RefuseRoot, Timing!CheckTarget, Timing!MakeStaging
<1>2. CASE Timing!WriteFile(p)
  BY <1>2 DEF Timing!WriteFile
<1>3. CASE Timing!CheckPromotion(p) \/ Timing!VerifyPublished(p)
  BY <1>3 DEF Timing!CheckPromotion, Timing!VerifyPublished
<1>4. CASE Timing!Rename(p)
  <2>1. CASE UNCHANGED <<timing, staging>>
    BY <1>4, <2>1 DEF Timing!Rename
  <2>2. CASE ~UNCHANGED <<timing, staging>>
    BY <1>4, <2>2 DEF Timing!Rename, OneOwner, Filled, Timing!Absent
  <2> QED BY <2>1, <2>2
<1>5. CASE Timing!CleanFile(p) \/ Timing!CleanDirectory(p) \/ Timing!PublisherDies(p)
  BY <1>5 DEF Timing!CleanFile, Timing!CleanDirectory, Timing!PublisherDies
<1> QED BY <1>1, <1>2, <1>3, <1>4, <1>5 DEF Timing!TimingStep

(* Whatever the publishers interleave, fail at or die over, what is        *)
(* published is all files of one publication, and a receipt is for it.     *)
THEOREM PublishedTimingIsWhole == StoresSpec => []PublishedIsWhole
<1>1. StoresInit => TimingInv
  BY TimingInitially DEF StoresInit
<1>2. TimingInv /\ [StoresNext]_storeVars => TimingInv'
  <2> SUFFICES ASSUME TimingInv, [StoresNext]_storeVars PROVE TimingInv'
    OBVIOUS
  <2>1. CASE UNCHANGED timingVars
    BY <2>1 DEF timingVars, TimingInv, TimingTypes, OneOwner, Timing!PublishedIsWhole, Timing!Own
  <2>2. ASSUME NEW p \in Publishers, Timing!TimingStep(p) PROVE TimingInv'
    BY <2>2, TimingTypeStep, OneOwnerStep, PublishedStep DEF TimingInv
  <2>3. Timing!TimingNext \/ UNCHANGED timingVars
    BY DEF StoresNext, storeVars
  <2> QED BY <2>1, <2>2, <2>3 DEF Timing!TimingNext
<1>3. TimingInv => PublishedIsWhole
  BY DEF TimingInv, PublishedIsWhole
<1> QED BY <1>1, <1>2, <1>3, PTL DEF StoresSpec

-----------------------------------------------------------------------------
(* The render cache.                                                       *)

Anything == Entries \cup {Cache!NoFile}

UserRecord ==
  [step : {"idle", "look", "read", "compare", "payload", "metadata", "unlink"},
   op : {"none", "put", "get"}, key : Keys \cup {Cache!NoEntry},
   entry : Anything, seen : Anything, answer : Anything]

(* Metadata, and an answer, are never made up: each is one put's.          *)
Given(k, e, puts) == e = Cache!NoFile \/ <<k, e>> \in puts

Sound(r, puts) ==
  /\ r \in UserRecord
  /\ r.step # "idle" => r.key \in Keys
  /\ r.step \in {"payload", "metadata"} => Given(r.key, r.entry, puts)
  /\ r.step = "compare" => Given(r.key, r.seen, puts)
  /\ Given(r.key, r.answer, puts)

CacheInv ==
  /\ metadata \in [Keys -> Anything]
  /\ \A k \in Keys : Given(k, metadata[k], offered)
  /\ user = [u \in Users |-> user[u]]
  /\ \A u \in Users : Sound(user[u], offered)

LEMMA CacheInitially == Cache!CacheInit => CacheInv
BY DEF Cache!CacheInit, CacheInv, Anything, Given, Sound, UserRecord, Cache!AtRest

LEMMA RestIsSound ==
  ASSUME NEW puts
  PROVE  /\ Cache!AtRest \in UserRecord /\ Cache!AtRest.step = "idle" /\ Sound(Cache!AtRest, puts)
         /\ \A k \in Keys : \A e \in Anything : Given(k, e, puts) =>
              Sound([Cache!AtRest EXCEPT !.answer = e, !.key = k], puts)
BY DEF Cache!AtRest, Sound, UserRecord, Given, Anything

(* A step that gives one user a sound record and takes no put back.        *)
LEMMA UserSteps ==
  ASSUME CacheInv, NEW u \in Users, NEW r, user' = [user EXCEPT ![u] = r], Sound(r, offered'),
         offered \subseteq offered',
         metadata' \in [Keys -> Anything], \A k \in Keys : Given(k, metadata'[k], offered')
  PROVE  CacheInv'
<1>1. \A v \in Users : user'[v] = IF v = u THEN r ELSE user[v]
  BY DEF CacheInv
<1>2. \A v \in Users : Sound(user[v], offered')
  BY DEF CacheInv, Sound, Given
<1>3. user' = [v \in Users |-> user'[v]]
  BY DEF CacheInv
<1> QED BY <1>1, <1>2, <1>3 DEF CacheInv

(* A hit is the metadata that was read, for the payload that is there now. *)
LEMMA CacheStep == CacheInv /\ [Cache!CacheNext]_cacheVars => CacheInv'
<1> SUFFICES ASSUME CacheInv, [Cache!CacheNext]_cacheVars PROVE CacheInv'
  OBVIOUS
<1>1. CASE UNCHANGED cacheVars
  BY <1>1 DEF cacheVars, CacheInv
<1>2. ASSUME NEW u \in Users, Cache!Put(u) PROVE CacheInv'
  <2>1. PICK k \in Keys, e \in Entries :
          /\ user' = [user EXCEPT ![u] = [Cache!AtRest EXCEPT !.op = "put", !.key = k, !.entry = e,
                        !.step = IF Cache!HasObject(k) \/ Cache!HasMetadata(k) THEN "look" ELSE "payload"]]
          /\ offered' = offered \cup {<<k, e>>} /\ metadata' = metadata
    BY <1>2 DEF Cache!Put
  <2>2. Sound([Cache!AtRest EXCEPT !.op = "put", !.key = k, !.entry = e,
                 !.step = IF Cache!HasObject(k) \/ Cache!HasMetadata(k) THEN "look" ELSE "payload"],
              offered')
    BY <2>1 DEF Sound, UserRecord, Given, Anything, Cache!AtRest
  <2> QED BY <2>1, <2>2, UserSteps DEF CacheInv, Given
<1>3. ASSUME NEW u \in Users, NEW r, user' = [user EXCEPT ![u] = r], UNCHANGED <<metadata, offered>>,
             Sound(r, offered)
      PROVE  CacheInv'
  BY <1>3, UserSteps DEF CacheInv
<1>4. ASSUME NEW u \in Users, Cache!Raises(u), UNCHANGED <<metadata, offered>> PROVE CacheInv'
  BY <1>3, <1>4, RestIsSound DEF Cache!Raises
<1>5. ASSUME NEW u \in Users, NEW s \in {"metadata", "unlink", "read"}, Cache!Moves(u, s),
             user[u].step = "payload" \/ s # "metadata", user[u].step # "idle",
             UNCHANGED <<metadata, offered>>
      PROVE  CacheInv'
  <2>1. Sound([user[u] EXCEPT !.step = s], offered)
    BY <1>5 DEF CacheInv, Sound, UserRecord
  <2>2. user' = [user EXCEPT ![u] = [user[u] EXCEPT !.step = s]]
    BY <1>5 DEF Cache!Moves
  <2> QED BY <1>3, <1>5, <2>1, <2>2
<1>6. ASSUME NEW u \in Users, Cache!WritePayload(u) PROVE CacheInv'
  BY <1>4, <1>5, <1>6 DEF Cache!WritePayload, Cache!WriteFails, Cache!At
<1>7. ASSUME NEW u \in Users, Cache!WriteMetadata(u) PROVE CacheInv'
  <2>1. CASE Cache!WriteFails(u, "unlink")
    BY <1>5, <1>7, <2>1 DEF Cache!WriteMetadata, Cache!WriteFails, Cache!At
  <2>2. CASE /\ metadata' = [metadata EXCEPT ![user[u].key] = user[u].entry]
             /\ Cache!Answers(u, user[u].entry)
    <3>1. /\ user[u].key \in Keys /\ user[u].entry \in Anything /\ offered' = offered
          /\ Given(user[u].key, user[u].entry, offered)
      BY <1>7 DEF CacheInv, Sound, UserRecord, Cache!WriteMetadata, Cache!At
    <3>2. /\ metadata' \in [Keys -> Anything]
          /\ \A k \in Keys : Given(k, metadata'[k], offered')
      BY <2>2, <3>1 DEF CacheInv
    <3>3. Sound([Cache!AtRest EXCEPT !.answer = user[u].entry, !.key = user[u].key], offered')
      BY <3>1, RestIsSound
    <3> QED BY <2>2, <3>1, <3>2, <3>3, UserSteps DEF Cache!Answers, Cache!KeyOf
  <2> QED BY <1>7, <2>1, <2>2 DEF Cache!WriteMetadata, Cache!KeyOf
<1>8. ASSUME NEW u \in Users, Cache!Unlink(u) \/ Cache!UserDies(u) PROVE CacheInv'
  BY <1>4, <1>8 DEF Cache!Unlink, Cache!UserDies
<1>9. ASSUME NEW u \in Users, Cache!Get(u) PROVE CacheInv'
  <2>1. PICK k \in Keys :
          user' = [user EXCEPT ![u] = [Cache!AtRest EXCEPT !.step = "look", !.op = "get", !.key = k]]
    BY <1>9 DEF Cache!Get
  <2>2. Sound([Cache!AtRest EXCEPT !.step = "look", !.op = "get", !.key = k], offered)
    BY DEF Sound, UserRecord, Given, Anything, Cache!AtRest
  <2> QED BY <1>3, <1>9, <2>1, <2>2 DEF Cache!Get
<1>10. ASSUME NEW u \in Users, Cache!Look(u) PROVE CacheInv'
  BY <1>4, <1>5, <1>10 DEF Cache!Look, Cache!At
<1>11. ASSUME NEW u \in Users, Cache!ReadMetadata(u) PROVE CacheInv'
  <2>1. user' = [user EXCEPT ![u] = [user[u] EXCEPT !.seen = metadata[user[u].key], !.step = "compare"]]
    BY <1>11 DEF Cache!ReadMetadata, Cache!KeyOf, CacheInv
  <2>2. Sound([user[u] EXCEPT !.seen = metadata[user[u].key], !.step = "compare"], offered)
    BY <1>11 DEF Cache!ReadMetadata, Cache!At, CacheInv, Sound, UserRecord
  <2> QED BY <1>3, <1>11, <2>1, <2>2 DEF Cache!ReadMetadata
<1>12. ASSUME NEW u \in Users, Cache!ReadPayload(u) PROVE CacheInv'
  <2> DEFINE hit == [payload |-> object[user[u].key], lifecycle |-> user[u].seen.lifecycle]
  <2>1. CASE Cache!Raises(u)
    BY <1>4, <1>12, <2>1 DEF Cache!ReadPayload
  <2>2. CASE Cache!Matches(u) /\ Cache!Answers(u, hit)
    <3>1. /\ user[u].key \in Keys /\ user[u].seen \in Anything
          /\ Given(user[u].key, user[u].seen, offered)
      BY <1>12 DEF CacheInv, Sound, UserRecord, Cache!ReadPayload, Cache!At
    <3>2. user[u].seen = [payload |-> user[u].seen.payload, lifecycle |-> user[u].seen.lifecycle]
      BY <3>1, EntriesAssumption DEF Anything, Cache!NoFile
    <3>3. hit = user[u].seen
      BY <2>2, <3>2 DEF Cache!Matches, Cache!KeyOf
    <3>4. Sound([Cache!AtRest EXCEPT !.answer = hit, !.key = user[u].key], offered)
      BY <3>1, <3>3, RestIsSound
    <3> QED BY <1>3, <1>12, <2>2, <3>4 DEF Cache!ReadPayload, Cache!Answers, Cache!KeyOf
  <2> QED BY <1>12, <2>1, <2>2 DEF Cache!ReadPayload, Cache!KeyOf
<1> QED BY <1>1, <1>2, <1>6, <1>7, <1>8, <1>9, <1>10, <1>11, <1>12 DEF Cache!CacheNext

(* However the files of an entry were written over and half replaced, a    *)
(* hit is the payload and the metadata of one put under that key.          *)
THEOREM CacheHitIsOnePut == StoresSpec => []Cache!HitIsOnePut
<1>1. StoresInit => CacheInv
  BY CacheInitially DEF StoresInit
<1>2. [StoresNext]_storeVars => [Cache!CacheNext]_cacheVars
  BY DEF StoresNext, storeVars
<1>3. CacheInv => Cache!HitIsOnePut
  BY DEF CacheInv, Sound, Given, Cache!HitIsOnePut
<1> QED BY <1>1, <1>2, <1>3, CacheStep, PTL DEF StoresSpec

-----------------------------------------------------------------------------
(* The intake of recordings.                                               *)

Chain(S, n) == [1 .. n -> S]

(* A chain of checks that answers "accepted" has no row that is true: the  *)
(* first such row, if there were one, would be the answer.                 *)
LEMMA NoRowHolds ==
  ASSUME NEW S, \A x \in S : x[2] # Intake!Fine,
         NEW n \in Nat, NEW rows \in Chain(S, n),
         Intake!FirstFault(rows) = Intake!Fine
  PROVE  \A i \in 1 .. n : ~rows[i][1]
<1> DEFINE T == {i \in 1 .. n : rows[i][1]}
<1>1. SUFFICES ASSUME T # {} PROVE FALSE
  OBVIOUS
<1>2. T \subseteq Nat /\ DOMAIN rows = 1 .. n
  BY DEF Chain
<1>3. \E i \in T : \A j \in T : ~(j < i)
  <2> DEFINE R == OpToRel(<, Nat)
  <2>1. IsWellFoundedOn(R, Nat)
    BY NatLessThanWellFounded
  <2>2. \A i, j \in Nat : j < i => <<j, i>> \in R
    BY DEF OpToRel
  <2> HIDE DEF R, T
  <2>3. \E i \in T : \A j \in T : ~(<<j, i>> \in R)
    BY <1>1, <1>2, <2>1, WFMin
  <2> QED BY <1>2, <2>2, <2>3
<1>4. \E i \in DOMAIN rows : rows[i][1] /\ \A j \in 1 .. i - 1 : ~rows[j][1]
  BY <1>2, <1>3
<1>5. PICK k \in DOMAIN rows : Intake!FirstFault(rows) = rows[k][2]
  BY <1>4 DEF Intake!FirstFault
<1> QED BY <1>2, <1>5 DEF Chain

(* One chain of checks after another.                                      *)
Then(s, t) == s \o t

LEMMA ChainOfTwo ==
  ASSUME NEW S, NEW m \in Nat, NEW n \in Nat, NEW s \in Chain(S, m), NEW t \in Chain(S, n)
  PROVE  /\ Then(s, t) \in Chain(S, m + n)
         /\ \A i \in 1 .. m : Then(s, t)[i] = s[i]
         /\ \A i \in 1 .. n : Then(s, t)[m + i] = t[i]
<1>1. s \in Seq(S) /\ t \in Seq(S)
  BY SeqDef DEF Chain
<1>2. Len(s) = m /\ Len(t) = n
  BY <1>1, LenProperties DEF Chain
<1>3. Then(s, t) \in Seq(S) /\ Len(Then(s, t)) = m + n
  BY <1>1, <1>2, ConcatProperties DEF Then
<1>4. Then(s, t) \in Chain(S, m + n)
  BY <1>3, LenProperties DEF Chain
<1>5. \A i \in 1 .. m + n : Then(s, t)[i] = IF i <= m THEN s[i] ELSE t[i - m]
  BY <1>1, <1>2, ConcatProperties DEF Then
<1>6. ASSUME NEW i \in 1 .. n PROVE Then(s, t)[m + i] = t[i]
  <2>1. m + i \in 1 .. m + n /\ ~(m + i <= m) /\ (m + i) - m = i
    OBVIOUS
  <2> QED BY <1>5, <2>1
<1>7. ASSUME NEW i \in 1 .. m PROVE Then(s, t)[i] = s[i]
  <2>1. i \in 1 .. m + n /\ i <= m
    OBVIOUS
  <2> QED BY <1>5, <2>1
<1> QED BY <1>4, <1>6, <1>7

Objects == [object : Nat, wave : Waves]
Openings == [object : Nat, wave : Waves, contained : BOOLEAN]

(* What an artifact of a recording w, declared as d, has to say.           *)
Fits(d, w) ==
  /\ d.hash = w
  /\ w.length = 44 + Intake!Frames(w) * w.channels * 2
  /\ Intake!Frames(w) > 0
  /\ <<w.rate, w.channels, Intake!Frames(w)>> = <<d.rate, d.channels, d.frames>>

Described(a, d) ==
  /\ a.revision = Binding
  /\ d.hash = a.bytes
  /\ a.bytes.length = 44 + a.frames * a.channels * 2
  /\ a.frames > 0
  /\ <<a.rate, a.channels, a.frames>> = <<d.rate, d.channels, d.frames>>

(* What a clerk has established by the step it has reached.                *)
Fields == {"step", "declared", "opened", "taken", "again", "answer"}

(* An artifact's bytes are those of both reads of one object.              *)
TwiceFound(r) ==
  /\ r.opened.contained /\ r.again.contained
  /\ r.again.object = r.opened.object
  /\ r.taken = r.answer.artifact.bytes /\ r.again.wave = r.answer.artifact.bytes

Established(r) ==
  /\ r = [f \in Fields |-> r[f]]
  /\ r.step # "idle" =>
       r.declared \in Declarations /\ r.declared.revision = Binding /\ r.answer = Intake!None
  /\ r.step \in {"take", "again", "judge"} => r.opened \in Openings
  /\ r.step \in {"again", "judge"} => r.taken \in Waves
  /\ r.answer # Intake!None /\ r.answer.artifact # Intake!None =>
       Described(r.answer.artifact, r.declared) /\ TwiceFound(r)

IntakeInv ==
  /\ recording # Intake!None => recording \in Objects
  /\ rewrites \in Nat
  /\ clerk = [c \in Clerks |-> clerk[c]]
  /\ \A c \in Clerks : Established(clerk[c])

LEMMA IntakeInitially == Intake!IntakeInit => IntakeInv
BY DEF Intake!IntakeInit, Intake!Waiting, IntakeInv, Established, Fields

(* The revision is among the questions a declaration is asked.             *)
LEMMA DeclaredForTheRevision ==
  ASSUME NEW d, Intake!FirstFault(Intake!DeclarationRows(d)) = Intake!Fine
  PROVE  d.revision = Binding
<1> DEFINE c == d.revision # Binding
           a == Intake!PartRows(d.wrong, Intake!InputParts)
           b == << <<c, "REVISION_MISMATCH">> >>
           e == Intake!PartRows(d.path, Intake!PathParts)
           S == {a[i] : i \in 1 .. 10} \cup {b[1]} \cup {e[i] : i \in 1 .. 14}
<1>1. DOMAIN Intake!InputParts = 1 .. 10 /\ \A i \in 1 .. 10 : Intake!InputParts[i][2] # Intake!Fine
  BY DEF Intake!InputParts, Intake!Fine
<1>2. DOMAIN Intake!PathParts = 1 .. 14 /\ \A i \in 1 .. 14 : Intake!PathParts[i][2] # Intake!Fine
  BY DEF Intake!PathParts, Intake!Fine
<1>3. Intake!DeclarationRows(d) = Then(Then(a, b), e)
  BY DEF Intake!DeclarationRows, Then
<1>4. a = [i \in 1 .. 10 |-> a[i]] /\ \A i \in 1 .. 10 : a[i][2] # Intake!Fine
  BY <1>1 DEF Intake!PartRows
<1>5. e = [i \in 1 .. 14 |-> e[i]] /\ \A i \in 1 .. 14 : e[i][2] # Intake!Fine
  BY <1>2 DEF Intake!PartRows
<1> HIDE DEF a, c, e
<1>6. b = [i \in 1 .. 1 |-> b[i]] /\ b[1][2] # Intake!Fine /\ (~b[1][1] => ~c)
  BY DEF Intake!Fine
<1> HIDE DEF b
<1>7. /\ a \in Chain(S, 10) /\ b \in Chain(S, 1) /\ e \in Chain(S, 14)
      /\ \A x \in S : x[2] # Intake!Fine
  BY <1>4, <1>5, <1>6 DEF Chain
<1> HIDE DEF S
<1>8. Then(a, b) \in Chain(S, 11) /\ Then(a, b)[11] = b[1]
  <2>1. /\ Then(a, b) \in Chain(S, 10 + 1)
        /\ \A i \in 1 .. 1 : Then(a, b)[10 + i] = b[i]
    BY <1>7, ChainOfTwo
  <2> QED BY <2>1
<1>9. Then(Then(a, b), e) \in Chain(S, 25) /\ Then(Then(a, b), e)[11] = b[1]
  <2>1. Then(Then(a, b), e) \in Chain(S, 11 + 14)
    BY <1>7, <1>8, ChainOfTwo
  <2>2. \A i \in 1 .. 11 : Then(Then(a, b), e)[i] = Then(a, b)[i]
    <3> DEFINE ab == Then(a, b)
    <3>1. ab \in Chain(S, 11)
      BY <1>8
    <3> HIDE DEF ab
    <3>2. 11 \in Nat /\ 14 \in Nat /\ e \in Chain(S, 14)
      BY <1>7
    <3>3. \A i \in 1 .. 11 : Then(ab, e)[i] = ab[i]
      BY <3>1, <3>2, ChainOfTwo
    <3> QED BY <3>3 DEF ab
  <2> QED BY <1>8, <2>1, <2>2
<1>10. ~Then(Then(a, b), e)[11][1]
  <2>1. \A i \in 1 .. 25 : ~Then(Then(a, b), e)[i][1]
    BY <1>3, <1>7, <1>9, NoRowHolds
  <2> QED BY <2>1
<1> QED BY <1>6, <1>9, <1>10 DEF c

(* Bytes that pass every question of the decoder are a header and that     *)
(* many whole frames.                                                      *)
LEMMA SnapshotIsWhole ==
  ASSUME NEW d, NEW w, Intake!FirstFault(Intake!SnapshotRows(d, w)) = Intake!Fine
  PROVE  /\ d.hash = w
         /\ w.length = 44 + w.dataLength
         /\ w.align # 0 /\ w.dataLength % w.align = 0
         /\ w.channels \in {1, 2} /\ w.align = w.channels * 2
<1> DEFINE a1 == w.length > 44 + MaxDataBytes
           a2 == w.length = 0
           a3 == d.hash # w
           b1 == w.length < 44
           b2 == ~w.riff \/ w.riffSize # w.length - 8
           b3 == ~w.format \/ ~w.data
           b4 == w.dataLength > MaxDataBytes
           b5 == w.length # 44 + w.dataLength
           b6 == w.align = 0 \/ (w.align # 0 /\ w.dataLength % w.align # 0)
           b7 == \/ w.tag # 1 \/ w.channels \notin {1, 2} \/ w.rate \notin Intake!SampleRates
                 \/ w.bits # 16 \/ w.align # w.channels * 2 \/ w.byteRate # w.rate * w.align
           a == << <<a1, "SIZE_OUT_OF_BOUNDS">>, <<a2, "EMPTY">>, <<a3, "HASH_MISMATCH">> >>
           b == << <<b1, "DECODE_FAILED">>, <<b2, "DECODE_FAILED">>, <<b3, "DECODE_FAILED">>,
                   <<b4, "SIZE_OUT_OF_BOUNDS">>, <<b5, "DECODE_FAILED">>, <<b6, "DECODE_FAILED">>,
                   <<b7, "FORMAT_UNSUPPORTED">> >>
           S == {a[i] : i \in 1 .. 3} \cup {b[i] : i \in 1 .. 7}
<1>1. Intake!SnapshotRows(d, w) = Then(a, b)
  BY DEF Intake!SnapshotRows, Intake!WaveRows, Then
<1> HIDE DEF a1, a2, a3, b1, b2, b3, b4, b5, b6, b7
<1>2. a = [i \in 1 .. 3 |-> a[i]] /\ (~a[3][1] => ~a3) /\ \A i \in 1 .. 3 : a[i][2] # Intake!Fine
  BY DEF Intake!Fine
<1>3. /\ b = [i \in 1 .. 7 |-> b[i]] /\ \A i \in 1 .. 7 : b[i][2] # Intake!Fine
      /\ (~b[5][1] => ~b5) /\ (~b[6][1] => ~b6) /\ (~b[7][1] => ~b7)
  BY DEF Intake!Fine
<1> HIDE DEF a, b
<1>4. a \in Chain(S, 3) /\ b \in Chain(S, 7) /\ \A x \in S : x[2] # Intake!Fine
  BY <1>2, <1>3 DEF Chain
<1> HIDE DEF S
<1>5. /\ Then(a, b) \in Chain(S, 10)
      /\ Then(a, b)[3] = a[3]
      /\ Then(a, b)[8] = b[5] /\ Then(a, b)[9] = b[6] /\ Then(a, b)[10] = b[7]
  <2>1. Then(a, b) \in Chain(S, 3 + 7)
    BY <1>4, ChainOfTwo
  <2>3. \A i \in 1 .. 3 : Then(a, b)[i] = a[i]
    BY <1>4, ChainOfTwo
  <2>4. \A i \in 1 .. 7 : Then(a, b)[3 + i] = b[i]
    BY <1>4, ChainOfTwo
  <2>2. Then(a, b)[3 + 5] = b[5] /\ Then(a, b)[3 + 6] = b[6] /\ Then(a, b)[3 + 7] = b[7]
    BY <2>4
  <2> QED BY <2>1, <2>2, <2>3
<1>6. \A i \in 1 .. 10 : ~Then(a, b)[i][1]
  BY <1>1, <1>4, <1>5, NoRowHolds
<1>7. ~a3 /\ ~b5 /\ ~b6 /\ ~b7
  BY <1>2, <1>3, <1>5, <1>6
<1> QED BY <1>7 DEF a3, b5, b6, b7

LEMMA ContentIsDeclared ==
  ASSUME NEW d, NEW w, d.frames \in Nat, Intake!Frames(w) \in Nat,
         Intake!FirstFault(Intake!ContentRows(d, w)) = Intake!Fine
  PROVE  Intake!Frames(w) > 0 /\ d.rate = w.rate /\ d.channels = w.channels /\ d.frames = Intake!Frames(w)
<1> DEFINE c1 == Intake!Frames(w) = 0
           c2 == d.rate # w.rate \/ d.channels # w.channels \/ d.frames < Intake!Frames(w)
           c3 == d.frames > Intake!Frames(w)
           a == << <<c1, "EMPTY">> >>
           b == << <<c2, "METADATA_MISMATCH">>, <<c3, "TRUNCATED">> >>
           S == {a[1], b[1], b[2]}
<1>1. Intake!ContentRows(d, w) = Then(a, b)
  BY DEF Intake!ContentRows, Intake!MetadataRows, Then
<1> HIDE DEF c1, c2, c3
<1>2. a = [i \in 1 .. 1 |-> a[i]] /\ a[1][2] # Intake!Fine /\ (~a[1][1] => ~c1)
  BY DEF Intake!Fine
<1>3. /\ b = [i \in 1 .. 2 |-> b[i]] /\ b[1][2] # Intake!Fine /\ b[2][2] # Intake!Fine
      /\ (~b[1][1] => ~c2) /\ (~b[2][1] => ~c3)
  BY DEF Intake!Fine
<1> HIDE DEF a, b
<1>4. a \in Chain(S, 1) /\ b \in Chain(S, 2) /\ \A x \in S : x[2] # Intake!Fine
  BY <1>2, <1>3 DEF Chain
<1> HIDE DEF S
<1>5. Then(a, b) \in Chain(S, 3) /\ Then(a, b)[1] = a[1] /\ Then(a, b)[2] = b[1] /\ Then(a, b)[3] = b[2]
  <2>1. /\ Then(a, b) \in Chain(S, 1 + 2)
        /\ \A i \in 1 .. 1 : Then(a, b)[i] = a[i]
        /\ \A i \in 1 .. 2 : Then(a, b)[1 + i] = b[i]
    BY <1>4, ChainOfTwo
  <2>2. Then(a, b)[1 + 1] = b[1] /\ Then(a, b)[1 + 2] = b[2]
    BY <2>1
  <2> QED BY <2>1, <2>2
<1>6. \A i \in 1 .. 3 : ~Then(a, b)[i][1]
  BY <1>1, <1>4, <1>5, NoRowHolds
<1>7. ~c1 /\ ~c2 /\ ~c3
  BY <1>2, <1>3, <1>5, <1>6
<1> QED BY <1>7 DEF c1, c2, c3

LEMMA DecodedFits ==
  ASSUME NEW d \in Declarations, NEW w \in Waves,
         Intake!FirstFault(Intake!SnapshotRows(d, w)) = Intake!Fine,
         Intake!FirstFault(Intake!ContentRows(d, w)) = Intake!Fine
  PROVE  Fits(d, w)
<1>1. /\ d.hash = w
      /\ w.length = 44 + w.dataLength
      /\ w.align # 0 /\ w.dataLength % w.align = 0
      /\ w.channels \in {1, 2} /\ w.align = w.channels * 2
  BY SnapshotIsWhole
<1>2. w.dataLength \in Nat /\ d.frames \in Nat
  BY RecordingsAssumption
<1>3. Intake!Frames(w) \in Nat /\ w.dataLength = Intake!Frames(w) * w.channels * 2
  <2>1. CASE w.channels = 1
    BY <1>1, <1>2, <2>1 DEF Intake!Frames
  <2>2. CASE w.channels = 2
    BY <1>1, <1>2, <2>2 DEF Intake!Frames
  <2> QED BY <1>1, <2>1, <2>2
<1>4. Intake!Frames(w) > 0 /\ d.rate = w.rate /\ d.channels = w.channels /\ d.frames = Intake!Frames(w)
  BY <1>2, <1>3, ContentIsDeclared
<1> QED BY <1>1, <1>3, <1>4 DEF Fits

(* What the two pieces of evidence say once they are accepted.             *)
LEMMA FoundAgain ==
  ASSUME NEW k, Intake!FirstFault(Intake!EvidenceRows(k)) = Intake!Fine
  PROVE  k.again.contained /\ k.again.object = k.opened.object /\ k.again.wave = k.taken
<1> DEFINE c1 == ~k.again.complete
           c2 == ~k.again.contained
           c3 == \/ k.again.object # k.opened.object \/ k.again.wave.length # k.opened.wave.length
                 \/ k.again.wave # k.taken
           a == << <<c1, "READ_FAILED">>, <<c2, "CONTAINMENT_FAILED">>, <<c3, "IDENTITY_CHANGED">> >>
           S == {a[i] : i \in 1 .. 3}
<1>1. Intake!FirstFault(a) = Intake!Fine
  BY DEF Intake!EvidenceRows
<1> HIDE DEF c1, c2, c3
<1>2. /\ a = [i \in 1 .. 3 |-> a[i]] /\ (~a[2][1] => ~c2) /\ (~a[3][1] => ~c3)
      /\ \A i \in 1 .. 3 : a[i][2] # Intake!Fine
  BY DEF Intake!Fine
<1> HIDE DEF a
<1>3. a \in Chain(S, 3) /\ \A x \in S : x[2] # Intake!Fine
  BY <1>2 DEF Chain
<1> HIDE DEF S
<1>4. \A i \in 1 .. 3 : ~a[i][1]
  BY <1>1, <1>3, NoRowHolds
<1>5. ~c2 /\ ~c3
  BY <1>2, <1>4
<1> QED BY <1>5 DEF c2, c3

LEMMA OpenedInside ==
  ASSUME NEW k, Intake!FirstFault(Intake!OpenEvidence(k)) = Intake!Fine
  PROVE  k.opened.contained
<1> DEFINE c1 == ~k.opened.contained
           c2 == k.opened.wave.length # k.taken.length
           a == << <<c1, "CONTAINMENT_FAILED">>, <<c2, "READ_FAILED">> >>
           S == {a[i] : i \in 1 .. 2}
<1>1. Intake!FirstFault(a) = Intake!Fine
  BY DEF Intake!OpenEvidence
<1> HIDE DEF c1, c2
<1>2. a = [i \in 1 .. 2 |-> a[i]] /\ (~a[1][1] => ~c1) /\ \A i \in 1 .. 2 : a[i][2] # Intake!Fine
  BY DEF Intake!Fine
<1> HIDE DEF a
<1>3. a \in Chain(S, 2) /\ \A x \in S : x[2] # Intake!Fine
  BY <1>2 DEF Chain
<1> HIDE DEF S
<1>4. ~c1
  BY <1>1, <1>2, <1>3, NoRowHolds
<1> QED BY <1>4 DEF c1

LEMMA IntakeStep == IntakeInv /\ [Intake!IntakeNext]_intakeVars => IntakeInv'
<1> SUFFICES ASSUME IntakeInv, [Intake!IntakeNext]_intakeVars PROVE IntakeInv'
  OBVIOUS
<1>1. CASE UNCHANGED intakeVars
  BY <1>1 DEF intakeVars, IntakeInv
<1>2. ASSUME NEW c \in Clerks, NEW r, clerk' = [clerk EXCEPT ![c] = r], Established(r),
             UNCHANGED <<recording, rewrites>>
      PROVE  IntakeInv'
  <2>1. \A b \in Clerks : clerk'[b] = IF b = c THEN r ELSE clerk[b]
    BY <1>2 DEF IntakeInv
  <2>2. clerk' = [b \in Clerks |-> clerk'[b]]
    BY <1>2 DEF IntakeInv
  <2> QED BY <1>2, <2>1, <2>2 DEF IntakeInv
<1>3. \A c \in Clerks : Established(clerk[c]) /\ clerk[c] = [f \in Fields |-> clerk[c][f]]
  BY DEF IntakeInv, Established
<1>4. ASSUME NEW reason PROVE Established(Intake!Refusal(reason))
  <2> DEFINE a == [verdict |-> reason, artifact |-> Intake!None]
  <2>1. a.artifact = Intake!None
    OBVIOUS
  <2> HIDE DEF a
  <2>2. Established([Intake!Waiting EXCEPT !.answer = a])
    BY <2>1 DEF Established, Fields, Intake!Waiting
  <2> QED BY <2>2 DEF a, Intake!Refusal
<1>5. ASSUME NEW c \in Clerks, NEW v, Intake!Refuses(c, v), UNCHANGED <<recording, rewrites>>
      PROVE  IntakeInv'
  <2>1. clerk' = [clerk EXCEPT ![c] = Intake!Refusal(v)]
    BY <1>5 DEF Intake!Refuses
  <2> QED BY <1>2, <1>4, <1>5, <2>1
<1>6. ASSUME NEW c \in Clerks, Intake!Declare(c) PROVE IntakeInv'
  <2>1. PICK d \in Declarations :
          clerk' = [clerk EXCEPT ![c] =
            IF Intake!FirstFault(Intake!DeclarationRows(d)) = Intake!Fine
            THEN [Intake!Waiting EXCEPT !.step = "open", !.declared = d]
            ELSE Intake!Refusal(Intake!FirstFault(Intake!DeclarationRows(d)))]
    BY <1>6 DEF Intake!Declare
  <2>2. UNCHANGED <<recording, rewrites>>
    BY <1>6 DEF Intake!Declare
  <2>3. CASE Intake!FirstFault(Intake!DeclarationRows(d)) = Intake!Fine
    <3> DEFINE r == [Intake!Waiting EXCEPT !.step = "open", !.declared = d]
    <3>1. /\ r = [f \in Fields |-> r[f]]
          /\ r.step = "open" /\ r.declared = d /\ r.answer = Intake!None
      BY DEF Intake!Waiting, Fields
    <3>2. clerk' = [clerk EXCEPT ![c] = r]
      BY <2>1, <2>3
    <3> HIDE DEF r
    <3>3. Established(r)
      BY <2>3, <3>1, DeclaredForTheRevision DEF Established
    <3> QED BY <1>2, <2>2, <3>2, <3>3
  <2>4. CASE Intake!FirstFault(Intake!DeclarationRows(d)) # Intake!Fine
    <3> DEFINE v == Intake!FirstFault(Intake!DeclarationRows(d))
    <3>1. clerk' = [clerk EXCEPT ![c] = Intake!Refusal(v)]
      BY <2>1, <2>4
    <3> HIDE DEF v
    <3> QED BY <1>2, <1>4, <2>2, <3>1
  <2> QED BY <2>3, <2>4
<1>7. ASSUME NEW c \in Clerks, Intake!OpenSnapshot(c) PROVE IntakeInv'
  <2>1. UNCHANGED <<recording, rewrites>> /\ clerk[c].step = "open"
    BY <1>7 DEF Intake!OpenSnapshot, Intake!Stands
  <2>2. CASE \E v : Intake!Refuses(c, v)
    BY <1>5, <2>1, <2>2
  <2>3. CASE /\ recording # Intake!None
             /\ \E contained \in BOOLEAN :
                  clerk' = [clerk EXCEPT ![c].step = "take", ![c].opened =
                      [object |-> recording.object, wave |-> recording.wave, contained |-> contained]]
    <3>1. PICK contained \in BOOLEAN :
            clerk' = [clerk EXCEPT ![c].step = "take", ![c].opened =
                [object |-> recording.object, wave |-> recording.wave, contained |-> contained]]
      BY <2>3
    <3> DEFINE o == [object |-> recording.object, wave |-> recording.wave, contained |-> contained]
               r == [clerk[c] EXCEPT !.step = "take", !.opened = o]
    <3>2. o \in Openings
      BY <2>3 DEF IntakeInv, Objects, Openings
    <3>3. clerk' = [clerk EXCEPT ![c] = r]
      BY <3>1 DEF IntakeInv
    <3> HIDE DEF o
    <3>4. /\ r = [f \in Fields |-> r[f]]
          /\ r.step = "take" /\ r.opened = o
          /\ r.declared = clerk[c].declared /\ r.answer = clerk[c].answer
      BY <1>3 DEF Fields
    <3> HIDE DEF r
    <3>5. clerk[c].answer = Intake!None
      BY <1>3, <2>1 DEF Established
    <3>6. Established(r)
      BY <1>3, <2>1, <3>2, <3>4, <3>5 DEF Established
    <3> QED BY <1>2, <2>1, <3>3, <3>6
  <2> QED BY <1>7, <2>2, <2>3 DEF Intake!OpenSnapshot
<1>8. ASSUME NEW c \in Clerks, clerk[c].step \in {"take", "again", "judge"} PROVE Intake!InHand(c) \in Waves
  <2>1. clerk[c].opened.wave \in Waves
    BY <1>3, <1>8 DEF Established, Openings
  <2>2. recording # Intake!None => recording.wave \in Waves
    BY DEF IntakeInv, Objects
  <2> QED BY <2>1, <2>2 DEF Intake!InHand
<1>9. ASSUME NEW c \in Clerks, Intake!TakeBytes(c) PROVE IntakeInv'
  <2> DEFINE w == Intake!InHand(c)
             r == [clerk[c] EXCEPT !.step = "again", !.taken = w]
  <2>1. UNCHANGED <<recording, rewrites>> /\ clerk[c].step = "take"
    BY <1>9 DEF Intake!TakeBytes, Intake!Stands
  <2>2. w \in Waves
    BY <1>8, <2>1
  <2>3. clerk' = [clerk EXCEPT ![c] = r]
    BY <1>9 DEF Intake!TakeBytes, IntakeInv
  <2> HIDE DEF w
  <2>4. /\ r = [f \in Fields |-> r[f]]
        /\ r.step = "again" /\ r.taken = w /\ r.opened = clerk[c].opened
        /\ r.declared = clerk[c].declared /\ r.answer = clerk[c].answer
    BY <1>3 DEF Fields
  <2> HIDE DEF r
  <2>5. Established(r)
    BY <1>3, <2>1, <2>2, <2>4 DEF Established
  <2> QED BY <1>2, <2>1, <2>3, <2>5
<1>10. ASSUME NEW c \in Clerks, Intake!ReadAgain(c) PROVE IntakeInv'
  <2>1. UNCHANGED <<recording, rewrites>> /\ clerk[c].step = "again"
    BY <1>10 DEF Intake!ReadAgain, Intake!Stands
  <2>2. PICK e : clerk' = [clerk EXCEPT ![c].step = "judge", ![c].again = e]
    BY <1>10 DEF Intake!ReadAgain
  <2> DEFINE r == [clerk[c] EXCEPT !.step = "judge", !.again = e]
  <2>3. clerk' = [clerk EXCEPT ![c] = r]
    BY <2>2 DEF IntakeInv
  <2>4. /\ r = [f \in Fields |-> r[f]]
        /\ r.step = "judge" /\ r.taken = clerk[c].taken /\ r.opened = clerk[c].opened
        /\ r.declared = clerk[c].declared /\ r.answer = clerk[c].answer
    BY <1>3 DEF Fields
  <2> HIDE DEF r
  <2>5. Established(r)
    BY <1>3, <2>1, <2>4 DEF Established
  <2> QED BY <1>2, <2>1, <2>3, <2>5
<1>11. ASSUME NEW c \in Clerks, Intake!Judge(c) PROVE IntakeInv'
  <2> DEFINE k == clerk[c]
             d == clerk[c].declared
             w == clerk[c].taken
  <2>1. UNCHANGED <<recording, rewrites>> /\ clerk[c].step = "judge"
    BY <1>11 DEF Intake!Judge, Intake!Stands
  <2>2. CASE \E v : Intake!Refuses(c, v)
    BY <1>5, <2>1, <2>2
  <2>3. CASE /\ Intake!SnapshotFault(k) = Intake!Fine
             /\ Intake!FirstFault(Intake!EvidenceRows(k)) = Intake!Fine
             /\ Intake!Admits(c)
    <3>1. d \in Declarations /\ d.revision = Binding /\ w \in Waves /\ k.opened \in Openings
      BY <1>3, <2>1 DEF Established
    <3>2. /\ Intake!FirstFault(Intake!OpenEvidence(k)) = Intake!Fine
          /\ Intake!FirstFault(Intake!SnapshotRows(d, w)) = Intake!Fine
          /\ Intake!FirstFault(Intake!ContentRows(d, w)) = Intake!Fine
      BY <2>3 DEF Intake!SnapshotFault
    <3>3. Fits(d, w) /\ k.opened.contained
      BY <3>1, <3>2, DecodedFits, OpenedInside
    <3>4. k.again.contained /\ k.again.object = k.opened.object /\ k.again.wave = w
      BY <2>3, FoundAgain
    <3> DEFINE a == [verdict |-> Intake!Fine, artifact |-> Intake!Artifact(c)]
               r == [clerk[c] EXCEPT !.step = "idle", !.answer = a]
    <3>5. Described(Intake!Artifact(c), d) /\ Intake!Artifact(c).bytes = w
      BY <3>1, <3>3 DEF Described, Fits, Intake!Artifact
    <3>6. a.artifact = Intake!Artifact(c)
      OBVIOUS
    <3>7. clerk' = [clerk EXCEPT ![c] = r]
      BY <2>3 DEF Intake!Admits, IntakeInv
    <3> HIDE DEF a
    <3>8. /\ r = [f \in Fields |-> r[f]]
          /\ r.step = "idle" /\ r.taken = w /\ r.opened = k.opened /\ r.again = k.again
          /\ r.declared = d /\ r.answer = a
      BY <1>3 DEF Fields
    <3> HIDE DEF r
    <3>9. Established(r)
      BY <3>3, <3>4, <3>5, <3>6, <3>8 DEF Established, TwiceFound
    <3> QED BY <1>2, <2>1, <3>7, <3>9
  <2> QED BY <1>11, <2>2, <2>3 DEF Intake!Judge
<1>12. CASE Intake!Rewrite
  <2>1. rewrites' \in Nat /\ UNCHANGED clerk
    BY <1>12 DEF Intake!Rewrite, IntakeInv
  <2>2. recording' # Intake!None => recording' \in Objects
    BY <1>12, <2>1 DEF Intake!Rewrite, IntakeInv, Objects
  <2> QED BY <2>1, <2>2 DEF IntakeInv
<1> QED BY <1>1, <1>6, <1>7, <1>9, <1>10, <1>11, <1>12 DEF Intake!IntakeNext

(* Every artifact is for the revision it was declared for, says of its     *)
(* bytes what they are, and has bytes that were found twice in one file.   *)
THEOREM RecordingsDescribeTheirBytes == StoresSpec => []RecordingsAreSound
<1>1. StoresInit => IntakeInv
  BY IntakeInitially DEF StoresInit
<1>2. [StoresNext]_storeVars => [Intake!IntakeNext]_intakeVars
  BY DEF StoresNext, storeVars
<1>3. IntakeInv => Intake!ArtifactsAreSound /\ Intake!BytesWereFoundTwice
  BY DEF IntakeInv, Established, Described, TwiceFound, Intake!ArtifactsAreSound, Intake!BytesWereFoundTwice
<1>4. IntakeInv => RecordingsAreSound
  BY <1>3 DEF RecordingsAreSound, Intake!RecordingsAreSound
<1> QED BY <1>1, <1>2, <1>4, IntakeStep, PTL DEF StoresSpec

-----------------------------------------------------------------------------
(* The payloads under the soft quota.                                      *)

CleanSteps == {"idle", "retire", "unretire", "restore", "unrestore"}
Ready == Retention!ReadyPayloads(held.inventory)

(* What has been carried is what the plan names, in a sequence.            *)
Goers == {Retention!Going[n] : n \in Nat}

CleanerTypes ==
  /\ cleaner \in [Cleaners -> [step : CleanSteps, moved : Seq(Goers)]]
  /\ ledger \in Seq({"retired", "restored"})
  /\ \A c \in Cleaners : cleaner[c].step = "idle" => cleaner[c].moved = << >>
  /\ held.inventory = Retention!Nothing =>
       ledger = << >> /\ \A c \in Cleaners : cleaner[c].step = "idle"
  /\ \A c \in Cleaners : cleaner[c].step \in {"restore", "unrestore"} =>
       "retired" \in Retention!Range(ledger)

Carried(id) ==
  \E c \in Cleaners :
    cleaner[c].step \in {"retire", "unretire"} /\ id \in Retention!Range(cleaner[c].moved)

(* As long as no transaction is on record, what is in the trash is there   *)
(* by the hand of a cleaner that is still at work.                         *)
InHand ==
  ~left /\ "retired" \notin Retention!Range(ledger) =>
    \A p \in Ready : Retention!Lies("trash", p.id) => Carried(p.id)

OnePlace == \A p \in Ready : Retention!Lies("object", p.id) # Retention!Lies("trash", p.id)

RetentionInv == CleanerTypes /\ OnePlace /\ InHand

LEMMA RetentionInitially == Retention!RetentionInit => RetentionInv
<1> SUFFICES ASSUME Retention!RetentionInit PROVE RetentionInv
  OBVIOUS
<1>1. << >> \in Seq(Goers) /\ << >> \in Seq({"retired", "restored"})
  OBVIOUS
<1>2. Ready = {}
  BY DEF Ready, Retention!RetentionInit, Retention!ReadyPayloads, Retention!Nothing
<1>3. CleanerTypes
  BY <1>1 DEF CleanerTypes, Retention!RetentionInit, Retention!Relaxed, CleanSteps
<1> QED BY <1>2, <1>3 DEF RetentionInv, OnePlace, InHand

(* A payload that is carried away is in the other place afterwards, and    *)
(* nothing else moves.                                                     *)
LEMMA CarriedOver ==
  ASSUME NEW id, NEW from, NEW to, from # to,
         Retention!Lies(from, id), Retention!Carry(id, from, to)
  PROVE  /\ Retention!Lies(to, id)' /\ ~Retention!Lies(from, id)'
         /\ \A q, place : q # id => (Retention!Lies(place, q)' <=> Retention!Lies(place, q))
BY DEF Retention!Lies, Retention!Carry

LEMMA RangeOfAppend ==
  ASSUME NEW S, NEW s \in Seq(S), NEW x \in S
  PROVE  Retention!Range(Append(s, x)) = Retention!Range(s) \cup {x}
<1>1. Append(s, x) \in Seq(S) /\ Len(Append(s, x)) = Len(s) + 1 /\ Len(s) \in Nat
  OBVIOUS
<1>2. DOMAIN Append(s, x) = 1 .. Len(s) + 1 /\ DOMAIN s = 1 .. Len(s)
  BY <1>1
<1>3. Append(s, x)[Len(s) + 1] = x /\ \A i \in 1 .. Len(s) : Append(s, x)[i] = s[i]
  OBVIOUS
<1>4. Len(s) + 1 \in 1 .. Len(s) + 1 /\ 1 .. Len(s) + 1 = (1 .. Len(s)) \cup {Len(s) + 1}
  BY <1>1
<1> QED BY <1>2, <1>3, <1>4 DEF Retention!Range

LEMMA RangeOfFront ==
  ASSUME NEW S, NEW s \in Seq(S), s # << >>
  PROVE  /\ Retention!Front(s) \in Seq(S)
         /\ Retention!Last(s) \in S
         /\ Retention!Range(s) = Retention!Range(Retention!Front(s)) \cup {Retention!Last(s)}
<1>1. Len(s) \in Nat \ {0} /\ DOMAIN s = 1 .. Len(s)
  OBVIOUS
<1>2. Retention!Front(s) = [i \in 1 .. Len(s) - 1 |-> s[i]]
  BY <1>1 DEF Retention!Front
<1>3. Retention!Front(s) \in Seq(S) /\ DOMAIN Retention!Front(s) = 1 .. Len(s) - 1
  BY <1>1, <1>2
<1> QED BY <1>1, <1>2, <1>3 DEF Retention!Range, Retention!Last

(* One cleaner's step.                                                     *)
CleanerStep(c) ==
  \/ Retention!StartPlan(c) \/ Retention!StartRestoration(c) \/ Retention!CarryNext(c)
  \/ Retention!RecordTransaction(c) \/ Retention!UndoCarry(c) \/ Retention!CleanerDies(c)

LEMMA CleanerTypesStep ==
  ASSUME RetentionInv, NEW c \in Cleaners, CleanerStep(c)
  PROVE  CleanerTypes'
<1> DEFINE Record == [step : CleanSteps, moved : Seq(Goers)]
<1>1. /\ cleaner \in [Cleaners -> Record] /\ ledger \in Seq({"retired", "restored"})
      /\ cleaner[c] \in Record /\ cleaner[c].moved \in Seq(Goers)
  BY DEF RetentionInv, CleanerTypes
<1>2. held' = held /\ Goers' = Goers
  BY DEF CleanerStep, Retention!StartPlan, Retention!StartRestoration, Retention!CarryNext,
     Retention!RecordTransaction, Retention!UndoCarry, Retention!CleanerDies, Goers, Retention!Going
<1>3. held.inventory # Retention!Nothing
  <2>1. CASE Retention!StartPlan(c)
    BY <2>1 DEF Retention!StartPlan
  <2>2. CASE Retention!StartRestoration(c)
    <3>1. ledger # << >>
      BY <2>2 DEF Retention!StartRestoration, Retention!Range
    <3> QED BY <3>1 DEF RetentionInv, CleanerTypes
  <2>3. CASE cleaner[c].step # "idle"
    BY <2>3 DEF RetentionInv, CleanerTypes
  <2> QED BY <2>1, <2>2, <2>3 DEF CleanerStep, Retention!CarryNext, Retention!RecordTransaction,
        Retention!UndoCarry, Retention!CleanerDies, Retention!In
<1>4. PICK r \in Record : cleaner' = [cleaner EXCEPT ![c] = r]
         /\ (r.step = "idle" => r.moved = << >>)
         /\ (r.step \in {"restore", "unrestore"} => "retired" \in Retention!Range(ledger))
  <2>1. CASE Retention!StartPlan(c)
    <3>1. [Retention!Relaxed EXCEPT !.step = "retire"] = [step |-> "retire", moved |-> << >>]
      BY DEF Retention!Relaxed
    <3>2. [step |-> "retire", moved |-> << >>] \in Record
      BY DEF CleanSteps
    <3> QED BY <2>1, <3>1, <3>2 DEF Retention!StartPlan, Retention!Becomes, Retention!Relaxed
  <2>2. CASE Retention!StartRestoration(c)
    <3>1. [Retention!Relaxed EXCEPT !.step = "restore"] = [step |-> "restore", moved |-> << >>]
      BY DEF Retention!Relaxed
    <3>2. [step |-> "restore", moved |-> << >>] \in Record
      BY DEF CleanSteps
    <3> QED BY <2>2, <3>1, <3>2 DEF Retention!StartRestoration, Retention!Becomes, Retention!Relaxed
  <2>3. CASE Retention!CarryNext(c)
    <3> DEFINE n == Len(cleaner[c].moved) + 1
               more == [cleaner[c] EXCEPT !.moved = Append(@, Retention!Going[n])]
               undo == [cleaner[c] EXCEPT !.step = Retention!UndoOf(c)]
    <3>1. n \in Nat /\ Retention!Going[n] \in Goers
      BY <1>1 DEF Goers
    <3>2. cleaner[c].step \in {"retire", "restore"}
      BY <2>3 DEF Retention!CarryNext
    <3>3. more \in Record /\ undo \in Record
      <4>1. Append(cleaner[c].moved, Retention!Going[n]) \in Seq(Goers)
        BY <1>1, <3>1
      <4>2. Retention!UndoOf(c) \in CleanSteps
        BY DEF CleanSteps, Retention!UndoOf
      <4> QED BY <1>1, <4>1, <4>2
    <3>4. cleaner' = [cleaner EXCEPT ![c] = more] \/ cleaner' = [cleaner EXCEPT ![c] = undo]
      BY <2>3 DEF Retention!CarryNext, Retention!Becomes
    <3>5. /\ more.step = cleaner[c].step
          /\ undo.step = IF cleaner[c].step = "retire" THEN "unretire" ELSE "unrestore"
      BY <1>1, <3>2 DEF Retention!UndoOf, Retention!In
    <3>6. cleaner[c].step = "restore" => "retired" \in Retention!Range(ledger)
      BY DEF RetentionInv, CleanerTypes
    <3> HIDE DEF more, undo, Record
    <3> QED BY <3>2, <3>3, <3>4, <3>5, <3>6
  <2>4. CASE Retention!RecordTransaction(c)
    <3> DEFINE undo == [cleaner[c] EXCEPT !.step = Retention!UndoOf(c)]
    <3>1. cleaner[c].step \in {"retire", "restore"}
      BY <2>4 DEF Retention!RecordTransaction
    <3>2. undo \in Record /\ undo.step = IF cleaner[c].step = "retire" THEN "unretire" ELSE "unrestore"
      BY <1>1, <3>1 DEF CleanSteps, Retention!UndoOf, Retention!In
    <3>3. cleaner' = [cleaner EXCEPT ![c] = Retention!Relaxed] \/ cleaner' = [cleaner EXCEPT ![c] = undo]
      BY <2>4 DEF Retention!RecordTransaction, Retention!Becomes
    <3>4. Retention!Relaxed \in Record /\ Retention!Relaxed.step = "idle" /\ Retention!Relaxed.moved = << >>
      BY DEF Retention!Relaxed, CleanSteps
    <3>5. cleaner[c].step = "restore" => "retired" \in Retention!Range(ledger)
      BY DEF RetentionInv, CleanerTypes
    <3> HIDE DEF undo, Record
    <3> QED BY <3>1, <3>2, <3>3, <3>4, <3>5
  <2>5. CASE Retention!UndoCarry(c)
    <3> DEFINE rest == [cleaner[c] EXCEPT !.moved = Retention!Front(cleaner[c].moved)]
    <3>1. Retention!Relaxed \in Record /\ Retention!Relaxed.step = "idle" /\ Retention!Relaxed.moved = << >>
      BY DEF Retention!Relaxed, CleanSteps
    <3>2. CASE cleaner[c].moved = << >>
      BY <2>5, <3>1, <3>2 DEF Retention!UndoCarry, Retention!Becomes
    <3>3. CASE cleaner[c].moved # << >>
      <4>2. Retention!Front(cleaner[c].moved) \in Seq(Goers)
        BY <1>1, <3>3, RangeOfFront
      <4>3. rest \in Record /\ rest.step = cleaner[c].step /\ cleaner[c].step # "idle"
        BY <1>1, <2>5, <4>2 DEF Retention!UndoCarry
      <4>4. cleaner' = [cleaner EXCEPT ![c] = rest]
        BY <2>5, <3>3 DEF Retention!UndoCarry, Retention!Becomes
      <4>5. cleaner[c].step = "unrestore" => "retired" \in Retention!Range(ledger)
        BY DEF RetentionInv, CleanerTypes
      <4>6. cleaner[c].step \in {"unretire", "unrestore"}
        BY <2>5 DEF Retention!UndoCarry
      <4> HIDE DEF rest, Record
      <4> QED BY <4>3, <4>4, <4>5, <4>6
    <3> QED BY <3>2, <3>3
  <2>6. CASE Retention!CleanerDies(c)
    <3>1. Retention!Relaxed \in Record /\ Retention!Relaxed.step = "idle" /\ Retention!Relaxed.moved = << >>
      BY DEF Retention!Relaxed, CleanSteps
    <3> QED BY <2>6, <3>1 DEF Retention!CleanerDies, Retention!Becomes
  <2> HIDE DEF Record
  <2> QED BY <2>1, <2>2, <2>3, <2>4, <2>5, <2>6 DEF CleanerStep
<1>5. ledger' \in Seq({"retired", "restored"})
      /\ ("retired" \in Retention!Range(ledger) => "retired" \in Retention!Range(ledger)')
  <2>1. CASE \E row \in {"retired", "restored"} : ledger' = Append(ledger, row)
    <3>1. PICK row \in {"retired", "restored"} : ledger' = Append(ledger, row)
      BY <2>1
    <3>2. Retention!Range(Append(ledger, row)) = Retention!Range(ledger) \cup {row}
      <4> DEFINE Words == {"retired", "restored"}
      <4>1. row \in Words /\ ledger \in Seq(Words)
        BY <1>1
      <4> HIDE DEF Words
      <4> QED BY <4>1, RangeOfAppend
    <3>3. Append(ledger, row) \in Seq({"retired", "restored"})
      BY <1>1
    <3> QED BY <3>1, <3>2, <3>3
  <2>2. CASE ledger' = ledger
    BY <1>1, <2>2
  <2> QED BY <2>1, <2>2 DEF CleanerStep, Retention!StartPlan, Retention!StartRestoration,
        Retention!CarryNext, Retention!RecordTransaction, Retention!UndoCarry, Retention!CleanerDies
<1>6. cleaner' \in [Cleaners -> Record]
  BY <1>1, <1>4
<1>7. \A d \in Cleaners : cleaner'[d] = IF d = c THEN r ELSE cleaner[d]
  BY <1>1, <1>4
<1> HIDE DEF Record
<1>8. \A d \in Cleaners : cleaner'[d].step = "idle" => cleaner'[d].moved = << >>
  BY <1>4, <1>7 DEF RetentionInv, CleanerTypes
<1>9. \A d \in Cleaners : cleaner'[d].step \in {"restore", "unrestore"} =>
         "retired" \in Retention!Range(ledger)'
  BY <1>4, <1>5, <1>7 DEF RetentionInv, CleanerTypes
<1>10. (held.inventory = Retention!Nothing)' = FALSE
  BY <1>2, <1>3 DEF Retention!Nothing
<1> QED BY <1>2, <1>5, <1>6, <1>8, <1>9, <1>10 DEF CleanerTypes, Record

LEMMA OnePlaceStep ==
  ASSUME RetentionInv, NEW c \in Cleaners, CleanerStep(c)
  PROVE  OnePlace'
<1>1. Ready' = Ready
  BY DEF CleanerStep, Retention!StartPlan, Retention!StartRestoration, Retention!CarryNext,
     Retention!RecordTransaction, Retention!UndoCarry, Retention!CleanerDies, Ready
<1>2. CASE UNCHANGED payloadFiles
  BY <1>1, <1>2 DEF RetentionInv, OnePlace, Retention!Lies
<1>3. CASE \E id : \E from, to \in {"object", "trash"} :
             from # to /\ Retention!Lies(from, id) /\ Retention!Carry(id, from, to)
  <2>1. PICK id : \E from, to \in {"object", "trash"} :
             from # to /\ Retention!Lies(from, id) /\ Retention!Carry(id, from, to)
    BY <1>3
  <2>2. PICK from \in {"object", "trash"} : \E to \in {"object", "trash"} :
             from # to /\ Retention!Lies(from, id) /\ Retention!Carry(id, from, to)
    BY <2>1
  <2>3. PICK to \in {"object", "trash"} :
             from # to /\ Retention!Lies(from, id) /\ Retention!Carry(id, from, to)
    BY <2>2
  <2>4. /\ Retention!Lies(to, id)' /\ ~Retention!Lies(from, id)'
        /\ \A q, place : q # id => (Retention!Lies(place, q)' <=> Retention!Lies(place, q))
    BY <2>3, CarriedOver
  <2>5. ASSUME NEW p \in Ready PROVE Retention!Lies("object", p.id)' # Retention!Lies("trash", p.id)'
    <3>1. Retention!Lies("object", p.id) # Retention!Lies("trash", p.id)
      BY DEF RetentionInv, OnePlace
    <3>2. CASE p.id = id
      BY <2>3, <2>4, <3>2, Zenon
    <3>3. CASE p.id # id
      <4>1. /\ Retention!Lies("object", p.id)' <=> Retention!Lies("object", p.id)
            /\ Retention!Lies("trash", p.id)' <=> Retention!Lies("trash", p.id)
        BY <2>4, <3>3
      <4> QED BY <3>1, <4>1 DEF Retention!Lies
    <3> QED BY <3>2, <3>3
  <2> QED BY <1>1, <2>5 DEF OnePlace
<1>4. Retention!From(c) \in {"object", "trash"} /\ Retention!To(c) \in {"object", "trash"}
      /\ Retention!From(c) # Retention!To(c)
  BY DEF Retention!From, Retention!To
<1> QED BY <1>2, <1>3, <1>4 DEF CleanerStep, Retention!StartPlan, Retention!StartRestoration,
      Retention!CarryNext, Retention!RecordTransaction, Retention!UndoCarry, Retention!CleanerDies

LEMMA InHandStep ==
  ASSUME RetentionInv, NEW c \in Cleaners, CleanerStep(c)
  PROVE  InHand'
<1> DEFINE Record == [step : CleanSteps, moved : Seq(Goers)]
<1>1. Ready' = Ready
  BY DEF CleanerStep, Retention!StartPlan, Retention!StartRestoration, Retention!CarryNext,
     Retention!RecordTransaction, Retention!UndoCarry, Retention!CleanerDies, Ready
<1> SUFFICES ASSUME ~left', "retired" \notin Retention!Range(ledger)',
                    NEW p \in Ready, Retention!Lies("trash", p.id)'
             PROVE  Carried(p.id)'
  BY <1>1 DEF InHand
<1>2. /\ cleaner \in [Cleaners -> Record] /\ ledger \in Seq({"retired", "restored"})
      /\ cleaner[c] \in Record /\ cleaner[c].moved \in Seq(Goers)
  BY DEF RetentionInv, CleanerTypes
<1>3. ~left /\ "retired" \notin Retention!Range(ledger)
  <2>1. \A row \in {"retired", "restored"} :
          Retention!Range(Append(ledger, row)) = Retention!Range(ledger) \cup {row}
    <3> DEFINE Words == {"retired", "restored"}
    <3>1. ledger \in Seq(Words)
      BY <1>2
    <3> HIDE DEF Words
    <3>2. \A row \in Words : Retention!Range(Append(ledger, row)) = Retention!Range(ledger) \cup {row}
      BY <3>1, RangeOfAppend
    <3> QED BY <3>2 DEF Words
  <2>2. ledger' = ledger \/ \E row \in {"retired", "restored"} : ledger' = Append(ledger, row)
    BY DEF CleanerStep, Retention!StartPlan, Retention!StartRestoration, Retention!CarryNext,
       Retention!RecordTransaction, Retention!UndoCarry, Retention!CleanerDies
  <2>3. left' = left
    BY DEF CleanerStep, Retention!StartPlan, Retention!StartRestoration, Retention!CarryNext,
       Retention!RecordTransaction, Retention!UndoCarry, Retention!CleanerDies
  <2> QED BY <2>1, <2>2, <2>3
<1>4. cleaner[c].step \notin {"restore", "unrestore"}
  BY <1>3 DEF RetentionInv, CleanerTypes
<1>5. Retention!Lies("trash", p.id) => Carried(p.id)
  BY <1>3 DEF RetentionInv, InHand
<1>6. CASE \E d \in Cleaners \ {c} :
             cleaner[d].step \in {"retire", "unretire"} /\ p.id \in Retention!Range(cleaner[d].moved)
  <2>1. \A d \in Cleaners \ {c} : cleaner'[d] = cleaner[d]
    BY <1>2 DEF CleanerStep, Retention!StartPlan, Retention!StartRestoration, Retention!CarryNext,
       Retention!RecordTransaction, Retention!UndoCarry, Retention!CleanerDies, Retention!Becomes
  <2> QED BY <1>6, <2>1 DEF Carried
<1>7. CASE ~\E d \in Cleaners \ {c} :
              cleaner[d].step \in {"retire", "unretire"} /\ p.id \in Retention!Range(cleaner[d].moved)
  <2>1. Retention!Lies("trash", p.id) =>
           cleaner[c].step \in {"retire", "unretire"} /\ p.id \in Retention!Range(cleaner[c].moved)
    BY <1>5, <1>7 DEF Carried
  <2>2. SUFFICES cleaner'[c].step \in {"retire", "unretire"} /\ p.id \in Retention!Range(cleaner'[c].moved)
    BY DEF Carried
  <2>3. CASE cleaner' = [cleaner EXCEPT ![c].step = "unretire"] /\ UNCHANGED payloadFiles
    <3>1. Retention!Lies("trash", p.id)
      BY <2>3 DEF Retention!Lies
    <3>2. cleaner'[c].step = "unretire" /\ cleaner'[c].moved = cleaner[c].moved
      BY <1>2, <2>3
    <3> QED BY <2>1, <3>1, <3>2
  <2>4. CASE Retention!CarryNext(c)
    <3> DEFINE id == Retention!Going[Len(cleaner[c].moved) + 1]
    <3>1. Retention!In(c, "retire") /\ Retention!UndoOf(c) = "unretire"
          /\ Retention!From(c) = "object" /\ Retention!To(c) = "trash"
      BY <1>4, <2>4 DEF Retention!CarryNext, Retention!In, Retention!UndoOf, Retention!From, Retention!To
    <3>2. CASE /\ Retention!Lies("object", id) /\ Retention!Carry(id, "object", "trash")
               /\ cleaner' = [cleaner EXCEPT ![c] = [cleaner[c] EXCEPT !.moved = Append(@, id)]]
      <4>1. id \in Goers
        <5>1. Len(cleaner[c].moved) + 1 \in Nat
          BY <1>2
        <5> QED BY <5>1 DEF Goers
      <4>2. Retention!Range(Append(cleaner[c].moved, id)) = Retention!Range(cleaner[c].moved) \cup {id}
        BY <1>2, <4>1, RangeOfAppend
      <4>3. cleaner'[c].step = "retire" /\ cleaner'[c].moved = Append(cleaner[c].moved, id)
        BY <1>2, <3>1, <3>2 DEF Retention!In
      <4>4. p.id # id => Retention!Lies("trash", p.id)
        BY <3>2, CarriedOver
      <4> QED BY <2>1, <4>2, <4>3, <4>4
    <3>3. CASE UNCHANGED payloadFiles /\ cleaner' = [cleaner EXCEPT ![c] = [cleaner[c] EXCEPT !.step = "unretire"]]
      BY <2>3, <3>3
    <3> QED BY <2>4, <3>1, <3>2, <3>3 DEF Retention!CarryNext, Retention!Becomes
  <2>5. CASE Retention!RecordTransaction(c)
    <3>1. Retention!In(c, "retire") /\ Retention!UndoOf(c) = "unretire"
      BY <1>4, <2>5 DEF Retention!RecordTransaction, Retention!In, Retention!UndoOf
    <3>2. ledger' # Append(ledger, "retired")
      <4> DEFINE Words == {"retired", "restored"}
      <4>1. ledger \in Seq(Words) /\ "retired" \in Words
        BY <1>2
      <4> HIDE DEF Words
      <4>2. Retention!Range(Append(ledger, "retired")) = Retention!Range(ledger) \cup {"retired"}
        BY <4>1, RangeOfAppend
      <4> QED BY <4>2
    <3> QED BY <2>3, <2>5, <3>1, <3>2 DEF Retention!RecordTransaction, Retention!Becomes
  <2>6. CASE Retention!UndoCarry(c)
    <3> DEFINE moved == cleaner[c].moved
    <3>1. cleaner[c].step = "unretire" /\ Retention!From(c) = "object" /\ Retention!To(c) = "trash"
      BY <1>4, <2>6 DEF Retention!UndoCarry, Retention!From, Retention!To
    <3>2. moved # << >>
      <4>1. SUFFICES ASSUME moved = << >> PROVE FALSE
        OBVIOUS
      <4>2. Retention!Lies("trash", p.id)
        BY <2>6, <4>1 DEF Retention!UndoCarry, Retention!Lies
      <4> QED BY <2>1, <4>1, <4>2 DEF Retention!Range
    <3>3. /\ Retention!Range(moved) = Retention!Range(Retention!Front(moved)) \cup {Retention!Last(moved)}
      BY <1>2, <3>2, RangeOfFront
    <3>4. cleaner'[c].step = "unretire" /\ cleaner'[c].moved = Retention!Front(moved)
      BY <1>2, <2>6, <3>1, <3>2 DEF Retention!UndoCarry, Retention!Becomes
    <3>5. Retention!Lies("trash", p.id) /\ p.id # Retention!Last(moved)
      <4>1. CASE /\ Retention!Lies("trash", Retention!Last(moved))
                 /\ Retention!Carry(Retention!Last(moved), "trash", "object")
        <5>1. PICK id : id = Retention!Last(moved)
          OBVIOUS
        <5>2. Retention!Lies("trash", id) /\ Retention!Carry(id, "trash", "object")
          BY <4>1, <5>1
        <5>3. ~Retention!Lies("trash", id)' /\ (p.id # id => Retention!Lies("trash", p.id))
          BY <5>2, CarriedOver
        <5> QED BY <5>1, <5>3
      <4>2. CASE /\ ~(Retention!Lies("trash", Retention!Last(moved)) /\ ~Retention!Lies("object", Retention!Last(moved)))
                 /\ UNCHANGED payloadFiles
        <5>1. Retention!Lies("trash", p.id)
          BY <4>2 DEF Retention!Lies
        <5>2. ~Retention!Lies("object", p.id)
          BY <5>1, Zenon DEF RetentionInv, OnePlace
        <5> QED BY <4>2, <5>1, <5>2
      <4> QED BY <2>6, <3>1, <3>2, <4>1, <4>2 DEF Retention!UndoCarry
    <3> QED BY <2>1, <3>1, <3>3, <3>4, <3>5
  <2>7. CASE Retention!StartPlan(c) \/ Retention!StartRestoration(c)
    <3>1. Retention!Lies("trash", p.id) /\ cleaner[c].step = "idle"
      BY <2>7 DEF Retention!StartPlan, Retention!StartRestoration, Retention!Lies, Retention!In
    <3> QED BY <2>1, <3>1
  <2>8. ~Retention!CleanerDies(c)
    BY DEF Retention!CleanerDies
  <2> QED BY <2>4, <2>5, <2>6, <2>7, <2>8 DEF CleanerStep
<1> QED BY <1>6, <1>7

LEMMA RetentionStep == RetentionInv /\ [Retention!RetentionNext]_retentionVars => RetentionInv'
<1> SUFFICES ASSUME RetentionInv, [Retention!RetentionNext]_retentionVars PROVE RetentionInv'
  OBVIOUS
<1>1. CASE \E c \in Cleaners : CleanerStep(c)
  BY <1>1, CleanerTypesStep, OnePlaceStep, InHandStep DEF RetentionInv
<1>2. CASE Retention!TakeStock
  <2>1. /\ ledger = << >> /\ ledger' = << >> /\ cleaner' = cleaner
        /\ cleaner \in [Cleaners -> [step : CleanSteps, moved : Seq(Goers)]]
        /\ \A c \in Cleaners : cleaner[c].step = "idle" /\ cleaner[c].moved = << >>
    BY <1>2 DEF RetentionInv, CleanerTypes, Retention!TakeStock
  <2>2. cleaner \in [Cleaners -> [step : CleanSteps, moved : Seq(Goers')]]
    <3>1. \A c \in Cleaners : cleaner[c].moved \in Seq(Goers')
      <4>1. << >> \in Seq(Goers')
        OBVIOUS
      <4> QED BY <2>1, <4>1
    <3> QED BY <2>1, <3>1
  <2>3. CleanerTypes'
    BY <2>1, <2>2 DEF CleanerTypes
  <2>4. \A p \in Ready' : Retention!Lies("object", p.id)' /\ ~Retention!Lies("trash", p.id)'
    BY <1>2 DEF Retention!TakeStock, Ready, Retention!Lies, Retention!ReadyPayloads
  <2>5. OnePlace' /\ InHand'
    BY <2>4, Zenon DEF OnePlace, InHand
  <2> QED BY <2>3, <2>5 DEF RetentionInv
<1>3. CASE UNCHANGED retentionVars
  BY <1>3 DEF retentionVars, RetentionInv, CleanerTypes, OnePlace, InHand, Carried, Ready, Goers,
     Retention!Going, Retention!ReadyPayloads, Retention!Lies
<1> QED BY <1>1, <1>2, <1>3 DEF Retention!RetentionNext, CleanerStep

LEMMA PayloadsAreOnRecord == StoresSpec => []Retention!PayloadsOnRecord
<1>1. StoresInit => RetentionInv
  BY RetentionInitially DEF StoresInit
<1>2. [StoresNext]_storeVars => [Retention!RetentionNext]_retentionVars
  BY DEF StoresNext, storeVars
<1>3. RetentionInv => Retention!PayloadsOnRecord
  <2> SUFFICES ASSUME RetentionInv PROVE Retention!PayloadsOnRecord
    OBVIOUS
  <2>1. \A p \in Ready : Retention!Lies("object", p.id) # Retention!Lies("trash", p.id)
    BY DEF RetentionInv, OnePlace
  <2>2. ASSUME ~left, \A c \in Cleaners : cleaner[c].step = "idle",
               NEW p \in Ready, Retention!Lies("trash", p.id)
        PROVE  "retired" \in Retention!Range(ledger)
    BY <2>2 DEF RetentionInv, InHand, Carried
  <2> QED BY <2>1, <2>2, Zenon DEF Retention!PayloadsOnRecord, Ready, Retention!In
<1> QED BY <1>1, <1>2, <1>3, RetentionStep, PTL DEF StoresSpec

-----------------------------------------------------------------------------
(* The artifact registry.                                                  *)

Numbers == DOMAIN Catalog

Distinct(X) == \A r, q \in X : Artifacts!Id(r) = Artifacts!Id(q) => r = q
Supplied(X) ==
  \A r \in X : \A d \in Artifacts!Deps(r) :
    \E q \in X : Artifacts!Id(q) = d /\ Catalog[q].project = Catalog[r].project
Straight(X) ==
  ~\E S \in (SUBSET X) \ {{}} : \A r \in S : Artifacts!Deps(r) \cap Artifacts!IdsOf(S) # {}

(* What registry_snapshot accepts.                                         *)
Coherent(X) == Distinct(X) /\ Supplied(X) /\ Straight(X)

LEMMA NumbersAreFinite == Numbers \in SUBSET Nat /\ IsFiniteSet(Numbers)
<1>1. Numbers = 1 .. Len(Catalog) /\ Len(Catalog) \in Nat
  BY CatalogAssumption DEF Numbers
<1> QED BY <1>1, FS_Interval

LEMMA SameCardinality == \A S : Artifacts!Cardinality(S) = Cardinality(S)
BY DEF Artifacts!Cardinality, Cardinality

LEMMA IdsOfRows ==
  ASSUME NEW X \in SUBSET Numbers
  PROVE  /\ IsFiniteSet(X) /\ IsFiniteSet(Artifacts!IdsOf(X))
         /\ Cardinality(X) \in Nat
         /\ Cardinality(Artifacts!IdsOf(X)) = Cardinality(X) <=> Distinct(X)
<1> DEFINE f == [r \in X |-> Artifacts!Id(r)]
<1>1. IsFiniteSet(X)
  BY NumbersAreFinite, FS_Subset
<1>2. f \in Surjection(X, Artifacts!IdsOf(X))
  BY DEF Surjection, Artifacts!IdsOf
<1>3. f \in Injection(X, Artifacts!IdsOf(X)) <=> Distinct(X)
  BY DEF Injection, IsInjective, Artifacts!IdsOf, Distinct
<1>4. /\ IsFiniteSet(Artifacts!IdsOf(X))
      /\ Cardinality(Artifacts!IdsOf(X)) = Cardinality(X) <=> f \in Injection(X, Artifacts!IdsOf(X))
  BY <1>1, <1>2, FS_Surjection
<1> QED BY <1>1, <1>3, <1>4, FS_CardinalityType

(* A part of rows that have no cycle has none.                             *)
LEMMA StraightParts ==
  ASSUME NEW X, NEW Y \in SUBSET X, Straight(X)
  PROVE  Straight(Y)
BY DEF Straight

ShelfFaults == BOOLEAN \X {"ARTIFACT_REGISTRY_DUPLICATE", "ARTIFACT_REGISTRY_DEPENDENCY_INVALID",
  "ARTIFACT_REGISTRY_CYCLE", "ARTIFACT_REGISTRY_PERSIST_INVALID", "ARTIFACT_REGISTRY_IDENTITY_CONFLICT"}

LEMMA ShelfFaultsRefuse == \A x \in ShelfFaults : x[2] # Intake!Fine
BY DEF ShelfFaults, Intake!Fine

LEMMA SameFaults == \A rows : Artifacts!FirstFault(rows) = Intake!FirstFault(rows)
BY DEF Artifacts!FirstFault, Intake!FirstFault, Artifacts!Fine, Intake!Fine

LEMMA ThreeRows ==
  ASSUME NEW S, NEW a \in S, NEW b \in S, NEW c \in S
  PROVE  /\ << a, b, c >> \in Chain(S, 3)
         /\ << a, b, c >>[1] = a /\ << a, b, c >>[2] = b /\ << a, b, c >>[3] = c
BY DEF Chain

LEMMA TwoRows ==
  ASSUME NEW S, NEW a \in S, NEW b \in S
  PROVE  << a, b >> \in Chain(S, 2)
BY DEF Chain

LEMMA SnapshotMeans ==
  ASSUME NEW X \in SUBSET Numbers
  PROVE  /\ Artifacts!SnapshotRows(X) \in Chain(ShelfFaults, 3)
         /\ Artifacts!SnapshotRows(X)[1][1] <=> ~Distinct(X)
         /\ Artifacts!SnapshotRows(X)[2][1] <=> ~Supplied(X)
         /\ Artifacts!SnapshotRows(X)[3][1] <=> ~Straight(X)
         /\ Artifacts!FirstFault(Artifacts!SnapshotRows(X)) = Artifacts!Fine <=> Coherent(X)
<1> DEFINE rows == Artifacts!SnapshotRows(X)
           twice == Cardinality(Artifacts!IdsOf(X)) # Cardinality(X)
           lacking == \E r \in X : \E d \in Artifacts!Deps(r) :
             ~\E q \in X : Artifacts!Id(q) = d /\ Catalog[q].project = Catalog[r].project
           ring == \E S \in (SUBSET X) \ {{}} : \A r \in S : Artifacts!Deps(r) \cap Artifacts!IdsOf(S) # {}
           a == <<twice, "ARTIFACT_REGISTRY_DUPLICATE">>
           b == <<lacking, "ARTIFACT_REGISTRY_DEPENDENCY_INVALID">>
           c == <<ring, "ARTIFACT_REGISTRY_CYCLE">>
<1>a. rows = << a, b, c >>
  BY SameCardinality, Zenon DEF Artifacts!SnapshotRows
<1>b. a \in ShelfFaults /\ b \in ShelfFaults /\ c \in ShelfFaults
  <2>1. twice \in BOOLEAN /\ lacking \in BOOLEAN /\ ring \in BOOLEAN
    OBVIOUS
  <2> HIDE DEF twice, lacking, ring
  <2> QED BY <2>1 DEF ShelfFaults
<1>c. (twice <=> ~Distinct(X)) /\ (lacking <=> ~Supplied(X)) /\ (ring <=> ~Straight(X))
  BY IdsOfRows DEF Supplied, Straight
<1>d. a[1] = twice /\ b[1] = lacking /\ c[1] = ring
  OBVIOUS
<1>1. rows \in Chain(ShelfFaults, 3) /\ rows[1] = a /\ rows[2] = b /\ rows[3] = c
  <2> HIDE DEF a, b, c, rows
  <2> QED BY <1>a, <1>b, ThreeRows
<1> HIDE DEF a, b, c, twice, lacking, ring
<1>2. rows[1][1] <=> ~Distinct(X)
  BY <1>1, <1>c, <1>d
<1>3. rows[2][1] <=> ~Supplied(X)
  BY <1>1, <1>c, <1>d
<1>4. rows[3][1] <=> ~Straight(X)
  BY <1>1, <1>c, <1>d
<1>5. ASSUME Artifacts!FirstFault(rows) = Artifacts!Fine PROVE Coherent(X)
  <2>1. Intake!FirstFault(rows) = Intake!Fine
    BY <1>5, SameFaults DEF Artifacts!Fine, Intake!Fine
  <2> HIDE DEF rows
  <2>2. \A i \in 1 .. 3 : ~rows[i][1]
    BY <1>1, <2>1, ShelfFaultsRefuse, NoRowHolds
  <2> QED BY <1>2, <1>3, <1>4, <2>2 DEF Coherent
<1>6. ASSUME Coherent(X) PROVE Artifacts!FirstFault(rows) = Artifacts!Fine
  <2>1. DOMAIN rows = 1 .. 3
    BY <1>1 DEF Chain
  <2> HIDE DEF rows
  <2>2. \A i \in DOMAIN rows : ~rows[i][1]
    BY <1>2, <1>3, <1>4, <1>6, <2>1 DEF Coherent
  <2> QED BY <2>2 DEF Artifacts!FirstFault
<1> QED BY <1>1, <1>2, <1>3, <1>4, <1>5, <1>6

(* A batch that is accepted hangs together with what is registered.        *)
LEMMA BatchMeans ==
  ASSUME NEW X \in SUBSET Numbers, Artifacts!Registered \in SUBSET Numbers,
         Artifacts!FirstFault(Artifacts!BatchRows(X)) = Artifacts!Fine
  PROVE  Coherent(X \cup Artifacts!Registered)
<1> DEFINE Y == X \cup Artifacts!Registered
           first == << <<~Artifacts!RegistryLoads, "ARTIFACT_REGISTRY_PERSIST_INVALID">>,
             <<\E r \in X, q \in X \cup Artifacts!Registered :
                  Artifacts!Id(r) = Artifacts!Id(q) /\ r # q, "ARTIFACT_REGISTRY_IDENTITY_CONFLICT">> >>
<1>1. first \in Chain(ShelfFaults, 2)
  <2> DEFINE unread == ~Artifacts!RegistryLoads
             torn == \E r \in X, q \in X \cup Artifacts!Registered :
                       Artifacts!Id(r) = Artifacts!Id(q) /\ r # q
  <2>1. unread \in BOOLEAN /\ torn \in BOOLEAN
    OBVIOUS
  <2> HIDE DEF unread, torn
  <2>2. /\ <<unread, "ARTIFACT_REGISTRY_PERSIST_INVALID">> \in ShelfFaults
        /\ <<torn, "ARTIFACT_REGISTRY_IDENTITY_CONFLICT">> \in ShelfFaults
    BY <2>1 DEF ShelfFaults
  <2>3. << <<unread, "ARTIFACT_REGISTRY_PERSIST_INVALID">>,
           <<torn, "ARTIFACT_REGISTRY_IDENTITY_CONFLICT">> >> \in Chain(ShelfFaults, 2)
    BY <2>2, TwoRows
  <2> QED BY <2>3 DEF unread, torn
<1>2. Y \in SUBSET Numbers
  OBVIOUS
<1>3. Artifacts!BatchRows(X) = Then(first, Artifacts!SnapshotRows(Y))
  BY DEF Artifacts!BatchRows, Then
<1> HIDE DEF first, Y
<1>4. Artifacts!SnapshotRows(Y) \in Chain(ShelfFaults, 3)
  BY <1>2, SnapshotMeans
<1>5. /\ Then(first, Artifacts!SnapshotRows(Y)) \in Chain(ShelfFaults, 2 + 3)
      /\ \A i \in 1 .. 3 : Then(first, Artifacts!SnapshotRows(Y))[2 + i] = Artifacts!SnapshotRows(Y)[i]
  BY <1>1, <1>4, ChainOfTwo
<1>6. \A i \in 1 .. 2 + 3 : ~Then(first, Artifacts!SnapshotRows(Y))[i][1]
  <2>1. Intake!FirstFault(Then(first, Artifacts!SnapshotRows(Y))) = Intake!Fine
    BY <1>3, SameFaults DEF Artifacts!Fine, Intake!Fine
  <2>2. 2 + 3 \in Nat
    OBVIOUS
  <2> QED BY <1>5, <2>1, <2>2, ShelfFaultsRefuse, NoRowHolds
<1>7. \A i \in 1 .. 3 : ~Artifacts!SnapshotRows(Y)[i][1]
  <2>1. \A i \in 1 .. 3 : 2 + i \in 1 .. 2 + 3
    OBVIOUS
  <2> QED BY <1>5, <1>6, <2>1
<1>8. Coherent(Y)
  BY <1>2, <1>7, SnapshotMeans DEF Coherent
<1> QED BY <1>8 DEF Y

RenderParts == {"step", "run", "pending", "runs"}

(* While rows are appended, the registered ones and those to come hang     *)
(* together, and the render's own are among them.                          *)
RegistryInv ==
  /\ registry \in Seq(Numbers)
  /\ Len(registry) = Cardinality(Artifacts!Registered)
  /\ Coherent(Artifacts!Registered)
  /\ DOMAIN render = RenderParts
  /\ render.step # "idle" => render.run.rows \subseteq Numbers
  /\ render.step = "append" =>
       /\ render.pending \subseteq Numbers
       /\ render.run.rows \subseteq render.pending \cup Artifacts!Registered
       /\ Coherent(render.pending \cup Artifacts!Registered)
  /\ \A x \in cached : x.rows \subseteq Artifacts!Registered

LEMMA RegisteredRows ==
  ASSUME NEW s \in Seq(Numbers)
  PROVE  /\ Artifacts!Range(s) \in SUBSET Numbers
         /\ \A r \in Numbers : /\ Append(s, r) \in Seq(Numbers) /\ Len(Append(s, r)) = Len(s) + 1
                               /\ Artifacts!Range(Append(s, r)) = Artifacts!Range(s) \cup {r}
<1>1. \A t : Artifacts!Range(t) = Retention!Range(t)
  BY DEF Artifacts!Range, Retention!Range
<1> HIDE DEF Numbers
<1>2. \A r \in Numbers : Artifacts!Range(Append(s, r)) = Artifacts!Range(s) \cup {r}
  BY <1>1, RangeOfAppend
<1>3. Artifacts!Range(s) \in SUBSET Numbers
  BY DEF Artifacts!Range
<1> QED BY <1>2, <1>3

LEMMA RegistryInitially == Artifacts!ShelfInit => RegistryInv
<1> SUFFICES ASSUME Artifacts!ShelfInit PROVE RegistryInv
  OBVIOUS
<1>1. registry = << >> /\ Artifacts!Registered = {} /\ cached = {}
  BY DEF Artifacts!ShelfInit, Artifacts!Registered, Artifacts!Range
<1>2. Len(registry) = Cardinality({}) /\ registry \in Seq(Numbers)
  BY <1>1, FS_EmptySet
<1>3. Coherent({})
  BY DEF Coherent, Distinct, Supplied, Straight, Artifacts!IdsOf
<1>4. DOMAIN render = RenderParts /\ render.step = "idle"
  BY DEF Artifacts!ShelfInit, RenderParts
<1> QED BY <1>1, <1>2, <1>3, <1>4 DEF RegistryInv

LEMMA RegistryIsRead == RegistryInv => Artifacts!RegistryLoads
<1> SUFFICES ASSUME RegistryInv PROVE Artifacts!RegistryLoads
  OBVIOUS
<1>1. Artifacts!Registered \in SUBSET Numbers
  BY RegisteredRows DEF RegistryInv, Artifacts!Registered
<1> QED BY <1>1, SnapshotMeans, SameCardinality DEF RegistryInv, Artifacts!RegistryLoads

(* A row whose dependencies are registered, out of a coherent batch.       *)
LEMMA OneMore ==
  ASSUME RegistryInv, render.step = "append", NEW r \in render.pending, Artifacts!Ready(r),
         Artifacts!Id(r) \notin Artifacts!IdsOf(Artifacts!Registered),
         registry' = Append(registry, r)
  PROVE  /\ Artifacts!Registered' = Artifacts!Registered \cup {r}
         /\ registry' \in Seq(Numbers) /\ Len(registry') = Cardinality(Artifacts!Registered')
         /\ Coherent(Artifacts!Registered)'
<1> DEFINE X == Artifacts!Registered
           U == render.pending \cup X
<1>1. X \in SUBSET Numbers /\ r \in Numbers /\ Coherent(X) /\ Coherent(U) /\ r \in U
  BY RegisteredRows DEF RegistryInv, Artifacts!Registered
<1>2. /\ registry' \in Seq(Numbers) /\ Len(registry') = Len(registry) + 1
      /\ X' = X \cup {r}
  BY <1>1, RegisteredRows DEF RegistryInv, Artifacts!Registered
<1>3. r \notin X
  BY DEF Artifacts!IdsOf
<1>4. Cardinality(X \cup {r}) = Cardinality(X) + 1
  BY <1>1, <1>3, IdsOfRows, FS_AddElement
<1>5. Coherent(X \cup {r})
  <2> HIDE DEF X, U
  <2>1. X \cup {r} \in SUBSET U
    BY <1>1 DEF U
  <2>2. Distinct(X \cup {r})
    BY <1>1, <2>1 DEF Coherent, Distinct
  <2>3. Straight(X \cup {r})
    BY <1>1, <2>1, StraightParts DEF Coherent
  <2>4. ASSUME NEW d \in Artifacts!Deps(r)
        PROVE  \E q \in X : Artifacts!Id(q) = d /\ Catalog[q].project = Catalog[r].project
    <3>1. PICK q \in X : Artifacts!Id(q) = d
      BY DEF Artifacts!Ready, Artifacts!IdsOf, X
    <3>2. PICK p \in U : Artifacts!Id(p) = d /\ Catalog[p].project = Catalog[r].project
      BY <1>1 DEF Coherent, Supplied
    <3>3. p = q
      BY <1>1, <2>1, <3>1, <3>2 DEF Coherent, Distinct
    <3> QED BY <3>1, <3>2, <3>3
  <2>5. Supplied(X \cup {r})
    BY <1>1, <2>4 DEF Coherent, Supplied
  <2> QED BY <2>2, <2>3, <2>5 DEF Coherent
<1>6. Coherent(X)'
  BY <1>2, <1>5 DEF Coherent, Distinct, Supplied, Straight
<1> QED BY <1>2, <1>4, <1>6 DEF RegistryInv

LEMMA RegistryStep == RegistryInv /\ [Artifacts!ShelfNext]_shelfVars => RegistryInv'
<1> SUFFICES ASSUME RegistryInv, [Artifacts!ShelfNext]_shelfVars PROVE RegistryInv'
  OBVIOUS
<1>1. Artifacts!Registered \in SUBSET Numbers
  BY RegisteredRows DEF RegistryInv, Artifacts!Registered
<1>2. DOMAIN render = RenderParts
  BY DEF RegistryInv
<1>3. ASSUME UNCHANGED <<registry, cached>>, DOMAIN render' = RenderParts, render'.step = "idle"
      PROVE  RegistryInv'
  BY <1>3 DEF RegistryInv, Artifacts!Registered
<1>4. Artifacts!RenderEnds => DOMAIN render' = RenderParts /\ render'.step = "idle"
  BY <1>2 DEF Artifacts!RenderEnds, RenderParts
<1>5. ASSUME NEW x \in Renders, Artifacts!StartRender(x) PROVE RegistryInv'
  <2>1. DOMAIN render' = RenderParts /\ render'.step = "running" /\ render'.run = x
    BY <1>2, <1>5 DEF Artifacts!StartRender, RenderParts
  <2>2. UNCHANGED <<registry, cached>> /\ x.rows \subseteq Numbers
    BY <1>5, CatalogAssumption DEF Artifacts!StartRender, Numbers
  <2> QED BY <2>1, <2>2 DEF RegistryInv, Artifacts!Registered
<1>6. CASE Artifacts!RunRender
  <2>1. DOMAIN render' = RenderParts /\ render'.step = "import" /\ render'.run = render.run
    BY <1>2, <1>6 DEF Artifacts!RunRender, RenderParts
  <2>2. UNCHANGED <<registry, cached>> /\ render.step = "running"
    BY <1>6 DEF Artifacts!RunRender
  <2> QED BY <2>1, <2>2 DEF RegistryInv, Artifacts!Registered
<1>7. CASE Artifacts!ImportRows
  <2>1. CASE Artifacts!RenderEnds
    BY <1>3, <1>4, <1>7, <2>1 DEF Artifacts!ImportRows
  <2>2. CASE ~Artifacts!RenderEnds
    <3> DEFINE rows == render.run.rows
    <3>1. /\ Artifacts!FirstFault(Artifacts!BatchRows(rows)) = Artifacts!Fine
          /\ render' = [render EXCEPT !.step = "append", !.pending = rows \ Artifacts!Registered]
          /\ UNCHANGED <<registry, cached>> /\ render.step = "import"
      BY <1>7, <2>2 DEF Artifacts!ImportRows
    <3>2. rows \in SUBSET Numbers
      BY <3>1 DEF RegistryInv
    <3>3. Coherent(rows \cup Artifacts!Registered)
      BY <1>1, <3>1, <3>2, BatchMeans
    <3>4. /\ DOMAIN render' = RenderParts /\ render'.step = "append" /\ render'.run = render.run
          /\ render'.pending = rows \ Artifacts!Registered
      BY <1>2, <3>1 DEF RenderParts
    <3>5. (rows \ Artifacts!Registered) \cup Artifacts!Registered = rows \cup Artifacts!Registered
      OBVIOUS
    <3> QED BY <3>1, <3>2, <3>3, <3>4, <3>5 DEF RegistryInv, Artifacts!Registered
  <2> QED BY <2>1, <2>2
<1>8. CASE Artifacts!AppendRow
  <2>1. PICK r \in render.pending :
          /\ Artifacts!Ready(r)
          /\ \/ Artifacts!RenderEnds /\ UNCHANGED registry
             \/ /\ Artifacts!Id(r) \notin Artifacts!IdsOf(Artifacts!Registered)
                /\ registry' = Append(registry, r)
                /\ \/ Artifacts!RenderEnds
                   \/ render' = [render EXCEPT !.pending = @ \ {r}]
    BY <1>8 DEF Artifacts!AppendRow
  <2>2. render.step = "append" /\ UNCHANGED cached
    BY <1>8 DEF Artifacts!AppendRow
  <2>3. CASE UNCHANGED registry /\ Artifacts!RenderEnds
    BY <1>3, <1>4, <2>2, <2>3
  <2>4. CASE /\ Artifacts!Id(r) \notin Artifacts!IdsOf(Artifacts!Registered)
             /\ registry' = Append(registry, r)
    <3>1. /\ Artifacts!Registered' = Artifacts!Registered \cup {r}
          /\ registry' \in Seq(Numbers) /\ Len(registry') = Cardinality(Artifacts!Registered')
          /\ Coherent(Artifacts!Registered)'
      BY <2>1, <2>2, <2>4, OneMore
    <3>2. \A x \in cached' : x.rows \subseteq Artifacts!Registered'
      BY <2>2, <3>1 DEF RegistryInv
    <3>3. CASE Artifacts!RenderEnds
      BY <1>4, <3>1, <3>2, <3>3 DEF RegistryInv
    <3>4. CASE render' = [render EXCEPT !.pending = @ \ {r}]
      <4>1. /\ DOMAIN render' = RenderParts /\ render'.step = "append" /\ render'.run = render.run
            /\ render'.pending = render.pending \ {r}
        BY <1>2, <2>2, <3>4 DEF RenderParts
      <4>2. render'.pending \cup Artifacts!Registered' = render.pending \cup Artifacts!Registered
        BY <2>1, <3>1, <4>1
      <4>3. Coherent(render'.pending \cup Artifacts!Registered')
        BY <2>2, <4>2 DEF RegistryInv
      <4> QED BY <2>2, <3>1, <3>2, <4>1, <4>2, <4>3 DEF RegistryInv
    <3> QED BY <2>1, <2>4, <3>3, <3>4
  <2> QED BY <2>1, <2>3, <2>4
<1>9. CASE Artifacts!FinishRender
  <2>1. render.step = "append" /\ render.pending = {} /\ UNCHANGED registry /\ Artifacts!RenderEnds
        /\ cached' \subseteq cached \cup {render.run}
    BY <1>9 DEF Artifacts!FinishRender
  <2>2. render.run.rows \subseteq Artifacts!Registered
    BY <2>1 DEF RegistryInv
  <2> QED BY <1>4, <2>1, <2>2 DEF RegistryInv, Artifacts!Registered
<1>10. CASE Artifacts!RendererDies
  BY <1>3, <1>4, <1>10 DEF Artifacts!RendererDies
<1>11. CASE UNCHANGED <<registry, cached, render>>
  BY <1>11 DEF RegistryInv, Artifacts!Registered
<1>12. ASSUME NEW k \in Keepers,
              \/ Artifacts!MakePlan(k) \/ Artifacts!CheckPlan(k) \/ Artifacts!MoveNext(k)
              \/ Artifacts!WriteReceipt(k) \/ Artifacts!UndoMove(k) \/ Artifacts!StartRestore(k)
              \/ Artifacts!RestoreNext(k) \/ Artifacts!KeeperDies(k)
       PROVE  UNCHANGED <<registry, cached, render>>
  BY <1>12 DEF Artifacts!MakePlan, Artifacts!CheckPlan, Artifacts!MoveNext, Artifacts!WriteReceipt,
     Artifacts!UndoMove, Artifacts!StartRestore, Artifacts!RestoreNext, Artifacts!KeeperDies
<1>13. UNCHANGED shelfVars => UNCHANGED <<registry, cached, render>>
  BY DEF shelfVars
<1> QED BY <1>5, <1>6, <1>7, <1>8, <1>9, <1>10, <1>11, <1>12, <1>13 DEF Artifacts!ShelfNext

-----------------------------------------------------------------------------
(* The shelf and the trash.                                                *)

ShelfIds == {Artifacts!Id(r) : r \in Numbers}
Plans == (Instants \cup {0}) \X SUBSET Numbers
Receipts == [plan : Plans, moved : Seq(ShelfIds)]
KeeperSteps == {"idle", "planned", "moving", "undoing", "restoring"}
KeeperRecord ==
  [step : KeeperSteps, plan : Plans, moved : Seq(ShelfIds), receipt : Receipts \cup {Artifacts!None}]

KeeperTypes ==
  /\ keeper \in [Keepers -> KeeperRecord]
  /\ receipts \subseteq Receipts
  /\ \A k \in Keepers : keeper[k].step = "restoring" => keeper[k].receipt \in Receipts
  /\ \A k \in Keepers : keeper[k].step \in {"planned", "moving"} => Coherent(keeper[k].plan[2])

(* Where a file may be that is not on the shelf.                           *)
OnRecord(id) ==
  \E receipt \in receipts : id \in Artifacts!Range(receipt.moved) /\ <<receipt.plan, id>> \in files
InMove(id) ==
  \E k \in Keepers : /\ keeper[k].step \in {"moving", "undoing"}
                     /\ id \in Artifacts!Range(keeper[k].moved)
                     /\ <<keeper[k].plan, id>> \in files

Accounted ==
  ~abandoned => \A f \in files : Artifacts!OnShelf(f[2]) \/ OnRecord(f[2]) \/ InMove(f[2])

(* The trash of a plan has candidates of that plan, and what was registered*)
(* when it was made was coherent.                                          *)
TrashIsPlanned ==
  \A f \in files : f[1] # Artifacts!Shelf =>
    f[1] \in Plans /\ Coherent(f[1][2]) /\ f[2] \in Artifacts!Candidates(f[1])

TrashInv == KeeperTypes /\ Accounted /\ TrashIsPlanned

LEMMA TrashInitially == Artifacts!ShelfInit => TrashInv
<1> SUFFICES ASSUME Artifacts!ShelfInit PROVE TrashInv
  OBVIOUS
<1>1. << >> \in Seq(ShelfIds) /\ Artifacts!Shelf \in Plans
  BY DEF Plans, Artifacts!Shelf
<1>2. Artifacts!Resting \in KeeperRecord
  BY <1>1 DEF Artifacts!Resting, KeeperRecord, KeeperSteps
<1>3. Artifacts!Resting.step = "idle"
  BY DEF Artifacts!Resting
<1>4. keeper = [k \in Keepers |-> Artifacts!Resting] /\ receipts = {} /\ files = {}
  BY DEF Artifacts!ShelfInit
<1>5. KeeperTypes
  BY <1>2, <1>3, <1>4 DEF KeeperTypes
<1> QED BY <1>4, <1>5 DEF TrashInv, Accounted, TrashIsPlanned

LEMMA Moved ==
  ASSUME NEW id, NEW from, NEW to, Artifacts!Move(id, from, to)
  PROVE  /\ <<to, id>> \in files'
         /\ \A place, j : j # id => (<<place, j>> \in files' <=> <<place, j>> \in files)
         /\ \A f \in files' : f \in files \/ f = <<to, id>>
BY DEF Artifacts!Move

LEMMA LeastNumber ==
  ASSUME NEW T \in SUBSET Nat, T # {}
  PROVE  \E i \in T : \A j \in T : i <= j
<1> DEFINE R == OpToRel(<, Nat)
<1>1. IsWellFoundedOn(R, Nat)
  BY NatLessThanWellFounded
<1>2. \A i, j \in Nat : j < i => <<j, i>> \in R
  BY DEF OpToRel
<1> HIDE DEF R
<1>3. PICK i \in T : \A j \in T : ~(<<j, i>> \in R)
  BY <1>1, WFMin
<1>4. \A j \in T : ~(j < i) /\ i \in Nat /\ j \in Nat
  BY <1>2, <1>3
<1> QED BY <1>4

(* The first row in line is one that waits.                                *)
LEMMA NextWaits ==
  ASSUME KeeperTypes, NEW k \in Keepers, Artifacts!Waiting(k) # {}
  PROVE  /\ Artifacts!NextInLine(k) \in Artifacts!Waiting(k)
         /\ Artifacts!Id(Artifacts!NextInLine(k)) \in ShelfIds
         /\ Artifacts!Id(Artifacts!NextInLine(k)) \in Artifacts!Candidates(keeper[k].plan)
<1> DEFINE W == Artifacts!Waiting(k)
<1>1. keeper[k].plan \in Plans
  BY DEF KeeperTypes, KeeperRecord
<1>2. W \subseteq Numbers
  BY <1>1 DEF Plans, Artifacts!Waiting
<1>3. W \subseteq Nat
  BY <1>2, NumbersAreFinite
<1>4. \E r \in W : \A q \in W : r <= q
  <2>1. W # {}
    OBVIOUS
  <2> HIDE DEF W
  <2> QED BY <1>3, <2>1, LeastNumber
<1>5. Artifacts!NextInLine(k) \in W
  BY <1>4 DEF Artifacts!NextInLine
<1> QED BY <1>2, <1>5 DEF Artifacts!Waiting, ShelfIds

KeeperStep(k) ==
  \/ Artifacts!MakePlan(k) \/ Artifacts!CheckPlan(k) \/ Artifacts!MoveNext(k)
  \/ Artifacts!WriteReceipt(k) \/ Artifacts!UndoMove(k) \/ Artifacts!StartRestore(k)
  \/ Artifacts!RestoreNext(k) \/ Artifacts!KeeperDies(k)

LEMMA OneMoreId ==
  ASSUME NEW S, NEW s \in Seq(S), NEW x \in S
  PROVE  Artifacts!Range(Append(s, x)) = Artifacts!Range(s) \cup {x}
<1>1. \A t : Artifacts!Range(t) = Retention!Range(t)
  BY DEF Artifacts!Range, Retention!Range
<1> QED BY <1>1, RangeOfAppend

LEMMA SequencesOfIds ==
  ASSUME NEW S, NEW s \in Seq(S)
  PROVE  s # << >> =>
           /\ Artifacts!Front(s) \in Seq(S) /\ Artifacts!Last(s) \in S
           /\ Artifacts!Range(s) = Artifacts!Range(Artifacts!Front(s)) \cup {Artifacts!Last(s)}
<1>1. \A t : Artifacts!Range(t) = Retention!Range(t)
  BY DEF Artifacts!Range, Retention!Range
<1>2. \A t : Artifacts!Front(t) = Retention!Front(t) /\ Artifacts!Last(t) = Retention!Last(t)
  BY DEF Artifacts!Front, Retention!Front, Artifacts!Last, Retention!Last
<1> QED BY <1>1, <1>2, RangeOfFront

LEMMA KeeperTypesStep ==
  ASSUME RegistryInv, TrashInv, NEW k \in Keepers, KeeperStep(k)
  PROVE  KeeperTypes' /\ \A d \in Keepers \ {k} : keeper'[d] = keeper[d]
<1> DEFINE old == keeper[k]
<1>1. keeper \in [Keepers -> KeeperRecord] /\ old \in KeeperRecord /\ receipts \subseteq Receipts
  BY DEF TrashInv, KeeperTypes
<1>2. /\ old.step \in KeeperSteps /\ old.plan \in Plans /\ old.moved \in Seq(ShelfIds)
      /\ old.receipt \in Receipts \cup {Artifacts!None}
  BY <1>1 DEF KeeperRecord
<1>3. Artifacts!Resting \in KeeperRecord /\ Artifacts!Resting.step = "idle"
  <2>1. << >> \in Seq(ShelfIds) /\ Artifacts!Shelf \in Plans
    BY DEF Plans, Artifacts!Shelf
  <2> QED BY <2>1 DEF Artifacts!Resting, KeeperRecord, KeeperSteps
<1>4. \A r \in KeeperRecord :
        /\ \A s \in KeeperSteps : [r EXCEPT !.step = s] \in KeeperRecord
             /\ [r EXCEPT !.step = s].step = s /\ [r EXCEPT !.step = s].plan = r.plan
             /\ [r EXCEPT !.step = s].moved = r.moved
        /\ \A m \in Seq(ShelfIds) : [r EXCEPT !.moved = m] \in KeeperRecord
             /\ [r EXCEPT !.moved = m].step = r.step /\ [r EXCEPT !.moved = m].plan = r.plan
             /\ [r EXCEPT !.moved = m].receipt = r.receipt /\ [r EXCEPT !.moved = m].moved = m
  BY DEF KeeperRecord
<1>5. SUFFICES /\ receipts' \subseteq Receipts
               /\ \E r \in KeeperRecord :
                    /\ keeper' = [keeper EXCEPT ![k] = r]
                    /\ r.step = "restoring" => r.receipt \in Receipts
                    /\ r.step \in {"planned", "moving"} => Coherent(r.plan[2])
  BY <1>1, Zenon DEF TrashInv, KeeperTypes
<1> HIDE DEF KeeperRecord
<1>6. CASE Artifacts!MakePlan(k)
  <2>1. PICK asOf \in Instants :
          keeper' = [keeper EXCEPT ![k] =
            [Artifacts!Resting EXCEPT !.step = "planned", !.plan = <<asOf, Artifacts!Registered>>]]
    BY <1>6 DEF Artifacts!MakePlan, Artifacts!Keeps
  <2> DEFINE r == [Artifacts!Resting EXCEPT !.step = "planned", !.plan = <<asOf, Artifacts!Registered>>]
  <2>2. /\ r = [f \in {"step", "plan", "moved", "receipt"} |-> r[f]]
        /\ r.step = "planned" /\ r.plan = <<asOf, Artifacts!Registered>>
        /\ r.moved = << >> /\ r.receipt = Artifacts!None
    BY DEF Artifacts!Resting
  <2>3. <<asOf, Artifacts!Registered>> \in Plans /\ Coherent(Artifacts!Registered)
    BY RegisteredRows DEF RegistryInv, Artifacts!Registered, Plans
  <2>4. r \in KeeperRecord
    <3>1. << >> \in Seq(ShelfIds)
      OBVIOUS
    <3> HIDE DEF r
    <3> QED BY <2>2, <2>3, <3>1 DEF KeeperRecord, KeeperSteps
  <2>5. r.step = "planned" /\ r.plan[2] = Artifacts!Registered
    BY <2>2
  <2>6. receipts' = receipts
    BY <1>6 DEF Artifacts!MakePlan
  <2> HIDE DEF r
  <2> QED BY <1>1, <2>1, <2>3, <2>4, <2>5, <2>6 DEF r
<1>7. CASE Artifacts!CheckPlan(k)
  <2>1. /\ old.step = "planned" /\ receipts' = receipts
        /\ \/ keeper' = [keeper EXCEPT ![k] = [old EXCEPT !.step = "moving"]]
           \/ keeper' = [keeper EXCEPT ![k] = Artifacts!Resting]
    BY <1>7 DEF Artifacts!CheckPlan, Artifacts!Is, Artifacts!Keeps
  <2>2. "moving" \in KeeperSteps /\ Coherent(old.plan[2])
    BY <2>1 DEF KeeperSteps, TrashInv, KeeperTypes
  <2> DEFINE r == [old EXCEPT !.step = "moving"]
  <2>3. r \in KeeperRecord /\ r.step = "moving" /\ r.plan = old.plan
    BY <1>1, <1>4, <2>2
  <2> HIDE DEF old, r
  <2> QED BY <1>1, <1>3, <2>1, <2>2, <2>3 DEF r
<1>8. CASE Artifacts!MoveNext(k)
  <2> DEFINE id == Artifacts!Id(Artifacts!NextInLine(k))
  <2>1. /\ old.step = "moving" /\ receipts' = receipts /\ Artifacts!Waiting(k) # {}
        /\ \/ keeper' = [keeper EXCEPT ![k] = [old EXCEPT !.moved = Append(@, id)]]
           \/ keeper' = [keeper EXCEPT ![k] = [old EXCEPT !.step = "undoing"]]
    BY <1>8 DEF Artifacts!MoveNext, Artifacts!Is, Artifacts!Keeps
  <2>2. "undoing" \in KeeperSteps /\ Coherent(old.plan[2])
    BY <2>1 DEF KeeperSteps, TrashInv, KeeperTypes
  <2>3. id \in ShelfIds
    BY <2>1, NextWaits DEF TrashInv
  <2>4. Append(old.moved, id) \in Seq(ShelfIds)
    BY <1>2, <2>3
  <2> DEFINE more == [old EXCEPT !.moved = Append(@, id)]
             undo == [old EXCEPT !.step = "undoing"]
  <2>5. undo \in KeeperRecord /\ undo.step = "undoing"
    BY <1>1, <1>4, <2>2
  <2>6. more \in KeeperRecord /\ more.step = "moving" /\ more.plan = old.plan
    BY <1>1, <1>4, <2>1, <2>4
  <2> HIDE DEF old, id, more, undo
  <2> QED BY <1>1, <2>1, <2>2, <2>5, <2>6 DEF more, undo
<1>9. CASE Artifacts!WriteReceipt(k)
  <2>1. /\ old.step = "moving"
        /\ receipts' \subseteq receipts \cup {[plan |-> old.plan, moved |-> old.moved]}
        /\ \/ keeper' = [keeper EXCEPT ![k] = Artifacts!Resting]
           \/ keeper' = [keeper EXCEPT ![k] = [old EXCEPT !.step = "undoing"]]
    BY <1>9 DEF Artifacts!WriteReceipt, Artifacts!Is, Artifacts!Keeps
  <2>2. [plan |-> old.plan, moved |-> old.moved] \in Receipts
    BY <1>2 DEF Receipts
  <2>3. "undoing" \in KeeperSteps
    BY DEF KeeperSteps
  <2> HIDE DEF old
  <2> QED BY <1>1, <1>3, <1>4, <2>1, <2>2, <2>3
<1>10. CASE Artifacts!UndoMove(k)
  <2>1. /\ old.step = "undoing" /\ receipts' = receipts
        /\ \/ keeper' = [keeper EXCEPT ![k] = Artifacts!Resting]
           \/ /\ old.moved # << >>
              /\ keeper' = [keeper EXCEPT ![k] = [old EXCEPT !.moved = Artifacts!Front(old.moved)]]
    BY <1>10 DEF Artifacts!UndoMove, Artifacts!Is, Artifacts!Keeps
  <2>2. old.moved # << >> => Artifacts!Front(old.moved) \in Seq(ShelfIds)
    BY <1>2, SequencesOfIds
  <2> DEFINE rest == [old EXCEPT !.moved = Artifacts!Front(old.moved)]
  <2>3. old.moved # << >> => rest \in KeeperRecord /\ rest.step = "undoing"
    BY <1>1, <1>4, <2>1, <2>2
  <2> HIDE DEF old, rest
  <2> QED BY <1>1, <1>3, <2>1, <2>3 DEF rest
<1>11. CASE Artifacts!StartRestore(k)
  <2>1. PICK receipt \in receipts :
          keeper' = [keeper EXCEPT ![k] =
            [Artifacts!Resting EXCEPT !.step = "restoring", !.receipt = receipt]]
    BY <1>11 DEF Artifacts!StartRestore, Artifacts!Keeps
  <2> DEFINE r == [Artifacts!Resting EXCEPT !.step = "restoring", !.receipt = receipt]
  <2>2. /\ r = [f \in {"step", "plan", "moved", "receipt"} |-> r[f]]
        /\ r.step = "restoring" /\ r.plan = Artifacts!Shelf
        /\ r.moved = << >> /\ r.receipt = receipt
    BY DEF Artifacts!Resting
  <2>3. Artifacts!Shelf \in Plans /\ receipt \in Receipts
    BY <1>1 DEF Plans, Artifacts!Shelf
  <2>4. r \in KeeperRecord
    <3>1. << >> \in Seq(ShelfIds)
      OBVIOUS
    <3> HIDE DEF r
    <3> QED BY <2>2, <2>3, <3>1 DEF KeeperRecord, KeeperSteps
  <2>5. r.step = "restoring" /\ r.receipt = receipt
    BY <2>2
  <2>6. receipts' = receipts
    BY <1>11 DEF Artifacts!StartRestore
  <2> HIDE DEF r
  <2> QED BY <1>1, <2>1, <2>3, <2>4, <2>5, <2>6 DEF r
<1>12. CASE Artifacts!RestoreNext(k)
  <2> DEFINE n == Len(old.moved) + 1
             id == old.receipt.moved[n]
  <2>1. /\ old.step = "restoring" /\ receipts' = receipts
        /\ \/ keeper' = [keeper EXCEPT ![k] = Artifacts!Resting]
           \/ /\ n <= Len(old.receipt.moved)
              /\ keeper' = [keeper EXCEPT ![k] = [old EXCEPT !.moved = Append(@, id)]]
    BY <1>12 DEF Artifacts!RestoreNext, Artifacts!Is, Artifacts!Keeps
  <2>2. old.receipt \in Receipts
    BY <2>1 DEF TrashInv, KeeperTypes
  <2>3. n <= Len(old.receipt.moved) => Append(old.moved, id) \in Seq(ShelfIds)
    <3>1. old.receipt.moved \in Seq(ShelfIds) /\ Len(old.moved) \in Nat
      BY <1>2, <2>2 DEF Receipts
    <3>2. n <= Len(old.receipt.moved) => id \in ShelfIds
      BY <3>1
    <3> QED BY <1>2, <3>2
  <2> DEFINE more == [old EXCEPT !.moved = Append(@, id)]
  <2>4. n <= Len(old.receipt.moved) =>
          more \in KeeperRecord /\ more.step = "restoring" /\ more.receipt = old.receipt
    BY <1>1, <1>4, <2>1, <2>3
  <2> HIDE DEF old, n, id, more
  <2> QED BY <1>1, <1>3, <2>1, <2>2, <2>4 DEF more
<1>13. CASE Artifacts!KeeperDies(k)
  BY <1>1, <1>3, <1>13 DEF Artifacts!KeeperDies, Artifacts!Keeps
<1> QED BY <1>6, <1>7, <1>8, <1>9, <1>10, <1>11, <1>12, <1>13 DEF KeeperStep

(* Nothing of what is accounted for is lost while no file moves.           *)
LEMMA StillAccounted ==
  ASSUME TrashInv, UNCHANGED files, receipts \subseteq receipts', ~abandoned' => ~abandoned,
         \A id : InMove(id) => InMove(id)' \/ OnRecord(id)'
  PROVE  Accounted'
<1> SUFFICES ASSUME ~abandoned', NEW f \in files'
             PROVE  Artifacts!OnShelf(f[2])' \/ OnRecord(f[2])' \/ InMove(f[2])'
  BY DEF Accounted
<1>1. Artifacts!OnShelf(f[2]) \/ OnRecord(f[2]) \/ InMove(f[2])
  BY DEF TrashInv, Accounted
<1>2. Artifacts!OnShelf(f[2]) => Artifacts!OnShelf(f[2])'
  BY DEF Artifacts!OnShelf
<1>3. OnRecord(f[2]) => OnRecord(f[2])'
  BY DEF OnRecord
<1> QED BY <1>1, <1>2, <1>3

(* Nor when one goes where it is accounted for and a keeper holds on to    *)
(* the others that it has moved.                                           *)
LEMMA MovedAndAccounted ==
  ASSUME TrashInv, NEW k \in Keepers, \A d \in Keepers \ {k} : keeper'[d] = keeper[d],
         receipts' = receipts, ~abandoned' => ~abandoned,
         NEW id, NEW from, NEW to, Artifacts!Move(id, from, to),
         Artifacts!OnShelf(id)' \/ InMove(id)',
         \A j : /\ j # id /\ keeper[k].step \in {"moving", "undoing"}
                /\ j \in Artifacts!Range(keeper[k].moved)
                => /\ keeper'[k].step \in {"moving", "undoing"} /\ keeper'[k].plan = keeper[k].plan
                   /\ j \in Artifacts!Range(keeper'[k].moved)
  PROVE  Accounted'
<1> SUFFICES ASSUME ~abandoned', NEW f \in files'
             PROVE  Artifacts!OnShelf(f[2])' \/ OnRecord(f[2])' \/ InMove(f[2])'
  BY DEF Accounted
<1>1. /\ \A place, j : j # id => (<<place, j>> \in files' <=> <<place, j>> \in files)
      /\ \A g \in files' : g \in files \/ g = <<to, id>>
  BY Moved
<1>2. CASE f[2] = id
  BY <1>2
<1>3. CASE f[2] # id
  <2>1. f \in files
    BY <1>1, <1>3
  <2>2. Artifacts!OnShelf(f[2]) \/ OnRecord(f[2]) \/ InMove(f[2])
    BY <2>1 DEF TrashInv, Accounted
  <2>3. Artifacts!OnShelf(f[2]) => Artifacts!OnShelf(f[2])'
    BY <1>1, <1>3 DEF Artifacts!OnShelf
  <2>4. OnRecord(f[2]) => OnRecord(f[2])'
    BY <1>1, <1>3 DEF OnRecord
  <2>5. ASSUME InMove(f[2]) PROVE InMove(f[2])'
    <3>1. PICK d \in Keepers : /\ keeper[d].step \in {"moving", "undoing"}
                               /\ f[2] \in Artifacts!Range(keeper[d].moved)
                               /\ <<keeper[d].plan, f[2]>> \in files
      BY <2>5 DEF InMove
    <3>2. <<keeper[d].plan, f[2]>> \in files'
      BY <1>1, <1>3, <3>1
    <3>3. /\ keeper'[d].step \in {"moving", "undoing"} /\ keeper'[d].plan = keeper[d].plan
          /\ f[2] \in Artifacts!Range(keeper'[d].moved)
      BY <1>3, <3>1
    <3> QED BY <3>2, <3>3 DEF InMove
  <2> QED BY <2>2, <2>3, <2>4, <2>5
<1> QED BY <1>2, <1>3

LEMMA AccountedStep ==
  ASSUME RegistryInv, TrashInv, NEW k \in Keepers, KeeperStep(k)
  PROVE  Accounted'
<1> DEFINE old == keeper[k]
<1>1. keeper \in [Keepers -> KeeperRecord] /\ old \in KeeperRecord
  BY DEF TrashInv, KeeperTypes
<1>2. /\ old.moved \in Seq(ShelfIds) /\ DOMAIN old = {"step", "plan", "moved", "receipt"}
  BY <1>1 DEF KeeperRecord
<1>3. \A d \in Keepers \ {k} : keeper'[d] = keeper[d]
  BY KeeperTypesStep
<1>4. \A id : InMove(id) /\ old.step \notin {"moving", "undoing"} /\ UNCHANGED files => InMove(id)'
  BY <1>3 DEF InMove
<1>5. CASE \/ Artifacts!MakePlan(k) \/ Artifacts!CheckPlan(k) \/ Artifacts!StartRestore(k)
  <2>1. /\ UNCHANGED <<files, receipts, abandoned>> /\ old.step \notin {"moving", "undoing"}
    BY <1>5 DEF Artifacts!MakePlan, Artifacts!CheckPlan, Artifacts!StartRestore, Artifacts!Is
  <2> QED BY <1>4, <2>1, StillAccounted
<1>6. CASE Artifacts!MoveNext(k)
  <2>1. PICK id : id = Artifacts!Id(Artifacts!NextInLine(k))
    OBVIOUS
  <2>2. old.step = "moving" /\ UNCHANGED <<receipts, abandoned>> /\ id \in ShelfIds
    BY <1>6, <2>1, NextWaits DEF TrashInv, Artifacts!MoveNext, Artifacts!Is
  <2>3. CASE /\ Artifacts!Move(id, Artifacts!Shelf, old.plan)
             /\ keeper' = [keeper EXCEPT ![k] = [old EXCEPT !.moved = Append(@, id)]]
    <3>1. /\ keeper'[k].step = "moving" /\ keeper'[k].plan = old.plan
          /\ keeper'[k].moved = Append(old.moved, id)
      BY <1>1, <1>2, <2>2, <2>3
    <3>2. Artifacts!Range(keeper'[k].moved) = Artifacts!Range(old.moved) \cup {id}
      <4> DEFINE m == old.moved
      <4>1. m \in Seq(ShelfIds)
        BY <1>2
      <4> HIDE DEF m
      <4>2. Artifacts!Range(Append(m, id)) = Artifacts!Range(m) \cup {id}
        BY <2>2, <4>1, OneMoreId
      <4> QED BY <3>1, <4>2 DEF m
    <3>3. <<keeper'[k].plan, id>> \in files'
      BY <2>3, <3>1, Moved
    <3>4. InMove(id)'
      BY <3>1, <3>2, <3>3 DEF InMove
    <3> QED BY <1>3, <2>2, <2>3, <3>1, <3>2, <3>4, MovedAndAccounted
  <2>4. CASE UNCHANGED files /\ keeper' = [keeper EXCEPT ![k] = [old EXCEPT !.step = "undoing"]]
    <3>1. keeper'[k].step = "undoing" /\ keeper'[k].plan = old.plan /\ keeper'[k].moved = old.moved
      BY <1>1, <1>2, <2>4
    <3>2. ASSUME NEW j, InMove(j) PROVE InMove(j)'
      <4>1. PICK d \in Keepers : /\ keeper[d].step \in {"moving", "undoing"}
                                 /\ j \in Artifacts!Range(keeper[d].moved)
                                 /\ <<keeper[d].plan, j>> \in files
        BY <3>2 DEF InMove
      <4>2. /\ keeper'[d].step \in {"moving", "undoing"} /\ keeper'[d].plan = keeper[d].plan
            /\ keeper'[d].moved = keeper[d].moved
        BY <1>3, <3>1, <4>1
      <4>3. <<keeper'[d].plan, j>> \in files' /\ j \in Artifacts!Range(keeper'[d].moved)
        BY <2>4, <4>1, <4>2
      <4> QED BY <4>2, <4>3 DEF InMove
    <3> QED BY <2>2, <2>4, <3>2, StillAccounted
  <2> QED BY <1>6, <2>1, <2>3, <2>4 DEF Artifacts!MoveNext, Artifacts!Keeps
<1>7. CASE Artifacts!WriteReceipt(k)
  <2> DEFINE receipt == [plan |-> old.plan, moved |-> old.moved]
  <2>1. UNCHANGED <<files, abandoned>> /\ receipts \subseteq receipts'
        /\ \/ receipt \in receipts'
           \/ keeper' = [keeper EXCEPT ![k] = [old EXCEPT !.step = "undoing"]]
    BY <1>7 DEF Artifacts!WriteReceipt, Artifacts!Keeps
  <2>2. ASSUME NEW id, InMove(id) PROVE InMove(id)' \/ OnRecord(id)'
    <3>1. PICK d \in Keepers : /\ keeper[d].step \in {"moving", "undoing"}
                               /\ id \in Artifacts!Range(keeper[d].moved)
                               /\ <<keeper[d].plan, id>> \in files
      BY <2>2 DEF InMove
    <3>2. CASE d # k
      BY <1>3, <2>1, <3>1, <3>2 DEF InMove
    <3>3. CASE d = k /\ receipt \in receipts'
      <4>1. receipt.plan = old.plan /\ receipt.moved = old.moved
        OBVIOUS
      <4>2. <<receipt.plan, id>> \in files' /\ id \in Artifacts!Range(receipt.moved)
        BY <2>1, <3>1, <3>3, <4>1
      <4> HIDE DEF receipt
      <4> QED BY <3>3, <4>2 DEF OnRecord
    <3>4. CASE d = k /\ keeper' = [keeper EXCEPT ![k] = [old EXCEPT !.step = "undoing"]]
      <4>1. keeper'[k].step = "undoing" /\ keeper'[k].plan = old.plan /\ keeper'[k].moved = old.moved
        BY <1>1, <1>2, <3>4
      <4>2. /\ keeper'[d].step \in {"moving", "undoing"} /\ keeper'[d].plan = keeper[d].plan
            /\ keeper'[d].moved = keeper[d].moved
        BY <3>4, <4>1
      <4> QED BY <2>1, <3>1, <4>2 DEF InMove
    <3> QED BY <2>1, <3>2, <3>3, <3>4
  <2> QED BY <2>1, <2>2, StillAccounted
<1>8. CASE Artifacts!UndoMove(k)
  <2>1. old.step = "undoing" /\ UNCHANGED <<receipts, abandoned>>
    BY <1>8 DEF Artifacts!UndoMove, Artifacts!Is
  <2>2. CASE old.moved = << >>
    <3>1. UNCHANGED files
      BY <1>8, <2>2 DEF Artifacts!UndoMove
    <3>2. Artifacts!Range(old.moved) = {}
      BY <2>2 DEF Artifacts!Range
    <3>3. \A id : InMove(id) => InMove(id)'
      BY <1>3, <3>1, <3>2 DEF InMove
    <3> QED BY <2>1, <3>1, <3>3, StillAccounted
  <2>3. CASE old.moved # << >>
    <3>1. PICK id : id = Artifacts!Last(old.moved)
      OBVIOUS
    <3>2. keeper' = [keeper EXCEPT ![k] = [old EXCEPT !.moved = Artifacts!Front(old.moved)]]
      BY <1>8, <2>3 DEF Artifacts!UndoMove, Artifacts!Keeps
    <3>3. /\ keeper'[k].step = "undoing" /\ keeper'[k].plan = old.plan
          /\ keeper'[k].moved = Artifacts!Front(old.moved)
      BY <1>1, <1>2, <2>1, <3>2
    <3>4. Artifacts!Range(old.moved) = Artifacts!Range(keeper'[k].moved) \cup {id}
      BY <1>2, <2>3, <3>1, <3>3, SequencesOfIds
    <3>5. CASE Artifacts!Move(id, old.plan, Artifacts!Shelf)
      <4>1. Artifacts!OnShelf(id)'
        BY <3>5, Moved DEF Artifacts!OnShelf, Artifacts!Shelf
      <4> QED BY <1>3, <2>1, <3>3, <3>4, <3>5, <4>1, MovedAndAccounted
    <3>6. CASE UNCHANGED files /\ ~(<<old.plan, id>> \in files /\ ~Artifacts!OnShelf(id))
      <4> SUFFICES ASSUME ~abandoned', NEW f \in files'
                   PROVE  Artifacts!OnShelf(f[2])' \/ OnRecord(f[2])' \/ InMove(f[2])'
        BY DEF Accounted
      <4>1. Artifacts!OnShelf(f[2]) \/ OnRecord(f[2]) \/ InMove(f[2])
        BY <2>1, <3>6 DEF TrashInv, Accounted
      <4>2. Artifacts!OnShelf(f[2]) => Artifacts!OnShelf(f[2])'
        BY <3>6 DEF Artifacts!OnShelf
      <4>3. OnRecord(f[2]) => OnRecord(f[2])'
        BY <2>1, <3>6 DEF OnRecord
      <4>4. ASSUME InMove(f[2]), ~Artifacts!OnShelf(f[2]) PROVE InMove(f[2])'
        <5>1. PICK d \in Keepers : /\ keeper[d].step \in {"moving", "undoing"}
                                   /\ f[2] \in Artifacts!Range(keeper[d].moved)
                                   /\ <<keeper[d].plan, f[2]>> \in files
          BY <4>4 DEF InMove
        <5>2. CASE d # k
          BY <1>3, <3>6, <5>1, <5>2 DEF InMove
        <5>3. CASE d = k
          <6>1. f[2] # id
            BY <3>6, <4>4, <5>1, <5>3
          <6> QED BY <3>3, <3>4, <3>6, <5>1, <5>3, <6>1 DEF InMove
        <5> QED BY <5>2, <5>3
      <4> QED BY <4>1, <4>2, <4>3, <4>4
    <3> QED BY <1>8, <2>3, <3>1, <3>5, <3>6 DEF Artifacts!UndoMove
  <2> QED BY <2>2, <2>3
<1>9. CASE Artifacts!RestoreNext(k)
  <2>1. old.step = "restoring" /\ UNCHANGED <<receipts, abandoned>>
    BY <1>9 DEF Artifacts!RestoreNext, Artifacts!Is
  <2>2. CASE UNCHANGED files
    BY <1>4, <2>1, <2>2, StillAccounted
  <2>3. CASE files' # files
    <3>1. PICK id : Artifacts!Move(id, old.receipt.plan, Artifacts!Shelf)
      BY <1>9, <2>3 DEF Artifacts!RestoreNext
    <3>2. Artifacts!OnShelf(id)'
      BY <3>1, Moved DEF Artifacts!OnShelf, Artifacts!Shelf
    <3> QED BY <1>3, <2>1, <3>1, <3>2, MovedAndAccounted
  <2> QED BY <2>2, <2>3
<1>10. CASE Artifacts!KeeperDies(k)
  <2>1. UNCHANGED <<files, receipts>> /\ (~abandoned' => ~abandoned /\ old.step \notin {"moving", "undoing"})
    BY <1>10 DEF Artifacts!KeeperDies
  <2>2. CASE abandoned'
    BY <2>2 DEF Accounted
  <2>3. CASE ~abandoned'
    BY <1>4, <2>1, <2>3, StillAccounted
  <2> QED BY <2>2, <2>3
<1> QED BY <1>5, <1>6, <1>7, <1>8, <1>9, <1>10 DEF KeeperStep

LEMMA TrashIsPlannedStep ==
  ASSUME RegistryInv, TrashInv, NEW k \in Keepers, KeeperStep(k)
  PROVE  TrashIsPlanned'
<1> DEFINE old == keeper[k]
<1>1. old.plan \in Plans
  BY DEF TrashInv, KeeperTypes, KeeperRecord
<1>2. ASSUME \A f \in files' : f \in files \/ f[1] = Artifacts!Shelf
      PROVE  TrashIsPlanned'
  BY <1>2 DEF TrashInv, TrashIsPlanned
<1>3. CASE Artifacts!MoveNext(k) /\ files' # files
  <2>1. PICK id : id = Artifacts!Id(Artifacts!NextInLine(k))
    OBVIOUS
  <2>2. /\ old.step = "moving" /\ Artifacts!Waiting(k) # {}
        /\ Artifacts!Move(id, Artifacts!Shelf, old.plan)
    BY <1>3, <2>1 DEF Artifacts!MoveNext, Artifacts!Is
  <2>3. Coherent(old.plan[2]) /\ id \in Artifacts!Candidates(old.plan)
    BY <2>1, <2>2, NextWaits DEF TrashInv, KeeperTypes
  <2>4. \A f \in files' : f \in files \/ f = <<old.plan, id>>
    BY <2>2, Moved
  <2> HIDE DEF old
  <2>5. ASSUME NEW f \in files', f[1] # Artifacts!Shelf
        PROVE  f[1] \in Plans /\ Coherent(f[1][2]) /\ f[2] \in Artifacts!Candidates(f[1])
    <3>1. CASE f \in files
      BY <2>5, <3>1 DEF TrashInv, TrashIsPlanned
    <3>2. CASE f = <<old.plan, id>>
      BY <1>1, <2>3, <3>2
    <3> QED BY <2>4, <3>1, <3>2
  <2> QED BY <2>5 DEF TrashIsPlanned
<1>4. CASE Artifacts!UndoMove(k) /\ files' # files
  <2>1. Artifacts!Move(Artifacts!Last(old.moved), old.plan, Artifacts!Shelf)
    BY <1>4 DEF Artifacts!UndoMove
  <2> QED BY <1>2, <2>1 DEF Artifacts!Move
<1>5. CASE Artifacts!RestoreNext(k) /\ files' # files
  <2>1. PICK id : Artifacts!Move(id, old.receipt.plan, Artifacts!Shelf)
    BY <1>5 DEF Artifacts!RestoreNext
  <2> QED BY <1>2, <2>1 DEF Artifacts!Move
<1>6. CASE files' = files
  BY <1>2, <1>6
<1> QED BY <1>3, <1>4, <1>5, <1>6 DEF KeeperStep, Artifacts!MakePlan, Artifacts!CheckPlan,
      Artifacts!WriteReceipt, Artifacts!StartRestore, Artifacts!KeeperDies

LEMMA TrashStep ==
  RegistryInv /\ TrashInv /\ [Artifacts!ShelfNext]_shelfVars => TrashInv'
<1> SUFFICES ASSUME RegistryInv, TrashInv, [Artifacts!ShelfNext]_shelfVars PROVE TrashInv'
  OBVIOUS
<1>1. CASE \E k \in Keepers : KeeperStep(k)
  BY <1>1, KeeperTypesStep, AccountedStep, TrashIsPlannedStep DEF TrashInv
<1>2. CASE UNCHANGED <<files, keeper, receipts, abandoned>>
  <2>1. KeeperTypes'
    BY <1>2 DEF TrashInv, KeeperTypes
  <2>2. \A id : InMove(id) => InMove(id)'
    BY <1>2 DEF InMove
  <2>3. Accounted'
    BY <1>2, <2>2, StillAccounted
  <2>4. TrashIsPlanned'
    BY <1>2 DEF TrashInv, TrashIsPlanned
  <2> QED BY <2>1, <2>3, <2>4 DEF TrashInv
<1>3. CASE Artifacts!RunRender
  <2>1. UNCHANGED <<keeper, receipts, abandoned>> /\ files \subseteq files'
    BY <1>3 DEF Artifacts!RunRender
  <2>2. \A f \in files' : f \in files \/ (f[1] = Artifacts!Shelf /\ Artifacts!OnShelf(f[2])')
    BY <1>3 DEF Artifacts!RunRender, Artifacts!OnShelf, Artifacts!Shelf
  <2>3. KeeperTypes'
    BY <2>1 DEF TrashInv, KeeperTypes
  <2>4. TrashIsPlanned'
    BY <2>2 DEF TrashInv, TrashIsPlanned
  <2>5. ASSUME ~abandoned', NEW f \in files'
        PROVE  Artifacts!OnShelf(f[2])' \/ OnRecord(f[2])' \/ InMove(f[2])'
    <3>1. CASE f \in files
      <4>1. Artifacts!OnShelf(f[2]) \/ OnRecord(f[2]) \/ InMove(f[2])
        BY <2>1, <2>5, <3>1 DEF TrashInv, Accounted
      <4>2. Artifacts!OnShelf(f[2]) => Artifacts!OnShelf(f[2])'
        BY <2>1 DEF Artifacts!OnShelf
      <4>3. OnRecord(f[2]) => OnRecord(f[2])'
        BY <2>1 DEF OnRecord
      <4>4. InMove(f[2]) => InMove(f[2])'
        BY <2>1 DEF InMove
      <4> QED BY <4>1, <4>2, <4>3, <4>4
    <3>2. CASE f \notin files
      BY <2>2, <3>2
    <3> QED BY <3>1, <3>2
  <2>6. Accounted'
    BY <2>5 DEF Accounted
  <2> QED BY <2>3, <2>4, <2>6 DEF TrashInv
<1>4. ASSUME \/ \E x \in Renders : Artifacts!StartRender(x)
             \/ Artifacts!ImportRows \/ Artifacts!AppendRow \/ Artifacts!FinishRender
             \/ Artifacts!RendererDies
      PROVE  UNCHANGED <<files, keeper, receipts, abandoned>>
  BY <1>4 DEF Artifacts!StartRender, Artifacts!ImportRows, Artifacts!AppendRow,
     Artifacts!FinishRender, Artifacts!RendererDies
<1>5. UNCHANGED shelfVars => UNCHANGED <<files, keeper, receipts, abandoned>>
  BY DEF shelfVars
<1> QED BY <1>1, <1>2, <1>3, <1>4, <1>5 DEF Artifacts!ShelfNext, KeeperStep

-----------------------------------------------------------------------------
(* What a plan protects: the rounds of plan_deletion end.                  *)

Spread(X, B) == B \cup UNION {Artifacts!Deps(r) : r \in {q \in X : Artifacts!Id(q) \in B}}

(* g is the protection after 0, 1, ... m rounds.                           *)
Rounds(X, g, m) ==
  g = [n \in 0 .. m |-> IF n = 0 THEN Roots ELSE Spread(X, g[n - 1])]

LEMMA RoundsExist == \A X : \A m \in Nat : \E g : Rounds(X, g, m)
<1> SUFFICES ASSUME NEW X, {m \in Nat : ~\E g : Rounds(X, g, m)} # {} PROVE FALSE
  OBVIOUS
<1> DEFINE T == {m \in Nat : ~\E g : Rounds(X, g, m)}
<1>1. PICK m \in T : \A j \in T : m <= j
  <2>1. T \in SUBSET Nat
    OBVIOUS
  <2> HIDE DEF T
  <2> QED BY <2>1, LeastNumber DEF T
<1>2. CASE m = 0
  <2>1. Rounds(X, [n \in 0 .. 0 |-> Roots], 0)
    BY DEF Rounds
  <2> QED BY <1>1, <1>2, <2>1
<1>3. CASE m # 0
  <2>1. m - 1 \in Nat /\ m - 1 \notin T
    BY <1>1, <1>3
  <2>2. PICK h : Rounds(X, h, m - 1)
    BY <2>1
  <2> DEFINE g == [n \in 0 .. m |-> IF n = m THEN Spread(X, h[m - 1]) ELSE h[n]]
  <2>3. h[0] = Roots /\ \A n \in 1 .. m - 1 : h[n] = Spread(X, h[n - 1])
    <3>1. 0 \in 0 .. m - 1 /\ \A n \in 1 .. m - 1 : n \in 0 .. m - 1 /\ n # 0
      BY <1>1, <1>3
    <3> HIDE DEF g, T
    <3> QED BY <2>2, <3>1 DEF Rounds
  <2>4. \A n \in 0 .. m : g[n] = IF n = 0 THEN Roots ELSE Spread(X, g[n - 1])
    <3> SUFFICES ASSUME NEW n \in 0 .. m PROVE g[n] = IF n = 0 THEN Roots ELSE Spread(X, g[n - 1])
      OBVIOUS
    <3>1. CASE n = 0
      BY <1>3, <2>3, <3>1
    <3>2. CASE n # 0
      <4>1. n - 1 \in 0 .. m /\ n - 1 # m
        BY <1>1, <3>2
      <4>2. g[n - 1] = h[n - 1]
        BY <4>1
      <4>3. CASE n = m
        BY <3>2, <4>2, <4>3
      <4>4. CASE n # m
        <5>1. n \in 1 .. m - 1
          BY <1>1, <3>2, <4>4
        <5> QED BY <2>3, <3>2, <4>2, <4>4, <5>1
      <4> QED BY <4>3, <4>4
    <3> QED BY <3>1, <3>2
  <2>5. Rounds(X, g, m)
    <3>1. g = [n \in 0 .. m |-> g[n]]
      OBVIOUS
    <3> HIDE DEF g
    <3> QED BY <2>4, <3>1 DEF Rounds
  <2> QED BY <1>1, <2>5
<1> QED BY <1>2, <1>3

(* After as many rounds as there are rows nothing more is protected.       *)
LEMMA ProtectionIsClosed ==
  ASSUME NEW X \in SUBSET Numbers
  PROVE  /\ Roots \subseteq Artifacts!Protect(X)
         /\ \A r \in X : Artifacts!Id(r) \in Artifacts!Protect(X) =>
              Artifacts!Deps(r) \subseteq Artifacts!Protect(X)
<1> DEFINE N == Artifacts!Cardinality(X)
           g == CHOOSE g : Rounds(X, g, N)
           R(n) == {q \in X : Artifacts!Id(q) \in g[n]}
<1>1. N = Cardinality(X) /\ N \in Nat /\ IsFiniteSet(X)
  BY SameCardinality, IdsOfRows
<1>2. Artifacts!Protect(X) = g[N]
  BY DEF Artifacts!Protect, Rounds, Spread
<1>3. Rounds(X, g, N)
  <2> HIDE DEF N
  <2>1. \E f : Rounds(X, f, N)
    BY <1>1, RoundsExist
  <2> QED BY <2>1
<1> HIDE DEF N, g
<1>4. g[0] = Roots /\ \A n \in 0 .. N - 1 : g[n + 1] = Spread(X, g[n])
  <2>1. 0 \in 0 .. N /\ \A n \in 0 .. N - 1 : n + 1 \in 0 .. N /\ n + 1 # 0 /\ (n + 1) - 1 = n
    BY <1>1
  <2> QED BY <1>3, <2>1 DEF Rounds
<1>5. \A n \in 0 .. N - 1 :
        /\ g[n] \subseteq g[n + 1] /\ R(n) \subseteq R(n + 1)
        /\ \A r \in R(n) : Artifacts!Deps(r) \subseteq g[n + 1]
  BY <1>4 DEF Spread
<1>6. \A n \in 0 .. N : Roots \subseteq g[n]
  <2> DEFINE T == {n \in 0 .. N : ~(Roots \subseteq g[n])}
  <2> SUFFICES ASSUME T # {} PROVE FALSE
    OBVIOUS
  <2>1. PICK n \in T : \A j \in T : n <= j
    <3>1. T \in SUBSET Nat
      BY <1>1
    <3> HIDE DEF T
    <3> QED BY <3>1, LeastNumber
  <2>2. n # 0
    BY <1>4, <2>1
  <2>3. n - 1 \in 0 .. N - 1 /\ n - 1 \notin T /\ n - 1 \in 0 .. N
    BY <1>1, <2>1, <2>2
  <2>4. (n - 1) + 1 = n
    BY <1>1, <2>1
  <2>5. g[n - 1] \subseteq g[n]
    BY <1>5, <2>3, <2>4
  <2> QED BY <2>1, <2>3, <2>5
<1>7. CASE N = 0
  <2>1. X = {}
    BY <1>1, <1>7, FS_EmptySet
  <2> QED BY <1>1, <1>2, <1>6, <2>1
<1>8. ASSUME NEW n \in 0 .. N - 1, R(n) = R(n + 1)
      PROVE  \A r \in X : Artifacts!Id(r) \in g[N] => Artifacts!Deps(r) \subseteq g[N]
  <2>1. Spread(X, g[n + 1]) = g[n + 1]
    BY <1>4, <1>8 DEF Spread
  <2> DEFINE T == {j \in n + 1 .. N : g[j] # g[n + 1]}
  <2>2. T = {}
    <3> SUFFICES ASSUME T # {} PROVE FALSE
      OBVIOUS
    <3>1. PICK j \in T : \A i \in T : j <= i
      <4>1. T \in SUBSET Nat
        BY <1>1
      <4> HIDE DEF T
      <4> QED BY <4>1, LeastNumber
    <3>2. j # n + 1
      BY <3>1
    <3>3. /\ j - 1 \in n + 1 .. N /\ j - 1 \in 0 .. N - 1 /\ (j - 1) + 1 = j /\ ~(j <= j - 1)
      BY <1>1, <3>1, <3>2
    <3>4. g[j - 1] = g[n + 1]
      BY <3>1, <3>3
    <3>5. g[j] = Spread(X, g[j - 1])
      BY <1>4, <3>3
    <3> QED BY <2>1, <3>1, <3>4, <3>5
  <2>3. N \in n + 1 .. N
    BY <1>1
  <2>4. g[N] = g[n + 1]
    BY <2>2, <2>3
  <2> QED BY <2>1, <2>4 DEF Spread
<1>9. CASE N # 0
  <2> SUFFICES ASSUME \A n \in 0 .. N - 1 : R(n) # R(n + 1) PROVE FALSE
    BY <1>1, <1>2, <1>6, <1>8
  <2>1. \A n \in 0 .. N : R(n) \in SUBSET X /\ IsFiniteSet(R(n)) /\ Cardinality(R(n)) \in Nat
    <3>1. ASSUME NEW n \in 0 .. N PROVE IsFiniteSet(R(n)) /\ Cardinality(R(n)) \in Nat
      <4>1. R(n) \in SUBSET X
        OBVIOUS
      <4> HIDE DEF R
      <4> QED BY <1>1, <4>1, FS_Subset, FS_CardinalityType
    <3> QED BY <3>1
  <2>2. R(0) # {}
    <3> SUFFICES ASSUME R(0) = {} PROVE FALSE
      OBVIOUS
    <3>1. 0 \in 0 .. N - 1 /\ 0 + 1 = 1
      BY <1>1, <1>9
    <3>2. g[1] = g[0]
      BY <1>4, <3>1 DEF Spread
    <3>3. R(0) = R(1)
      BY <3>2
    <3> QED BY <3>1, <3>3
  <2> DEFINE T == {n \in 0 .. N : Cardinality(R(n)) <= n}
  <2>3. T = {}
    <3> SUFFICES ASSUME T # {} PROVE FALSE
      OBVIOUS
    <3>1. PICK n \in T : \A i \in T : n <= i
      <4>1. T \in SUBSET Nat
        BY <1>1
      <4> HIDE DEF T
      <4> QED BY <4>1, LeastNumber
    <3>2. n \in 0 .. N /\ Cardinality(R(n)) <= n
      BY <3>1
    <3>3. n # 0
      <4> SUFFICES ASSUME n = 0 PROVE FALSE
        OBVIOUS
      <4>1. 0 \in 0 .. N /\ Cardinality(R(0)) <= 0
        BY <3>2
      <4>2. IsFiniteSet(R(0)) /\ Cardinality(R(0)) = 0
        BY <2>1, <4>1
      <4> HIDE DEF R
      <4> QED BY <2>2, <4>2, FS_EmptySet
    <3>4. n - 1 \in 0 .. N /\ n - 1 \in 0 .. N - 1 /\ (n - 1) + 1 = n /\ ~(n <= n - 1)
      BY <1>1, <3>2, <3>3
    <3>5. R(n - 1) \in SUBSET R(n) /\ R(n - 1) # R(n)
      BY <1>5, <3>4
    <3>6. Cardinality(R(n - 1)) < Cardinality(R(n))
      <4>1. IsFiniteSet(R(n)) /\ Cardinality(R(n)) \in Nat /\ Cardinality(R(n - 1)) \in Nat
        BY <2>1, <3>2, <3>4
      <4> HIDE DEF R
      <4>2. Cardinality(R(n - 1)) <= Cardinality(R(n)) /\ Cardinality(R(n - 1)) # Cardinality(R(n))
        BY <3>5, <4>1, FS_Subset
      <4> QED BY <4>1, <4>2
    <3>7. ~(Cardinality(R(n - 1)) <= n - 1)
      <4>1. n - 1 \notin T
        BY <3>1, <3>4
      <4> QED BY <3>4, <4>1
    <3>8. Cardinality(R(n - 1)) \in Nat /\ Cardinality(R(n)) \in Nat /\ n \in Nat
      BY <1>1, <2>1, <3>2, <3>4
    <3> HIDE DEF R, T
    <3> QED BY <3>2, <3>6, <3>7, <3>8
  <2>4. N \in 0 .. N
    BY <1>1
  <2>5. Cardinality(R(N)) <= N
    <3>1. R(N) \in SUBSET X
      OBVIOUS
    <3> HIDE DEF R
    <3> QED BY <1>1, <3>1, FS_Subset
  <2> QED BY <2>3, <2>4, <2>5
<1> QED BY <1>7, <1>9

-----------------------------------------------------------------------------
(* The catalog of assets.                                                  *)

LEMMA FirstIsOne ==
  ASSUME NEW records, records # {}, \A r \in records : idOrder[r.source] \in Nat
  PROVE  Assets!FirstOf(records) \in records
<1> DEFINE T == {idOrder[r.source] : r \in records}
<1>1. T \in SUBSET Nat /\ T # {}
  OBVIOUS
<1>2. PICK n \in T : \A i \in T : n <= i
  <2> HIDE DEF T
  <2> QED BY <1>1, LeastNumber
<1>3. PICK r \in records : n = idOrder[r.source]
  BY <1>2
<1>4. \A o \in records : idOrder[r.source] <= idOrder[o.source]
  BY <1>2, <1>3
<1> QED BY <1>3, <1>4 DEF Assets!FirstOf

(* What a record has in common with a candidate, the strongest kind first. *)
Alike(k, x, r) ==
  CASE k = 1 -> Assets!RangesMet(x, r) # {}
    [] k = 2 -> r.source = x.source
    [] k = 3 -> Assets!SameSourceKey(r.descriptor) = Assets!SameSourceKey(x.descriptor)
    [] k = 4 -> r.evidence.perceptual \cap x.evidence.perceptual # {}
    [] OTHER -> r.evidence.local \cap x.evidence.local # {}

Kinds == 1 .. 5
NameOf(k) ==
  CASE k = 1 -> "selected_range_overlap" [] k = 2 -> "exact_bytes" [] k = 3 -> "same_source"
    [] k = 4 -> "perceptual_match" [] OTHER -> "local_feature_match"

Duplicate(x, records) == \E k \in Kinds : \E r \in records : Alike(k, x, r)

LEMMA MatchesAreRead ==
  ASSUME NEW x, NEW records
  PROVE  /\ DOMAIN Assets!Matches(x, records) = Kinds
         /\ \A k \in Kinds : /\ Assets!Matches(x, records)[k].kind = NameOf(k)
                             /\ Assets!Matches(x, records)[k].with =
                                  {r \in records : Alike(k, x, r)}
<1>1. DOMAIN Assets!Matches(x, records) = Kinds
  BY DEF Assets!Matches, Kinds
<1>2. ASSUME NEW k \in Kinds
      PROVE  /\ Assets!Matches(x, records)[k].kind = NameOf(k)
             /\ Assets!Matches(x, records)[k].with = {r \in records : Alike(k, x, r)}
  <2>1. k \in {1, 2, 3, 4, 5}
    BY DEF Kinds
  <2>2. CASE k = 1
    BY <2>2 DEF Assets!Matches, NameOf, Alike
  <2>3. CASE k = 2
    BY <2>3 DEF Assets!Matches, NameOf, Alike
  <2>4. CASE k = 3
    BY <2>4 DEF Assets!Matches, NameOf, Alike
  <2>5. CASE k = 4
    BY <2>5 DEF Assets!Matches, NameOf, Alike
  <2>6. CASE k = 5
    BY <2>6 DEF Assets!Matches, NameOf, Alike
  <2> QED BY <2>1, <2>2, <2>3, <2>4, <2>5, <2>6
<1> QED BY <1>1, <1>2

(* The decision names the strongest kind that there is, and the first      *)
(* record that is alike in that.                                           *)
DecidedBy(k, x, records, d) ==
  /\ d.kind = NameOf(k) /\ d.matched \in records /\ Alike(k, x, d.matched)
  /\ \A j \in Kinds : j < k => \A r \in records : ~Alike(j, x, r)
  /\ d.features = CASE k = 4 -> d.matched.evidence.perceptual \cap x.evidence.perceptual
                    [] k = 5 -> d.matched.evidence.local \cap x.evidence.local
                    [] OTHER -> {}
  /\ d.ranges = IF k = 1 THEN Assets!RangesMet(x, d.matched) ELSE {}

LEMMA DecisionIsRead ==
  ASSUME NEW x, NEW c, NEW package, \A r \in c.records : idOrder[r.source] \in Nat,
         NEW d, d = Assets!DuplicateDecision(x, c, package)
  PROVE  /\ d.package = package
         /\ \/ d.kind = "distinct" /\ ~Duplicate(x, c.records)
            \/ \E k \in Kinds : DecidedBy(k, x, c.records, d)
<1> DEFINE matches == Assets!Matches(x, c.records)
           found == {i \in DOMAIN matches : matches[i].with # {}}
<1>1. DOMAIN matches = Kinds
  BY MatchesAreRead
<1>2. \A k \in Kinds : /\ matches[k].kind = NameOf(k)
                       /\ matches[k].with = {r \in c.records : Alike(k, x, r)}
  BY MatchesAreRead
<1>3. d = IF found = {} THEN [package |-> package, kind |-> "distinct", matched |-> Assets!None,
                              features |-> {}, ranges |-> {}]
          ELSE LET m == matches[CHOOSE i \in found : \A j \in found : i <= j]
                   r == Assets!FirstOf(m.with) IN
               [package |-> package, kind |-> m.kind, matched |-> r,
                features |-> CASE m.kind = "perceptual_match" ->
                                    r.evidence.perceptual \cap x.evidence.perceptual
                               [] m.kind = "local_feature_match" ->
                                    r.evidence.local \cap x.evidence.local
                               [] OTHER -> {},
                ranges |-> IF m.kind = "selected_range_overlap"
                           THEN Assets!RangesMet(x, r) ELSE {}]
  BY DEF Assets!DuplicateDecision
<1>4. found = {i \in Kinds : {r \in c.records : Alike(i, x, r)} # {}}
  BY <1>1, <1>2
<1> HIDE DEF matches, found
<1>5. CASE found = {}
  <2>1. d.kind = "distinct" /\ d.package = package
    BY <1>3, <1>5
  <2>2. ~Duplicate(x, c.records)
    BY <1>4, <1>5 DEF Duplicate
  <2> QED BY <2>1, <2>2
<1>6. CASE found # {}
  <2> DEFINE k == CHOOSE i \in found : \A j \in found : i <= j
             r == Assets!FirstOf(matches[k].with)
  <2>1. found \in SUBSET Nat
    BY <1>4 DEF Kinds
  <2>2. k \in found /\ \A j \in found : k <= j
    BY <1>6, <2>1, LeastNumber
  <2>3. k \in Kinds /\ matches[k].with # {} /\ matches[k].with \subseteq c.records
    BY <1>2, <1>4, <2>2
  <2>4. r \in matches[k].with
    <3> HIDE DEF k
    <3> QED BY <2>3, FirstIsOne
  <2>5. d = [package |-> package, kind |-> matches[k].kind, matched |-> r,
             features |-> CASE matches[k].kind = "perceptual_match" ->
                                 r.evidence.perceptual \cap x.evidence.perceptual
                            [] matches[k].kind = "local_feature_match" ->
                                 r.evidence.local \cap x.evidence.local
                            [] OTHER -> {},
             ranges |-> IF matches[k].kind = "selected_range_overlap"
                        THEN Assets!RangesMet(x, r) ELSE {}]
    BY <1>3, <1>6
  <2> HIDE DEF k, r
  <2>6. matches[k].kind = NameOf(k) /\ r \in c.records /\ Alike(k, x, r)
    BY <1>2, <2>3, <2>4
  <2>7. \A j \in Kinds : j < k => \A o \in c.records : ~Alike(j, x, o)
    <3> SUFFICES ASSUME NEW j \in Kinds, j < k, NEW o \in c.records, Alike(j, x, o) PROVE FALSE
      OBVIOUS
    <3>1. j \in found
      BY <1>4
    <3> QED BY <2>2, <2>3, <3>1 DEF Kinds
  <2>8. /\ NameOf(k) = "perceptual_match" <=> k = 4
        /\ NameOf(k) = "local_feature_match" <=> k = 5
        /\ NameOf(k) = "selected_range_overlap" <=> k = 1
    BY <2>3 DEF Kinds, NameOf
  <2>9. /\ d.kind = NameOf(k) /\ d.package = package /\ d.matched = r
        /\ d.features = CASE k = 4 -> r.evidence.perceptual \cap x.evidence.perceptual
                          [] k = 5 -> r.evidence.local \cap x.evidence.local
                          [] OTHER -> {}
        /\ d.ranges = IF k = 1 THEN Assets!RangesMet(x, r) ELSE {}
    BY <2>5, <2>6, <2>8
  <2>10. DecidedBy(k, x, c.records, d)
    BY <2>6, <2>7, <2>9 DEF DecidedBy
  <2> QED BY <2>3, <2>9, <2>10
<1> QED BY <1>5, <1>6

(* A catalog that compilations make: records that hold and have nothing in *)
(* common, and a log whose candidates each have something in common with   *)
(* one of them.                                                            *)
NothingInCommon(r, o) ==
  /\ r.source # o.source
  /\ Assets!SameSourceKey(r.descriptor) # Assets!SameSourceKey(o.descriptor)
  /\ r.evidence.perceptual \cap o.evidence.perceptual = {}
  /\ r.evidence.local \cap o.evidence.local = {}

SoundCatalog(c) ==
  /\ c = [policy |-> c.policy, records |-> c.records, blocked |-> c.blocked]
  /\ c.policy \in AssetPolicies
  /\ \A r \in c.records : Assets!RecordHolds(r, c.policy)
  /\ \A r, o \in c.records : r # o => NothingInCommon(r, o)
  /\ \A d \in DOMAIN c.blocked :
       /\ Assets!BlockedHolds(d, c.records)
       /\ Duplicate(Assets!CandidateFromPackage(d.package, c.policy), c.records)

Ordered == \A s \in DOMAIN Manifest : idOrder[s] \in Nat

LEMMA SoundIsSomething == ASSUME NEW c, SoundCatalog(c) PROVE c # Assets!None
<1>1. DOMAIN c = {"policy", "records", "blocked"}
  BY DEF SoundCatalog
<1>2. DOMAIN Assets!None = {"kind"}
  BY DEF Assets!None
<1> QED BY <1>1, <1>2

LEMMA CatalogIsRead ==
  ASSUME NEW c, NEW p
  PROVE  /\ Assets!Chain(Assets!CatalogRows(c, p), 5)
         /\ Assets!FirstFault(Assets!CatalogRows(c, p)) = Assets!Fine <=>
              /\ c.policy = p
              /\ \A r, o \in c.records : r # o => r.source # o.source
              /\ \A r \in c.records : r.source \in DOMAIN Manifest /\ Assets!RecordHolds(r, p)
              /\ \A d \in DOMAIN c.blocked : Assets!BlockedHolds(d, c.records)
<1> DEFINE a1 == \E r, o \in c.records : r # o /\ r.source = o.source
           a2 == \E r \in c.records : r.source \notin DOMAIN Manifest
           a3 == \E r \in c.records : ~Assets!RecordHolds(r, p)
           a4 == \E d \in Assets!BagToSet(c.blocked) : ~Assets!BlockedHolds(d, c.records)
           rs == <<<<c.policy # p, "ASSET_CATALOG_INVALID">>, <<a1, "ASSET_CATALOG_INVALID">>,
                   <<a2, "UNTRUSTED_REPLAY_EVIDENCE">>, <<a3, "ASSET_CATALOG_INVALID">>,
                   <<a4, "ASSET_CATALOG_INVALID">>>>
<1>1. rs = Assets!CatalogRows(c, p)
  BY DEF Assets!CatalogRows
<1> HIDE DEF a1, a2, a3, a4
<1>2. Assets!Chain(rs, 5)
  BY DEF Assets!Chain, Assets!Fine
<1>3. (\A i \in 1 .. 5 : ~rs[i][1]) <=> c.policy = p /\ ~a1 /\ ~a2 /\ ~a3 /\ ~a4
  <2>1. \A i : i \in 1 .. 5 <=> i = 1 \/ i = 2 \/ i = 3 \/ i = 4 \/ i = 5
    OBVIOUS
  <2>2. /\ rs[1][1] <=> c.policy # p
        /\ rs[2][1] <=> a1
        /\ rs[3][1] <=> a2
        /\ rs[4][1] <=> a3
        /\ rs[5][1] <=> a4
    OBVIOUS
  <2> HIDE DEF rs
  <2> QED BY <2>1, <2>2
<1> HIDE DEF rs
<1>4. Assets!FirstFault(rs) = Assets!Fine <=> \A i \in 1 .. 5 : ~rs[i][1]
  BY <1>2, Assets!Accepted
<1>5. Assets!FirstFault(rs) = Assets!Fine <=> c.policy = p /\ ~a1 /\ ~a2 /\ ~a3 /\ ~a4
  BY <1>3, <1>4
<1>6. c.policy = p /\ ~a1 /\ ~a2 /\ ~a3 /\ ~a4 <=>
        /\ c.policy = p
        /\ \A r, o \in c.records : r # o => r.source # o.source
        /\ \A r \in c.records : r.source \in DOMAIN Manifest /\ Assets!RecordHolds(r, p)
        /\ \A d \in DOMAIN c.blocked : Assets!BlockedHolds(d, c.records)
  BY DEF a1, a2, a3, a4, Assets!BagToSet
<1> QED BY <1>1, <1>2, <1>5, <1>6

LEMMA SoundIsAccepted ==
  ASSUME NEW c, SoundCatalog(c)
  PROVE  Assets!FirstFault(Assets!CatalogRows(c, c.policy)) = Assets!Fine
<1>1. \A r \in c.records : r.source \in DOMAIN Manifest /\ Assets!RecordHolds(r, c.policy)
  BY DEF SoundCatalog, Assets!RecordHolds
<1>2. \A r, o \in c.records : r # o => r.source # o.source
  BY DEF SoundCatalog, NothingInCommon
<1> QED BY <1>1, <1>2, CatalogIsRead DEF SoundCatalog

(* Ranges that follow one another are all in order.                        *)
LEMMA RangesAreInOrder ==
  ASSUME NEW rs \in Seq([start : Nat, end : Nat]),
         \A i \in DOMAIN rs : rs[i].start < rs[i].end,
         \A i \in 1 .. Len(rs) - 1 : rs[i].end <= rs[i + 1].start
  PROVE  \A i, j \in DOMAIN rs : i < j => rs[i].end <= rs[j].start
<1>1. DOMAIN rs = 1 .. Len(rs) /\ Len(rs) \in Nat
  OBVIOUS
<1>2. \A i \in DOMAIN rs : rs[i].start \in Nat /\ rs[i].end \in Nat
  <2>1. \A i \in DOMAIN rs : rs[i] \in [start : Nat, end : Nat]
    BY LenProperties, ElementOfSeq
  <2>2. \A r \in [start : Nat, end : Nat] : r.start \in Nat /\ r.end \in Nat
    OBVIOUS
  <2> QED BY <2>1, <2>2
<1> SUFFICES ASSUME NEW i \in DOMAIN rs, NEW n \in DOMAIN rs, i < n, ~(rs[i].end <= rs[n].start)
             PROVE  FALSE
  OBVIOUS
<1> DEFINE T == {k \in DOMAIN rs : i < k /\ ~(rs[i].end <= rs[k].start)}
<1>3. T \in SUBSET Nat /\ n \in T
  BY <1>1
<1> HIDE DEF T
<1>4. PICK j \in T : \A k \in T : j <= k
  BY <1>3, LeastNumber
<1> USE DEF T
<1>5. /\ j - 1 \in DOMAIN rs /\ j - 1 \in 1 .. Len(rs) - 1 /\ (j - 1) + 1 = j
      /\ j \in Nat /\ i \in Nat
  <2>1. i \in 1 .. Len(rs) /\ j \in 1 .. Len(rs) /\ i < j
    BY <1>1, <1>4
  <2>2. \A top, low, up \in Int : 1 <= low /\ low < up /\ up <= top =>
          up - 1 \in 1 .. top /\ up - 1 \in 1 .. top - 1 /\ (up - 1) + 1 = up
    OBVIOUS
  <2>3. i \in Nat /\ j \in Nat
    BY <1>1, <2>1
  <2> HIDE DEF T
  <2> QED BY <1>1, <2>1, <2>2, <2>3
<1>6. rs[j - 1].end <= rs[j].start
  <2>1. rs[j - 1].end <= rs[(j - 1) + 1].start
    BY <1>5
  <2> QED BY <1>5, <2>1
<1>7. CASE j - 1 = i
  BY <1>4, <1>6, <1>7
<1>8. CASE j - 1 # i
  <2>1. i < j - 1 /\ ~(j <= j - 1)
    BY <1>4, <1>5, <1>8
  <2>2. rs[i].end <= rs[j - 1].start
    BY <1>4, <1>5, <2>1
  <2>3. /\ rs[i].end \in Nat /\ rs[j - 1].start \in Nat /\ rs[j - 1].end \in Nat
        /\ rs[j].start \in Nat
        /\ rs[j - 1].start < rs[j - 1].end
    BY <1>2, <1>5
  <2>4. \A a, b, c, d \in Nat : a <= b /\ b < c /\ c <= d => a <= d
    OBVIOUS
  <2>5. rs[i].end <= rs[j].start
    BY <1>6, <2>2, <2>3, <2>4
  <2> QED BY <1>4, <2>5
<1> QED BY <1>7, <1>8

(* What a compilation that is not refused was given.                       *)
LEMMA CompiledIsRead ==
  ASSUME NEW x, NEW p, NEW pinned,
      Assets!FirstFault(Assets!CompileRows(x, p, pinned)) = Assets!Fine
  PROVE  /\ Assets!FirstFault(Assets!CatalogRows(catalog, p)) = Assets!Fine
         /\ x.source \in DOMAIN Manifest /\ Manifest[x.source].descriptor = x.descriptor
         /\ Assets!Allowed(p, x.meaning) /\ Assets!SoundReview(x)
         /\ Assets!RangesFit(Manifest[x.source], x.ranges)
<1> DEFINE known == x.source \in DOMAIN Manifest
           a == Assets!ManifestRows(pinned)
           b == <<<<"bytes" \in x.wrong \/ "project" \in x.wrong, "ASSET_INPUT_INVALID">>>>
           c == Assets!CatalogRows(catalog, p)
           d == <<<<"descriptor" \in x.wrong, "SOURCE_DESCRIPTOR_INVALID">>>>
           e == Assets!EvidenceRows(x)
           f == Assets!FingerprintRows(x)
           g == Assets!DeclarationRows(x, p)
<1>1. /\ Assets!CompileRows(x, p, pinned) =
           Assets!Then(Assets!Then(Assets!Then(
             Assets!Then(Assets!Then(Assets!Then(a, b), c), d), e), f), g)
  BY DEF Assets!CompileRows, Assets!Then
<1>2. Assets!IsChain(a) /\ Assets!IsChain(b) /\ Assets!IsChain(d)
  <2>1. Assets!Chain(a, 1) /\ Assets!Chain(b, 1) /\ Assets!Chain(d, 1)
    BY DEF Assets!ManifestRows, Assets!Chain, Assets!Fine
  <2> QED BY <2>1 DEF Assets!IsChain
<1>3. Assets!IsChain(c)
  BY CatalogIsRead DEF Assets!IsChain
<1>4. /\ Assets!IsChain(e)
      /\ Assets!Clear(e) => known /\ Manifest[x.source].descriptor = x.descriptor
  <2>1. Assets!Chain(e, 2)
    BY DEF Assets!EvidenceRows, Assets!Chain, Assets!Fine
  <2>2. ~e[1][1] /\ ~e[2][1] => known /\ Manifest[x.source].descriptor = x.descriptor
    BY DEF Assets!EvidenceRows
  <2> HIDE DEF e
  <2>3. Assets!IsChain(e) /\ (Assets!Clear(e) => \A i \in 1 .. 2 : ~e[i][1])
    BY <2>1, Assets!ChainClear
  <2> QED BY <2>2, <2>3
<1>5. Assets!IsChain(f)
  <2>1. Assets!Chain(f, 1)
    BY DEF Assets!FingerprintRows, Assets!Chain, Assets!Fine
  <2> QED BY <2>1 DEF Assets!IsChain
<1>6. /\ Assets!IsChain(g)
      /\ Assets!Clear(g) => /\ Assets!Allowed(p, x.meaning) /\ Assets!SoundReview(x)
                            /\ known => Assets!RangesFit(Manifest[x.source], x.ranges)
  <2>1. Assets!Chain(g, 3)
    BY DEF Assets!DeclarationRows, Assets!Chain, Assets!Fine
  <2>2. ~g[1][1] /\ ~g[2][1] /\ ~g[3][1] =>
          /\ Assets!Allowed(p, x.meaning) /\ Assets!SoundReview(x)
          /\ known => Assets!RangesFit(Manifest[x.source], x.ranges)
    BY DEF Assets!DeclarationRows
  <2> HIDE DEF g
  <2>3. Assets!IsChain(g) /\ (Assets!Clear(g) => \A i \in 1 .. 3 : ~g[i][1])
    BY <2>1, Assets!ChainClear
  <2> QED BY <2>2, <2>3
<1> HIDE DEF a, b, c, d, e, f, g
<1>7. Assets!Clear(c) /\ Assets!Clear(e) /\ Assets!Clear(g)
  BY <1>1, <1>2, <1>3, <1>4, <1>5, <1>6, Assets!ThenIsChain, Assets!AcceptedIsClear
<1>8. Assets!FirstFault(c) = Assets!Fine
  BY <1>3, <1>7, Assets!AcceptedIsClear
<1> QED BY <1>4, <1>6, <1>7, <1>8 DEF c

(* Its candidate can be a record, and its package can be loaded again.     *)
LEMMA CandidateHolds ==
  ASSUME NEW x \in AssetInputs, NEW p,
         x.source \in DOMAIN Manifest, Manifest[x.source].descriptor = x.descriptor,
         Assets!Allowed(p, x.meaning), Assets!SoundReview(x),
         Assets!RangesFit(Manifest[x.source], x.ranges)
  PROVE  /\ Assets!RecordHolds(Assets!CandidateRecord(x, p), p)
         /\ Assets!PackageLoads(Assets!PackageOf(x, p), x.source, p)
         /\ Assets!PackageOf(x, p).source = x.source /\ Assets!PackageOf(x, p).policy = p
         /\ Assets!CandidateFromPackage(Assets!PackageOf(x, p), p) = Assets!CandidateRecord(x, p)
         /\ Assets!CandidateRecord(x, p).source = x.source
<1> DEFINE e == Manifest[x.source]
           y == Assets!CandidateRecord(x, p)
           package == Assets!PackageOf(x, p)
<1>1. /\ y.source = x.source /\ y.evidence = e /\ y.descriptor = x.descriptor
      /\ y.family = Assets!VisualFamily(p, e) /\ y.ranges = x.ranges /\ y.meaning = x.meaning
  BY DEF Assets!CandidateRecord
<1>2. /\ package.policy = p /\ package.source = x.source /\ package.descriptor = x.descriptor
      /\ package.meaning = x.meaning /\ package.evidence = e /\ package.ranges = x.ranges
      /\ package.audio = x.audio
  BY DEF Assets!PackageOf
<1>3. Assets!RecordRangesHold(e, x.ranges)
  <2>1. /\ e.media \in {"image", "video", "document", "audio"}
        /\ x.ranges \in Seq([start : Nat, end : Nat])
    BY AssetsAssumption
  <2>2. \A i, j \in DOMAIN x.ranges : i < j => x.ranges[i].end <= x.ranges[j].start
    BY <2>1, RangesAreInOrder DEF Assets!RangesFit
  <2>3. e.media \notin {"video", "audio"} => x.ranges = <<>>
    BY <2>1 DEF Assets!RangesFit
  <2> QED BY <2>2, <2>3 DEF Assets!RangesFit, Assets!RecordRangesHold
<1>4. Assets!RecordHolds(y, p)
  <2> HIDE DEF y
  <2> QED BY <1>1, <1>3 DEF Assets!RecordHolds
<1>5. Assets!PackageLoads(package, x.source, p)
  <2> HIDE DEF package
  <2> QED BY <1>2 DEF Assets!PackageLoads, Assets!SoundReview
<1>6. Assets!CandidateFromPackage(package, p) = y
  <2> HIDE DEF package
  <2> QED BY <1>2 DEF Assets!CandidateFromPackage, Assets!CandidateRecord
<1> QED BY <1>1, <1>2, <1>4, <1>5, <1>6

LEMMA SoundIsOrdered ==
  ASSUME NEW c, SoundCatalog(c), Ordered
  PROVE  \A r \in c.records : idOrder[r.source] \in Nat
BY DEF SoundCatalog, Ordered, Assets!RecordHolds

LEMMA MoreDuplicates ==
  ASSUME NEW x, NEW S, NEW T, S \subseteq T, Duplicate(x, S) PROVE Duplicate(x, T)
BY DEF Duplicate

(* A candidate that has nothing in common with a record can be let in.     *)
LEMMA ProvisionalIsSound ==
  ASSUME SoundCatalog(catalog), NEW y, Assets!RecordHolds(y, catalog.policy),
         ~Duplicate(y, catalog.records)
  PROVE  SoundCatalog(Assets!Provisional(y)) /\ Assets!Provisional(y).policy = catalog.policy
<1> DEFINE c == Assets!Provisional(y)
<1>1. /\ c = [policy |-> c.policy, records |-> c.records, blocked |-> c.blocked]
      /\ c.policy = catalog.policy /\ c.records = catalog.records \cup {y}
      /\ c.blocked = catalog.blocked
  <2>1. catalog = [policy |-> catalog.policy, records |-> catalog.records,
            blocked |-> catalog.blocked]
    BY DEF SoundCatalog
  <2>2. c = [policy |-> catalog.policy, records |-> catalog.records \cup {y},
            blocked |-> catalog.blocked]
    BY <2>1 DEF Assets!Provisional
  <2> HIDE DEF c
  <2> QED BY <2>2
<1>2. \A r \in catalog.records : NothingInCommon(r, y) /\ NothingInCommon(y, r)
  <2>1. \A k \in Kinds, r \in catalog.records : ~Alike(k, y, r)
    BY DEF Duplicate
  <2>2. \A r \in catalog.records : /\ ~Alike(2, y, r) /\ ~Alike(3, y, r)
                                  /\ ~Alike(4, y, r) /\ ~Alike(5, y, r)
    BY <2>1 DEF Kinds
  <2> QED BY <2>2 DEF Alike, NothingInCommon
<1> HIDE DEF c
<1>3. \A r, o \in c.records : r # o => NothingInCommon(r, o)
  BY <1>1, <1>2 DEF SoundCatalog
<1>4. \A r \in c.records : Assets!RecordHolds(r, c.policy)
  BY <1>1 DEF SoundCatalog
<1>5. ASSUME NEW d \in DOMAIN c.blocked
      PROVE  /\ Assets!BlockedHolds(d, c.records)
             /\ Duplicate(Assets!CandidateFromPackage(d.package, c.policy), c.records)
  <2>1. Assets!BlockedHolds(d, catalog.records)
    BY <1>1, <1>5 DEF SoundCatalog
  <2>2. Duplicate(Assets!CandidateFromPackage(d.package, c.policy), catalog.records)
    BY <1>1, <1>5 DEF SoundCatalog
  <2>3. Assets!BlockedHolds(d, c.records)
    BY <1>1, <2>1 DEF Assets!BlockedHolds
  <2> QED BY <1>1, <2>2, <2>3, MoreDuplicates
<1> QED BY <1>1, <1>3, <1>4, <1>5 DEF SoundCatalog, c

(* A decision that is no acceptance can be logged.                         *)
LEMMA LoggedIsSound ==
  ASSUME SoundCatalog(catalog), Ordered, NEW y, NEW package,
         Assets!CandidateFromPackage(package, catalog.policy) = y, package.source = y.source,
         Assets!DuplicateDecision(y, catalog, package).kind # "distinct"
  PROVE  LET c == Assets!Logged(Assets!DuplicateDecision(y, catalog, package)) IN
         SoundCatalog(c) /\ c.policy = catalog.policy
<1> DEFINE d == Assets!DuplicateDecision(y, catalog, package)
           c == Assets!Logged(d)
<1>1. d.package = package /\ \E k \in Kinds : DecidedBy(k, y, catalog.records, d)
  BY SoundIsOrdered, DecisionIsRead
<1> HIDE DEF d
<1>2. Assets!BlockedHolds(d, catalog.records)
  <2> USE <1>1 DEF DecidedBy
  <2> PICK k \in Kinds : DecidedBy(k, y, catalog.records, d)
    OBVIOUS
  <2>1. k \in {1, 2, 3, 4, 5}
    BY DEF Kinds
  <2>2. CASE k = 1
    <3>1. d.ranges # {} /\ d.matched.source = y.source
      BY <1>1, <2>2 DEF Alike, Assets!RangesMet
    <3> QED BY <1>1, <2>2, <3>1 DEF NameOf, Assets!BlockedHolds
  <2>3. CASE k = 2
    BY <1>1, <2>3 DEF NameOf, Assets!BlockedHolds, Alike
  <2>4. CASE k = 3
    <3>1. ~Alike(2, y, d.matched)
      BY <1>1, <2>4 DEF Kinds
    <3>2. d.package.source # d.matched.source
      BY <1>1, <3>1 DEF Alike
    <3> QED BY <1>1, <2>4, <3>2 DEF NameOf, Assets!BlockedHolds
  <2>5. CASE k = 4
    BY <1>1, <2>5 DEF NameOf, Assets!BlockedHolds, Alike
  <2>6. CASE k = 5
    BY <1>1, <2>6 DEF NameOf, Assets!BlockedHolds, Alike
  <2> QED BY <2>1, <2>2, <2>3, <2>4, <2>5, <2>6
<1>3. Duplicate(Assets!CandidateFromPackage(d.package, catalog.policy), catalog.records)
  BY <1>1 DEF Duplicate, DecidedBy
<1>4. /\ c = [policy |-> c.policy, records |-> c.records, blocked |-> c.blocked]
      /\ c.policy = catalog.policy /\ c.records = catalog.records
      /\ DOMAIN c.blocked = DOMAIN catalog.blocked \cup {d}
  BY DEF Assets!Logged, SoundCatalog, Assets!SetToBag, Assets!(+)
<1> HIDE DEF c
<1>5. SoundCatalog(c)
  BY <1>2, <1>3, <1>4 DEF SoundCatalog
<1> QED BY <1>4, <1>5 DEF c, d

(* A mutation that takes the decision of the input catalog to a sound one. *)
LEMMA MutationIsMadeAgain ==
  ASSUME NEW input, SoundCatalog(input), NEW output, SoundCatalog(output),
         input.policy = output.policy, NEW package, NEW decision,
         Assets!PackageLoads(package, package.source, output.policy),
         decision = Assets!DuplicateDecision(Assets!CandidateFromPackage(package, output.policy),
             input, package),
         NEW m, m = Assets!MutationOf(input, output, package, decision), NEW plan
  PROVE  Assets!MadeAgain(m, plan)
<1>1. /\ m.input = input /\ m.output = output /\ m.package = package /\ m.decision = decision
  BY DEF Assets!MutationOf
<1>2. Assets!MutationLoads(m, m.package, m.package.source, m.input, m.output, m.output.policy)
  <2>1. /\ Assets!FirstFault(Assets!CatalogRows(input, output.policy)) = Assets!Fine
        /\ Assets!FirstFault(Assets!CatalogRows(output, output.policy)) = Assets!Fine
    BY SoundIsAccepted
  <2>2. m = Assets!MutationOf(input, output, package, m.decision)
    BY <1>1
  <2> QED BY <1>1, <2>1, <2>2 DEF Assets!MutationLoads
<1>3. Assets!ReceiptHolds(Assets!ReceiptOf(m, plan))
  <2> DEFINE receipt == Assets!ReceiptOf(m, plan)
  <2>1. /\ receipt.nodes = Assets!ReceiptNodes(m, plan,
               Assets!GenericStockRatio(m.output, m.output.policy))
        /\ receipt.edges =
               {<<receipt.nodes[i], receipt.nodes[i + 1]>> : i \in 1 .. Len(receipt.nodes) - 1}
    BY DEF Assets!ReceiptOf
  <2> DEFINE ratio == Assets!GenericStockRatio(m.output, m.output.policy)
             nodes == Assets!ReceiptNodes(m, plan, ratio)
  <2>2. DOMAIN nodes = 1 .. 9 /\ DOMAIN Assets!ReceiptKinds = 1 .. 9
    BY DEF Assets!ReceiptNodes, Assets!ReceiptKinds
  <2>3. /\ nodes[1][1] = Assets!ReceiptKinds[1] /\ nodes[2][1] = Assets!ReceiptKinds[2]
        /\ nodes[3][1] = Assets!ReceiptKinds[3] /\ nodes[4][1] = Assets!ReceiptKinds[4]
        /\ nodes[5][1] = Assets!ReceiptKinds[5] /\ nodes[6][1] = Assets!ReceiptKinds[6]
        /\ nodes[7][1] = Assets!ReceiptKinds[7] /\ nodes[8][1] = Assets!ReceiptKinds[8]
        /\ nodes[9][1] = Assets!ReceiptKinds[9]
    BY DEF Assets!ReceiptNodes, Assets!ReceiptKinds
  <2>4. Assets!ReceiptKinds = [i \in DOMAIN Assets!ReceiptKinds |-> Assets!ReceiptKinds[i]]
    BY DEF Assets!ReceiptKinds
  <2>5. [i \in DOMAIN nodes |-> nodes[i][1]] = Assets!ReceiptKinds
    <3> HIDE DEF nodes
    <3>1. \A i \in 1 .. 9 : nodes[i][1] = Assets!ReceiptKinds[i]
      <4>1. \A i \in 1 .. 9 : \/ i = 1 \/ i = 2 \/ i = 3 \/ i = 4 \/ i = 5
                           \/ i = 6 \/ i = 7 \/ i = 8 \/ i = 9
        OBVIOUS
      <4> QED BY <2>3, <4>1
    <3> QED BY <2>2, <2>4, <3>1
  <2>6. [i \in DOMAIN receipt.nodes |-> receipt.nodes[i][1]] = Assets!ReceiptKinds
    BY <2>1, <2>5
  <2>7. Assets!ReceiptHolds(receipt)
    <3> HIDE DEF receipt
    <3> QED BY <2>1, <2>6 DEF Assets!ReceiptHolds
  <2> QED BY <2>7 DEF receipt
<1> QED BY <1>2, <1>3 DEF Assets!MadeAgain

(* Uses that keep their distance from their neighbours keep it from all.   *)
LEMMA DistanceAddsUp ==
  ASSUME NEW own \in SUBSET Nat, NEW least \in Nat, NEW uses,
         \A i \in own : uses[i].from \in Int /\ uses[i].until \in Int
             /\ uses[i].until > uses[i].from,
         \A n \in Assets!Neighbours(own) : uses[n[2]].from - uses[n[1]].until >= least
  PROVE  \A i, j \in own : i < j => uses[j].from - uses[i].until >= least
<1> SUFFICES ASSUME NEW i \in own, NEW n \in own, i < n, ~(uses[n].from - uses[i].until >= least)
             PROVE  FALSE
  OBVIOUS
<1> DEFINE T == {k \in own : i < k /\ ~(uses[k].from - uses[i].until >= least)}
<1>1. T \in SUBSET Nat /\ n \in T
  OBVIOUS
<1> HIDE DEF T
<1>2. PICK j \in T : \A k \in T : j <= k
  BY <1>1, LeastNumber
<1>3. j \in own /\ i < j /\ ~(uses[j].from - uses[i].until >= least)
  BY DEF T
<1> DEFINE B == {j - k : k \in {l \in own : i <= l /\ l < j}}
<1>4. B \in SUBSET Nat /\ j - i \in B
  BY <1>3
<1>5. PICK b \in B : \A c \in B : b <= c
  <2> HIDE DEF B
  <2> QED BY <1>4, LeastNumber
<1>6. PICK k \in own : i <= k /\ k < j /\ b = j - k
  BY <1>5
<1>7. \A l \in own : l <= k \/ j <= l
  <2> SUFFICES ASSUME NEW l \in own, k < l, l < j PROVE FALSE
    BY <1>3
  <2>1. j - l \in B
    BY <1>3, <1>6
  <2>2. b <= j - l
    BY <1>5, <2>1
  <2> QED BY <1>3, <1>6, <2>2
<1>8. uses[j].from - uses[k].until >= least
  <2>1. <<k, j>> \in Assets!Neighbours(own)
    BY <1>3, <1>6, <1>7 DEF Assets!Neighbours
  <2> QED BY <2>1
<1>9. CASE k = i
  BY <1>3, <1>8, <1>9
<1>10. CASE k # i
  <2>1. i < k
    BY <1>6, <1>10
  <2>2. k \notin T
    BY <1>2, <1>3, <1>6
  <2>3. uses[k].from - uses[i].until >= least
    BY <2>1, <2>2 DEF T
  <2>4. /\ uses[i].until \in Int /\ uses[k].from \in Int /\ uses[k].until \in Int
        /\ uses[j].from \in Int /\ uses[k].until > uses[k].from
    BY <1>3
  <2>5. \A a, f, u, g \in Int : f - a >= least /\ u > f /\ g - u >= least => g - a >= least
    OBVIOUS
  <2>6. uses[j].from - uses[i].until >= least
    BY <1>8, <2>3, <2>4, <2>5
  <2> QED BY <1>3, <2>6
<1> QED BY <1>9, <1>10

(* The uses of a context, whose catalog is known.                          *)
ContextOf(c, uses) == [catalog |-> c, uses |-> uses]

LEMMA ContextIsSomething == ASSUME NEW c, NEW uses PROVE ContextOf(c, uses) # Assets!None
<1>1. DOMAIN ContextOf(c, uses) = {"catalog", "uses"} /\ DOMAIN Assets!None = {"kind"}
  BY DEF ContextOf, Assets!None
<1> QED BY <1>1

LEMMA ContextIsChain ==
  ASSUME NEW c, NEW o, NEW uses PROVE Assets!IsChain(Assets!ContextRows(c, ContextOf(o, uses)))
<1>1. Assets!Chain(Assets!ContextRows(c, ContextOf(o, uses)), 3)
  BY DEF Assets!ContextRows, Assets!Chain, Assets!Fine
<1> QED BY <1>1 DEF Assets!IsChain

LEMMA ContextIsRead ==
  ASSUME NEW c, NEW o, NEW uses,
         Assets!FirstFault(Assets!ContextRows(c, ContextOf(o, uses))) = Assets!Fine
  PROVE  \A i \in DOMAIN uses : ~(uses[i].until <= uses[i].from)
<1> DEFINE a1 == \E i \in 1 .. Len(uses) - 1 : uses[i].ordinal >= uses[i + 1].ordinal
           a2 == \E i \in DOMAIN uses : \/ ~\E r \in c.records : r.source = uses[i].source
                                        \/ uses[i].from < 0 \/ uses[i].until <= uses[i].from
           rs == <<<<o # c, "REUSE_CONTEXT_INVALID">>, <<a1, "REUSE_CONTEXT_INVALID">>,
                   <<a2, "REUSE_CONTEXT_INVALID">>>>
<1>1. rs = Assets!ContextRows(c, ContextOf(o, uses))
  BY DEF Assets!ContextRows, ContextOf
<1> HIDE DEF a1, a2
<1>2. Assets!Chain(rs, 3) /\ (rs[3][1] <=> a2)
  BY DEF Assets!Chain, Assets!Fine
<1> HIDE DEF rs
<1>3. ~rs[3][1]
  BY <1>1, <1>2, Assets!Accepted
<1> QED BY <1>2, <1>3 DEF a2

LEMMA SameCount == \A S : Assets!Cardinality(S) = Cardinality(S)
BY DEF Assets!Cardinality, Cardinality

LEMMA PlacesAreFinite == \A n \in Nat : IsFiniteSet(1 .. n)
BY FS_Interval

(* A plan without violations keeps the uses of a family apart.             *)
LEMMA PlanKeepsApart ==
  ASSUME NEW c, c.policy \in AssetPolicies, NEW o, NEW uses \in Usages,
         Assets!FirstFault(Assets!ContextRows(c, ContextOf(o, uses))) = Assets!Fine,
         NEW plan, plan = Assets!ReusePlan(c, c.policy, ContextOf(o, uses)), plan.violations = {}
  PROVE  Assets!KeepsApart(plan)
<1> DEFINE p == c.policy
           Own(i) == Assets!UsesOfFamily(c, uses, Assets!FamilyOf(c, uses[i]))
           same == {ij \in (DOMAIN uses) \X (DOMAIN uses) :
                      Assets!FamilyOf(c, uses[ij[1]]) = Assets!FamilyOf(c, uses[ij[2]])}
<1>1. /\ plan.uses = uses /\ plan.of = c
      /\ \A i \in DOMAIN uses : Assets!Budgets(p, uses, Own(i)) = {}
             /\ Assets!Cooldowns(p, uses, Own(i)) = {}
  BY ContextIsSomething DEF Assets!ReusePlan, ContextOf
<1>2. /\ p.cooldown \in Nat /\ p.budget \in Nat
      /\ DOMAIN uses = 1 .. Len(uses) /\ Len(uses) \in Nat
      /\ \A i \in DOMAIN uses : uses[i].from \in Int /\ uses[i].until \in Int
  BY AssetsAssumption, LenProperties
<1>3. \A i \in DOMAIN uses : uses[i].until > uses[i].from
  BY <1>2, ContextIsRead
<1>4. /\ \A i \in DOMAIN uses : Own(i) \subseteq DOMAIN uses /\ i \in Own(i)
      /\ \A ij \in same : ij[1] \in DOMAIN uses /\ ij[2] \in Own(ij[1])
      /\ \A i \in DOMAIN uses : \A j \in Own(i) : <<i, j>> \in same
  BY DEF Assets!UsesOfFamily
<1>5. \A i \in DOMAIN uses : IsFiniteSet(Own(i)) /\ Cardinality(Own(i)) \in Nat
  <2> HIDE DEF Own
  <2>1. IsFiniteSet(DOMAIN uses)
    <3>1. IsFiniteSet(1 .. Len(uses))
      <4>1. Len(uses) \in Nat
        BY <1>2
      <4> QED BY <4>1, PlacesAreFinite
    <3> QED BY <1>2, <3>1
  <2>2. \A i \in DOMAIN uses : IsFiniteSet(Own(i))
    BY <1>4, <2>1, FS_Subset
  <2> QED BY <2>2, FS_CardinalityType
<1> HIDE DEF Own, same
<1>6. ASSUME NEW i \in DOMAIN uses
      PROVE  \A j, k \in Own(i) : j < k => uses[k].from - uses[j].until >= p.cooldown
  <2>1. Own(i) \in SUBSET Nat
    BY <1>2, <1>4
  <2>2. \A n \in Assets!Neighbours(Own(i)) : n[1] \in Own(i) /\ n[2] \in Own(i)
    BY DEF Assets!Neighbours
  <2>3. \A n \in Assets!Neighbours(Own(i)) : ~(uses[n[2]].from - uses[n[1]].until < p.cooldown)
    BY <1>1 DEF Assets!Cooldowns
  <2>4. \A n \in Assets!Neighbours(Own(i)) : uses[n[2]].from - uses[n[1]].until >= p.cooldown
    BY <1>2, <1>4, <2>2, <2>3
  <2>5. \A j \in Own(i) : uses[j].from \in Int /\ uses[j].until \in Int
            /\ uses[j].until > uses[j].from
    BY <1>2, <1>3, <1>4
  <2> QED BY <1>2, <2>1, <2>4, <2>5, DistanceAddsUp
<1>7. ASSUME NEW ij \in same, ij[1] # ij[2]
      PROVE  \/ uses[ij[1]].from - uses[ij[2]].until >= p.cooldown
             \/ uses[ij[2]].from - uses[ij[1]].until >= p.cooldown
  <2>1. ij[1] \in DOMAIN uses /\ ij[1] \in Own(ij[1]) /\ ij[2] \in Own(ij[1])
            /\ ij[2] \in DOMAIN uses
    BY <1>4
  <2>2. ij[1] < ij[2] \/ ij[2] < ij[1]
    BY <1>2, <1>7, <2>1
  <2> QED BY <1>6, <2>1, <2>2
<1>8. ASSUME NEW i \in DOMAIN uses
      PROVE  Cardinality({ij \in same : ij[1] = i}) <= p.budget
  <2> DEFINE S == {ij \in same : ij[1] = i}
             f == [j \in Own(i) |-> <<i, j>>]
  <2>1. f \in Surjection(Own(i), S)
    <3>1. \A j \in Own(i) : <<i, j>> \in S
      BY <1>4
    <3>2. \A ij \in S : ij[2] \in Own(i) /\ ij = <<i, ij[2]>>
      BY <1>4 DEF same
    <3> HIDE DEF S
    <3> QED BY <3>1, <3>2 DEF Surjection
  <2>2. ~(Cardinality(Own(i)) > p.budget)
    <3> SUFFICES ASSUME Cardinality(Own(i)) > p.budget PROVE FALSE
      OBVIOUS
    <3>1. Assets!Budgets(p, uses, Own(i)) # {}
      BY SameCount DEF Assets!Budgets
    <3> QED BY <1>1, <3>1
  <2> HIDE DEF S, f
  <2>3. IsFiniteSet(S) /\ Cardinality(S) <= Cardinality(Own(i))
    BY <1>5, <2>1, FS_Surjection
  <2>4. Cardinality(S) \in Nat
    BY <2>3, FS_CardinalityType
  <2> QED BY <1>2, <1>5, <2>2, <2>3, <2>4 DEF S
<1>9. same = {ij \in (DOMAIN plan.uses) \X (DOMAIN plan.uses) :
                Assets!FamilyOf(plan.of, plan.uses[ij[1]]) =
                  Assets!FamilyOf(plan.of, plan.uses[ij[2]])}
  BY <1>1 DEF same
<1>10. /\ \A ij \in same : ij[1] # ij[2] =>
              \/ plan.uses[ij[1]].from - plan.uses[ij[2]].until >= plan.of.policy.cooldown
              \/ plan.uses[ij[2]].from - plan.uses[ij[1]].until >= plan.of.policy.cooldown
       /\ \A i \in DOMAIN plan.uses :
            Cardinality({ij \in same : ij[1] = i}) <= plan.of.policy.budget
  <2>1. \A ij \in same : ij[1] # ij[2] =>
              \/ plan.uses[ij[1]].from - plan.uses[ij[2]].until >= plan.of.policy.cooldown
              \/ plan.uses[ij[2]].from - plan.uses[ij[1]].until >= plan.of.policy.cooldown
    BY <1>1, <1>7
  <2>2. \A i \in DOMAIN plan.uses :
          Cardinality({ij \in same : ij[1] = i}) <= plan.of.policy.budget
    BY <1>1, <1>8
  <2> QED BY <2>1, <2>2
<1> QED BY <1>9, <1>10, SameCount DEF Assets!KeepsApart


(* The decision that an order of the identifiers leads to, and a mutation  *)
(* made under it.                                                          *)
DecisionUnder(order, x, c, package) ==
  LET matches == Assets!Matches(x, c.records)
      found == {i \in DOMAIN matches : matches[i].with # {}} IN
  IF found = {} THEN [package |-> package, kind |-> "distinct", matched |-> Assets!None,
                      features |-> {}, ranges |-> {}]
  ELSE LET m == matches[CHOOSE i \in found : \A j \in found : i <= j]
           r == CHOOSE r \in m.with : \A o \in m.with : order[r.source] <= order[o.source] IN
       [package |-> package, kind |-> m.kind, matched |-> r,
        features |-> CASE m.kind = "perceptual_match" ->
                            r.evidence.perceptual \cap x.evidence.perceptual
                       [] m.kind = "local_feature_match" ->
                            r.evidence.local \cap x.evidence.local
                       [] OTHER -> {},
        ranges |-> IF m.kind = "selected_range_overlap" THEN Assets!RangesMet(x, r) ELSE {}]

MadeUnder(order, m) ==
  /\ SoundCatalog(m.input) /\ SoundCatalog(m.output) /\ m.input.policy = m.output.policy
  /\ Assets!PackageLoads(m.package, m.package.source, m.output.policy)
  /\ m.decision = DecisionUnder(order, Assets!CandidateFromPackage(m.package, m.output.policy),
                                m.input, m.package)
  /\ m = Assets!MutationOf(m.input, m.output, m.package, m.decision)

LEMMA DecisionIsUnder ==
  ASSUME NEW x, NEW c, NEW package
  PROVE  Assets!DuplicateDecision(x, c, package) = DecisionUnder(idOrder, x, c, package)
BY Zenon DEF Assets!DuplicateDecision, DecisionUnder, Assets!FirstOf

LEMMA MadeUnderIsMadeAgain ==
  ASSUME NEW m, NEW plan, MadeUnder(idOrder, m) PROVE Assets!MadeAgain(m, plan)
BY DecisionIsUnder, MutationIsMadeAgain DEF MadeUnder

(* What a caller holds and keeps is sound, and its last mutation was made  *)
(* under the order of the identifiers.                                     *)
Agreed == compiled.mutation # Assets!None => MadeUnder(idOrder, compiled.mutation)

CatalogInv ==
  /\ Agreed /\ Assets!ReuseIsApart
  /\ catalog = Assets!None => compiled.mutation = Assets!None
  /\ catalog # Assets!None => Ordered /\ SoundCatalog(catalog) /\ SoundCatalog(kept)

LEMMA FailureSaysNothing ==
  \A code : Assets!Failure(code).mutation = Assets!None /\ Assets!Failure(code).plan = Assets!None
BY DEF Assets!Failure

LEMMA NoPlanIsApart ==
  ASSUME compiled.plan = Assets!None \/ compiled.plan.status # "evaluated"
  PROVE  Assets!ReuseIsApart
BY DEF Assets!ReuseIsApart

LEMMA NothingIsAgreed == ASSUME compiled.mutation = Assets!None PROVE Agreed
BY DEF Agreed

LEMMA CatalogInitially == Assets!CatalogInit => CatalogInv
<1> SUFFICES ASSUME Assets!CatalogInit PROVE CatalogInv
  OBVIOUS
<1>1. catalog = Assets!None /\ compiled.mutation = Assets!None /\ compiled.plan = Assets!None
  BY FailureSaysNothing DEF Assets!CatalogInit
<1> QED BY <1>1, NoPlanIsApart, NothingIsAgreed DEF CatalogInv


LEMMA UnchangedCatalog == CatalogInv /\ UNCHANGED Assets!catalogVars => CatalogInv'
BY DEF CatalogInv, Agreed, Ordered, Assets!ReuseIsApart, Assets!catalogVars

(* A step that makes no mutation and no catalog but the two there are.     *)
LEMMA OnlyAnAnswer ==
  ASSUME CatalogInv, catalog # Assets!None, idOrder' = idOrder, catalog' \in {catalog, kept},
         kept' = kept, compiled'.mutation = Assets!None,
         \/ compiled'.plan = Assets!None
         \/ compiled'.plan.violations = {} => Assets!KeepsApart(compiled'.plan)
  PROVE  CatalogInv'
<1>1. Agreed'
  BY DEF Agreed
<1>2. Assets!ReuseIsApart'
  BY DEF Assets!ReuseIsApart
<1>3. (catalog = Assets!None => compiled.mutation = Assets!None)'
  OBVIOUS
<1>4. (catalog # Assets!None => Ordered /\ SoundCatalog(catalog) /\ SoundCatalog(kept))'
  BY DEF CatalogInv, Ordered
<1> QED BY <1>1, <1>2, <1>3, <1>4 DEF CatalogInv

LEMMA NewCatalogStep ==
  ASSUME CatalogInv, NEW p \in AssetPolicies, Assets!NewCatalog(p) PROVE CatalogInv'
<1>1. /\ catalog = Assets!None /\ idOrder' \in IdOrders /\ catalog' = Assets!EmptyCatalog(p)
      /\ kept' = Assets!EmptyCatalog(p) /\ compiled' = compiled
  BY DEF Assets!NewCatalog
<1>2. SoundCatalog(Assets!EmptyCatalog(p))
  BY DEF SoundCatalog, Assets!EmptyCatalog, Assets!EmptyBag, Assets!SetToBag
<1>3. Ordered'
  BY <1>1, AssetsAssumption DEF Ordered
<1>4. compiled.mutation = Assets!None
  BY <1>1 DEF CatalogInv
<1>5. Agreed'
  BY <1>1, <1>4 DEF Agreed
<1>6. Assets!ReuseIsApart'
  BY <1>1 DEF CatalogInv, Assets!ReuseIsApart
<1> QED BY <1>1, <1>2, <1>3, <1>4, <1>5, <1>6 DEF CatalogInv

(* The catalog of a compilation, and what there is to know about its input.*)
LEMMA LetIn ==
  ASSUME CatalogInv, catalog # Assets!None, idOrder' = idOrder, kept' = kept,
         NEW x, NEW p, p = catalog.policy,
         Assets!RecordHolds(Assets!CandidateRecord(x, p), p),
         Assets!PackageLoads(Assets!PackageOf(x, p), x.source, p),
         Assets!PackageOf(x, p).source = x.source,
         Assets!CandidateFromPackage(Assets!PackageOf(x, p), p) = Assets!CandidateRecord(x, p),
         NEW context \in Assets!ContextsFor(x, p), Assets!Insert(x, p, context)
  PROVE  CatalogInv'
<1> DEFINE y == Assets!CandidateRecord(x, p)
           package == Assets!PackageOf(x, p)
           output == Assets!Provisional(y)
           decision == Assets!DuplicateDecision(y, catalog, package)
           fault == Assets!GateFault(output, p, context)
           plan == Assets!ReusePlan(output, p, context)
           m == Assets!MutationOf(catalog, output, package, decision)
<1>1. /\ decision.kind = "distinct"
      /\ IF fault # Assets!Fine
         THEN compiled' = Assets!Failure(Assets!FailureCode(fault)) /\ catalog' = catalog
         ELSE /\ catalog' = output
              /\ compiled' = [verdict |-> Assets!Fine, plan |-> plan, mutation |-> m]
  BY DEF Assets!Insert
<1>2. Ordered /\ SoundCatalog(catalog) /\ SoundCatalog(kept)
  BY DEF CatalogInv
<1>3. CASE fault # Assets!Fine
  <2>1. compiled'.mutation = Assets!None /\ compiled'.plan = Assets!None /\ catalog' = catalog
    BY <1>1, <1>3, FailureSaysNothing
  <2> QED BY <2>1, OnlyAnAnswer
<1>4. CASE fault = Assets!Fine
  <2>1. ~Duplicate(y, catalog.records)
    <3>1. \A k \in Kinds : NameOf(k) # "distinct"
      BY DEF Kinds, NameOf
    <3>2. \/ decision.kind = "distinct" /\ ~Duplicate(y, catalog.records)
          \/ \E k \in Kinds : DecidedBy(k, y, catalog.records, decision)
      <4> HIDE DEF y, package
      <4> QED BY <1>2, SoundIsOrdered, DecisionIsRead
    <3> QED BY <1>1, <3>1, <3>2 DEF DecidedBy
  <2>2. SoundCatalog(output) /\ output.policy = p
    <3> HIDE DEF y
    <3> QED BY <1>2, <2>1, ProvisionalIsSound DEF y
  <2>3. catalog' = output /\ compiled'.plan = plan /\ compiled'.mutation = m
    BY <1>1, <1>4
  <2>4. MadeUnder(idOrder, m)
    <3>1. m.input = catalog /\ m.output = output /\ m.package = package /\ m.decision = decision
      BY DEF Assets!MutationOf
    <3>2. Assets!PackageLoads(package, package.source, p)
      OBVIOUS
    <3>3. decision =
            DecisionUnder(idOrder, Assets!CandidateFromPackage(package, p), catalog, package)
      BY DecisionIsUnder
    <3>4. m = Assets!MutationOf(catalog, output, package, decision)
      OBVIOUS
    <3> HIDE DEF m, output, package, decision
    <3> QED BY <1>2, <2>2, <3>1, <3>2, <3>3, <3>4 DEF MadeUnder
  <2>5. plan.status = "evaluated" => Assets!KeepsApart(plan)
    <3>1. CASE context = Assets!None
      BY <3>1 DEF Assets!ReusePlan
    <3>2. CASE context # Assets!None
      <4>1. PICK uses \in Usages, o \in {catalog, output} : context = ContextOf(o, uses)
        BY <3>2 DEF Assets!ContextsFor, ContextOf
      <4>2. /\ Assets!FirstFault(Assets!ContextRows(output, context)) = Assets!Fine
            /\ plan.violations = {}
        <5> HIDE DEF output
        <5> QED BY <1>4, <3>2 DEF Assets!GateFault, Assets!Fine
      <4>3. output.policy \in AssetPolicies
        BY <2>2 DEF SoundCatalog
      <4> HIDE DEF output
      <4> QED BY <2>2, <4>1, <4>2, <4>3, PlanKeepsApart
    <3> QED BY <3>1, <3>2
  <2> HIDE DEF m, output, plan
  <2>6. Agreed'
    BY <2>3, <2>4 DEF Agreed
  <2>7. Assets!ReuseIsApart'
    BY <2>3, <2>5 DEF Assets!ReuseIsApart
  <2>8. catalog' # Assets!None
    BY <2>2, <2>3, SoundIsSomething
  <2>9. Ordered' /\ SoundCatalog(catalog') /\ SoundCatalog(kept')
    BY <1>2, <2>2, <2>3 DEF Ordered
  <2> QED BY <2>6, <2>7, <2>8, <2>9 DEF CatalogInv
<1> QED BY <1>3, <1>4

LEMMA Blocked ==
  ASSUME CatalogInv, catalog # Assets!None, idOrder' = idOrder, kept' = kept,
         NEW x, NEW p, p = catalog.policy,
         Assets!PackageLoads(Assets!PackageOf(x, p), x.source, p),
         Assets!PackageOf(x, p).source = x.source,
         Assets!CandidateRecord(x, p).source = x.source,
         Assets!CandidateFromPackage(Assets!PackageOf(x, p), p) = Assets!CandidateRecord(x, p),
         Assets!Block(x, p)
  PROVE  CatalogInv'
<1> DEFINE y == Assets!CandidateRecord(x, p)
           package == Assets!PackageOf(x, p)
           decision == Assets!DuplicateDecision(y, catalog, package)
           output == Assets!Logged(decision)
           plan == Assets!ReusePlan(output, p, Assets!None)
           m == Assets!MutationOf(catalog, output, package, decision)
<1>1. /\ decision.kind # "distinct" /\ catalog' = output
      /\ compiled'.plan = plan /\ compiled'.mutation = m
  BY DEF Assets!Block
<1>2. Ordered /\ SoundCatalog(catalog) /\ SoundCatalog(kept)
  BY DEF CatalogInv
<1>3. SoundCatalog(output) /\ output.policy = p
  <2> HIDE DEF y, package
  <2>1. Assets!CandidateFromPackage(package, catalog.policy) = y /\ package.source = y.source
    BY DEF y, package
  <2> QED BY <1>1, <1>2, <2>1, LoggedIsSound
<1>4. MadeUnder(idOrder, m)
  <2>1. m.input = catalog /\ m.output = output /\ m.package = package /\ m.decision = decision
    BY DEF Assets!MutationOf
  <2>2. Assets!PackageLoads(package, package.source, p)
    OBVIOUS
  <2>3. decision =
          DecisionUnder(idOrder, Assets!CandidateFromPackage(package, p), catalog, package)
    BY DecisionIsUnder
  <2>4. m = Assets!MutationOf(catalog, output, package, decision)
    OBVIOUS
  <2> HIDE DEF m, output, package, decision
  <2> QED BY <1>2, <1>3, <2>1, <2>2, <2>3, <2>4 DEF MadeUnder
<1>5. plan.status # "evaluated"
  BY DEF Assets!ReusePlan
<1> HIDE DEF m, output, plan, decision
<1>6. Agreed'
  BY <1>1, <1>4 DEF Agreed
<1>7. Assets!ReuseIsApart'
  BY <1>1, <1>5 DEF Assets!ReuseIsApart
<1>8. catalog' # Assets!None
  BY <1>1, <1>3, SoundIsSomething
<1>9. Ordered' /\ SoundCatalog(catalog') /\ SoundCatalog(kept')
  BY <1>1, <1>2, <1>3 DEF Ordered
<1> QED BY <1>6, <1>7, <1>8, <1>9 DEF CatalogInv

LEMMA CompileStep ==
  ASSUME CatalogInv, catalog # Assets!None, NEW x \in AssetInputs, NEW p, NEW pinned,
         Assets!CompileAsset(x, p, pinned)
  PROVE  CatalogInv'
<1> DEFINE fault == Assets!FirstFault(Assets!CompileRows(x, p, pinned))
<1>1. /\ idOrder' = idOrder /\ kept' = kept
      /\ IF fault # Assets!Fine
         THEN compiled' = Assets!Failure(Assets!FailureCode(fault)) /\ catalog' = catalog
         ELSE \/ \E context \in Assets!ContextsFor(x, p) : Assets!Insert(x, p, context)
              \/ Assets!Block(x, p)
  BY DEF Assets!CompileAsset
<1>2. CASE fault # Assets!Fine
  <2>1. compiled'.mutation = Assets!None /\ compiled'.plan = Assets!None /\ catalog' = catalog
    BY <1>1, <1>2, FailureSaysNothing
  <2> QED BY <1>1, <2>1, OnlyAnAnswer
<1>3. CASE fault = Assets!Fine
  <2>1. /\ Assets!FirstFault(Assets!CatalogRows(catalog, p)) = Assets!Fine
        /\ x.source \in DOMAIN Manifest /\ Manifest[x.source].descriptor = x.descriptor
        /\ Assets!Allowed(p, x.meaning) /\ Assets!SoundReview(x)
        /\ Assets!RangesFit(Manifest[x.source], x.ranges)
    BY <1>3, CompiledIsRead
  <2>2. p = catalog.policy
    BY <2>1, CatalogIsRead
  <2>3. /\ Assets!RecordHolds(Assets!CandidateRecord(x, p), p)
        /\ Assets!PackageLoads(Assets!PackageOf(x, p), x.source, p)
        /\ Assets!PackageOf(x, p).source = x.source
        /\ Assets!CandidateRecord(x, p).source = x.source
        /\ Assets!CandidateFromPackage(Assets!PackageOf(x, p), p) = Assets!CandidateRecord(x, p)
    BY <2>1, CandidateHolds
  <2>4. \/ \E context \in Assets!ContextsFor(x, p) : Assets!Insert(x, p, context)
        \/ Assets!Block(x, p)
    BY <1>1, <1>3
  <2>5. CASE Assets!Block(x, p)
    BY <1>1, <2>2, <2>3, <2>5, Blocked
  <2>6. ASSUME NEW context \in Assets!ContextsFor(x, p), Assets!Insert(x, p, context)
        PROVE  CatalogInv'
    BY <1>1, <2>2, <2>3, <2>6, LetIn
  <2> QED BY <2>4, <2>5, <2>6
<1> QED BY <1>2, <1>3

LEMMA EvaluateStep ==
  ASSUME CatalogInv, catalog # Assets!None, NEW p \in AssetPolicies, NEW uses \in Usages, NEW o,
         Assets!EvaluateReuse(p, ContextOf(o, uses))
  PROVE  CatalogInv'
<1> DEFINE a == Assets!CatalogRows(catalog, p)
           b == Assets!ContextRows(catalog, ContextOf(o, uses))
           fault == Assets!FirstFault(Assets!Then(a, b))
           plan == Assets!ReusePlan(catalog, p, ContextOf(o, uses))
<1>1. /\ idOrder' = idOrder /\ catalog' = catalog /\ kept' = kept
      /\ compiled' = IF fault # Assets!Fine THEN Assets!Failure(fault)
                     ELSE [verdict |-> Assets!Fine, mutation |-> Assets!None, plan |-> plan]
  BY DEF Assets!EvaluateReuse, Assets!Then
<1>2. CASE fault # Assets!Fine
  <2>1. compiled'.mutation = Assets!None /\ compiled'.plan = Assets!None
    BY <1>1, <1>2, FailureSaysNothing
  <2> QED BY <1>1, <2>1, OnlyAnAnswer
<1>3. CASE fault = Assets!Fine
  <2>1. compiled'.mutation = Assets!None /\ compiled'.plan = plan
    BY <1>1, <1>3
  <2>2. Assets!IsChain(a) /\ Assets!IsChain(b)
    BY CatalogIsRead, ContextIsChain DEF Assets!IsChain
  <2>3. Assets!FirstFault(a) = Assets!Fine /\ Assets!FirstFault(b) = Assets!Fine
    <3> HIDE DEF a, b
    <3>1. Assets!Clear(a) /\ Assets!Clear(b)
      BY <1>3, <2>2, Assets!ThenIsChain, Assets!AcceptedIsClear
    <3> QED BY <2>2, <3>1, Assets!AcceptedIsClear
  <2>4. p = catalog.policy
    BY <2>3, CatalogIsRead
  <2>5. plan.violations = {} => Assets!KeepsApart(plan)
    BY <2>3, <2>4, PlanKeepsApart
  <2> HIDE DEF plan
  <2> QED BY <1>1, <2>1, <2>5, OnlyAnAnswer
<1> QED BY <1>2, <1>3

LEMMA CatalogStep == CatalogInv /\ [Assets!CatalogNext]_catalogVars => CatalogInv'
<1> SUFFICES ASSUME CatalogInv, [Assets!CatalogNext]_catalogVars PROVE CatalogInv'
  OBVIOUS
<1>1. CASE UNCHANGED catalogVars
  BY <1>1, UnchangedCatalog DEF catalogVars, Assets!catalogVars
<1>2. ASSUME NEW p \in AssetPolicies, Assets!NewCatalog(p) PROVE CatalogInv'
  BY <1>2, NewCatalogStep
<1>3. ASSUME catalog # Assets!None, NEW x \in AssetInputs, NEW p \in AssetPolicies,
             NEW pinned \in BOOLEAN,
             Assets!CompileAsset(x, p, pinned)
      PROVE  CatalogInv'
  BY <1>3, CompileStep
<1>4. ASSUME catalog # Assets!None, NEW p \in AssetPolicies, NEW u \in Usages,
             NEW c \in {catalog, kept},
             Assets!EvaluateReuse(p, [catalog |-> c, uses |-> u])
      PROVE  CatalogInv'
  <2>1. Assets!EvaluateReuse(p, ContextOf(c, u))
    BY <1>4 DEF ContextOf
  <2> QED BY <1>4, <2>1, EvaluateStep
<1>5. ASSUME catalog # Assets!None, Assets!WriteCatalog PROVE CatalogInv'
  <2>1. idOrder' = idOrder /\ catalog' = catalog /\ kept' = catalog /\ compiled' = compiled
    BY <1>5 DEF Assets!WriteCatalog
  <2>2. Agreed'
    BY <2>1 DEF CatalogInv, Agreed
  <2>3. Assets!ReuseIsApart'
    BY <2>1 DEF CatalogInv, Assets!ReuseIsApart
  <2> QED BY <1>5, <2>1, <2>2, <2>3 DEF CatalogInv, Ordered
<1>6. ASSUME catalog # Assets!None, NEW p \in AssetPolicies, NEW altered \in BOOLEAN,
             Assets!LoadCatalog(p, altered)
      PROVE  CatalogInv'
  <2>1. idOrder' = idOrder /\ catalog' \in {catalog, kept} /\ kept' = kept
    BY <1>6 DEF Assets!LoadCatalog
  <2>2. \E code : compiled' = Assets!Failure(code)
    BY <1>6 DEF Assets!LoadCatalog
  <2>3. compiled'.mutation = Assets!None /\ compiled'.plan = Assets!None
    BY <2>2, FailureSaysNothing
  <2> QED BY <1>6, <2>1, <2>3, OnlyAnAnswer
<1> QED BY <1>1, <1>2, <1>3, <1>4, <1>5, <1>6 DEF Assets!CatalogNext

(* What the invariant says to those who read a catalog.                    *)
LEMMA SoundIsEnough == CatalogInv => CatalogHolds
<1> SUFFICES ASSUME CatalogInv PROVE CatalogHolds
  OBVIOUS
<1>1. Assets!ReadersAgree
  BY SoundIsAccepted, MadeUnderIsMadeAgain DEF CatalogInv, Agreed, Assets!ReadersAgree
<1>2. Assets!NoDuplicates
  BY DEF CatalogInv, SoundCatalog, NothingInCommon, Assets!NoDuplicates
<1>3. Assets!BlockedForGood
  <2> SUFFICES ASSUME catalog # Assets!None, NEW d \in DOMAIN catalog.blocked
               PROVE  Assets!DuplicateDecision(
                        Assets!CandidateFromPackage(d.package, catalog.policy),
                        catalog, d.package).kind # "distinct"
    BY DEF Assets!BlockedForGood, Assets!BagToSet
  <2> DEFINE y == Assets!CandidateFromPackage(d.package, catalog.policy)
             again == Assets!DuplicateDecision(y, catalog, d.package)
  <2>1. Ordered /\ SoundCatalog(catalog) /\ Duplicate(y, catalog.records)
    BY DEF CatalogInv, SoundCatalog
  <2> HIDE DEF y
  <2>2. \E k \in Kinds : DecidedBy(k, y, catalog.records, again)
    BY <2>1, SoundIsOrdered, DecisionIsRead
  <2>3. \A k \in Kinds : NameOf(k) # "distinct"
    BY DEF Kinds, NameOf
  <2> HIDE DEF again
  <2>4. again.kind # "distinct"
    BY <2>2, <2>3 DEF DecidedBy
  <2> QED BY <2>4 DEF again, y
<1> QED BY <1>1, <1>2, <1>3 DEF CatalogInv, CatalogHolds, Assets!CatalogHolds

(* Whatever is compiled, evaluated, written and loaded, in any order, the  *)
(* records of a catalog have no bytes, origin or feature in common, what   *)
(* was blocked is blocked for good, every reader accepts what a compilation*)
(* made and makes it again, and a reuse that is let through keeps any two  *)
(* uses of a family apart and their number within the budget.              *)
THEOREM CatalogsStaySound == StoresSpec => []CatalogHolds
<1>1. StoresInit => CatalogInv
  BY CatalogInitially DEF StoresInit
<1>2. [StoresNext]_storeVars => [Assets!CatalogNext]_catalogVars
  BY DEF StoresNext, storeVars
<1>3. StoresSpec => []CatalogInv
  BY <1>1, <1>2, CatalogStep, PTL DEF StoresSpec
<1> QED BY <1>3, SoundIsEnough, PTL

-----------------------------------------------------------------------------
(* Nothing is mislaid.                                                     *)

LEMMA RegistryIsWhole == RegistryInv => Artifacts!RegistryHolds
BY RegistryIsRead DEF RegistryInv, Artifacts!RegistryHolds

LEMMA TrashIsAccountedFor == TrashInv => Artifacts!TrashIsOnRecord
<1> SUFFICES ASSUME TrashInv, ~abandoned, \A k \in Keepers : Artifacts!Is(k, "idle"), NEW f \in files
             PROVE  Artifacts!OnShelf(f[2]) \/ OnRecord(f[2])
  BY Zenon DEF Artifacts!TrashIsOnRecord, OnRecord
<1>1. \A id : ~InMove(id)
  BY DEF InMove, Artifacts!Is
<1> QED BY <1>1 DEF TrashInv, Accounted

(* What a plan protects of its rows is a set that has what it needs, and   *)
(* none of it was a candidate.                                             *)
LEMMA ProtectedIsLeft == TrashInv => Artifacts!ProtectedStays
<1> SUFFICES ASSUME TrashInv, NEW plan \in {f[1] : f \in files} \ {Artifacts!Shelf}
             PROVE  LET gone == {f[2] : f \in {g \in files : g[1] = plan}} IN
                    /\ \E S \in SUBSET (Artifacts!IdsOf(plan[2]) \ gone) :
                          /\ Roots \cap Artifacts!IdsOf(plan[2]) \subseteq S
                          /\ \A r \in plan[2] : Artifacts!Id(r) \in S => Artifacts!Deps(r) \subseteq S
                    /\ \A r \in plan[2] : Artifacts!Id(r) \in gone => ~Catalog[r].kept
  BY DEF Artifacts!ProtectedStays
<1> DEFINE gone == {f[2] : f \in {g \in files : g[1] = plan}}
           P == Artifacts!Protect(plan[2])
           S == P \cap Artifacts!IdsOf(plan[2])
<1>1. plan \in Plans /\ Coherent(plan[2]) /\ gone \subseteq Artifacts!Candidates(plan)
  BY DEF TrashInv, TrashIsPlanned
<1>2. plan[2] \in SUBSET Numbers
  BY <1>1 DEF Plans
<1>3. Roots \subseteq P /\ \A r \in plan[2] : Artifacts!Id(r) \in P => Artifacts!Deps(r) \subseteq P
  BY <1>2, ProtectionIsClosed
<1>4. \A r \in plan[2] : Artifacts!Deps(r) \subseteq Artifacts!IdsOf(plan[2])
  BY <1>1 DEF Coherent, Supplied, Artifacts!IdsOf
<1>5. \A id \in gone : id \notin P /\ \E q \in plan[2] : Artifacts!Id(q) = id /\ ~Catalog[q].kept
  BY <1>1 DEF Artifacts!Candidates
<1>6. \A r \in plan[2] : Artifacts!Id(r) \in gone => ~Catalog[r].kept
  BY <1>1, <1>5 DEF Coherent, Distinct
<1> HIDE DEF P, gone
<1>7. S \in SUBSET (Artifacts!IdsOf(plan[2]) \ gone)
  BY <1>5
<1>8. /\ Roots \cap Artifacts!IdsOf(plan[2]) \subseteq S
      /\ \A r \in plan[2] : Artifacts!Id(r) \in S => Artifacts!Deps(r) \subseteq S
  BY <1>3, <1>4
<1> QED BY <1>6, <1>7, <1>8 DEF gone

(* No failure and no death of a process mislays what was published or put  *)
(* away: the registry loads and has every cached preview's artifacts, what *)
(* is in the trash is on a receipt, what a root needs and what is kept     *)
(* stays, a payload is in one place and on record, a cache hit is what one *)
(* writer put, and a published timing directory is whole.                  *)
THEOREM NothingGetsMislaid == StoresSpec => []NothingIsMislaid
<1>1. StoresInit => RegistryInv /\ TrashInv
  BY RegistryInitially, TrashInitially DEF StoresInit
<1>2. [StoresNext]_storeVars => [Artifacts!ShelfNext]_shelfVars
  BY DEF StoresNext, storeVars
<1>3. StoresSpec => [](RegistryInv /\ TrashInv)
  BY <1>1, <1>2, RegistryStep, TrashStep, PTL DEF StoresSpec
<1>4. /\ RegistryInv /\ TrashInv
      /\ Retention!PayloadsOnRecord /\ Cache!HitIsOnePut /\ PublishedIsWhole
      => NothingIsMislaid
  BY RegistryIsWhole, TrashIsAccountedFor, ProtectedIsLeft DEF NothingIsMislaid
<1> QED BY <1>3, <1>4, PayloadsAreOnRecord, CacheHitIsOnePut, PublishedTimingIsWhole, PTL
-----------------------------------------------------------------------------
(* Sums over finite sets.                                                  *)

(* f adds the weights of every set of T up, one member after the other.    *)
Sums(f, w, T) ==
  f = [s \in SUBSET T |->
        IF s = {} THEN 0 ELSE w[CHOOSE x \in s : TRUE] + f[s \ {CHOOSE x \in s : TRUE}]]

(* The sum of the weights of the members of T.                             *)
Total(w, T) == (CHOOSE f : Sums(f, w, T))[T]

(* Among finite sets there is one of which no proper part is among them.   *)
LEMMA SmallestSet ==
  ASSUME NEW T, IsFiniteSet(T), NEW Bad \in SUBSET SUBSET T, Bad # {}
  PROVE  \E s \in Bad : \A t \in SUBSET s : t # s => t \notin Bad
<1> DEFINE N == {Cardinality(s) : s \in Bad}
<1>1. \A s \in SUBSET T : IsFiniteSet(s) /\ Cardinality(s) \in Nat
  BY FS_Subset, FS_CardinalityType
<1>2. PICK n \in N : \A j \in N : n <= j
  <2>1. N \in SUBSET Nat /\ N # {}
    BY <1>1
  <2> HIDE DEF N
  <2> QED BY <2>1, LeastNumber
<1>3. PICK s \in Bad : n = Cardinality(s)
  OBVIOUS
<1>4. ASSUME NEW t \in SUBSET s, t # s, t \in Bad PROVE FALSE
  <2>1. IsFiniteSet(s) /\ Cardinality(s) \in Nat /\ Cardinality(t) \in Nat
    BY <1>1, <1>4
  <2>2. Cardinality(t) < Cardinality(s)
    BY <1>4, <2>1, FS_Subset
  <2>3. n <= Cardinality(t)
    BY <1>2, <1>4
  <2> QED BY <1>3, <2>1, <2>2, <2>3
<1> QED BY <1>4

LEMMA SumsAgree ==
  ASSUME NEW w, NEW T, IsFiniteSet(T), NEW U \in SUBSET T, NEW f, NEW g,
         Sums(f, w, T), Sums(g, w, U)
  PROVE  \A s \in SUBSET U : f[s] = g[s]
<1> DEFINE Bad == {s \in SUBSET U : f[s] # g[s]}
<1> SUFFICES ASSUME Bad # {} PROVE FALSE
  OBVIOUS
<1>1. PICK s \in Bad : \A t \in SUBSET s : t # s => t \notin Bad
  <2>1. Bad \in SUBSET SUBSET T
    OBVIOUS
  <2> HIDE DEF Bad
  <2> QED BY <2>1, SmallestSet
<1> DEFINE c == CHOOSE x \in s : TRUE
<1>2. /\ f[s] = IF s = {} THEN 0 ELSE w[c] + f[s \ {c}]
      /\ g[s] = IF s = {} THEN 0 ELSE w[c] + g[s \ {c}]
  BY DEF Sums
<1>3. CASE s = {}
  BY <1>2, <1>3
<1>4. CASE s # {}
  <2>1. c \in s
    BY <1>4
  <2>2. s \ {c} \in SUBSET U /\ s \ {c} \notin Bad
    BY <1>1, <2>1
  <2> QED BY <1>2, <1>4, <2>2
<1> QED BY <1>3, <1>4

LEMMA SumsExist ==
  ASSUME NEW w, NEW T, IsFiniteSet(T)
  PROVE  \E f : Sums(f, w, T)
<1> DEFINE Bad == {s \in SUBSET T : ~\E f : Sums(f, w, s)}
<1> SUFFICES ASSUME Bad # {} PROVE FALSE
  OBVIOUS
<1>1. PICK s \in Bad : \A t \in SUBSET s : t # s => t \notin Bad
  <2>1. Bad \in SUBSET SUBSET T
    OBVIOUS
  <2> HIDE DEF Bad
  <2> QED BY <2>1, SmallestSet
<1>2. \A t \in SUBSET s : t # s => \E f : Sums(f, w, t)
  BY <1>1
<1> DEFINE f(t) == CHOOSE f : Sums(f, w, t)
           c(t) == CHOOSE x \in t : TRUE
           v(t) == IF t = {} THEN 0 ELSE w[c(t)] + f(t \ {c(t)})[t \ {c(t)}]
           F == [t \in SUBSET s |-> v(t)]
<1>3. \A t \in SUBSET s : t # s => Sums(f(t), w, t)
  BY <1>2
<1>4. \A t \in SUBSET s : t # {} => c(t) \in t /\ t \ {c(t)} \in SUBSET s /\ t \ {c(t)} # s
  OBVIOUS
<1>5. ASSUME NEW t \in SUBSET s, t # s PROVE f(t)[t] = v(t)
  <2>1. CASE t = {}
    <3>1. Sums(f(t), w, t) /\ t \in SUBSET t
      BY <1>3, <1>5
    <3>2. f(t)[t] = 0
      <4> HIDE DEF f
      <4> QED BY <2>1, <3>1 DEF Sums
    <3> QED BY <2>1, <3>2
  <2>2. CASE t # {}
    <3> DEFINE u == t \ {c(t)}
    <3>1. Sums(f(t), w, t) /\ Sums(f(u), w, u)
      BY <1>3, <1>4, <1>5, <2>2
    <3>2. IsFiniteSet(t) /\ u \in SUBSET t /\ u \in SUBSET u
      BY FS_Subset
    <3>3. f(t)[t] = w[c(t)] + f(t)[u]
      <4> HIDE DEF f
      <4> QED BY <2>2, <3>1 DEF Sums
    <3>4. f(t)[u] = f(u)[u]
      <4> HIDE DEF f, u
      <4> QED BY <3>1, <3>2, SumsAgree
    <3> QED BY <2>2, <3>3, <3>4
  <2> QED BY <2>1, <2>2
<1>6. \A t \in SUBSET s : F[t] = v(t)
  <2> HIDE DEF v
  <2> QED OBVIOUS
<1>7. Sums(F, w, s)
  <2>1. \A t \in SUBSET s : F[t] = IF t = {} THEN 0 ELSE w[c(t)] + F[t \ {c(t)}]
    <3>0. \A t \in SUBSET s : t = {} => F[t] = 0
      BY <1>6
    <3> SUFFICES ASSUME NEW t \in SUBSET s, t # {} PROVE F[t] = w[c(t)] + F[t \ {c(t)}]
      <4> HIDE DEF F
      <4> QED BY <3>0
    <3> DEFINE u == t \ {c(t)}
    <3>1. u \in SUBSET s /\ u # s
      BY <1>4
    <3>2. F[t] = v(t) /\ F[u] = v(u)
      BY <1>6, <3>1
    <3>3. F[u] = f(u)[u]
      BY <1>5, <3>1, <3>2
    <3>4. v(t) = w[c(t)] + f(u)[u]
      <4>1. v(t) = IF t = {} THEN 0 ELSE w[c(t)] + f(u)[u]
        OBVIOUS
      <4> HIDE DEF v, f, u, c
      <4> QED BY <4>1
    <3> QED BY <3>2, <3>3, <3>4
  <2>2. F = [t \in SUBSET s |-> F[t]]
    OBVIOUS
  <2> HIDE DEF F
  <2> QED BY <2>1, <2>2 DEF Sums
<1> QED BY <1>1, <1>7

LEMMA TotalUnfolds ==
  ASSUME NEW w, NEW T, IsFiniteSet(T)
  PROVE  /\ T = {} => Total(w, T) = 0
         /\ T # {} => Total(w, T) = w[CHOOSE x \in T : TRUE] + Total(w,
                T \ {CHOOSE x \in T : TRUE})
<1> DEFINE f(t) == CHOOSE f : Sums(f, w, t)
           c == CHOOSE x \in T : TRUE
           u == T \ {c}
<1>1. IsFiniteSet(u) /\ u \in SUBSET T /\ u \in SUBSET u
  BY FS_Subset
<1>2. Sums(f(T), w, T) /\ Sums(f(u), w, u)
  BY <1>1, SumsExist
<1>3. f(T)[u] = f(u)[u]
  <2> HIDE DEF f, u
  <2> QED BY <1>1, <1>2, SumsAgree
<1>4. f(T)[T] = IF T = {} THEN 0 ELSE w[c] + f(T)[u]
  <2> HIDE DEF f
  <2> QED BY <1>2 DEF Sums
<1>5. Total(w, T) = f(T)[T] /\ Total(w, u) = f(u)[u]
  BY DEF Total
<1> QED BY <1>3, <1>4, <1>5

LEMMA TotalIsNat ==
  ASSUME NEW D, NEW w \in [D -> Nat], NEW T \in SUBSET D, IsFiniteSet(T)
  PROVE  Total(w, T) \in Nat
<1> DEFINE Bad == {s \in SUBSET T : Total(w, s) \notin Nat}
<1> SUFFICES ASSUME Bad # {} PROVE FALSE
  OBVIOUS
<1>1. PICK s \in Bad : \A t \in SUBSET s : t # s => t \notin Bad
  <2>1. Bad \in SUBSET SUBSET T
    OBVIOUS
  <2> HIDE DEF Bad
  <2> QED BY <2>1, SmallestSet
<1> DEFINE c == CHOOSE x \in s : TRUE
<1>2. IsFiniteSet(s)
  BY FS_Subset
<1>3. CASE s = {}
  <2>1. Total(w, s) = 0
    <3> HIDE DEF Bad
    <3> QED BY <1>2, <1>3, TotalUnfolds
  <2> QED BY <2>1
<1>4. CASE s # {}
  <2>1. c \in s /\ w[c] \in Nat
    BY <1>4
  <2>2. Total(w, s \ {c}) \in Nat
    BY <1>1, <2>1
  <2>3. Total(w, s) = w[c] + Total(w, s \ {c})
    BY <1>2, <1>4, TotalUnfolds
  <2> QED BY <2>1, <2>2, <2>3
<1> QED BY <1>3, <1>4

(* Any member may be added last.                                           *)
LEMMA TotalTakes ==
  ASSUME NEW D, NEW w \in [D -> Nat], NEW T \in SUBSET D, IsFiniteSet(T)
  PROVE  \A x \in T : Total(w, T) = w[x] + Total(w, T \ {x})
<1> DEFINE Right(s) == \A x \in s : Total(w, s) = w[x] + Total(w, s \ {x})
           Bad == {s \in SUBSET T : ~Right(s)}
<1> SUFFICES ASSUME Bad # {} PROVE FALSE
  OBVIOUS
<1>1. PICK s \in Bad : \A t \in SUBSET s : t # s => t \notin Bad
  <2>1. Bad \in SUBSET SUBSET T
    OBVIOUS
  <2> HIDE DEF Bad
  <2> QED BY <2>1, SmallestSet
<1>2. PICK x \in s : Total(w, s) # w[x] + Total(w, s \ {x})
  OBVIOUS
<1> DEFINE c == CHOOSE y \in s : TRUE
<1>3. c \in s /\ IsFiniteSet(s) /\ s # {}
  BY <1>2, FS_Subset
<1>4. Total(w, s) = w[c] + Total(w, s \ {c})
  BY <1>3, TotalUnfolds
<1> HIDE DEF c
<1>5. c # x
  BY <1>2, <1>4
<1>6. Right(s \ {c}) /\ Right(s \ {x})
  BY <1>1, <1>3
<1>7. (s \ {c}) \ {x} = (s \ {x}) \ {c}
  OBVIOUS
<1> DEFINE rest == Total(w, (s \ {c}) \ {x})
<1>8. Total(w, s \ {c}) = w[x] + rest /\ Total(w, s \ {x}) = w[c] + rest
  BY <1>3, <1>5, <1>6, <1>7
<1>9. rest \in Nat /\ w[x] \in Nat /\ w[c] \in Nat
  <2>1. (s \ {c}) \ {x} \in SUBSET D /\ IsFiniteSet((s \ {c}) \ {x})
    BY <1>3, FS_Subset
  <2> QED BY <1>3, <2>1, TotalIsNat
<1> HIDE DEF rest
<1> QED BY <1>2, <1>4, <1>8, <1>9

(* Two sets together weigh no more than both.                              *)
LEMMA TotalOfTwo ==
  ASSUME NEW D, NEW w \in [D -> Nat], NEW A \in SUBSET D, NEW B \in SUBSET D,
         IsFiniteSet(A), IsFiniteSet(B)
  PROVE  Total(w, A \cup B) <= Total(w, A) + Total(w, B)
<1> DEFINE Light(s) == Total(w, A \cup s) <= Total(w, A) + Total(w, s)
           Bad == {s \in SUBSET B : ~Light(s)}
<1> SUFFICES ASSUME Bad # {} PROVE FALSE
  OBVIOUS
<1>1. PICK s \in Bad : \A t \in SUBSET s : t # s => t \notin Bad
  <2>1. Bad \in SUBSET SUBSET B
    OBVIOUS
  <2> HIDE DEF Bad
  <2> QED BY <2>1, SmallestSet
<1>2. \A t \in SUBSET B : /\ t \in SUBSET D /\ IsFiniteSet(t) /\ IsFiniteSet(A \cup t)
                          /\ A \cup t \in SUBSET D
  BY FS_Subset, FS_Union
<1>3. \A t \in SUBSET B : Total(w, t) \in Nat /\ Total(w, A \cup t) \in Nat
  BY <1>2, TotalIsNat
<1>4. Total(w, A) \in Nat
  BY TotalIsNat
<1>5. CASE s = {}
  <2>1. Total(w, s) = 0 /\ A \cup s = A
    BY <1>2, <1>5, TotalUnfolds
  <2> QED BY <1>4, <2>1
<1>6. CASE s # {}
  <2>1. PICK x \in s : TRUE
    BY <1>6
  <2> DEFINE t == s \ {x}
  <2>2. t \in SUBSET B /\ Light(t)
    BY <1>1, <2>1
  <2>3. Total(w, s) = w[x] + Total(w, t) /\ w[x] \in Nat
    BY <1>2, <2>1, TotalTakes
  <2>4. Total(w, A \cup s) <= w[x] + Total(w, A \cup t)
    <3>1. CASE x \in A
      <4>1. A \cup s = A \cup t
        BY <2>1, <3>1
      <4>2. Total(w, A \cup s) = Total(w, A \cup t) /\ Total(w, A \cup t) \in Nat
        BY <1>3, <2>2, <4>1
      <4> HIDE DEF t, Light, Bad
      <4> QED BY <2>3, <4>2
    <3>2. CASE x \notin A
      <4>1. (A \cup s) \ {x} = A \cup t /\ x \in A \cup s
        BY <2>1, <3>2
      <4>2. Total(w, A \cup s) = w[x] + Total(w, (A \cup s) \ {x})
        BY <1>2, <4>1, TotalTakes
      <4>3. Total(w, A \cup s) = w[x] + Total(w, A \cup t) /\ Total(w, A \cup t) \in Nat
        BY <1>3, <2>2, <4>1, <4>2
      <4> HIDE DEF t, Light, Bad
      <4> QED BY <2>3, <4>3
    <3> QED BY <3>1, <3>2
  <2> HIDE DEF t
  <2> QED BY <1>3, <1>4, <2>2, <2>3, <2>4
<1> QED BY <1>5, <1>6

(* A member that is replaced by one of its weight.                         *)
LEMMA TotalMoved ==
  ASSUME NEW D, NEW w \in [D -> Nat], NEW A \in SUBSET D, IsFiniteSet(A),
         NEW x \in A, NEW y \in D, w[x] = w[y]
  PROVE  Total(w, (A \ {x}) \cup {y}) <= Total(w, A)
<1>1. /\ A \ {x} \in SUBSET D /\ IsFiniteSet(A \ {x}) /\ {y} \in SUBSET D /\ IsFiniteSet({y})
      /\ {y} \ {y} = {} /\ {} \in SUBSET D /\ IsFiniteSet({})
  BY FS_Subset, FS_Singleton, FS_EmptySet
<1>2. Total(w, (A \ {x}) \cup {y}) <= Total(w, A \ {x}) + Total(w, {y})
  BY <1>1, TotalOfTwo
<1>3. Total(w, {y}) = w[y] + Total(w, {y} \ {y})
  BY <1>1, TotalTakes
<1>4. Total(w, {}) = 0
  BY <1>1, TotalUnfolds
<1>5. Total(w, {y}) = w[y] + 0
  BY <1>1, <1>3, <1>4
<1>6. Total(w, A) = w[x] + Total(w, A \ {x})
  BY TotalTakes
<1>7. Total(w, A \ {x}) \in Nat /\ w[x] \in Nat /\ Total(w, (A \ {x}) \cup {y}) \in Nat
  <2>1. (A \ {x}) \cup {y} \in SUBSET D /\ IsFiniteSet((A \ {x}) \cup {y})
    BY <1>1, FS_Union
  <2> QED BY <1>1, <2>1, TotalIsNat
<1> QED BY <1>2, <1>5, <1>6, <1>7

-----------------------------------------------------------------------------
(* The limits.                                                             *)

(* Every file there can be, and its size.                                  *)
Anywhere == Plans \X ShelfIds
Weight == [f \in Anywhere |-> Artifacts!SizeOf(f[2])]

LEMMA SizesAreNumbers == Weight \in [Anywhere -> Nat]
<1> SUFFICES ASSUME NEW f \in Anywhere PROVE Artifacts!SizeOf(f[2]) \in Nat
  BY DEF Weight
<1>1. PICK r \in Numbers : f[2] = Artifacts!Id(r)
  BY DEF Anywhere, ShelfIds
<1>2. (CHOOSE q \in DOMAIN Catalog : Artifacts!Id(q) = f[2]) \in DOMAIN Catalog
  BY <1>1 DEF Numbers
<1> QED BY <1>2, LimitAssumption DEF Artifacts!SizeOf

LEMMA BytesAddUp == \A these \in SUBSET Anywhere : Artifacts!Bytes(these) = Total(Weight, these)
<1> SUFFICES ASSUME NEW these \in SUBSET Anywhere
             PROVE  Artifacts!Bytes(these) = Total(Weight, these)
  OBVIOUS
<1> DEFINE Adds(f) == f = [s \in SUBSET these |->
             IF s = {} THEN 0
             ELSE Artifacts!SizeOf((CHOOSE x \in s : TRUE)[2]) + f[s \ {CHOOSE x \in s : TRUE}]]
<1>1. Artifacts!Bytes(these) = (CHOOSE f : Adds(f))[these]
  BY DEF Artifacts!Bytes, Artifacts!MapThenSumSet, Artifacts!MapThenFoldSet
<1>2. \A s \in SUBSET these : s # {} =>
        Weight[CHOOSE x \in s : TRUE] = Artifacts!SizeOf((CHOOSE x \in s : TRUE)[2])
  BY DEF Weight
<1>3. \A f : Adds(f) <=> Sums(f, Weight, these)
  BY <1>2 DEF Sums
<1> HIDE DEF Adds
<1>4. (CHOOSE f : Adds(f)) = (CHOOSE f : Sums(f, Weight, these))
  BY <1>3
<1> QED BY <1>1, <1>4 DEF Total

(* What is on disk fits, and so does what a render that was admitted will  *)
(* add to it.                                                              *)
FitsInv ==
  /\ files \subseteq Anywhere /\ IsFiniteSet(files)
  /\ Artifacts!Used <= HardLimit
  /\ render.step = "running" =>
       render.run \in Renders /\ Artifacts!Used + render.run.estimate <= HardLimit

(* Room is kept by a step that does not start a render and adds nothing.   *)
LEMMA FitsWithLess ==
  ASSUME FitsInv, files' \subseteq Anywhere, IsFiniteSet(files'),
      Artifacts!Used' <= Artifacts!Used,
         render'.step = "running" => UNCHANGED render
  PROVE  FitsInv'
<1>1. Artifacts!Used \in Nat /\ Artifacts!Used' \in Nat
  BY SizesAreNumbers, BytesAddUp, TotalIsNat DEF FitsInv, Artifacts!Used
<1>2. \A a, b, e, h \in Nat : a <= b => (b <= h => a <= h) /\ (b + e <= h => a + e <= h)
  OBVIOUS
<1>3. HardLimit \in Nat /\ \A x \in Renders : x.estimate \in Nat
  BY LimitAssumption
<1>4. Artifacts!Used' <= HardLimit
  BY <1>1, <1>2, <1>3 DEF FitsInv
<1>5. ASSUME render'.step = "running"
      PROVE  render'.run \in Renders /\ Artifacts!Used' + render'.run.estimate <= HardLimit
  <2>1. render' = render
    BY <1>5
  <2>2. render.run \in Renders /\ Artifacts!Used + render.run.estimate <= HardLimit
    BY <1>5, <2>1 DEF FitsInv
  <2> QED BY <1>1, <1>2, <1>3, <2>1, <2>2
<1> QED BY <1>4, <1>5 DEF FitsInv

LEMMA FitsInitially == Artifacts!ShelfInit => FitsInv
<1> SUFFICES ASSUME Artifacts!ShelfInit PROVE FitsInv
  OBVIOUS
<1>1. files = {} /\ render.step = "idle"
  BY DEF Artifacts!ShelfInit
<1>2. Artifacts!Used = 0
  BY <1>1, BytesAddUp, TotalUnfolds, FS_EmptySet DEF Artifacts!Used
<1> QED BY <1>1, <1>2, LimitAssumption, FS_EmptySet DEF FitsInv

LEMMA RoomForRender ==
  ASSUME RegistryInv, FitsInv, NEW x \in Renders, Artifacts!StartRender(x)
  PROVE  FitsInv'
<1>1. Artifacts!Used + x.estimate <= HardLimit /\ UNCHANGED files /\ render'.run = x
  BY DEF Artifacts!StartRender, Artifacts!Admitted, RegistryInv, RenderParts
<1>2. Artifacts!Used' = Artifacts!Used
  BY <1>1 DEF Artifacts!Used
<1> QED BY <1>1, <1>2 DEF FitsInv

LEMMA RenderFits ==
  ASSUME RegistryInv, FitsInv, Artifacts!RunRender
  PROVE  FitsInv'
<1> DEFINE run == render.run
           new == {Artifacts!Shelf} \X Artifacts!IdsOf(run.rows)
<1>1. run \in Renders /\ Artifacts!Used + run.estimate <= HardLimit
      /\ files' = files \cup new /\ render'.step = "import"
  BY DEF Artifacts!RunRender, FitsInv, RegistryInv, RenderParts
<1>2. run.rows \in SUBSET Numbers
  BY <1>1, CatalogAssumption DEF Numbers
<1>3. new \in SUBSET Anywhere /\ IsFiniteSet(new)
  <2>1. new \subseteq Anywhere
    BY <1>2 DEF Anywhere, Plans, Artifacts!Shelf, ShelfIds, Artifacts!IdsOf
  <2>2. IsFiniteSet(Artifacts!IdsOf(run.rows)) /\ IsFiniteSet({Artifacts!Shelf})
    BY <1>2, IdsOfRows, FS_Singleton
  <2> QED BY <2>1, <2>2, FS_Product
<1> HIDE DEF new
<1>4. files \in SUBSET Anywhere /\ files' \in SUBSET Anywhere /\ IsFiniteSet(files)
          /\ IsFiniteSet(files')
  BY <1>1, <1>3, FS_Union DEF FitsInv
<1>5. Artifacts!Used = Total(Weight, files) /\ Artifacts!Used' = Total(Weight, files')
  BY <1>4, BytesAddUp DEF Artifacts!Used
<1>6. Total(Weight, new) <= run.estimate
  <2>1. Total(Weight, new) = Artifacts!Bytes(new)
    BY <1>3, BytesAddUp
  <2> QED BY <1>1, <2>1, LimitAssumption DEF new
<1>7. Total(Weight, files') <= Total(Weight, files) + Total(Weight, new)
  BY <1>1, <1>3, <1>4, SizesAreNumbers, TotalOfTwo
<1>8. /\ Total(Weight, files) \in Nat /\ Total(Weight, files') \in Nat
             /\ Total(Weight, new) \in Nat
      /\ run.estimate \in Nat /\ HardLimit \in Nat
  BY <1>1, <1>3, <1>4, SizesAreNumbers, TotalIsNat, LimitAssumption
<1> HIDE DEF run
<1>9. Artifacts!Used' <= HardLimit
  BY <1>1, <1>5, <1>6, <1>7, <1>8
<1> QED BY <1>1, <1>4, <1>9 DEF FitsInv

(* A file that changes its place keeps its size.                           *)
LEMMA MovesKeepSize ==
  ASSUME FitsInv, NEW id \in ShelfIds, NEW from \in Plans, NEW to \in Plans,
         <<from, id>> \in files, Artifacts!Move(id, from, to)
  PROVE  files' \subseteq Anywhere /\ IsFiniteSet(files') /\ Artifacts!Used' <= Artifacts!Used
<1> DEFINE x == <<from, id>>
           y == <<to, id>>
<1>1. files' = (files \ {x}) \cup {y} /\ x \in files
  BY DEF Artifacts!Move
<1>2. x \in Anywhere /\ y \in Anywhere /\ Weight[x] = Weight[y]
  BY DEF Anywhere, Weight
<1>3. files \in SUBSET Anywhere /\ IsFiniteSet(files)
  BY DEF FitsInv
<1> HIDE DEF x, y
<1>4. files' \in SUBSET Anywhere /\ IsFiniteSet(files')
  BY <1>1, <1>2, <1>3, FS_Subset, FS_Singleton, FS_Union
<1>5. Total(Weight, files') <= Total(Weight, files)
  BY <1>1, <1>2, <1>3, SizesAreNumbers, TotalMoved
<1>6. Artifacts!Used = Total(Weight, files) /\ Artifacts!Used' = Total(Weight, files')
  BY <1>3, <1>4, BytesAddUp DEF Artifacts!Used
<1> QED BY <1>4, <1>5, <1>6

LEMMA KeepersKeepRoom ==
  ASSUME TrashInv, FitsInv, NEW k \in Keepers, KeeperStep(k)
  PROVE  FitsInv'
<1>1. UNCHANGED render
  BY DEF KeeperStep, Artifacts!MakePlan, Artifacts!CheckPlan, Artifacts!MoveNext,
      Artifacts!WriteReceipt,
     Artifacts!UndoMove, Artifacts!StartRestore, Artifacts!RestoreNext, Artifacts!KeeperDies
<1>2. SUFFICES files' \subseteq Anywhere /\ IsFiniteSet(files')
          /\ Artifacts!Used' <= Artifacts!Used
  BY <1>1, FitsWithLess
<1>3. CASE UNCHANGED files
  <2>1. Artifacts!Used' = Artifacts!Used /\ Artifacts!Used \in Nat
    BY <1>3, SizesAreNumbers, BytesAddUp, TotalIsNat DEF Artifacts!Used, FitsInv
  <2> QED BY <1>3, <2>1 DEF FitsInv
<1>4. \A id \in ShelfIds : \A from, to \in Plans :
        <<from, id>> \in files /\ Artifacts!Move(id, from, to) =>
          files' \subseteq Anywhere /\ IsFiniteSet(files') /\ Artifacts!Used' <= Artifacts!Used
  BY MovesKeepSize
<1>5. Artifacts!Shelf \in Plans /\ keeper[k].plan \in Plans /\ keeper[k].moved \in Seq(ShelfIds)
  BY DEF TrashInv, KeeperTypes, KeeperRecord, Plans, Artifacts!Shelf
<1>6. CASE Artifacts!MoveNext(k)
  <2>1. Artifacts!Waiting(k) # {} /\ Artifacts!Id(Artifacts!NextInLine(k)) \in ShelfIds
    BY <1>6, NextWaits DEF Artifacts!MoveNext, TrashInv
  <2>2. CASE ~UNCHANGED files
    BY <1>4, <1>5, <1>6, <2>1, <2>2 DEF Artifacts!MoveNext, Artifacts!OnShelf
  <2> QED BY <1>3, <2>2
<1>7. CASE Artifacts!UndoMove(k) /\ ~UNCHANGED files
  <2>1. keeper[k].moved # << >>
        /\ <<keeper[k].plan, Artifacts!Last(keeper[k].moved)>> \in files
        /\ Artifacts!Move(Artifacts!Last(keeper[k].moved), keeper[k].plan, Artifacts!Shelf)
    BY <1>7 DEF Artifacts!UndoMove
  <2>2. Artifacts!Last(keeper[k].moved) \in ShelfIds
    BY <1>5, <2>1, SequencesOfIds
  <2> QED BY <1>4, <1>5, <2>1, <2>2
<1>8. CASE Artifacts!RestoreNext(k) /\ ~UNCHANGED files
  <2> DEFINE receipt == keeper[k].receipt
             n == Len(keeper[k].moved) + 1
  <2>1. /\ keeper[k].step = "restoring" /\ n <= Len(receipt.moved)
        /\ <<receipt.plan, receipt.moved[n]>> \in files
        /\ Artifacts!Move(receipt.moved[n], receipt.plan, Artifacts!Shelf)
    BY <1>8 DEF Artifacts!RestoreNext, Artifacts!Is
  <2>2. receipt \in Receipts
    BY <2>1 DEF TrashInv, KeeperTypes
  <2>3. receipt.plan \in Plans /\ receipt.moved \in Seq(ShelfIds) /\ n \in Nat \ {0}
    BY <1>5, <2>2 DEF Receipts
  <2>4. receipt.moved[n] \in ShelfIds
    BY <2>1, <2>3
  <2> QED BY <1>4, <1>5, <2>1, <2>3, <2>4
<1>9. CASE ~(Artifacts!MoveNext(k) \/ Artifacts!UndoMove(k) \/ Artifacts!RestoreNext(k))
  BY <1>3, <1>9 DEF KeeperStep, Artifacts!MakePlan, Artifacts!CheckPlan, Artifacts!WriteReceipt,
     Artifacts!StartRestore, Artifacts!KeeperDies
<1> QED BY <1>3, <1>6, <1>7, <1>8, <1>9

LEMMA FitsStep == RegistryInv /\ TrashInv /\ FitsInv /\ [Artifacts!ShelfNext]_shelfVars =>
    FitsInv'
<1> SUFFICES ASSUME RegistryInv, TrashInv, FitsInv, [Artifacts!ShelfNext]_shelfVars PROVE FitsInv'
  OBVIOUS
<1>1. ASSUME UNCHANGED files, render'.step = "running" => UNCHANGED render PROVE FitsInv'
  <2>1. Artifacts!Used' = Artifacts!Used /\ Artifacts!Used \in Nat
    BY <1>1, SizesAreNumbers, BytesAddUp, TotalIsNat DEF Artifacts!Used, FitsInv
  <2>2. files' \subseteq Anywhere /\ IsFiniteSet(files') /\ Artifacts!Used' <= Artifacts!Used
    BY <1>1, <2>1 DEF FitsInv
  <2> QED BY <1>1, <2>2, FitsWithLess
<1>2. CASE \/ Artifacts!ImportRows \/ Artifacts!AppendRow
          \/ Artifacts!FinishRender \/ Artifacts!RendererDies
  <2>1. UNCHANGED files
    BY <1>2 DEF Artifacts!ImportRows, Artifacts!AppendRow, Artifacts!FinishRender,
        Artifacts!RendererDies
  <2>2. render'.step # "running"
    <3>1. Artifacts!RenderEnds => render'.step = "idle"
      BY DEF Artifacts!RenderEnds, RegistryInv, RenderParts
    <3>2. CASE Artifacts!ImportRows
      <4>1. \/ Artifacts!RenderEnds
            \/ \E P : render' = [render EXCEPT !.step = "append", !.pending = P]
        BY <3>2, Zenon DEF Artifacts!ImportRows
      <4> QED BY <3>1, <4>1 DEF RegistryInv, RenderParts
    <3>3. CASE Artifacts!AppendRow
      BY <3>1, <3>3 DEF Artifacts!AppendRow, RegistryInv, RenderParts
    <3> QED BY <1>2, <3>1, <3>2, <3>3 DEF Artifacts!FinishRender, Artifacts!RendererDies
  <2> QED BY <1>1, <2>1, <2>2
<1>3. CASE UNCHANGED shelfVars
  BY <1>1, <1>3 DEF shelfVars
<1>4. CASE Artifacts!RunRender
  BY <1>4, RenderFits
<1>5. ASSUME NEW x \in Renders, Artifacts!StartRender(x) PROVE FitsInv'
  BY <1>5, RoomForRender
<1>6. ASSUME NEW k \in Keepers, KeeperStep(k) PROVE FitsInv'
  BY <1>6, KeepersKeepRoom
<1> QED BY <1>2, <1>3, <1>4, <1>5, <1>6 DEF Artifacts!ShelfNext, KeeperStep

(* What an inventory is made of.                                           *)
Stock(inv) ==
  /\ IsFiniteSet(inv.payloads)
  /\ \A p \in inv.payloads : p.size \in Nat /\ p.created \in Int /\ p.id \in Int
  /\ \A e \in inv.entries : e.created \in Int /\ e.accessed \in Int

Orders(policy) == policy.soft \in Int /\ policy.ttl \in Int /\ policy.asOf \in Int

HeldInv ==
  \/ held.inventory = Retention!Nothing
  \/ held.inventory \in Inventories /\ held.policy \in Policies

LEMMA HeldStep == HeldInv /\ [Retention!RetentionNext]_retentionVars => HeldInv'
<1> SUFFICES ASSUME HeldInv, [Retention!RetentionNext]_retentionVars PROVE HeldInv'
  OBVIOUS
<1>1. CASE Retention!TakeStock
  BY <1>1 DEF Retention!TakeStock, HeldInv
<1>2. CASE UNCHANGED held
  BY <1>2 DEF HeldInv
<1>3. ASSUME NEW c \in Cleaners,
             \/ Retention!StartPlan(c) \/ Retention!StartRestoration(c) \/ Retention!CarryNext(c)
             \/ Retention!RecordTransaction(c) \/ Retention!UndoCarry(c) \/ Retention!CleanerDies(c)
      PROVE  UNCHANGED held
  BY <1>3 DEF Retention!StartPlan, Retention!StartRestoration, Retention!CarryNext,
     Retention!RecordTransaction, Retention!UndoCarry, Retention!CleanerDies
<1>4. UNCHANGED retentionVars => UNCHANGED held
  BY DEF retentionVars
<1> QED BY <1>1, <1>2, <1>3, <1>4 DEF Retention!RetentionNext

(* The sizes of payloads add up to a number.                               *)
LEMMA SizesAddUp ==
  ASSUME NEW S, IsFiniteSet(S), \A p \in S : p.size \in Nat
  PROVE  Retention!SizeSum(S) \in Nat /\ (S = {} => Retention!SizeSum(S) = 0)
<1> DEFINE w == [p \in S |-> p.size]
           Adds(f) == f = [s \in SUBSET S |->
             IF s = {} THEN 0
             ELSE (CHOOSE x \in s : TRUE).size + f[s \ {CHOOSE x \in s : TRUE}]]
<1>1. Retention!SizeSum(S) = (CHOOSE f : Adds(f))[S]
  BY DEF Retention!SizeSum, Retention!FoldSet, Retention!MapThenFoldSet
<1>2. \A s \in SUBSET S : s # {} => w[CHOOSE x \in s : TRUE] = (CHOOSE x \in s : TRUE).size
  OBVIOUS
<1>w. w \in [S -> Nat]
  OBVIOUS
<1> HIDE DEF w
<1>3. \A f : Adds(f) <=> Sums(f, w, S)
  BY <1>2 DEF Sums
<1> HIDE DEF Adds
<1>4. (CHOOSE f : Adds(f)) = (CHOOSE f : Sums(f, w, S))
  BY <1>3
<1>5. Retention!SizeSum(S) = Total(w, S)
  BY <1>1, <1>4 DEF Total
<1>6. S \in SUBSET S
  OBVIOUS
<1>7. Total(w, S) \in Nat
  BY <1>w, <1>6, TotalIsNat
<1>8. S = {} => Total(w, S) = 0
  BY TotalUnfolds
<1> QED BY <1>5, <1>7, <1>8

(* The ids of an inventory that is reported on are distinct.               *)
LEMMA ReportedIsDistinct ==
  ASSUME NEW inv, Retention!FirstFault(Retention!ReportRows(inv)) = Retention!Fine
  PROVE  \A p, q \in inv.payloads : p.id = q.id => p = q
<1> DEFINE lost == \E e \in inv.entries : ~\E p \in inv.payloads : p.id = e.payload
           twice == \E p, q \in inv.payloads : p # q /\ p.id = q.id
           S == BOOLEAN \X {"CACHE_REFERENCE_INVALID"}
           a == <<lost, "CACHE_REFERENCE_INVALID">>
           b == <<twice, "CACHE_REFERENCE_INVALID">>
           rows == << a, b >>
<1>1. Retention!ReportRows(inv) = rows
  BY Zenon DEF Retention!ReportRows
<1>2. lost \in BOOLEAN /\ twice \in BOOLEAN
  OBVIOUS
<1>3. twice \/ \A p, q \in inv.payloads : p.id = q.id => p = q
  OBVIOUS
<1> HIDE DEF lost, twice
<1>4. a \in S /\ b \in S /\ b[1] = twice /\ \A x \in S : x[2] # Intake!Fine
  BY <1>2 DEF Intake!Fine
<1> HIDE DEF a, b, S
<1>5. rows \in Chain(S, 2) /\ rows[2] = b
  BY <1>4, TwoRows
<1>6. Intake!FirstFault(rows) = Intake!Fine
  <2>1. \A r : Retention!FirstFault(r) = Intake!FirstFault(r)
    BY DEF Retention!FirstFault, Intake!FirstFault, Retention!Fine, Intake!Fine
  <2> QED BY <1>1, <2>1 DEF Retention!Fine, Intake!Fine
<1> HIDE DEF rows
<1>7. ~rows[2][1]
  <2>1. \A i \in 1 .. 2 : ~rows[i][1]
    BY <1>4, <1>5, <1>6, NoRowHolds
  <2> QED BY <2>1
<1> QED BY <1>3, <1>4, <1>5, <1>7

Leaving(inv, policy) == {p \in inv.payloads : Retention!Eligible(inv, policy, p)}

(* In a finite set that an order sorts, every place is taken by one.       *)
LEMMA QueueIsFull ==
  ASSUME NEW inv, NEW policy, Stock(inv), \A p, q \in inv.payloads : p.id = q.id => p = q
  PROVE  /\ Cardinality(Leaving(inv, policy)) \in Nat
         /\ Retention!Queue(inv, policy) \in
              [1 .. Cardinality(Leaving(inv, policy)) -> Leaving(inv, policy)]
<1> DEFINE G == Leaving(inv, policy)
           N == Cardinality(G)
           Before(p) == {q \in G : Retention!Older(q, p)}
           rank == [p \in G |-> Cardinality(Before(p)) + 1]
<1>1. IsFiniteSet(G) /\ N \in Nat
  BY FS_Subset, FS_CardinalityType DEF Stock, Leaving
<1>2. \A p \in G : p.created \in Int /\ p.id \in Int
  BY DEF Stock, Leaving
<1>3. \A p, q \in G : p.id = q.id => p = q
  BY DEF Leaving
<1>4. Retention!Queue(inv,
          policy) = [n \in 1 .. N |-> CHOOSE p \in G : Cardinality(Before(p)) = n - 1]
  BY DEF Retention!Queue, Leaving, Retention!Cardinality, Cardinality
<1> HIDE DEF G
<1>5. \A p \in G : ~Retention!Older(p, p)
  BY <1>2 DEF Retention!Older
<1>6. \A p, q, r \in G : Retention!Older(p, q) /\ Retention!Older(q, r) => Retention!Older(p, r)
  BY <1>2 DEF Retention!Older
<1>7. \A p, q \in G : p # q => Retention!Older(p, q) \/ Retention!Older(q, p)
  BY <1>2, <1>3 DEF Retention!Older
<1>8. \A p \in G : /\ IsFiniteSet(Before(p)) /\ Cardinality(Before(p)) \in Nat
                   /\ Cardinality(Before(p)) < N
  <2> SUFFICES ASSUME NEW p \in G
               PROVE  /\ IsFiniteSet(Before(p)) /\ Cardinality(Before(p)) \in Nat
                      /\ Cardinality(Before(p)) < N
    OBVIOUS
  <2>1. Before(p) \in SUBSET G /\ Before(p) # G
    BY <1>5
  <2> HIDE DEF Before
  <2>2. IsFiniteSet(Before(p)) /\ Cardinality(Before(p)) \in Nat
    BY <1>1, <2>1, FS_Subset, FS_CardinalityType
  <2>3. Cardinality(Before(p)) <= N /\ Cardinality(Before(p)) # N
    BY <1>1, <2>1, FS_Subset
  <2> QED BY <1>1, <2>2, <2>3
<1>9. \A p, q \in G : Retention!Older(p, q) => Cardinality(Before(p)) < Cardinality(Before(q))
  <2> SUFFICES ASSUME NEW p \in G, NEW q \in G, Retention!Older(p, q)
               PROVE  Cardinality(Before(p)) < Cardinality(Before(q))
    OBVIOUS
  <2>1. Before(p) \in SUBSET Before(q) /\ p \in Before(q) /\ p \notin Before(p)
    BY <1>5, <1>6
  <2> HIDE DEF Before
  <2>2. Before(p) # Before(q)
    BY <2>1
  <2>3. Cardinality(Before(p)) <= Cardinality(Before(q))
        /\ Cardinality(Before(p)) # Cardinality(Before(q))
    BY <1>8, <2>1, <2>2, FS_Subset
  <2> QED BY <1>8, <2>3
<1>10. rank \in Injection(G, 1 .. N)
  <2>1. \A p \in G : rank[p] = Cardinality(Before(p)) + 1 /\ rank[p] \in 1 .. N
    <3> HIDE DEF Before
    <3> QED BY <1>1, <1>8
  <2>2. \A p, q \in G : p # q => rank[p] # rank[q]
    <3> SUFFICES ASSUME NEW p \in G, NEW q \in G, p # q PROVE rank[p] # rank[q]
      OBVIOUS
    <3>1. Cardinality(Before(p)) # Cardinality(Before(q))
      <4> HIDE DEF Before
      <4> QED BY <1>7, <1>8, <1>9
    <3> HIDE DEF Before, rank
    <3> QED BY <1>8, <2>1, <3>1
  <2>3. rank \in [G -> 1 .. N]
    <3>1. DOMAIN rank = G /\ rank = [p \in G |-> rank[p]]
      OBVIOUS
    <3> HIDE DEF rank, Before
    <3> QED BY <2>1, <3>1
  <2> HIDE DEF rank
  <2> QED BY <2>2, <2>3 DEF Injection, IsInjective
<1>11. rank \in Surjection(G, 1 .. N)
  <2>1. IsFiniteSet(1 .. N) /\ Cardinality(1 .. N) = N
    <3>1. IsFiniteSet(1 .. N) /\ Cardinality(1 .. N) = IF 1 > N THEN 0 ELSE N - 1 + 1
      <4> HIDE DEF N
      <4> QED BY <1>1, FS_Interval
    <3> HIDE DEF N
    <3> QED BY <1>1, <3>1
  <2> HIDE DEF rank
  <2> QED BY <1>10, <2>1, FS_Injection
<1>12. ASSUME NEW n \in 1 .. N PROVE \E p \in G : Cardinality(Before(p)) = n - 1
  <2>1. \E p \in G : rank[p] = n
    <3> HIDE DEF rank
    <3> QED BY <1>11, <1>12 DEF Surjection
  <2>2. PICK p \in G : Cardinality(Before(p)) + 1 = n
    BY <2>1
  <2> HIDE DEF Before
  <2> QED BY <1>8, <2>2
<1> QED BY <1>1, <1>4, <1>12 DEF G

(* What is taken of a queue: its first m members, none when it has none,   *)
(* and the last of them before the rest would have been enough.            *)
LEMMA TakenIsPart ==
  ASSUME NEW inv, NEW policy, NEW G, NEW N \in Nat, Retention!Queue(inv, policy) \in [1 .. N -> G]
  PROVE  /\ Retention!Taken(inv, policy) \in Seq(G)
         /\ Retention!Taken(inv, policy) # << >>
                /\ Retention!Front(Retention!Taken(inv, policy)) # << >> =>
              ~Retention!Enough(inv, policy, Retention!Front(Retention!Taken(inv, policy)))
<1> DEFINE queue == Retention!Queue(inv, policy)
           stops == {n \in DOMAIN queue : Retention!Enough(inv, policy, SubSeq(queue, 1, n))}
           m == IF stops = {} THEN Len(queue) ELSE Retention!Min(stops)
           taken == SubSeq(queue, 1, m)
<1>1. Retention!Taken(inv, policy) = taken
  BY DEF Retention!Taken
<1>2. queue \in Seq(G) /\ Len(queue) = N /\ DOMAIN queue = 1 .. N
  <2>1. queue \in [1 .. N -> G]
    OBVIOUS
  <2> HIDE DEF queue
  <2>2. queue \in Seq(G)
    BY <2>1, SeqDef
  <2> QED BY <2>1, <2>2, LenProperties
<1>3. stops \in SUBSET (1 .. N)
  BY <1>2
<1>4. m \in 0 .. N /\ \A n \in stops : m <= n
  <2>1. CASE stops = {}
    BY <1>2, <2>1
  <2>2. CASE stops # {}
    <3> HIDE DEF stops
    <3>1. \E i \in stops : \A j \in stops : i <= j
      BY <1>3, <2>2, LeastNumber
    <3>2. Retention!Min(stops) \in stops /\ \A j \in stops : Retention!Min(stops) <= j
      BY <3>1 DEF Retention!Min
    <3>3. m = Retention!Min(stops)
      BY <2>2
    <3> HIDE DEF m
    <3>4. m \in 1 .. N /\ \A n \in stops : m <= n
      BY <1>3, <3>2, <3>3
    <3> QED BY <3>4
  <2> QED BY <2>1, <2>2
<1> HIDE DEF m
<1>5. taken \in Seq(G) /\ Len(taken) = m /\ \A i \in 1 .. m : taken[i] = queue[i]
  <2> HIDE DEF queue
  <2>1. \A i \in 1 .. m : queue[i] \in G
    BY <1>2, <1>4
  <2> QED BY <1>4, <2>1, SubSeqProperties
<1>6. ASSUME Retention!Front(taken) # << >>
      PROVE  ~Retention!Enough(inv, policy, Retention!Front(taken))
  <2> HIDE DEF queue, taken
  <2>1. Retention!Front(taken) = SubSeq(taken, 1, m - 1)
    BY <1>5 DEF Retention!Front
  <2>2. m - 1 >= 1
    BY <1>4, <1>6, <2>1, SubSeqEmpty
  <2>3. SubSeq(taken, 1, m - 1) = SubSeq(queue, 1, m - 1)
    <3>1. \A i \in 1 .. m - 1 : taken[i] = queue[i]
      BY <1>4, <1>5
    <3> QED BY <1>4, <3>1
  <2>4. m - 1 \in 1 .. N /\ m - 1 \notin stops
    BY <1>4, <2>2
  <2> QED BY <1>2, <2>1, <2>3, <2>4
<1> QED BY <1>1, <1>5, <1>6

LEMMA PlansSpare ==
  ASSUME NEW inv, NEW policy, Stock(inv), Orders(policy),
         Retention!FirstFault(Retention!ReportRows(inv)) = Retention!Fine
  PROVE  /\ \A p \in Retention!Range(Retention!Taken(inv, policy)) : \A e \in inv.entries :
              e.payload = p.id /\ e.ready =>
                /\ e.artifacts \cap policy.retained = {}
                /\ policy.asOf - Retention!LastUse(e) >= policy.ttl
         /\ Retention!Physical(inv) > policy.soft /\ Retention!Taken(inv, policy) # << >> =>
              ~Retention!Enough(inv, policy, Retention!Front(Retention!Taken(inv, policy)))
<1> DEFINE G == Leaving(inv, policy)
           taken == Retention!Taken(inv, policy)
<1>1. Cardinality(G) \in Nat /\ Retention!Queue(inv, policy) \in [1 .. Cardinality(G) -> G]
  BY ReportedIsDistinct, QueueIsFull
<1>2. /\ taken \in Seq(G)
      /\ taken # << >> /\ Retention!Front(taken) # << >> =>
           ~Retention!Enough(inv, policy, Retention!Front(taken))
  BY <1>1, TakenIsPart
<1>3. \A p \in Retention!Range(taken) : p \in G
  BY <1>2 DEF Retention!Range
<1>4. ASSUME NEW p \in G, NEW e \in inv.entries, e.payload = p.id, e.ready
      PROVE  e.artifacts \cap policy.retained = {}
          /\ policy.asOf - Retention!LastUse(e) >= policy.ttl
  <2>1. e \in Retention!References(inv, p) /\ Retention!Eligible(inv, policy, p)
    BY <1>4 DEF Leaving, Retention!References
  <2>2. e.artifacts \cap policy.retained = {} /\ policy.asOf >= Retention!LastUse(e) + policy.ttl
    BY <2>1 DEF Retention!Eligible
  <2>3. Retention!LastUse(e) \in Int /\ policy.asOf \in Int /\ policy.ttl \in Int
    BY <1>4 DEF Stock, Orders, Retention!LastUse
  <2> QED BY <2>2, <2>3
<1>5. ASSUME Retention!Physical(inv) > policy.soft, Retention!Front(taken) = << >>
      PROVE  ~Retention!Enough(inv, policy, Retention!Front(taken))
  <2>1. Retention!Physical(inv) \in Nat
    <3>1. Retention!ReadyPayloads(inv) \in SUBSET inv.payloads
      BY DEF Retention!ReadyPayloads
    <3>2. IsFiniteSet(Retention!ReadyPayloads(inv))
              /\ \A p \in Retention!ReadyPayloads(inv) : p.size \in Nat
      BY <3>1, FS_Subset DEF Stock
    <3> QED BY <3>2, SizesAddUp DEF Retention!Physical
  <2>2. Retention!Range(<< >>) = {}
    BY DEF Retention!Range
  <2>3. Retention!SizeSum({}) = 0
    BY SizesAddUp, FS_EmptySet
  <2>4. Retention!SizeSum(Retention!Range(Retention!Front(taken))) = 0
    BY <1>5, <2>2, <2>3
  <2> HIDE DEF taken
  <2> QED BY <1>5, <2>1, <2>4 DEF Retention!Enough, Orders
<1> QED BY <1>2, <1>3, <1>4, <1>5

LEMMA PlansAreSpare == HeldInv => Retention!PlansAreSparing
<1> SUFFICES ASSUME HeldInv,
        Retention!FirstFault(Retention!ReportRows(held.inventory)) = Retention!Fine
             PROVE  LET inv == held.inventory
                        policy == held.policy
                        taken == Retention!Taken(inv, policy) IN
                    /\ \A p \in Retention!Range(taken) : \A e \in inv.entries :
                          e.payload = p.id /\ e.ready =>
                            e.artifacts \cap policy.retained = {}
                              /\ policy.asOf - Retention!LastUse(e) >= policy.ttl
                    /\ Retention!Physical(inv) > policy.soft /\ taken # << >> =>
                          ~Retention!Enough(inv, policy, Retention!Front(taken))
  BY DEF Retention!PlansAreSparing
<1> DEFINE inv == held.inventory
           policy == held.policy
<1>1. CASE inv \in Inventories /\ policy \in Policies
  <2>1. Stock(inv) /\ Orders(policy)
    BY <1>1, InventoriesAssumption DEF Stock, Orders
  <2> QED BY <2>1, PlansSpare
<1>2. CASE inv = Retention!Nothing
  <2>1. Stock(inv) /\ inv.payloads = {} /\ inv.entries = {}
    BY <1>2, FS_EmptySet DEF Retention!Nothing, Stock
  <2>2. Cardinality(Leaving(inv, policy)) = 0 /\ Leaving(inv, policy) = {}
    BY <2>1, FS_EmptySet DEF Leaving
  <2> HIDE DEF inv, policy
  <2>3. Retention!Queue(inv, policy) \in [1 .. 0 -> {}]
    BY <2>1, <2>2, QueueIsFull
  <2>4. Retention!Taken(inv, policy) \in Seq({})
    BY <2>3, TakenIsPart
  <2>5. Retention!Taken(inv, policy) = << >>
    BY <2>4
  <2> QED BY <2>1, <2>5 DEF inv, policy
<1> QED BY <1>1, <1>2 DEF HeldInv

(* The managed directory never holds more than the hard limit, trash       *)
(* included, and a plan of the soft quota takes no payload that a live     *)
(* entry needs, nor one more than the soft limit asks for.                 *)
THEOREM LimitsAreKept == StoresSpec => []LimitsHold
<1>1. StoresInit => RegistryInv /\ TrashInv /\ FitsInv /\ HeldInv
  <2>1. Artifacts!ShelfInit => RegistryInv /\ TrashInv /\ FitsInv
    BY RegistryInitially, TrashInitially, FitsInitially
  <2>2. Retention!RetentionInit => HeldInv
    BY DEF Retention!RetentionInit, HeldInv
  <2> QED BY <2>1, <2>2 DEF StoresInit
<1>2. [StoresNext]_storeVars =>
          [Artifacts!ShelfNext]_shelfVars /\ [Retention!RetentionNext]_retentionVars
  BY DEF StoresNext, storeVars, shelfVars, retentionVars
<1>3. FitsInv /\ HeldInv => LimitsHold
  BY PlansAreSpare DEF LimitsHold, FitsInv, Artifacts!WithinLimit
<1> QED BY <1>1, <1>2, <1>3, RegistryStep, TrashStep, FitsStep, HeldStep, PTL DEF StoresSpec
=============================================================================
