--------------------------- MODULE FullRenderProofs ---------------------------
(***************************************************************************)
(* Proofs about FullRender, for any number of attempts, outputs, faults    *)
(* and crashes.  The argument goes in five layers:                         *)
(*   TypeInv    types, and which local results exist in which phase;       *)
(*   LockExclusive   at most one attempt is inside a transaction, so the   *)
(*              head it compared under the lock stays the head;            *)
(*   ChainInv   what each phase knows about the head, from which the chain *)
(*              stays linear and implements OutputTarget;                  *)
(*   JournalInv what each phase has put on record, from which evidence,    *)
(*              revisions, success marks and compensations agree;          *)
(*   WriterInv, KeptInv   where the old and the new bytes are in each      *)
(*              phase of the only writer, and which copy of the last       *)
(*              committed render nobody is about to remove.                *)
(* The last three need SingleOwner: provisioning takes no lock.  The last  *)
(* needs one writer at a time (OneWriter), and for KeptInv that an append  *)
(* that raises has written nothing (AppendsAreWhole).                      *)
(***************************************************************************)
EXTENDS FullRender, SequenceTheorems, FiniteSetTheorems, TLAPS

-----------------------------------------------------------------------------
(* Types.                                                                  *)

(* From Cleanup on the attempt knows its provisional revision; in the      *)
(* failure path it does when it is about to compensate.                    *)
Provisional == {"cleaned", "recorded", "locked", "evidenced", "revised",
                "committed", "compensating", "compLocked"}

TypeInv ==
  /\ TypeOK
  /\ \A a \in Attempts : pc[a] \in Running => base[a] \in Row
  /\ \A a \in Attempts : pc[a] \in Provisional => prov[a] \in Row

(* The identity of a row is a list of bodies.                              *)
LEMMA RecordIdType == ASSUME NEW r \in Row PROVE RecordId(r) \in Seq(Body)
BY AppendProperties DEF RecordId, Row, Body

(* The two ways a new revision is built give rows.                         *)
LEMMA NextTargetRevisionType ==
  ASSUME NEW b \in Row, NEW c \in Output PROVE NextTargetRevision(b, c) \in Row
BY RecordIdType DEF NextTargetRevision, Row

LEMMA CompensationType ==
  ASSUME NEW b \in Row, NEW p \in Row PROVE BuildCompensationRevision(b, p) \in Row
BY RecordIdType DEF BuildCompensationRevision, Row

LEMMA InitialRowType == ASSUME NEW s \in BOOLEAN PROVE InitialRow(s) \in Row
BY DEF InitialRow, Row, Output, Body

(* A valid chain is not empty, so its head is a row.                       *)
LEMMA HeadType ==
  ASSUME targets \in Seq(Row), targets # << >> PROVE TargetHead \in Row
BY DEF TargetHead

(* TypeInv holds initially and every step preserves it.                    *)
LEMMA TypeInit == Init => TypeInv
BY BoundsAssumption DEF Init, TypeInv, TypeOK, Output, Running, Success, Failure, Phases, Provisional

LEMMA TypeStep == TypeInv /\ [Next]_vars => TypeInv'
<1> SUFFICES ASSUME TypeInv, [Next]_vars PROVE TypeInv'
  OBVIOUS
<1> USE DEF TypeInv, TypeOK, Goto, local, files, journal, env, Provisional,
            Running, Success, Failure, Phases, Final, Holding
<1>1. CASE UNCHANGED vars
  BY <1>1 DEF vars
<1>2. ASSUME NEW o \in Owners, ProvisionRead(o) PROVE TypeInv'
  BY <1>2 DEF ProvisionRead
<1>3. ASSUME NEW o \in Owners, ProvisionAppend(o) PROVE TypeInv'
  BY <1>3, InitialRowType, AppendProperties DEF ProvisionAppend
<1>4. ASSUME NEW a \in Attempts, Admit(a) PROVE TypeInv'
  BY <1>4, HeadType DEF Admit, ValidChain
<1>5. ASSUME NEW a \in Attempts, Succeed(a) PROVE TypeInv'
  <2>1. CASE Render(a) BY <2>1 DEF Render, Output
  <2>2. CASE RenderFails(a) BY <2>2 DEF RenderFails
  <2>3. CASE CheckPublish(a) BY <2>3 DEF CheckPublish
  <2>4. CASE Vacate(a) BY <2>4 DEF Vacate, Output
  <2>5. CASE PublishStaged(a) BY <2>5 DEF PublishStaged
  <2>6. CASE Cleanup(a) BY <2>6, NextTargetRevisionType DEF Cleanup
  <2>7. CASE WriteJournal(a) BY <2>7 DEF WriteJournal
  <2>8. CASE LockTargets(a) BY <2>8 DEF LockTargets
  <2>9. CASE AppendEvidence(a) BY <2>9 DEF AppendEvidence, Kinds, Unlock
  <2>10. CASE AppendRevision(a) BY <2>10, AppendProperties DEF AppendRevision
  <2>11. CASE AppendCommitted(a) BY <2>11 DEF AppendCommitted, Kinds, Unlock
  <2>12. CASE DropBackup(a) BY <2>12 DEF DropBackup, Output
  <2> QED BY <1>5, <2>1, <2>2, <2>3, <2>4, <2>5, <2>6, <2>7, <2>8, <2>9, <2>10,
             <2>11, <2>12 DEF Succeed
<1>6. ASSUME NEW a \in Attempts, Fail(a) PROVE TypeInv'
  <2>1. CASE HandleFailure(a)
    <3>1. dest' \in Output /\ backup' = backup /\ displaced' \in [Attempts -> Output]
      BY <2>1, SMTT(30) DEF HandleFailure, Output
    <3>2. pc' \in [Attempts -> Phases] /\ pc'[a] \in {"closing", "displaced", "raised"}
      BY <2>1 DEF HandleFailure
    <3> QED BY <2>1, <3>1, <3>2 DEF HandleFailure
  <2>2. CASE Reinstate(a) BY <2>2 DEF Reinstate, Output
  <2>3. CASE DropDisplaced(a) BY <2>3 DEF DropDisplaced, Output
  <2>4. CASE LockCompensation(a) BY <2>4 DEF LockCompensation
  <2>5. CASE AppendCompensation(a)
    <3>1. BuildCompensationRevision(base[a], prov[a]) \in Row
      BY <2>5, CompensationType DEF AppendCompensation
    <3>2. \/ targets' = targets
          \/ targets' = Append(targets, BuildCompensationRevision(base[a], prov[a]))
      BY <2>5 DEF AppendCompensation
    <3>3. targets' \in Seq(Row)
      BY <3>1, <3>2, AppendProperties
    <3> QED BY <2>5, <3>3 DEF AppendCompensation, Unlock
  <2>6. CASE MarkCompensation(a) BY <2>6 DEF MarkCompensation, Kinds, Unlock
  <2>7. CASE ResolveFailureBase(a)
    <3>1. ValidChain(targets) => TargetHead \in Row
      BY HeadType DEF ValidChain
    <3> QED BY <2>7, <3>1 DEF ResolveFailureBase
  <2>8. CASE WriteTerminalJournal(a) BY <2>8 DEF WriteTerminalJournal
  <2>9. CASE LockTerminal(a) BY <2>9 DEF LockTerminal
  <2>10. CASE AppendTerminalEvidence(a)
    BY <2>10 DEF AppendTerminalEvidence, Kinds, Unlock
  <2>11. CASE AppendTerminalCommitted(a)
    BY <2>11 DEF AppendTerminalCommitted, Kinds, Unlock
  <2> QED BY <1>6, <2>1, <2>2, <2>3, <2>4, <2>5, <2>6, <2>7, <2>8, <2>9, <2>10,
             <2>11 DEF Fail
<1>7. ASSUME NEW a \in Attempts, FaultStep(a) PROVE TypeInv'
  <2> USE BoundsAssumption DEF Fault
  <2>1. CASE PublishRenameFails(a) BY <2>1 DEF PublishRenameFails, Output
  <2>2. CASE AttemptFileFails(a) BY <2>2 DEF AttemptFileFails
  <2>3. CASE DropBackupFails(a) BY <2>3 DEF DropBackupFails
  <2>4. CASE RestoreFails(a) BY <2>4 DEF RestoreFails
  <2>5. CASE JournalFails(a) BY <2>5 DEF JournalFails, Handler
  <2>6. CASE AppendFails(a)
    <3>1. targets' \in Seq(Row)
      <4>1. CASE UNCHANGED targets
        BY <4>1
      <4>2. CASE pc[a] = "evidenced" /\ targets' = Append(targets, prov[a])
        BY <4>2, AppendProperties
      <4>3. CASE /\ pc[a] = "compLocked"
                 /\ targets' = Append(targets, BuildCompensationRevision(base[a], prov[a]))
        BY <4>3, CompensationType, AppendProperties
      <4> QED BY <2>6, <4>1, <4>2, <4>3 DEF AppendFails, Landed
    <3>2. registry' \subseteq Attempts \X {"main", "terminal"} \X Kinds
      BY <2>6 DEF AppendFails, Landed, Kinds
    <3> QED BY <2>6, <3>1, <3>2 DEF AppendFails, Handler, Unlock
  <2> QED BY <1>7, <2>1, <2>2, <2>3, <2>4, <2>5, <2>6 DEF FaultStep
<1>8. ASSUME NEW a \in Attempts, Crash(a) PROVE TypeInv'
  BY <1>8, BoundsAssumption DEF Crash
<1> QED BY <1>1, <1>2, <1>3, <1>4, <1>5, <1>6, <1>7, <1>8 DEF Next

LEMMA TypeInvariant == Spec => []TypeInv
BY TypeInit, TypeStep, PTL DEF Spec

(* Every variable keeps its type, however many attempts run, fail or die.  *)
THEOREM TypeCorrect == Spec => []TypeOK
<1>1. TypeInv => TypeOK
  BY DEF TypeInv
<1> QED BY <1>1, TypeInvariant, PTL

-----------------------------------------------------------------------------
(* The lock.                                                               *)

LEMMA LockInit == Init => LockExclusive
BY NamesAssumption DEF Init, LockExclusive, Holding

LEMMA LockStep == TypeInv /\ LockExclusive /\ [Next]_vars => LockExclusive'
<1> SUFFICES ASSUME TypeInv, LockExclusive, [Next]_vars PROVE LockExclusive'
  OBVIOUS
<1> USE NamesAssumption DEF TypeInv, TypeOK, LockExclusive, Goto, Holding, Running,
        Success, Failure, Unlock, Phases, Final
<1>1. CASE UNCHANGED vars
  BY <1>1 DEF vars
<1>2. ASSUME NEW o \in Owners, ProvisionRead(o) \/ ProvisionAppend(o) PROVE LockExclusive'
  BY <1>2 DEF ProvisionRead, ProvisionAppend
<1>3. ASSUME NEW a \in Attempts, Admit(a) PROVE LockExclusive'
  BY <1>3 DEF Admit
<1>4. ASSUME NEW a \in Attempts, Succeed(a) PROVE LockExclusive'
  BY <1>4 DEF Succeed, Render, RenderFails, CheckPublish, Vacate, PublishStaged, Cleanup,
     WriteJournal, LockTargets, AppendEvidence, AppendRevision, AppendCommitted, DropBackup
<1>5. ASSUME NEW a \in Attempts, Fail(a) PROVE LockExclusive'
  <2>1. CASE HandleFailure(a) \/ Reinstate(a) \/ DropDisplaced(a)
    BY <2>1 DEF HandleFailure, Reinstate, DropDisplaced
  <2>2. CASE LockCompensation(a) \/ AppendCompensation(a) \/ MarkCompensation(a)
    BY <2>2 DEF LockCompensation, AppendCompensation, MarkCompensation
  <2>3. CASE ResolveFailureBase(a) \/ WriteTerminalJournal(a)
    BY <2>3 DEF ResolveFailureBase, WriteTerminalJournal
  <2>4. CASE LockTerminal(a) \/ AppendTerminalEvidence(a) \/ AppendTerminalCommitted(a)
    BY <2>4 DEF LockTerminal, AppendTerminalEvidence, AppendTerminalCommitted
  <2> QED BY <1>5, <2>1, <2>2, <2>3, <2>4 DEF Fail
<1>6. ASSUME NEW a \in Attempts, FaultStep(a) PROVE LockExclusive'
  BY <1>6 DEF FaultStep, PublishRenameFails, AttemptFileFails, DropBackupFails,
     RestoreFails, JournalFails, AppendFails, Handler
<1>7. ASSUME NEW a \in Attempts, Crash(a) PROVE LockExclusive'
  BY <1>7 DEF Crash
<1> QED BY <1>1, <1>2, <1>3, <1>4, <1>5, <1>6, <1>7 DEF Next

(* Whoever is inside a transaction created the lock file, and a lock file  *)
(* that nobody works under was left by a process that died.                *)
THEOREM LockIsExclusive == Spec => []LockExclusive
<1>1. Init => LockExclusive
  BY LockInit
<1> QED BY <1>1, TypeInvariant, LockStep, PTL DEF Spec

-----------------------------------------------------------------------------
(* What an attempt knows about the head.                                   *)

(* Its provisional revision is the successor of its base.                  *)
IsNext(a) ==
  out[a] \in Contents /\ prov[a] = NextTargetRevision(base[a], out[a])

Knows(a) ==
  /\ pc[a] \in Running => /\ targets # << >>
                          /\ ~targets[1].sealed
                          /\ base[a].revision >= 1
  /\ pc[a] \in {"new", "rendering", "rendered", "checked", "vacated", "published"} =>
       prov[a] = NoRow
  /\ pc[a] \in {"rendered", "checked", "vacated", "published"} => out[a] \in Contents
  /\ pc[a] \in {"failing", "displaced", "reinstated"} => prov[a] = NoRow \/ IsNext(a)
  /\ pc[a] \in Provisional => IsNext(a)
  /\ pc[a] = "evidenced" => TargetHead = base[a]

(* Every row of the chain is sealed or none is.                            *)
SealedAlike == \A i \in 1..Len(targets) : targets[i].sealed = targets[1].sealed

OwnerFirst == \A o \in Owners : owner[o] = "absent" => targets = << >>

ChainInv ==
  /\ ChainLinear
  /\ SealedAlike
  /\ OwnerFirst
  /\ \A a \in Attempts : Knows(a)

(* An identity determines its row: that is what the hash is for.           *)
LEMMA RecordIdInjective ==
  ASSUME NEW r \in Row, NEW s \in Row, RecordId(r) = RecordId(s) PROVE r = s
<1> DEFINE body(x) == [revision |-> x.revision, art |-> x.art,
                       replace |-> x.replace, sealed |-> x.sealed]
<1>1. body(r) \in Body /\ body(s) \in Body /\ r.prev \in Seq(Body) /\ s.prev \in Seq(Body)
  BY DEF Row, Body
<1>2. Append(r.prev, body(r)) = Append(s.prev, body(s))
  BY DEF RecordId
<1> HIDE DEF body
<1>3. r.prev = s.prev /\ body(r) = body(s)
  BY <1>1, <1>2, AppendInjective
<1> QED BY <1>3 DEF body, Row

(* A chain stays a chain when a row that follows its head is appended.     *)
LEMMA ChainGrows ==
  ASSUME NEW rows \in Seq(Row), ValidChain(rows), NEW r \in Row, ValidRow(r),
         r.revision = Len(rows) + 1, Follows(rows[Len(rows)], r)
  PROVE  ValidChain(Append(rows, r))
<1> DEFINE more == Append(rows, r)
<1>1. /\ more \in Seq(Row) /\ more # << >> /\ Len(more) = Len(rows) + 1
      /\ \A i \in 1..Len(rows) : more[i] = rows[i]
      /\ more[Len(rows) + 1] = r
  BY AppendProperties
<1>2. Len(rows) \in Nat /\ Len(rows) >= 1
  BY DEF ValidChain
<1>3. \A i \in 1..Len(more) : ValidRow(more[i]) /\ more[i].revision = i
  BY <1>1, <1>2 DEF ValidChain
<1>4. \A i \in 2..Len(more) : Follows(more[i - 1], more[i])
  <2> TAKE i \in 2..Len(more)
  <2>1. CASE i \in 2..Len(rows)
    BY <2>1, <1>1, <1>2 DEF ValidChain
  <2>2. CASE i = Len(rows) + 1
    BY <2>2, <1>1, <1>2
  <2> QED BY <1>1, <1>2, <2>1, <2>2
<1> HIDE DEF more
<1>5. more[1].prev = << >>
  BY <1>1, <1>2 DEF ValidChain
<1>6. ValidChain(more)
  BY <1>1, <1>3, <1>4, <1>5 DEF ValidChain
<1> QED BY <1>6 DEF more

(* The two revisions an attempt appends follow the heads they build on.    *)
LEMMA RevisionFollows ==
  ASSUME NEW b \in Row, NEW c \in Contents, b.revision >= 1
  PROVE  LET p == NextTargetRevision(b, c)
         IN ValidRow(p) /\ Follows(b, p) /\ p.revision = b.revision + 1 /\ p.art = c
BY NamesAssumption DEF NextTargetRevision, ValidRow, Follows, Row

LEMMA CompensationFollows ==
  ASSUME NEW b \in Row, NEW c \in Contents, b.revision >= 1
  PROVE  LET p == NextTargetRevision(b, c)
             q == BuildCompensationRevision(b, p)
         IN ValidRow(q) /\ Follows(p, q) /\ q.revision = p.revision + 1 /\ q.art = b.art
<1> DEFINE p == NextTargetRevision(b, c)
           q == BuildCompensationRevision(b, p)
<1>1. b.revision \in Nat /\ p.revision = b.revision + 1 /\ p.art = c /\ p.sealed = b.sealed
  BY DEF NextTargetRevision, Row
<1>2. /\ q.revision = p.revision + 1 /\ q.art = b.art /\ q.sealed = p.sealed
      /\ q.replace = (b.art # NoContent) /\ q.prev = RecordId(p)
  BY <1>1 DEF BuildCompensationRevision
<1> HIDE DEF p, q
<1>3. q.art = NoContent => ~q.replace
  BY <1>2, Zenon
<1>4. ValidRow(q)
  BY <1>1, <1>2, <1>3 DEF ValidRow
<1>5. q.art # NoContent => q.replace = (p.art # NoContent)
  BY <1>1, <1>2, NamesAssumption
<1>6. Follows(p, q)
  BY <1>2, <1>5 DEF Follows
<1> QED BY <1>2, <1>4, <1>6 DEF p, q

(* The head of a chain has the length as its revision.                     *)
LEMMA HeadRevision ==
  ASSUME targets \in Seq(Row), ValidChain(targets)
  PROVE  /\ TargetHead \in Row /\ Len(targets) \in Nat /\ Len(targets) >= 1
         /\ TargetHead.revision = Len(targets) /\ TargetHead.revision >= 1
BY DEF ValidChain, TargetHead

(* Comparing ids and hashes compares the rows.                             *)
LEMMA HeadIsThisRow ==
  ASSUME targets \in Seq(Row), NEW r \in Row, HeadIs(r)
  PROVE  ValidChain(targets) /\ TargetHead = r
BY HeadRevision, RecordIdInjective DEF HeadIs

-----------------------------------------------------------------------------
(* The only ways the target file changes.                                  *)

AppendsRevision(a) ==
  pc[a] = "evidenced" /\ targets' = Append(targets, prov[a])

AppendsCompensation(a) ==
  /\ pc[a] = "compLocked"
  /\ HeadIs(prov[a])
  /\ targets' = Append(targets, BuildCompensationRevision(base[a], prov[a]))

(* Everything an attempt can do.                                           *)
Acts(a) == Admit(a) \/ Succeed(a) \/ Fail(a) \/ FaultStep(a) \/ Crash(a)

LEMMA ActorTargets ==
  ASSUME NEW a \in Attempts, Acts(a)
  PROVE  UNCHANGED targets \/ AppendsRevision(a) \/ AppendsCompensation(a)
<1> USE DEF AppendsRevision, AppendsCompensation, Goto, journal
<1>1. CASE Admit(a) \/ Crash(a)
  BY <1>1 DEF Admit, Crash
<1>2. CASE Succeed(a)
  BY <1>2 DEF Succeed, Render, RenderFails, CheckPublish, Vacate, PublishStaged, Cleanup,
     WriteJournal, LockTargets, AppendEvidence, AppendRevision, AppendCommitted, DropBackup
<1>3. CASE Fail(a)
  BY <1>3 DEF Fail, HandleFailure, Reinstate, DropDisplaced, LockCompensation,
     AppendCompensation, MarkCompensation, ResolveFailureBase, WriteTerminalJournal,
     LockTerminal, AppendTerminalEvidence, AppendTerminalCommitted
<1>4. CASE FaultStep(a)
  BY <1>4 DEF FaultStep, PublishRenameFails, AttemptFileFails, DropBackupFails,
     RestoreFails, JournalFails, AppendFails, Landed
<1> QED BY <1>1, <1>2, <1>3, <1>4 DEF Acts

(* An attempt leaves the local results of the others and the owners alone. *)
Same(b) ==
  pc'[b] = pc[b] /\ base'[b] = base[b] /\ out'[b] = out[b] /\ prov'[b] = prov[b]

LEMMA ActorLocal ==
  ASSUME TypeInv, NEW a \in Attempts, Acts(a)
  PROVE  (\A b \in Attempts \ {a} : Same(b)) /\ UNCHANGED owner
<1> USE DEF TypeInv, TypeOK, Goto, journal, local, env, Same, Fault
<1>1. CASE Admit(a) \/ Crash(a)
  BY <1>1 DEF Admit, Crash
<1>2. CASE Succeed(a)
  BY <1>2 DEF Succeed, Render, RenderFails, CheckPublish, Vacate, PublishStaged, Cleanup,
     WriteJournal, LockTargets, AppendEvidence, AppendRevision, AppendCommitted, DropBackup
<1>3. CASE Fail(a)
  BY <1>3 DEF Fail, HandleFailure, Reinstate, DropDisplaced, LockCompensation,
     AppendCompensation, MarkCompensation, ResolveFailureBase, WriteTerminalJournal,
     LockTerminal, AppendTerminalEvidence, AppendTerminalCommitted
<1>4. CASE FaultStep(a)
  BY <1>4 DEF FaultStep, PublishRenameFails, AttemptFileFails, DropBackupFails,
     RestoreFails, JournalFails, AppendFails
<1> QED BY <1>1, <1>2, <1>3, <1>4 DEF Acts

(* A step is an attempt's, an owner's, or none.                            *)
LEMMA StepCases ==
  ASSUME [Next]_vars
  PROVE  \/ \E a \in Attempts : Acts(a)
         \/ \E o \in Owners : ProvisionRead(o) \/ ProvisionAppend(o)
         \/ UNCHANGED vars
BY DEF Next, Acts

(* Each of the two appends extends the chain, and never a sealed one.      *)
LEMMA RevisionExtends ==
  ASSUME TypeInv, ChainInv, NEW a \in Attempts, AppendsRevision(a)
  PROVE  ValidChain(targets) /\ ChainLinear' /\ SealedAlike'
<1>1. /\ targets \in Seq(Row) /\ base[a] \in Row /\ prov[a] \in Row
      /\ targets # << >> /\ TargetHead = base[a] /\ IsNext(a)
  BY DEF TypeInv, TypeOK, ChainInv, Knows, AppendsRevision, Running, Success, Provisional
<1>2. ValidChain(targets)
  BY <1>1 DEF ChainInv, ChainLinear
<1>3. /\ ValidRow(prov[a]) /\ Follows(TargetHead, prov[a])
      /\ prov[a].revision = Len(targets) + 1
  BY <1>1, <1>2, HeadRevision, RevisionFollows DEF IsNext
<1>4. ValidChain(Append(targets, prov[a]))
  BY <1>1, <1>2, <1>3, ChainGrows DEF TargetHead
<1>5. prov[a].sealed = targets[1].sealed
  BY <1>1, <1>2, <1>3, HeadRevision DEF Follows, ChainInv, SealedAlike, TargetHead
<1>6. SealedAlike'
  BY <1>1, <1>2, <1>5, HeadRevision, AppendProperties DEF SealedAlike, ChainInv, AppendsRevision
<1> QED BY <1>2, <1>4, <1>6 DEF ChainLinear, AppendsRevision

LEMMA CompensationExtends ==
  ASSUME TypeInv, ChainInv, NEW a \in Attempts, AppendsCompensation(a)
  PROVE  ValidChain(targets) /\ ChainLinear' /\ SealedAlike'
<1> DEFINE q == BuildCompensationRevision(base[a], prov[a])
<1>1. /\ targets \in Seq(Row) /\ base[a] \in Row /\ prov[a] \in Row
      /\ targets # << >> /\ IsNext(a) /\ base[a].revision >= 1
  BY DEF TypeInv, TypeOK, ChainInv, Knows, AppendsCompensation, Running, Failure, Provisional
<1>2. ValidChain(targets) /\ TargetHead = prov[a]
  BY <1>1, HeadIsThisRow DEF AppendsCompensation
<1>3. /\ q \in Row /\ ValidRow(q) /\ Follows(TargetHead, q)
      /\ q.revision = Len(targets) + 1
  BY <1>1, <1>2, HeadRevision, CompensationFollows, CompensationType DEF IsNext
<1> HIDE DEF q
<1>4. ValidChain(Append(targets, q))
  BY <1>1, <1>2, <1>3, ChainGrows DEF TargetHead
<1>5. q.sealed = targets[1].sealed
  BY <1>1, <1>2, <1>3, HeadRevision DEF Follows, ChainInv, SealedAlike, TargetHead
<1>6. targets' = Append(targets, q)
  BY DEF AppendsCompensation, q
<1>7. SealedAlike'
  BY <1>1, <1>2, <1>3, <1>5, <1>6, HeadRevision, AppendProperties DEF SealedAlike, ChainInv
<1> QED BY <1>2, <1>4, <1>6, <1>7 DEF ChainLinear

-----------------------------------------------------------------------------
(* The chain invariant is inductive.                                       *)

LEMMA ChainInit == Init => ChainInv
BY DEF Init, ChainInv, ChainLinear, SealedAlike, OwnerFirst, Knows, Running, Success,
       Failure, Provisional

(* An attempt's step keeps what all attempts need to know of the chain.    *)
LEMMA ActorChain ==
  ASSUME TypeInv, ChainInv, NEW a \in Attempts, Acts(a)
  PROVE  /\ ChainLinear' /\ SealedAlike' /\ OwnerFirst'
         /\ targets # << >> => targets' # << >> /\ targets'[1] = targets[1]
<1>1. CASE UNCHANGED targets
  BY <1>1, ActorLocal DEF ChainInv, ChainLinear, SealedAlike, OwnerFirst
<1>2. CASE AppendsRevision(a) \/ AppendsCompensation(a)
  <2>1. ValidChain(targets) /\ ChainLinear' /\ SealedAlike'
    BY <1>2, RevisionExtends, CompensationExtends
  <2>2. targets \in Seq(Row) /\ targets # << >>
    BY <2>1 DEF TypeInv, TypeOK, ValidChain
  <2>3. OwnerFirst'
    BY <2>2, ActorLocal DEF ChainInv, OwnerFirst
  <2>4. \E r \in Row : targets' = Append(targets, r)
    BY <1>2, CompensationType DEF AppendsRevision, AppendsCompensation, TypeInv, Running,
       Failure, Provisional
  <2> QED BY <2>1, <2>2, <2>3, <2>4, AppendProperties
<1> QED BY <1>1, <1>2, ActorTargets

(* While an attempt is inside a transaction nobody else appends.           *)
LEMMA OthersKnow ==
  ASSUME TypeInv, LockExclusive, ChainInv, NEW a \in Attempts, Acts(a),
         NEW b \in Attempts \ {a}
  PROVE  Knows(b)'
<1>1. Same(b)
  BY ActorLocal
<1>2. pc[b] = "evidenced" => UNCHANGED targets
  BY ActorTargets DEF AppendsRevision, AppendsCompensation, LockExclusive, Holding
<1>3. targets # << >> => targets' # << >> /\ targets'[1] = targets[1]
  BY ActorChain
<1> QED BY <1>1, <1>2, <1>3 DEF ChainInv, Knows, Same, IsNext, TargetHead

(* An attempt's own step leads to a phase that knows what it must.         *)
LEMMA ActorKnows ==
  ASSUME TypeInv, ChainInv, NEW a \in Attempts, Acts(a)
  PROVE  Knows(a)'
<1>1. targets # << >> => targets' # << >> /\ targets'[1] = targets[1]
  BY ActorChain
<1>2. /\ Knows(a) /\ (pc[a] \in Running => base[a] \in Row)
      /\ (pc[a] \in Provisional => prov[a] \in Row)
  BY DEF ChainInv, TypeInv
<1> USE <1>1, <1>2 DEF Goto, journal, local, env, Knows, IsNext, Running, Success, Failure,
        Provisional, TypeInv, TypeOK
<1>3. CASE Admit(a)
  <2>1. ValidChain(targets) /\ TargetHead.revision >= 1 /\ ~targets[1].sealed
    BY <1>3, HeadRevision DEF Admit, ChainInv, SealedAlike, TargetHead
  <2>2. targets # << >>
    BY <2>1 DEF ValidChain
  <2> QED BY <1>3, <2>1, <2>2 DEF Admit
<1>4. CASE Crash(a)
  BY <1>4 DEF Crash
<1>5. CASE Succeed(a)
  <2>1. CASE LockTargets(a)
    BY <2>1 DEF LockTargets
  <2>2. CASE Cleanup(a)
    BY <2>2 DEF Cleanup
  <2>3. CASE AppendRevision(a) \/ AppendCommitted(a)
    BY <2>3 DEF AppendRevision, AppendCommitted
  <2>4. CASE AppendEvidence(a)
    <3>1. HeadIs(base[a]) => TargetHead = base[a]
      BY <2>4, HeadIsThisRow DEF AppendEvidence
    <3> QED BY <2>4, <3>1 DEF AppendEvidence, TargetHead
  <2>5. CASE Render(a) \/ RenderFails(a) \/ CheckPublish(a) \/ Vacate(a) \/ PublishStaged(a)
    BY <2>5 DEF Render, RenderFails, CheckPublish, Vacate, PublishStaged
  <2>6. CASE WriteJournal(a) \/ DropBackup(a)
    BY <2>6 DEF WriteJournal, DropBackup
  <2> QED BY <1>5, <2>1, <2>2, <2>3, <2>4, <2>5, <2>6 DEF Succeed
<1>6. CASE Fail(a)
  <2>1. CASE LockCompensation(a)
    BY <2>1 DEF LockCompensation
  <2>2. CASE ResolveFailureBase(a)
    BY <2>2, HeadRevision DEF ResolveFailureBase
  <2>3. CASE HandleFailure(a) \/ Reinstate(a) \/ DropDisplaced(a)
    BY <2>3 DEF HandleFailure, Reinstate, DropDisplaced
  <2>4. CASE AppendCompensation(a) \/ MarkCompensation(a)
    BY <2>4 DEF AppendCompensation, MarkCompensation
  <2>5. CASE \/ WriteTerminalJournal(a) \/ LockTerminal(a)
             \/ AppendTerminalEvidence(a) \/ AppendTerminalCommitted(a)
    BY <2>5 DEF WriteTerminalJournal, LockTerminal, AppendTerminalEvidence, AppendTerminalCommitted
  <2> QED BY <1>6, <2>1, <2>2, <2>3, <2>4, <2>5 DEF Fail
<1>7. CASE FaultStep(a)
  BY <1>7 DEF FaultStep, PublishRenameFails, AttemptFileFails, DropBackupFails,
     RestoreFails, JournalFails, AppendFails, Handler, Holding
<1> QED BY <1>3, <1>4, <1>5, <1>6, <1>7 DEF Acts

(* The only owner appends to an empty file, before any attempt runs.       *)
LEMMA InitialChain ==
  ASSUME NEW s \in BOOLEAN
  PROVE  LET rows == Append(<< >>, InitialRow(s))
         IN ValidChain(rows) /\ Len(rows) = 1 /\ rows[1] = InitialRow(s)
BY InitialRowType, AppendProperties DEF ValidChain, ValidRow, InitialRow

LEMMA OwnerSteps ==
  ASSUME SingleOwner, TypeInv, ChainInv, NEW o \in Owners,
         ProvisionRead(o) \/ ProvisionAppend(o)
  PROVE  ChainInv'
<1> USE DEF TypeInv, TypeOK, ChainInv, local, files, journal
<1>1. CASE ProvisionRead(o)
  <2>1. OwnerFirst'
    BY <1>1 DEF ProvisionRead, OwnerFirst
  <2> QED BY <1>1, <2>1 DEF ProvisionRead, ChainLinear, SealedAlike, Knows, IsNext, TargetHead
<1>2. CASE ProvisionAppend(o)
  <2>1. targets = << >>
    BY <1>2 DEF ProvisionAppend, OwnerFirst
  <2>2. PICK s \in BOOLEAN : targets' = Append(<< >>, InitialRow(s))
    BY <1>2, <2>1 DEF ProvisionAppend
  <2>3. ChainLinear' /\ SealedAlike'
    BY <2>2, InitialChain DEF ChainLinear, SealedAlike
  <2>4. OwnerFirst'
    BY <1>2 DEF ProvisionAppend, OwnerFirst, SingleOwner
  <2>5. ASSUME NEW a \in Attempts PROVE Knows(a)'
    BY <1>2, <2>1 DEF ProvisionAppend, Knows, IsNext, Running, Success, Failure, Provisional
  <2> QED BY <2>3, <2>4, <2>5
<1> QED BY <1>1, <1>2

LEMMA ChainStep ==
  SingleOwner /\ TypeInv /\ LockExclusive /\ ChainInv /\ [Next]_vars => ChainInv'
<1> SUFFICES ASSUME SingleOwner, TypeInv, LockExclusive, ChainInv, [Next]_vars
             PROVE  ChainInv'
  OBVIOUS
<1>1. ASSUME NEW a \in Attempts, Acts(a) PROVE ChainInv'
  BY <1>1, ActorChain, ActorKnows, OthersKnow DEF ChainInv
<1>2. ASSUME NEW o \in Owners, ProvisionRead(o) \/ ProvisionAppend(o) PROVE ChainInv'
  BY <1>2, OwnerSteps
<1>3. CASE UNCHANGED vars
  BY <1>3 DEF vars, local, files, journal, env, ChainInv, ChainLinear, SealedAlike,
     OwnerFirst, Knows, IsNext, TargetHead
<1> QED BY <1>1, <1>2, <1>3, StepCases

LEMMA ChainInvariant == ASSUME SingleOwner PROVE Spec => []ChainInv
BY TypeInvariant, LockIsExclusive, ChainInit, ChainStep, PTL DEF Spec

(* With one provisioning process, no interleaving of attempts, faults and  *)
(* crashes makes the target chain unreadable.                              *)
THEOREM ChainStaysLinear == ASSUME SingleOwner PROVE Spec => []ChainLinear
<1>1. ChainInv => ChainLinear
  BY DEF ChainInv
<1> QED BY <1>1, ChainInvariant, PTL

-----------------------------------------------------------------------------
(* The target file implements OutputTarget.                                *)

history == [i \in 1..Len(targets) |-> targets[i].art]

sealed == targets # << >> /\ targets[1].sealed

LEMMA AbstractInit == Init => Abstract!Init
<1> SUFFICES ASSUME Init PROVE Abstract!Init
  OBVIOUS
<1>1. targets = << >>
  BY DEF Init
<1>2. [i \in 1..Len(targets) |-> targets[i].art] = << >>
  BY <1>1
<1> QED BY <1>1, <1>2 DEF Abstract!Init

LEMMA HistoryType ==
  ASSUME NEW rows \in Seq(Row)
  PROVE  LET h == [i \in 1..Len(rows) |-> rows[i].art]
         IN /\ h \in Seq(Output) /\ Len(h) = Len(rows)
            /\ \A i \in 1..Len(rows) : h[i] = rows[i].art
<1> DEFINE h == [i \in 1..Len(rows) |-> rows[i].art]
<1>1. Len(rows) \in Nat /\ \A i \in 1..Len(rows) : rows[i].art \in Output
  <2>1. Len(rows) \in Nat /\ \A i \in 1..Len(rows) : rows[i] \in Row
    OBVIOUS
  <2>2. \A r \in Row : r.art \in Output
    BY DEF Row
  <2> QED BY <2>1, <2>2
<1>2. h \in Seq(Output)
  BY <1>1, IsASeq
<1>3. Len(h) = Len(rows)
  BY <1>1
<1> QED BY <1>2, <1>3

(* Appending a row appends its output to the abstract history.             *)
LEMMA HistoryGrows ==
  ASSUME targets \in Seq(Row), NEW r \in Row, targets' = Append(targets, r)
  PROVE  history' = Append(history, r.art)
<1>1. /\ targets' \in Seq(Row)
      /\ Len(targets) \in Nat /\ Len(targets') = Len(targets) + 1
      /\ \A i \in 1..Len(targets) : targets'[i] = targets[i]
      /\ targets'[Len(targets) + 1] = r
  BY AppendProperties
<1>2. history \in Seq(Output) /\ Len(history) = Len(targets) /\ r.art \in Output
  BY HistoryType DEF history, Row
<1>3. /\ Append(history, r.art) \in Seq(Output)
      /\ Len(Append(history, r.art)) = Len(targets) + 1
      /\ \A i \in 1..Len(targets) : Append(history, r.art)[i] = history[i]
      /\ Append(history, r.art)[Len(targets) + 1] = r.art
  BY <1>2, AppendProperties
<1>4. /\ history' \in Seq(Output) /\ Len(history') = Len(targets) + 1
      /\ \A i \in 1..(Len(targets) + 1) : history'[i] = targets'[i].art
  BY <1>1, HistoryType DEF history
<1>5. \A i \in 1..(Len(targets) + 1) : history'[i] = Append(history, r.art)[i]
  BY <1>1, <1>3, <1>4 DEF history
<1> QED BY <1>1, <1>3, <1>4, <1>5, SeqEqual

(* The refinement mapping: publishing appends the new output, compensating *)
(* appends the output of the row before the head, nothing else is visible. *)
LEMMA AbstractStep ==
  SingleOwner /\ TypeInv /\ LockExclusive /\ ChainInv /\ [Next]_vars
    => [Abstract!Next]_<<history, sealed>>
<1> SUFFICES ASSUME SingleOwner, TypeInv, LockExclusive, ChainInv, [Next]_vars
             PROVE  [Abstract!Next]_<<history, sealed>>
  OBVIOUS
<1> USE DEF TypeInv, TypeOK
<1>1. CASE UNCHANGED targets
  BY <1>1 DEF history, sealed
<1>2. ASSUME NEW o \in Owners, ProvisionAppend(o) PROVE Abstract!Provision
  <2>1. targets = << >>
    BY <1>2 DEF ProvisionAppend, ChainInv, OwnerFirst
  <2>2. PICK s \in BOOLEAN : targets' = Append(<< >>, InitialRow(s))
    BY <1>2, <2>1 DEF ProvisionAppend
  <2>3. targets' # << >> /\ targets'[1] = InitialRow(s)
    BY <2>2, InitialRowType, AppendProperties
  <2>4. history = << >>
    BY <2>1 DEF history
  <2>5. history' = Append(history, NoContent)
    BY <2>1, <2>2, InitialRowType, HistoryGrows DEF InitialRow
  <2>6. history' = << NoContent >>
    BY <2>4, <2>5
  <2>7. sealed' \in BOOLEAN
    BY <2>3 DEF sealed, InitialRow
  <2> QED BY <2>4, <2>6, <2>7 DEF Abstract!Provision, history, sealed
<1>3. ASSUME NEW a \in Attempts, Acts(a), AppendsRevision(a) PROVE Abstract!Publish
  <2>1. /\ pc[a] \in Running /\ Knows(a) /\ prov[a] \in Row /\ IsNext(a)
    BY <1>3 DEF AppendsRevision, ChainInv, Knows, Running, Success, Provisional
  <2>2. targets # << >> /\ targets' # << >> /\ ~sealed /\ UNCHANGED sealed
    BY <1>3, <2>1, ActorChain DEF Knows, sealed
  <2>3. history' = Append(history, out[a]) /\ out[a] \in Contents
    BY <1>3, <2>1, HistoryGrows DEF AppendsRevision, IsNext, NextTargetRevision
  <2>4. history # << >>
    BY <2>2 DEF history
  <2> QED BY <2>2, <2>3, <2>4 DEF Abstract!Publish, history, sealed
<1>4. ASSUME NEW a \in Attempts, Acts(a), AppendsCompensation(a) PROVE Abstract!Rollback
  <2>1. /\ pc[a] \in Running /\ Knows(a) /\ base[a] \in Row /\ prov[a] \in Row
        /\ IsNext(a) /\ base[a].revision >= 1
    BY <1>4 DEF AppendsCompensation, ChainInv, Knows, Running, Failure, Provisional
  <2>2. targets # << >> /\ ~sealed /\ UNCHANGED sealed
    BY <1>4, <2>1, ActorChain DEF Knows, sealed
  <2>3. /\ ValidChain(targets) /\ TargetHead = prov[a]
        /\ Len(targets) = base[a].revision + 1
    BY <1>4, <2>1, <2>2, HeadRevision, HeadIsThisRow
       DEF AppendsCompensation, IsNext, NextTargetRevision
  <2>4. Len(targets) \in Nat /\ Len(targets) > 1
    BY <2>1, <2>3 DEF Row
  <2>5. targets[Len(targets) - 1] = base[a]
    <3>1. TargetHead.prev = RecordId(targets[Len(targets) - 1])
      BY <2>3, <2>4 DEF ValidChain, Follows, TargetHead
    <3>2. TargetHead.prev = RecordId(base[a])
      BY <2>1, <2>3 DEF IsNext, NextTargetRevision
    <3>3. targets[Len(targets) - 1] \in Row
      BY <2>4
    <3> QED BY <2>1, <3>1, <3>2, <3>3, RecordIdInjective
  <2>6. history' = Append(history, base[a].art)
    BY <1>4, <2>1, CompensationType, HistoryGrows
       DEF AppendsCompensation, BuildCompensationRevision
  <2>7. Len(history) = Len(targets) /\ history[Len(history) - 1] = base[a].art
    BY <2>4, <2>5 DEF history
  <2> QED BY <2>2, <2>4, <2>6, <2>7 DEF Abstract!Rollback, history, sealed
<1>5. ASSUME NEW o \in Owners, ProvisionRead(o) PROVE UNCHANGED targets
  BY <1>5 DEF ProvisionRead, journal
<1>6. UNCHANGED vars => UNCHANGED targets
  BY DEF vars, journal
<1> QED BY <1>1, <1>2, <1>3, <1>4, <1>5, <1>6, StepCases, ActorTargets DEF Abstract!Next

(* Whatever the attempts do to the files, a reader of the target sees only *)
(* the three steps of OutputTarget.                                        *)
THEOREM FullRenderImplements == ASSUME SingleOwner PROVE Spec => ImplementsOutputTarget
<1>1. Init => Abstract!Init
  BY AbstractInit
<1>2. SingleOwner /\ TypeInv /\ LockExclusive /\ ChainInv /\ [Next]_vars
        => [Abstract!Next]_<<[i \in 1..Len(targets) |-> targets[i].art],
                             (targets # << >> /\ targets[1].sealed)>>
  BY AbstractStep DEF history, sealed
<1> QED BY <1>1, <1>2, TypeInvariant, LockIsExclusive, ChainInvariant, PTL
        DEF Spec, ImplementsOutputTarget, Abstract!Spec

-----------------------------------------------------------------------------
(* The journal.                                                            *)

(* The target names a failed replacement only if somebody else put it there. *)
NotOfItsOwn(a) ==
  /\ prov[a] # NoRow /\ prov[a].replace
  /\ targets # << >> /\ TargetHead = prov[a]
  => \E b \in Attempts \ {a} : AccountsFor(b, Len(targets))

(* What the phase of an attempt says about the journal and about the bytes *)
(* it can put back: before a revision comes its evidence; a replacement    *)
(* whose provisional revision exists has published, and has the old output *)
(* in its backup, so that its failure is always undone; and undoing leaves *)
(* a head that is not the revision.                                        *)
Evidenced(a) == pc[a] \in {"evidenced", "revised"} => Evidence(a) \subseteq registry
Revised(a) == pc[a] = "revised" => \E i \in 1..Len(targets) : targets[i] = prov[a]
Backed(a) ==
  Replacing(a) =>
    /\ pc[a] = "vacated" => backup[a] # NoContent
    /\ \/ pc[a] \in {"published", "cleaned", "recorded", "locked", "evidenced", "revised"}
       \/ pc[a] = "failing" /\ prov[a] # NoRow
       => output[a] /\ backup[a] # NoContent
Superseded(a) ==
  pc[a] \in {"compAppended", "compensated"} =>
    prov[a] \in Row /\ prov[a].revision < Len(targets)
Closed(a) ==
  pc[a] \in {"closing", "closeRecorded", "closeLocked", "closeEvidenced", "failed"} =>
    NotOfItsOwn(a)

JournalInv ==
  /\ RevisionsAccountedFor
  /\ CommittedIsInChain
  /\ \A a \in Attempts :
       Evidenced(a) /\ Revised(a) /\ Backed(a) /\ Superseded(a) /\ Closed(a)

(* Records are never taken back, the bytes kept for an attempt are touched *)
(* by nobody else, and a provisional revision is made once.                *)
LEMMA ActorRecords ==
  ASSUME TypeInv, ChainInv, NEW a \in Attempts, Acts(a)
  PROVE  /\ registry \subseteq registry'
         /\ \A b \in Attempts \ {a} : backup'[b] = backup[b] /\ output'[b] = output[b]
         /\ prov'[a] = prov[a] \/ prov[a] = NoRow
<1> USE DEF TypeInv, TypeOK, Goto, journal, files, local, env
<1>1. CASE Admit(a) \/ Crash(a)
  BY <1>1 DEF Admit, Crash
<1>2. CASE Succeed(a)
  BY <1>2 DEF Succeed, Render, RenderFails, CheckPublish, Vacate, PublishStaged, Cleanup,
     WriteJournal, LockTargets, AppendEvidence, AppendRevision, AppendCommitted, DropBackup,
     ChainInv, Knows
<1>3. CASE Fail(a)
  BY <1>3 DEF Fail, HandleFailure, Reinstate, DropDisplaced, LockCompensation,
     AppendCompensation, MarkCompensation, ResolveFailureBase, WriteTerminalJournal,
     LockTerminal, AppendTerminalEvidence, AppendTerminalCommitted
<1>4. CASE FaultStep(a)
  BY <1>4 DEF FaultStep, PublishRenameFails, AttemptFileFails, DropBackupFails,
     RestoreFails, JournalFails, AppendFails, Landed
<1> QED BY <1>1, <1>2, <1>3, <1>4 DEF Acts

(* The rows of the target stay where they are.                             *)
LEMMA RowsStay ==
  ASSUME TypeInv, NEW a \in Attempts, Acts(a)
  PROVE  /\ Len(targets) \in Nat /\ Len(targets') \in Nat
         /\ Len(targets) <= Len(targets')
         /\ Len(targets') # Len(targets) =>
              Len(targets') = Len(targets) + 1 /\ ~UNCHANGED targets
         /\ \A i \in 1..Len(targets) : targets'[i] = targets[i]
<1> USE DEF TypeInv, TypeOK
<1>1. CASE UNCHANGED targets
  BY <1>1
<1>2. CASE AppendsRevision(a)
  BY <1>2, AppendProperties DEF AppendsRevision, Provisional
<1>3. CASE AppendsCompensation(a)
  BY <1>3, CompensationType, AppendProperties
     DEF AppendsCompensation, Provisional, Running, Failure
<1> QED BY <1>1, <1>2, <1>3, ActorTargets

(* So who accounts for a revision keeps accounting for it.                 *)
LEMMA AccountsKept ==
  ASSUME TypeInv, ChainInv, NEW a \in Attempts, Acts(a),
         NEW b \in Attempts, NEW i \in 2..Len(targets), AccountsFor(b, i)
  PROVE  AccountsFor(b, i)'
<1>1. targets[i] \in Row /\ (i > 2 => targets[i - 1] \in Row /\ targets[i - 2] \in Row)
  BY DEF TypeInv, TypeOK
<1>2. /\ targets'[i] = targets[i]
      /\ i > 2 => targets'[i - 1] = targets[i - 1] /\ targets'[i - 2] = targets[i - 2]
  BY RowsStay
<1>3. prov[b] # NoRow
  BY <1>1, NoRowAssumption DEF AccountsFor
<1>4. prov'[b] = prov[b]
  BY <1>3, ActorLocal, ActorRecords DEF Same
<1>5. Evidence(b) \subseteq registry => Evidence(b) \subseteq registry'
  BY ActorRecords
<1> QED BY <1>2, <1>4, <1>5 DEF AccountsFor, Evidence

(* A new row is accounted for by the attempt that appends it.              *)
LEMMA AppenderAccounts ==
  ASSUME TypeInv, ChainInv, JournalInv, NEW a \in Attempts, Acts(a), ~UNCHANGED targets
  PROVE  /\ Len(targets') = Len(targets) + 1
         /\ Len(targets') \in 2..Len(targets')
         /\ \A i \in {Len(targets')} : AccountsFor(a, i)'
         /\ pc[a] \in {"evidenced", "compLocked"}
<1> USE DEF TypeInv, TypeOK
<1>1. CASE AppendsRevision(a)
  <2>1. prov[a] \in Row /\ targets # << >> /\ pc[a] = "evidenced"
    BY <1>1 DEF AppendsRevision, Provisional, ChainInv, Knows, Running, Success
  <2>2. /\ Len(targets) \in Nat /\ Len(targets) >= 1
        /\ Len(targets') = Len(targets) + 1 /\ targets'[Len(targets')] = prov[a]
    BY <1>1, <2>1, AppendProperties DEF AppendsRevision
  <2>3. prov'[a] = prov[a] /\ Evidence(a) \subseteq registry'
    BY <2>1, ActorRecords, NoRowAssumption DEF JournalInv, Evidenced
  <2> QED BY <2>1, <2>2, <2>3 DEF AccountsFor, Evidence
<1>2. CASE AppendsCompensation(a)
  <2> DEFINE q == BuildCompensationRevision(base[a], prov[a])
  <2>1. /\ base[a] \in Row /\ prov[a] \in Row /\ targets # << >> /\ pc[a] = "compLocked"
        /\ IsNext(a) /\ base[a].revision >= 1 /\ q \in Row
    BY <1>2, CompensationType
       DEF AppendsCompensation, Provisional, ChainInv, Knows, Running, Failure
  <2>2. ValidChain(targets) /\ TargetHead = prov[a]
    BY <1>2, <2>1, HeadIsThisRow DEF AppendsCompensation
  <2>3. Len(targets) \in Nat /\ Len(targets) = base[a].revision + 1 /\ Len(targets) >= 2
    BY <2>1, <2>2, HeadRevision DEF IsNext, NextTargetRevision, Row
  <2>4. targets[Len(targets) - 1] = base[a]
    <3>1. TargetHead.prev = RecordId(targets[Len(targets) - 1])
      BY <2>2, <2>3 DEF ValidChain, Follows, TargetHead
    <3>2. TargetHead.prev = RecordId(base[a])
      BY <2>1, <2>2 DEF IsNext, NextTargetRevision
    <3>3. targets[Len(targets) - 1] \in Row
      BY <2>3
    <3> QED BY <2>1, <3>1, <3>2, <3>3, RecordIdInjective
  <2>5. targets' = Append(targets, q)
    BY <1>2 DEF AppendsCompensation
  <2> HIDE DEF q
  <2>6. /\ Len(targets') = Len(targets) + 1 /\ targets'[Len(targets')] = q
        /\ targets'[Len(targets') - 1] = prov[a] /\ targets'[Len(targets') - 2] = base[a]
    BY <2>1, <2>2, <2>3, <2>4, <2>5, AppendProperties DEF TargetHead
  <2>7. prov'[a] = prov[a]
    BY <2>1, ActorRecords, NoRowAssumption
  <2> QED BY <2>1, <2>3, <2>6, <2>7 DEF AccountsFor, q
<1> QED BY <1>1, <1>2, ActorTargets

(* The revisions stay accounted for, and what is committed in the chain.   *)
LEMMA RevisionsStep ==
  ASSUME TypeInv, ChainInv, JournalInv, NEW a \in Attempts, Acts(a)
  PROVE  RevisionsAccountedFor'
<1> SUFFICES ASSUME NEW i \in 2..Len(targets') PROVE \E b \in Attempts : AccountsFor(b, i)'
  BY DEF RevisionsAccountedFor
<1>1. CASE i \in 2..Len(targets)
  BY <1>1, AccountsKept DEF JournalInv, RevisionsAccountedFor
<1>2. CASE i \notin 2..Len(targets)
  <2>1. i = Len(targets') /\ ~UNCHANGED targets
    BY <1>2, RowsStay
  <2> QED BY <2>1, AppenderAccounts
<1> QED BY <1>1, <1>2

LEMMA CommittedStep ==
  ASSUME TypeInv, ChainInv, JournalInv, NEW a \in Attempts, Acts(a)
  PROVE  CommittedIsInChain'
<1> SUFFICES ASSUME NEW b \in Attempts, <<b, "main", "COMMITTED">> \in registry'
             PROVE  \E i \in 1..Len(targets') : targets'[i] = prov'[b]
  BY DEF CommittedIsInChain
<1> USE DEF TypeInv, TypeOK
<1>1. \E i \in 1..Len(targets) : targets[i] = prov[b]
  <2>1. CASE <<b, "main", "COMMITTED">> \in registry
    BY <2>1 DEF JournalInv, CommittedIsInChain
  <2>2. CASE <<b, "main", "COMMITTED">> \notin registry
    <3>1. b = a /\ pc[a] = "revised"
      <4> USE DEF Goto, journal, files, local, env, Kinds
      <4>1. CASE Admit(a) \/ Crash(a)
        BY <2>2, <4>1 DEF Admit, Crash
      <4>2. CASE Succeed(a)
        BY <2>2, <4>2 DEF Succeed, Render, RenderFails, CheckPublish, Vacate, PublishStaged,
           Cleanup, WriteJournal, LockTargets, AppendEvidence, AppendRevision,
           AppendCommitted, DropBackup
      <4>3. CASE Fail(a)
        BY <2>2, <4>3 DEF Fail, HandleFailure, Reinstate, DropDisplaced, LockCompensation,
           AppendCompensation, MarkCompensation, ResolveFailureBase, WriteTerminalJournal,
           LockTerminal, AppendTerminalEvidence, AppendTerminalCommitted
      <4>4. CASE FaultStep(a)
        BY <2>2, <4>4 DEF FaultStep, PublishRenameFails, AttemptFileFails, DropBackupFails,
           RestoreFails, JournalFails, AppendFails, Landed
      <4> QED BY <4>1, <4>2, <4>3, <4>4 DEF Acts
    <3> QED BY <3>1 DEF JournalInv, Revised
  <2> QED BY <2>1, <2>2
<1>2. PICK i \in 1..Len(targets) : targets[i] = prov[b]
  BY <1>1
<1>3. targets'[i] = targets[i] /\ i \in 1..Len(targets')
  BY RowsStay
<1>4. prov'[b] = prov[b]
  BY <1>2, ActorLocal, ActorRecords, NoRowAssumption DEF Same
<1> QED BY <1>2, <1>3, <1>4

(* A head that another attempt put there stays another attempt's.          *)
LEMMA NotOfItsOwnKept ==
  ASSUME TypeInv, ChainInv, JournalInv, NEW a \in Attempts, Acts(a),
         NEW b \in Attempts, NotOfItsOwn(b), prov'[b] = prov[b],
         a = b => UNCHANGED targets
  PROVE  NotOfItsOwn(b)'
<1> SUFFICES ASSUME prov[b] # NoRow, prov[b].replace, targets' # << >>, TargetHead' = prov[b]
             PROVE  \E c \in Attempts \ {b} : \A i \in {Len(targets')} : AccountsFor(c, i)'
  BY DEF NotOfItsOwn, AccountsFor, Evidence
<1>1. CASE UNCHANGED targets
  <2>1. PICK c \in Attempts \ {b} : AccountsFor(c, Len(targets))
    BY <1>1 DEF NotOfItsOwn, TargetHead
  <2>2. Len(targets) \in 2..Len(targets)
    <3>1. ValidChain(targets)
      BY <1>1 DEF ChainInv, ChainLinear
    <3>2. Len(targets) # 1
      <4>1. Len(targets) = 1 => targets[1] = prov[b]
        BY <1>1 DEF TargetHead
      <4>2. targets[1].art = NoContent => ~targets[1].replace
        BY <3>1, HeadRevision DEF ValidChain, ValidRow, TypeInv, TypeOK
      <4>3. targets[1].art = NoContent
        BY <3>1, HeadRevision DEF ValidChain, ValidRow, TypeInv, TypeOK
      <4> QED BY <4>1, <4>2, <4>3
    <3>3. Len(targets) \in Nat /\ Len(targets) >= 1
      BY <3>1, HeadRevision DEF TypeInv, TypeOK
    <3> QED BY <3>2, <3>3
  <2>3. \A i \in {Len(targets)} : AccountsFor(c, i)'
    BY <2>1, <2>2, AccountsKept
  <2> QED BY <1>1, <2>3
<1>2. CASE ~UNCHANGED targets
  BY <1>2, AppenderAccounts
<1> QED BY <1>1, <1>2

LocalJournal(b) ==
  Evidenced(b) /\ Revised(b) /\ Backed(b) /\ Superseded(b) /\ Closed(b)

(* What the others know of the journal survives the step of an attempt.    *)
LEMMA OthersJournal ==
  ASSUME TypeInv, ChainInv, JournalInv, NEW a \in Attempts, Acts(a),
         NEW b \in Attempts \ {a}
  PROVE  LocalJournal(b)'
<1>1. /\ Same(b) /\ backup'[b] = backup[b] /\ output'[b] = output[b]
      /\ registry \subseteq registry'
  BY ActorLocal, ActorRecords
<1>2. Evidenced(b) /\ Revised(b) /\ Backed(b) /\ Superseded(b) /\ Closed(b)
  BY DEF JournalInv
<1>3. Evidenced(b)'
  BY <1>1, <1>2 DEF Evidenced, Evidence, Same
<1>4. Revised(b)'
  <2>1. pc[b] = "revised" => \E i \in 1..Len(targets) : targets[i] = prov[b]
    BY <1>2 DEF Revised
  <2>2. \A i \in 1..Len(targets) : targets'[i] = targets[i] /\ i \in 1..Len(targets')
    BY RowsStay
  <2> QED BY <1>1, <2>1, <2>2 DEF Revised, Same
<1>5. Backed(b)'
  BY <1>1, <1>2 DEF Backed, Replacing, Same
<1>6. Superseded(b)'
  <2>1. /\ pc'[b] = pc[b] /\ prov'[b] = prov[b]
        /\ Len(targets) \in Nat /\ Len(targets') \in Nat /\ Len(targets) <= Len(targets')
    BY <1>1, RowsStay DEF Same
  <2>2. prov[b] \in Row => prov[b].revision \in Nat
    BY DEF Row
  <2> QED BY <1>2, <2>1, <2>2 DEF Superseded
<1>7. Closed(b)'
  <2>1. NotOfItsOwn(b) => NotOfItsOwn(b)'
    BY <1>1, NotOfItsOwnKept DEF Same
  <2> QED BY <1>1, <1>2, <2>1 DEF Closed, Same
<1> QED BY <1>3, <1>4, <1>5, <1>6, <1>7 DEF LocalJournal

(* A step that leaves the head alone and closes with nothing of its own in *)
(* it, and one that goes on closing.                                       *)
LEMMA ActorCloses ==
  ASSUME TypeInv, ChainInv, JournalInv, NEW a \in Attempts, Acts(a), Closed(a),
         UNCHANGED targets, prov'[a] = prov[a],
         pc'[a] \in {"closing", "closeRecorded", "closeLocked", "closeEvidenced", "failed"} =>
           \/ pc[a] \in {"closing", "closeRecorded", "closeLocked", "closeEvidenced"}
           \/ NotOfItsOwn(a)
  PROVE  Closed(a)'
BY NotOfItsOwnKept DEF Closed

(* What the actor knows.                                                   *)
LEMMA ActorEvidenced ==
  ASSUME TypeInv, ChainInv, JournalInv, NEW a \in Attempts, Acts(a)
  PROVE  Evidenced(a)'
<1> USE DEF TypeInv, TypeOK, Goto, journal, files, local, env
<1>1. CASE Admit(a) \/ Crash(a)
  BY <1>1 DEF Admit, Crash, Evidenced
<1>2. CASE Succeed(a)
  <2>1. pc'[a] \in {"evidenced", "revised"} =>
          AppendEvidence(a) \/ (pc[a] = "evidenced" /\ UNCHANGED registry)
    BY <1>2 DEF Succeed, Render, RenderFails, CheckPublish, Vacate, PublishStaged, Cleanup,
       WriteJournal, LockTargets, AppendRevision, AppendCommitted, DropBackup
  <2>2. AppendEvidence(a) /\ pc'[a] = "evidenced" => Evidence(a) \subseteq registry'
    BY DEF AppendEvidence, Evidence
  <2> QED BY <1>2, <2>1, <2>2, ActorRecords DEF Evidenced, Evidence, JournalInv, AppendEvidence
<1>3. CASE Fail(a)
  BY <1>3 DEF Fail, HandleFailure, Reinstate, DropDisplaced, LockCompensation,
     AppendCompensation, MarkCompensation, ResolveFailureBase, WriteTerminalJournal,
     LockTerminal, AppendTerminalEvidence, AppendTerminalCommitted, Evidenced
<1>4. CASE FaultStep(a)
  BY <1>4 DEF FaultStep, PublishRenameFails, AttemptFileFails, DropBackupFails,
     RestoreFails, JournalFails, AppendFails, Handler, Evidenced
<1> QED BY <1>1, <1>2, <1>3, <1>4 DEF Acts

LEMMA ActorRevised ==
  ASSUME TypeInv, ChainInv, JournalInv, NEW a \in Attempts, Acts(a)
  PROVE  Revised(a)'
<1>1. pc'[a] = "revised" => AppendRevision(a)
  <2> USE DEF TypeInv, TypeOK, Goto
  <2>1. CASE Admit(a) \/ Crash(a)
    BY <2>1 DEF Admit, Crash
  <2>2. CASE Succeed(a)
    BY <2>2 DEF Succeed, Render, RenderFails, CheckPublish, Vacate, PublishStaged, Cleanup,
       WriteJournal, LockTargets, AppendEvidence, AppendCommitted, DropBackup
  <2>3. CASE Fail(a)
    BY <2>3 DEF Fail, HandleFailure, Reinstate, DropDisplaced, LockCompensation,
       AppendCompensation, MarkCompensation, ResolveFailureBase, WriteTerminalJournal,
       LockTerminal, AppendTerminalEvidence, AppendTerminalCommitted
  <2>4. CASE FaultStep(a)
    BY <2>4 DEF FaultStep, PublishRenameFails, AttemptFileFails, DropBackupFails,
       RestoreFails, JournalFails, AppendFails, Handler
  <2> QED BY <2>1, <2>2, <2>3, <2>4 DEF Acts
<1>2. SUFFICES ASSUME AppendRevision(a)
               PROVE  \E i \in 1..Len(targets') : targets'[i] = prov'[a]
  BY <1>1 DEF Revised
<1>3. prov'[a] = prov[a] /\ prov[a] \in Row /\ targets \in Seq(Row)
  BY <1>2 DEF AppendRevision, Goto, local, TypeInv, TypeOK, Provisional
<1>4. targets' = Append(targets, prov[a])
  BY <1>2 DEF AppendRevision
<1> QED BY <1>3, <1>4, AppendProperties

LEMMA ActorSuperseded ==
  ASSUME TypeInv, ChainInv, JournalInv, NEW a \in Attempts, Acts(a)
  PROVE  Superseded(a)'
<1>1. pc'[a] \in {"compAppended", "compensated"} =>
        \/ AppendCompensation(a) /\ HeadIs(prov[a])
        \/ pc[a] = "compAppended" /\ prov'[a] = prov[a]
  <2> USE DEF TypeInv, TypeOK, Goto, local
  <2>1. CASE Admit(a) \/ Crash(a)
    BY <2>1 DEF Admit, Crash
  <2>2. CASE Succeed(a)
    BY <2>2 DEF Succeed, Render, RenderFails, CheckPublish, Vacate, PublishStaged, Cleanup,
       WriteJournal, LockTargets, AppendEvidence, AppendRevision, AppendCommitted, DropBackup
  <2>3. CASE Fail(a)
    BY <2>3 DEF Fail, HandleFailure, Reinstate, DropDisplaced, LockCompensation,
       AppendCompensation, MarkCompensation, ResolveFailureBase, WriteTerminalJournal,
       LockTerminal, AppendTerminalEvidence, AppendTerminalCommitted
  <2>4. CASE FaultStep(a)
    BY <2>4 DEF FaultStep, PublishRenameFails, AttemptFileFails, DropBackupFails,
       RestoreFails, JournalFails, AppendFails, Handler
  <2> QED BY <2>1, <2>2, <2>3, <2>4 DEF Acts
<1>2. CASE pc[a] = "compAppended" /\ prov'[a] = prov[a]
  <2>1. prov[a] \in Row /\ prov[a].revision \in Nat /\ prov[a].revision < Len(targets)
    BY <1>2 DEF JournalInv, Superseded, Row
  <2> QED BY <1>2, <2>1, RowsStay DEF Superseded
<1>3. CASE AppendCompensation(a) /\ HeadIs(prov[a])
  <2>1. /\ prov[a] \in Row /\ prov'[a] = prov[a] /\ targets \in Seq(Row)
        /\ base[a] \in Row
    BY <1>3 DEF AppendCompensation, Goto, local, TypeInv, TypeOK, Provisional, Running, Failure
  <2>2. prov[a].revision = Len(targets) /\ Len(targets) \in Nat
    BY <1>3, <2>1, HeadIsThisRow, HeadRevision
  <2>3. targets' = Append(targets, BuildCompensationRevision(base[a], prov[a]))
    BY <1>3 DEF AppendCompensation
  <2>4. Len(targets') = Len(targets) + 1
    BY <2>1, <2>3, CompensationType, AppendProperties
  <2> QED BY <2>1, <2>2, <2>4 DEF Superseded
<1> QED BY <1>1, <1>2, <1>3 DEF Superseded

LEMMA ActorBacked ==
  ASSUME TypeInv, ChainInv, JournalInv, NEW a \in Attempts, Acts(a)
  PROVE  Backed(a)'
<1> USE DEF TypeInv, TypeOK, Goto, journal, files, local, env, Replacing
<1>1. Knows(a) /\ Backed(a)
  BY DEF ChainInv, JournalInv
<1>2. CASE Admit(a) \/ Crash(a)
  BY <1>2 DEF Admit, Crash, Backed
<1>3. CASE Succeed(a)
  <2>1. CASE Render(a) \/ RenderFails(a) \/ CheckPublish(a)
    BY <1>1, <2>1 DEF Render, RenderFails, CheckPublish, Backed, Knows
  <2>2. CASE Vacate(a)
    BY <1>1, <2>2 DEF Vacate, Backed, Knows
  <2>3. CASE PublishStaged(a)
    BY <1>1, <2>3 DEF PublishStaged, Backed
  <2>4. CASE Cleanup(a) \/ WriteJournal(a) \/ LockTargets(a) \/ AppendEvidence(a)
    BY <1>1, <2>4 DEF Cleanup, WriteJournal, LockTargets, AppendEvidence, Backed
  <2>5. CASE AppendRevision(a) \/ AppendCommitted(a) \/ DropBackup(a)
    BY <1>1, <2>5 DEF AppendRevision, AppendCommitted, DropBackup, Backed
  <2> QED BY <1>3, <2>1, <2>2, <2>3, <2>4, <2>5 DEF Succeed
<1>4. CASE Fail(a)
  BY <1>4 DEF Fail, HandleFailure, Reinstate, DropDisplaced, LockCompensation,
     AppendCompensation, MarkCompensation, ResolveFailureBase, WriteTerminalJournal,
     LockTerminal, AppendTerminalEvidence, AppendTerminalCommitted, Backed
<1>5. CASE FaultStep(a)
  <2>1. CASE PublishRenameFails(a)
    BY <1>1, <2>1 DEF PublishRenameFails, Backed, Knows
  <2>2. CASE AttemptFileFails(a) \/ DropBackupFails(a) \/ RestoreFails(a)
    BY <1>1, <2>2 DEF AttemptFileFails, DropBackupFails, RestoreFails, Backed
  <2>3. CASE JournalFails(a)
    BY <1>1, <2>3 DEF JournalFails, Handler, Success, Backed
  <2>4. CASE AppendFails(a)
    BY <1>1, <2>4 DEF AppendFails, Handler, Success, Holding, Backed
  <2> QED BY <1>5, <2>1, <2>2, <2>3, <2>4 DEF FaultStep
<1> QED BY <1>2, <1>3, <1>4, <1>5 DEF Acts

(* A replacement that failed has put its old output back, and looks whether *)
(* its revision is the head before it closes.                              *)
LEMMA ActorClosed ==
  ASSUME TypeInv, ChainInv, JournalInv, NEW a \in Attempts, Acts(a)
  PROVE  Closed(a)'
<1> DEFINE Late == {"closing", "closeRecorded", "closeLocked", "closeEvidenced", "failed"}
<1>1. Knows(a) /\ Backed(a) /\ Superseded(a) /\ Closed(a)
  BY DEF ChainInv, JournalInv
<1>2. CASE pc'[a] \notin Late
  BY <1>2 DEF Closed
<1>3. CASE pc'[a] \in Late
  <2>1. /\ UNCHANGED targets /\ prov'[a] = prov[a]
        /\ \/ HandleFailure(a) /\ ~MustRestore(a) /\ pc[a] = "failing"
           \/ DropDisplaced(a) /\ pc[a] = "reinstated"
                /\ (prov[a] = NoRow \/ (ValidChain(targets) /\ ~HeadIs(prov[a])))
           \/ ResolveFailureBase(a) /\ pc[a] = "compensated" /\ ValidChain(targets)
           \/ pc[a] \in {"closing", "closeRecorded", "closeLocked", "closeEvidenced"}
    <3> USE <1>3 DEF TypeInv, TypeOK, Goto, local, journal
    <3>1. ~(Admit(a) \/ Crash(a))
      BY DEF Admit, Crash
    <3>2. ~Succeed(a)
      BY DEF Succeed, Render, RenderFails, CheckPublish, Vacate, PublishStaged, Cleanup,
         WriteJournal, LockTargets, AppendEvidence, AppendRevision, AppendCommitted, DropBackup
    <3>3. ~FaultStep(a)
      BY DEF FaultStep, PublishRenameFails, AttemptFileFails, DropBackupFails,
         RestoreFails, JournalFails, AppendFails, Handler
    <3>4. Fail(a)
      BY <3>1, <3>2, <3>3 DEF Acts
    <3>5. CASE HandleFailure(a)
      BY <3>5 DEF HandleFailure
    <3>6. CASE DropDisplaced(a)
      BY <3>6 DEF DropDisplaced
    <3>7. CASE ResolveFailureBase(a)
      BY <3>7 DEF ResolveFailureBase
    <3>8. CASE \/ WriteTerminalJournal(a) \/ LockTerminal(a)
               \/ AppendTerminalEvidence(a) \/ AppendTerminalCommitted(a)
      BY <3>8 DEF WriteTerminalJournal, LockTerminal, AppendTerminalEvidence,
         AppendTerminalCommitted
    <3>9. ~(\/ Reinstate(a) \/ LockCompensation(a) \/ AppendCompensation(a) \/ MarkCompensation(a))
      BY DEF Reinstate, LockCompensation, AppendCompensation, MarkCompensation
    <3> QED BY <3>4, <3>5, <3>6, <3>7, <3>8, <3>9 DEF Fail
  <2>2. CASE HandleFailure(a) /\ ~MustRestore(a) /\ pc[a] = "failing"
    <3>1. prov[a] # NoRow => ~prov[a].replace
      <4>1. ASSUME prov[a] # NoRow PROVE ~Replacing(a) /\ IsNext(a)
        BY <1>1, <2>2, <4>1 DEF Backed, MustRestore, Knows
      <4>2. IsNext(a) => prov[a].replace = Replacing(a)
        BY DEF IsNext, NextTargetRevision, Replacing
      <4> QED BY <4>1, <4>2
    <3> QED BY <1>1, <2>1, <2>2, <3>1, ActorCloses DEF NotOfItsOwn
  <2>3. CASE /\ DropDisplaced(a) /\ pc[a] = "reinstated"
             /\ prov[a] = NoRow \/ (ValidChain(targets) /\ ~HeadIs(prov[a]))
    BY <1>1, <2>1, <2>3, ActorCloses DEF NotOfItsOwn, HeadIs
  <2>4. CASE ResolveFailureBase(a) /\ pc[a] = "compensated" /\ ValidChain(targets)
    <3>1. TargetHead.revision = Len(targets) /\ Len(targets) \in Nat
      BY <2>4, HeadRevision DEF TypeInv, TypeOK
    <3>2. TargetHead # prov[a]
      BY <1>1, <2>4, <3>1 DEF Superseded
    <3> QED BY <1>1, <2>1, <2>4, <3>2, ActorCloses DEF NotOfItsOwn
  <2>5. CASE pc[a] \in {"closing", "closeRecorded", "closeLocked", "closeEvidenced"}
    BY <1>1, <2>1, <2>5, ActorCloses
  <2> QED BY <2>1, <2>2, <2>3, <2>4, <2>5
<1> QED BY <1>2, <1>3

(* What the invariant speaks of.                                           *)
LEMMA JournalStands ==
  ASSUME JournalInv, UNCHANGED <<targets, registry, pc, base, output, prov, backup>>
  PROVE  JournalInv'
<1>1. \A a \in Attempts : Evidence(a)' = Evidence(a)
  BY DEF Evidence
<1>2. RevisionsAccountedFor' /\ CommittedIsInChain'
  BY <1>1 DEF JournalInv, RevisionsAccountedFor, CommittedIsInChain, AccountsFor
<1>3. ASSUME NEW a \in Attempts PROVE Evidenced(a)' /\ Revised(a)' /\ Superseded(a)'
  BY <1>1 DEF JournalInv, Evidenced, Revised, Superseded
<1>4. ASSUME NEW a \in Attempts PROVE Backed(a)'
  BY DEF JournalInv, Backed, Replacing
<1>5. ASSUME NEW a \in Attempts PROVE Closed(a)'
  BY <1>1 DEF JournalInv, Closed, NotOfItsOwn, AccountsFor, TargetHead
<1> QED BY <1>2, <1>3, <1>4, <1>5 DEF JournalInv

LEMMA JournalInit == Init => JournalInv
BY DEF Init, JournalInv, RevisionsAccountedFor, CommittedIsInChain, Evidenced, Revised,
   Backed, Superseded, Closed

(* Provisioning happens before any revision.                               *)
LEMMA OwnerJournal ==
  ASSUME TypeInv, ChainInv, JournalInv, NEW o \in Owners,
         ProvisionRead(o) \/ ProvisionAppend(o)
  PROVE  JournalInv'
<1> USE DEF TypeInv, TypeOK, local, files, journal
<1>1. CASE UNCHANGED targets
  BY <1>1, JournalStands DEF ProvisionRead, ProvisionAppend
<1>2. CASE ~UNCHANGED targets
  <2>1. targets = << >> /\ UNCHANGED <<registry, files, pc, local>>
    BY <1>2 DEF ProvisionRead, ProvisionAppend, ChainInv, OwnerFirst
  <2>2. PICK s \in BOOLEAN : targets' = Append(<< >>, InitialRow(s))
    BY <1>2, <2>1 DEF ProvisionRead, ProvisionAppend
  <2>3. Len(targets') = 1 /\ targets' # << >> /\ targets'[1] = InitialRow(s)
    BY <2>2, InitialRowType, AppendProperties
  <2>4. RevisionsAccountedFor'
    BY <2>3 DEF RevisionsAccountedFor
  <2>5. CommittedIsInChain'
    BY <2>1 DEF CommittedIsInChain, JournalInv
  <2>6. ASSUME NEW a \in Attempts PROVE LocalJournal(a)'
    <3>1. /\ pc[a] \notin Running
          /\ Evidenced(a)' /\ Revised(a)' /\ Superseded(a)'
      BY <2>1 DEF ChainInv, Knows, JournalInv, Evidenced, Evidence, Revised, Superseded,
         Running, Success, Failure
    <3>2. Backed(a)'
      BY <2>1, <3>1 DEF Backed, Running, Success, Failure
    <3>3. ~InitialRow(s).replace
      BY DEF InitialRow
    <3>4. NotOfItsOwn(a)'
      BY <2>1, <2>3, <3>3 DEF NotOfItsOwn, TargetHead
    <3> QED BY <3>1, <3>2, <3>4 DEF Closed, LocalJournal
  <2> QED BY <2>4, <2>5, <2>6 DEF JournalInv, LocalJournal
<1> QED BY <1>1, <1>2

LEMMA JournalStep ==
  SingleOwner /\ TypeInv /\ LockExclusive /\ ChainInv /\ JournalInv /\ [Next]_vars
    => JournalInv'
<1> SUFFICES ASSUME TypeInv, ChainInv, JournalInv, [Next]_vars PROVE JournalInv'
  OBVIOUS
<1>1. ASSUME NEW a \in Attempts, Acts(a) PROVE JournalInv'
  <2>1. ASSUME NEW b \in Attempts PROVE LocalJournal(b)'
    BY <1>1, <2>1, OthersJournal, ActorEvidenced, ActorRevised, ActorBacked, ActorSuperseded,
       ActorClosed DEF LocalJournal
  <2> QED BY <1>1, <2>1, RevisionsStep, CommittedStep DEF JournalInv, LocalJournal
<1>2. ASSUME NEW o \in Owners, ProvisionRead(o) \/ ProvisionAppend(o) PROVE JournalInv'
  BY <1>2, OwnerJournal
<1>3. CASE UNCHANGED vars
  BY <1>3, JournalStands DEF vars, local, files, journal
<1> QED BY <1>1, <1>2, <1>3, StepCases

(* Whatever fails or crashes on the way, what the journal says of each     *)
(* revision and of its attempt is true: no revision without its evidence,  *)
(* no commit without its revision, and no failed replacement that the      *)
(* target names on its own account.                                        *)
THEOREM JournalTellsTheTruth == ASSUME SingleOwner PROVE Spec => []JournalIsTrue
<1>1. JournalInv => JournalIsTrue
  BY DEF JournalInv, JournalIsTrue, FailedReplacementIsNotHead, Closed, NotOfItsOwn
<1> QED BY <1>1, TypeInvariant, LockIsExclusive, ChainInvariant, JournalInit, JournalStep, PTL
        DEF Spec

-----------------------------------------------------------------------------
(* One writer at a time.                                                   *)

(* Attempts run one after the other, ...                                   *)
OneWriter == MaxInFlight = 1

(* ... and an append that raised has written nothing.                      *)
AppendsAreWhole == "landed" \notin FaultOutcomes

Alone == \A a, b \in Attempts : pc[a] \in Running /\ pc[b] \in Running => a = b

Unpublished == {"new", "rendering", "rendered", "checked"}
Published == {"published", "cleaned", "recorded", "locked", "evidenced", "revised", "committed"}
Restored == {"reinstated", "compensating", "compLocked", "compAppended", "compensated"}
Closing == {"closing", "closeRecorded", "closeLocked", "closeEvidenced"}

(* What the target names while the only writer is in a phase: ...          *)
HeadOf(a) ==
  /\ pc[a] \in {"rendering", "rendered", "checked", "vacated", "published", "cleaned",
               "recorded", "locked", "evidenced"} => TargetHead = base[a]
  /\ pc[a] \in {"revised", "committed", "compensating", "compLocked"} => TargetHead = prov[a]
  /\ pc[a] \in {"failing", "displaced", "reinstated"} =>
       TargetHead = base[a] \/ (prov[a] # NoRow /\ TargetHead = prov[a])
  /\ pc[a] \in {"compAppended", "compensated"} => TargetHead.art = base[a].art

(* ... and where the old and the new bytes are.                            *)
HasOld(a) == Replacing(a) => backup[a] = base[a].art

BytesOf(a) ==
  /\ pc[a] \in Unpublished =>
       ~output[a] /\ backup[a] = NoContent /\ displaced[a] = NoContent
  /\ pc[a] = "checked" => dest = base[a].art
  /\ pc[a] = "vacated" =>
       /\ Replacing(a) /\ dest = NoContent /\ backup[a] = base[a].art
       /\ ~output[a] /\ displaced[a] = NoContent
  /\ pc[a] \in Published =>
       output[a] /\ dest = out[a] /\ out[a] \in Contents /\ HasOld(a) /\ displaced[a] = NoContent
  /\ pc[a] = "failing" =>
       /\ displaced[a] = NoContent
       /\ \/ ~output[a] /\ prov[a] = NoRow
          \/ output[a] /\ dest = out[a] /\ out[a] \in Contents /\ HasOld(a)
  /\ pc[a] = "displaced" => Replacing(a) /\ dest = NoContent /\ backup[a] = base[a].art
  /\ pc[a] \in Restored => dest = base[a].art

(* An attempt that has moved nothing, or has put everything in its place.  *)
Settled(a) ==
  \/ pc[a] \notin Running
  \/ pc[a] \in Unpublished \cup Closing
  \/ pc[a] = "failing" /\ ~output[a]

(* Nobody has died or come back with a bare exception so far.              *)
Clean == faults <= 1 /\ \A a \in Attempts : pc[a] \notin {"crashed", "raised"}

HeadIsOut == targets # << >> /\ TargetHead.art # NoContent => dest = TargetHead.art

Fits == Clean /\ (\A a \in Attempts : Settled(a)) => HeadIsOut

(* Success is marked once and failure is the last word of an attempt.      *)
EndsOnce(a) ==
  /\ <<a, "main", "COMMITTED">> \in registry =>
       pc[a] \in {"committed", "succeeded", "raised", "crashed"}
  /\ <<a, "terminal", "COMMITTED">> \in registry => pc[a] = "failed"

(* A copy that neither the return of its attempt nor a restoration removes. *)
Overwriting(a) == pc[a] \in Published \ {"committed"} \/ (pc[a] = "failing" /\ output[a])

SafeCopy(c) ==
  \/ dest = c /\ \A a \in Attempts : ~Overwriting(a)
  \/ \E a \in Attempts : backup[a] = c /\ pc[a] # "committed"
  \/ \E a \in Attempts : displaced[a] = c /\ pc[a] \notin {"displaced", "reinstated"}

LastIsSafe ==
  \A i \in Public : (\A j \in Public : j <= i) => SafeCopy(targets[i].art)

ProvHasContent == \A a \in Attempts : prov[a] # NoRow => prov[a].art \in Contents

WriterInv ==
  /\ Alone
  /\ \A a \in Attempts : HeadOf(a) /\ BytesOf(a)
  /\ Fits

KeptInv == ProvHasContent /\ LastIsSafe /\ \A a \in Attempts : EndsOnce(a)

-----------------------------------------------------------------------------

(* The others have come back, died or not begun when an attempt moves.     *)
LEMMA OthersRest ==
  ASSUME OneWriter, TypeInv, Alone, NEW a \in Attempts, Acts(a)
  PROVE  \A b \in Attempts \ {a} : pc[b] \notin Running /\ pc'[b] = pc[b]
<1>1. ASSUME NEW b \in Attempts \ {a} PROVE pc[b] \notin Running
  <2>1. CASE Admit(a)
    <3>1. SUFFICES ASSUME pc[b] \in Running PROVE FALSE
      OBVIOUS
    <3>2. InFlight = {b}
      BY <3>1 DEF Alone, InFlight
    <3>3. Cardinality(InFlight) = 1
      BY <3>2, FS_Singleton
    <3> QED BY <2>1, <3>3 DEF Admit, OneWriter
  <2>2. CASE ~Admit(a)
    <3>1. pc[a] \in Running
      <4> USE DEF Running, Success, Failure, Goto
      <4>1. CASE Crash(a)
        BY <4>1 DEF Crash
      <4>2. CASE Succeed(a)
        BY <4>2 DEF Succeed, Render, RenderFails, CheckPublish, Vacate, PublishStaged, Cleanup,
           WriteJournal, LockTargets, AppendEvidence, AppendRevision, AppendCommitted, DropBackup
      <4>3. CASE Fail(a)
        BY <4>3 DEF Fail, HandleFailure, Reinstate, DropDisplaced, LockCompensation,
           AppendCompensation, MarkCompensation, ResolveFailureBase, WriteTerminalJournal,
           LockTerminal, AppendTerminalEvidence, AppendTerminalCommitted
      <4>4. CASE FaultStep(a)
        BY <4>4 DEF FaultStep, PublishRenameFails, AttemptFileFails, DropBackupFails,
           RestoreFails, JournalFails, AppendFails, Holding
      <4> QED BY <2>2, <4>1, <4>2, <4>3, <4>4 DEF Acts
    <3> QED BY <3>1 DEF Alone
  <2> QED BY <2>1, <2>2
<1> QED BY <1>1, ActorLocal DEF Same

LEMMA StaysAlone ==
  ASSUME OneWriter, TypeInv, Alone, NEW a \in Attempts, Acts(a)
  PROVE  Alone'
BY OthersRest DEF Alone

(* What was displaced for an attempt is touched by nobody else.            *)
LEMMA ActorDisplaced ==
  ASSUME TypeInv, NEW a \in Attempts, Acts(a)
  PROVE  \A b \in Attempts \ {a} : displaced'[b] = displaced[b]
<1> USE DEF TypeInv, TypeOK, Goto, files
<1>1. CASE Admit(a) \/ Crash(a)
  BY <1>1 DEF Admit, Crash
<1>2. CASE Succeed(a)
  BY <1>2 DEF Succeed, Render, RenderFails, CheckPublish, Vacate, PublishStaged, Cleanup,
     WriteJournal, LockTargets, AppendEvidence, AppendRevision, AppendCommitted, DropBackup
<1>3. CASE Fail(a)
  BY <1>3 DEF Fail, HandleFailure, Reinstate, DropDisplaced, LockCompensation,
     AppendCompensation, MarkCompensation, ResolveFailureBase, WriteTerminalJournal,
     LockTerminal, AppendTerminalEvidence, AppendTerminalCommitted
<1>4. CASE FaultStep(a)
  BY <1>4 DEF FaultStep, PublishRenameFails, AttemptFileFails, DropBackupFails,
     RestoreFails, JournalFails, AppendFails
<1> QED BY <1>1, <1>2, <1>3, <1>4 DEF Acts

LEMMA OthersBytes ==
  ASSUME OneWriter, TypeInv, ChainInv, WriterInv, NEW a \in Attempts, Acts(a),
         NEW b \in Attempts \ {a}
  PROVE  HeadOf(b)' /\ BytesOf(b)'
<1>1. pc[b] \notin Running /\ pc'[b] = pc[b]
  BY OthersRest DEF WriterInv
<1>2. /\ backup'[b] = backup[b] /\ output'[b] = output[b] /\ displaced'[b] = displaced[b]
  BY ActorRecords, ActorDisplaced
<1> QED BY <1>1, <1>2 DEF WriterInv, HeadOf, BytesOf, Running, Success, Failure, Unpublished,
        Published, Restored

(* The head after an append.                                               *)
LEMMA HeadAfter ==
  ASSUME TypeInv, NEW r \in Row, targets' = Append(targets, r)
  PROVE  TargetHead' = r /\ targets' # << >>
<1>1. targets \in Seq(Row)
  BY DEF TypeInv, TypeOK
<1>2. /\ Len(targets') = Len(targets) + 1 /\ Len(targets) \in Nat
      /\ targets'[Len(targets) + 1] = r /\ targets' # << >>
  BY <1>1, AppendProperties
<1> QED BY <1>2 DEF TargetHead

(* The only writer knows the head in every phase.                          *)
LEMMA ActorHead ==
  ASSUME TypeInv, ChainInv, WriterInv, NEW a \in Attempts, Acts(a)
  PROVE  HeadOf(a)'
<1> USE DEF TypeInv, TypeOK, Goto, journal, local, env
<1>1. HeadOf(a) /\ Knows(a) /\ BytesOf(a)
  BY DEF WriterInv, ChainInv
<1>2. CASE Admit(a)
  BY <1>1, <1>2 DEF Admit, HeadOf, TargetHead
<1>3. CASE Crash(a)
  BY <1>3 DEF Crash, HeadOf
<1>4. CASE Succeed(a)
  <2>1. CASE AppendRevision(a)
    <3>1. prov[a] \in Row
      BY <2>1 DEF AppendRevision, Provisional
    <3>2. TargetHead' = prov[a]
      BY <2>1, <3>1, HeadAfter DEF AppendRevision
    <3> QED BY <2>1, <3>2 DEF AppendRevision, HeadOf
  <2>2. CASE Render(a) \/ RenderFails(a) \/ CheckPublish(a) \/ Vacate(a) \/ PublishStaged(a)
    BY <1>1, <2>2 DEF Render, RenderFails, CheckPublish, Vacate, PublishStaged, HeadOf, TargetHead
  <2>3. CASE Cleanup(a) \/ WriteJournal(a) \/ LockTargets(a) \/ AppendEvidence(a)
    BY <1>1, <2>3 DEF Cleanup, WriteJournal, LockTargets, AppendEvidence, HeadOf, TargetHead
  <2>4. CASE AppendCommitted(a) \/ DropBackup(a)
    BY <1>1, <2>4 DEF AppendCommitted, DropBackup, HeadOf, TargetHead
  <2> QED BY <1>4, <2>1, <2>2, <2>3, <2>4 DEF Succeed
<1>5. CASE Fail(a)
  <2>1. CASE AppendCompensation(a)
    <3> DEFINE q == BuildCompensationRevision(base[a], prov[a])
    <3>1. base[a] \in Row /\ prov[a] \in Row
      BY <2>1 DEF AppendCompensation, Running, Failure, Provisional
    <3>2. q \in Row /\ q.art = base[a].art
      BY <3>1, CompensationType DEF BuildCompensationRevision
    <3>3. HeadIs(prov[a]) => targets' = Append(targets, q)
      BY <2>1 DEF AppendCompensation
    <3> HIDE DEF q
    <3>4. HeadIs(prov[a]) => TargetHead' = q
      BY <3>2, <3>3, HeadAfter
    <3> QED BY <2>1, <3>2, <3>4 DEF AppendCompensation, HeadOf
  <2>2. CASE DropDisplaced(a)
    <3>1. HeadIs(prov[a]) /\ prov[a] # NoRow => TargetHead = prov[a]
      BY HeadIsThisRow
    <3> QED BY <1>1, <2>2, <3>1 DEF DropDisplaced, HeadOf, TargetHead
  <2>3. CASE HandleFailure(a) \/ Reinstate(a)
    BY <1>1, <2>3 DEF HandleFailure, Reinstate, HeadOf, TargetHead
  <2>4. CASE LockCompensation(a) \/ MarkCompensation(a) \/ ResolveFailureBase(a)
    BY <1>1, <2>4 DEF LockCompensation, MarkCompensation, ResolveFailureBase, HeadOf, TargetHead
  <2>5. CASE \/ WriteTerminalJournal(a) \/ LockTerminal(a)
             \/ AppendTerminalEvidence(a) \/ AppendTerminalCommitted(a)
    BY <2>5 DEF WriteTerminalJournal, LockTerminal, AppendTerminalEvidence,
       AppendTerminalCommitted, HeadOf
  <2> QED BY <1>5, <2>1, <2>2, <2>3, <2>4, <2>5 DEF Fail
<1>6. CASE FaultStep(a)
  <2>1. CASE AppendFails(a)
    <3>1. pc'[a] = "failing" =>
            /\ pc[a] \in {"locked", "evidenced", "revised"}
            /\ prov[a] \in Row /\ prov'[a] = prov[a] /\ base'[a] = base[a]
      BY <2>1 DEF AppendFails, Handler, Holding, Success, Provisional
    <3>2. pc[a] = "evidenced" => UNCHANGED targets \/ targets' = Append(targets, prov[a])
      BY <2>1 DEF AppendFails, Landed
    <3>3. pc[a] \in {"locked", "revised"} => UNCHANGED targets
      BY <2>1 DEF AppendFails, Landed
    <3>4. pc'[a] \in {"failing", "raised"}
      BY <2>1 DEF AppendFails, Handler
    <3>5. pc'[a] = "failing" =>
            TargetHead' = base[a] \/ TargetHead' = prov[a]
      BY <1>1, <3>1, <3>2, <3>3, HeadAfter DEF HeadOf, TargetHead
    <3>6. prov[a] \in Row => prov[a] # NoRow
      BY NoRowAssumption
    <3> QED BY <3>1, <3>4, <3>5, <3>6 DEF HeadOf
  <2>2. CASE PublishRenameFails(a)
    BY <1>1, <2>2 DEF PublishRenameFails, HeadOf, TargetHead
  <2>3. CASE AttemptFileFails(a) \/ DropBackupFails(a) \/ RestoreFails(a)
    BY <1>1, <2>3 DEF AttemptFileFails, DropBackupFails, RestoreFails, HeadOf, TargetHead
  <2>4. CASE JournalFails(a)
    BY <1>1, <2>4 DEF JournalFails, Handler, Success, HeadOf, TargetHead
  <2> QED BY <1>6, <2>1, <2>2, <2>3, <2>4 DEF FaultStep
<1> QED BY <1>2, <1>3, <1>4, <1>5, <1>6 DEF Acts

(* It also knows where the bytes are.                                      *)
LEMMA ActorBytes ==
  ASSUME TypeInv, ChainInv, WriterInv, NEW a \in Attempts, Acts(a)
  PROVE  BytesOf(a)'
<1> USE DEF TypeInv, TypeOK, Goto, journal, files, local, env, Unpublished, Published, Restored,
            Replacing, HasOld
<1>1. BytesOf(a) /\ Knows(a)
  BY DEF WriterInv, ChainInv
<1>2. CASE Admit(a)
  BY <1>1, <1>2 DEF Admit, BytesOf
<1>3. CASE Crash(a)
  BY <1>3 DEF Crash, BytesOf
<1>4. CASE Succeed(a)
  <2>1. CASE Render(a) \/ RenderFails(a) \/ CheckPublish(a)
    BY <1>1, <2>1 DEF Render, RenderFails, CheckPublish, BytesOf, Knows
  <2>2. CASE Vacate(a)
    BY <1>1, <2>2 DEF Vacate, BytesOf, Knows
  <2>3. CASE PublishStaged(a)
    BY <1>1, <2>3 DEF PublishStaged, BytesOf, Knows
  <2>4. CASE Cleanup(a) \/ WriteJournal(a)
    BY <1>1, <2>4 DEF Cleanup, WriteJournal, BytesOf
  <2>5. CASE LockTargets(a) \/ AppendEvidence(a) \/ AppendRevision(a)
    BY <1>1, <2>5 DEF LockTargets, AppendEvidence, AppendRevision, BytesOf
  <2>6. CASE AppendCommitted(a) \/ DropBackup(a)
    BY <1>1, <2>6 DEF AppendCommitted, DropBackup, BytesOf
  <2> QED BY <1>4, <2>1, <2>2, <2>3, <2>4, <2>5, <2>6 DEF Succeed
<1>5. CASE Fail(a)
  <2>1. CASE HandleFailure(a)
    BY <1>1, <2>1 DEF HandleFailure, MustRestore, BytesOf
  <2>2. CASE Reinstate(a) \/ DropDisplaced(a)
    BY <1>1, <2>2 DEF Reinstate, DropDisplaced, BytesOf
  <2>3. CASE LockCompensation(a) \/ AppendCompensation(a) \/ MarkCompensation(a)
    BY <1>1, <2>3 DEF LockCompensation, AppendCompensation, MarkCompensation, BytesOf
  <2>4. CASE ResolveFailureBase(a)
    BY <2>4 DEF ResolveFailureBase, BytesOf
  <2>5. CASE \/ WriteTerminalJournal(a) \/ LockTerminal(a)
             \/ AppendTerminalEvidence(a) \/ AppendTerminalCommitted(a)
    BY <2>5 DEF WriteTerminalJournal, LockTerminal, AppendTerminalEvidence,
       AppendTerminalCommitted, BytesOf
  <2> QED BY <1>5, <2>1, <2>2, <2>3, <2>4, <2>5 DEF Fail
<1>6. CASE FaultStep(a)
  <2>1. CASE PublishRenameFails(a)
    BY <1>1, <2>1 DEF PublishRenameFails, Fault, BytesOf, Knows
  <2>2. CASE AttemptFileFails(a) \/ DropBackupFails(a) \/ RestoreFails(a)
    BY <1>1, <2>2 DEF AttemptFileFails, DropBackupFails, RestoreFails, BytesOf
  <2>3. CASE JournalFails(a)
    BY <1>1, <2>3 DEF JournalFails, Handler, Success, BytesOf
  <2>4. CASE AppendFails(a)
    BY <1>1, <2>4 DEF AppendFails, Handler, Holding, Success, BytesOf
  <2> QED BY <1>6, <2>1, <2>2, <2>3, <2>4 DEF FaultStep
<1> QED BY <1>2, <1>3, <1>4, <1>5, <1>6 DEF Acts

(* Between attempts the published file is what the head names.             *)
LEMMA ActorFits ==
  ASSUME OneWriter, TypeInv, ChainInv, WriterInv, NEW a \in Attempts, Acts(a)
  PROVE  Fits'
<1> SUFFICES ASSUME Clean', \A b \in Attempts : Settled(b)', targets' # << >>,
                    TargetHead'.art # NoContent
             PROVE  dest' = TargetHead'.art
  BY DEF Fits, HeadIsOut
<1> USE DEF TypeInv, TypeOK, Goto, journal, files, local, env
<1>1. BytesOf(a) /\ HeadOf(a) /\ Knows(a) /\ Fits
  BY DEF WriterInv, ChainInv
<1>2. \A b \in Attempts \ {a} : Settled(b)
  BY OthersRest DEF WriterInv, Settled
<1>3. pc'[a] \notin {"crashed", "raised"} /\ faults' <= 1 /\ Settled(a)'
  BY DEF Clean
<1>4. faults <= 1 /\ \A b \in Attempts \ {a} : pc[b] \notin {"crashed", "raised"}
  <2>1. faults <= faults'
    <3>1. CASE Admit(a) \/ Crash(a)
      BY <3>1 DEF Admit, Crash
    <3>2. CASE Succeed(a)
      BY <3>2 DEF Succeed, Render, RenderFails, CheckPublish, Vacate, PublishStaged, Cleanup,
         WriteJournal, LockTargets, AppendEvidence, AppendRevision, AppendCommitted, DropBackup
    <3>3. CASE Fail(a)
      BY <3>3 DEF Fail, HandleFailure, Reinstate, DropDisplaced, LockCompensation,
         AppendCompensation, MarkCompensation, ResolveFailureBase, WriteTerminalJournal,
         LockTerminal, AppendTerminalEvidence, AppendTerminalCommitted
    <3>4. CASE FaultStep(a)
      BY <3>4 DEF FaultStep, PublishRenameFails, AttemptFileFails, DropBackupFails,
         RestoreFails, JournalFails, AppendFails, Fault
    <3> QED BY <3>1, <3>2, <3>3, <3>4 DEF Acts
  <2>2. faults \in Nat /\ faults' \in Nat
    BY TypeStep, BoundsAssumption DEF Acts, Next
  <2> QED BY <2>1, <2>2, <1>3, OthersRest DEF WriterInv, Clean
(* A step between settled phases leaves the file and the head alone.       *)
<1>5. ASSUME Settled(a), pc[a] \notin {"crashed", "raised"}, UNCHANGED <<dest, targets>>
      PROVE  dest' = TargetHead'.art
  BY <1>1, <1>2, <1>4, <1>5 DEF Fits, Clean, HeadIsOut, TargetHead
<1> USE DEF Settled, Running, Success, Failure, Unpublished, Closing
<1>6. CASE Admit(a)
  BY <1>5, <1>6 DEF Admit
<1>7. CASE Succeed(a)
  <2>1. CASE Render(a) \/ RenderFails(a) \/ CheckPublish(a) \/ Vacate(a)
    BY <1>3, <1>5, <2>1 DEF Render, RenderFails, CheckPublish, Vacate
  <2>2. CASE DropBackup(a)
    BY <1>1, <2>2 DEF DropBackup, BytesOf, HeadOf, Knows, IsNext, NextTargetRevision, Provisional,
       Published, TargetHead
  <2>3. CASE \/ PublishStaged(a) \/ Cleanup(a) \/ WriteJournal(a) \/ LockTargets(a)
             \/ AppendEvidence(a) \/ AppendRevision(a) \/ AppendCommitted(a)
    BY <1>1, <1>3, <2>3 DEF PublishStaged, Cleanup, WriteJournal, LockTargets, AppendEvidence,
       AppendRevision, AppendCommitted, BytesOf, Published
  <2> QED BY <1>7, <2>1, <2>2, <2>3 DEF Succeed
<1>8. CASE Fail(a)
  <2>1. CASE HandleFailure(a)
    <3>1. UNCHANGED <<dest, targets, output>> /\ pc[a] = "failing" /\ ~MustRestore(a)
      BY <1>3, <2>1 DEF HandleFailure
    <3>2. CASE ~output[a]
      BY <1>5, <3>1, <3>2
    <3>3. CASE output[a]
      <4>1. base[a].art = NoContent
        BY <1>1, <3>1, <3>3 DEF MustRestore, BytesOf, HasOld, Replacing
      <4>2. prov[a] # NoRow => prov[a].art = out[a]
        BY <1>1, <3>1 DEF Knows, IsNext, NextTargetRevision
      <4> QED BY <1>1, <3>1, <3>3, <4>1, <4>2 DEF HeadOf, BytesOf, TargetHead
    <3> QED BY <3>2, <3>3
  <2>2. CASE DropDisplaced(a)
    <3>1. /\ UNCHANGED <<dest, targets>> /\ pc[a] = "reinstated"
          /\ prov[a] = NoRow \/ (ValidChain(targets) /\ ~HeadIs(prov[a]))
      BY <1>3, <2>2 DEF DropDisplaced
    <3>2. TargetHead = base[a]
      BY <1>1, <3>1 DEF HeadOf, HeadIs
    <3> QED BY <1>1, <3>1, <3>2 DEF BytesOf, Restored, TargetHead
  <2>3. CASE ResolveFailureBase(a)
    BY <1>1, <2>3 DEF ResolveFailureBase, BytesOf, HeadOf, Restored, TargetHead
  <2>4. CASE \/ WriteTerminalJournal(a) \/ LockTerminal(a)
             \/ AppendTerminalEvidence(a) \/ AppendTerminalCommitted(a)
    BY <1>3, <1>5, <2>4 DEF WriteTerminalJournal, LockTerminal, AppendTerminalEvidence,
       AppendTerminalCommitted
  <2>5. CASE Reinstate(a) \/ LockCompensation(a) \/ AppendCompensation(a) \/ MarkCompensation(a)
    BY <1>3, <2>5 DEF Reinstate, LockCompensation, AppendCompensation, MarkCompensation
  <2> QED BY <1>8, <2>1, <2>2, <2>3, <2>4, <2>5 DEF Fail
<1>9. CASE FaultStep(a)
  <2>1. CASE PublishRenameFails(a)
    <3>1. CASE pc[a] = "checked"
      BY <1>5, <2>1, <3>1 DEF PublishRenameFails, Fault
    <3>2. CASE pc[a] = "vacated"
      <4>1. dest = NoContent /\ Replacing(a) /\ backup[a] = base[a].art /\ TargetHead = base[a]
        BY <1>1, <3>2 DEF BytesOf, HeadOf
      <4>2. dest' = backup[a] \/ faults' = faults + 2
        BY <2>1, <3>2, <4>1 DEF PublishRenameFails
      <4>3. faults \in Nat
        BY BoundsAssumption
      <4> QED BY <1>3, <2>1, <4>1, <4>2, <4>3 DEF PublishRenameFails, TargetHead
    <3> QED BY <2>1, <3>1, <3>2 DEF PublishRenameFails
  <2>2. CASE AttemptFileFails(a) \/ DropBackupFails(a) \/ RestoreFails(a)
    BY <1>1, <1>3, <2>2 DEF AttemptFileFails, DropBackupFails, RestoreFails, BytesOf, Published
  <2>3. CASE JournalFails(a)
    BY <1>1, <1>3, <2>3 DEF JournalFails, Handler, BytesOf, Published
  <2>4. CASE AppendFails(a)
    BY <1>1, <1>3, <2>4 DEF AppendFails, Handler, Holding, BytesOf, Published
  <2> QED BY <1>9, <2>1, <2>2, <2>3, <2>4 DEF FaultStep
<1>10. CASE Crash(a)
  BY <1>3, <1>10 DEF Crash
<1> QED BY <1>6, <1>7, <1>8, <1>9, <1>10 DEF Acts

LEMMA WriterInit == Init => WriterInv
BY DEF Init, WriterInv, Alone, HeadOf, BytesOf, Fits, HeadIsOut, Running, Success, Failure,
   Unpublished, Published, Restored, HasOld, Replacing

(* Provisioning happens while nobody writes.                               *)
LEMMA OwnerWriter ==
  ASSUME TypeInv, ChainInv, WriterInv, NEW o \in Owners,
         ProvisionRead(o) \/ ProvisionAppend(o)
  PROVE  WriterInv'
<1> USE DEF TypeInv, TypeOK, local, files, journal
<1>1. UNCHANGED <<dest, backup, displaced, pc, local, faults>>
  BY DEF ProvisionRead, ProvisionAppend
<1>2. Alone'
  BY <1>1 DEF WriterInv, Alone
<1>3. ASSUME NEW a \in Attempts PROVE BytesOf(a)'
  <2>1. BytesOf(a)
    BY DEF WriterInv
  <2> QED BY <1>1, <2>1 DEF BytesOf, HasOld, Replacing
<1>4. CASE UNCHANGED targets
  <2>1. ASSUME NEW a \in Attempts PROVE HeadOf(a)'
    <3>1. HeadOf(a) /\ TargetHead' = TargetHead
      BY <1>4 DEF WriterInv, TargetHead
    <3> QED BY <1>1, <3>1 DEF HeadOf
  <2>2. Fits'
    <3>1. TargetHead' = TargetHead
      BY <1>4 DEF TargetHead
    <3> QED BY <1>1, <1>4, <3>1 DEF WriterInv, Fits, Clean, Settled, HeadIsOut
  <2> QED BY <1>2, <1>3, <2>1, <2>2 DEF WriterInv
<1>5. CASE ~UNCHANGED targets
  <2>1. targets = << >>
    BY <1>5 DEF ProvisionRead, ProvisionAppend, ChainInv, OwnerFirst
  <2>2. PICK s \in BOOLEAN : targets' = Append(targets, InitialRow(s))
    BY <1>5 DEF ProvisionRead, ProvisionAppend
  <2>3. TargetHead' = InitialRow(s)
    BY <2>2, InitialRowType, HeadAfter
  <2>4. TargetHead'.art = NoContent
    BY <2>3 DEF InitialRow
  <2>5. Fits'
    BY <2>4 DEF Fits, HeadIsOut
  <2>6. ASSUME NEW a \in Attempts PROVE HeadOf(a)'
    <3>1. pc[a] \notin Running
      BY <2>1 DEF ChainInv, Knows
    <3> QED BY <1>1, <3>1 DEF HeadOf, Running, Success, Failure
  <2> QED BY <1>2, <1>3, <2>5, <2>6 DEF WriterInv
<1> QED BY <1>4, <1>5

LEMMA WriterStands == ASSUME WriterInv, UNCHANGED vars PROVE WriterInv'
<1> USE DEF vars, local, files, journal, env
<1>1. TargetHead' = TargetHead
  BY DEF TargetHead
<1>2. ASSUME NEW a \in Attempts PROVE HeadOf(a)' /\ BytesOf(a)'
  <2>1. HeadOf(a) /\ BytesOf(a)
    BY DEF WriterInv
  <2> QED BY <1>1, <2>1 DEF HeadOf, BytesOf, HasOld, Replacing
<1>3. Alone' /\ Fits'
  BY <1>1 DEF WriterInv, Alone, Fits, Clean, Settled, HeadIsOut
<1> QED BY <1>2, <1>3 DEF WriterInv

LEMMA WriterStep ==
  OneWriter /\ TypeInv /\ ChainInv /\ WriterInv /\ [Next]_vars => WriterInv'
<1> SUFFICES ASSUME OneWriter, TypeInv, ChainInv, WriterInv, [Next]_vars PROVE WriterInv'
  OBVIOUS
<1>1. ASSUME NEW a \in Attempts, Acts(a) PROVE WriterInv'
  <2>1. Alone'
    BY <1>1, StaysAlone DEF WriterInv
  <2>2. ASSUME NEW b \in Attempts PROVE HeadOf(b)' /\ BytesOf(b)'
    BY <1>1, <2>2, ActorHead, ActorBytes, OthersBytes
  <2> QED BY <1>1, <2>1, <2>2, ActorFits DEF WriterInv
<1>2. ASSUME NEW o \in Owners, ProvisionRead(o) \/ ProvisionAppend(o) PROVE WriterInv'
  BY <1>2, OwnerWriter
<1>3. CASE UNCHANGED vars
  BY <1>3, WriterStands
<1> QED BY <1>1, <1>2, <1>3, StepCases

LEMMA WriterInvariant == ASSUME SingleOwner, OneWriter PROVE Spec => []WriterInv
BY TypeInvariant, ChainInvariant, WriterInit, WriterStep, PTL DEF Spec

(* When every attempt has come back with a receipt, all of them are        *)
(* settled and none is lost.                                               *)
LEMMA BytesFollow == WriterInv => BytesMatchHead
<1> SUFFICES ASSUME WriterInv, Quiet, faults <= 1 PROVE HeadIsOut
  BY DEF BytesMatchHead, HeadIsOut
<1>1. Clean /\ \A a \in Attempts : Settled(a)
  BY DEF Quiet, Clean, Settled, Running, Success, Failure
<1> QED BY <1>1 DEF WriterInv, Fits

-----------------------------------------------------------------------------
(* Ends of attempts, and the last committed render.                        *)

(* Which success and failure marks a step can put on record.               *)
LEMMA ActorMarks ==
  ASSUME AppendsAreWhole, TypeInv, NEW a \in Attempts, Acts(a)
  PROVE  /\ \A b \in Attempts :
              <<b, "main", "COMMITTED">> \in registry' =>
                \/ <<b, "main", "COMMITTED">> \in registry
                \/ b = a /\ AppendCommitted(a)
         /\ \A b \in Attempts :
              <<b, "terminal", "COMMITTED">> \in registry' =>
                \/ <<b, "terminal", "COMMITTED">> \in registry
                \/ b = a /\ AppendTerminalCommitted(a)
<1> USE DEF TypeInv, TypeOK, Goto, journal, AppendsAreWhole
<1>1. CASE Admit(a) \/ Crash(a)
  BY <1>1 DEF Admit, Crash
<1>2. CASE Succeed(a)
  BY <1>2 DEF Succeed, Render, RenderFails, CheckPublish, Vacate, PublishStaged, Cleanup,
     WriteJournal, LockTargets, AppendEvidence, AppendRevision, AppendCommitted, DropBackup
<1>3. CASE Fail(a)
  BY <1>3 DEF Fail, HandleFailure, Reinstate, DropDisplaced, LockCompensation,
     AppendCompensation, MarkCompensation, ResolveFailureBase, WriteTerminalJournal,
     LockTerminal, AppendTerminalEvidence, AppendTerminalCommitted
<1>4. CASE FaultStep(a)
  BY <1>4 DEF FaultStep, PublishRenameFails, AttemptFileFails, DropBackupFails,
     RestoreFails, JournalFails, AppendFails, Landed
<1> QED BY <1>1, <1>2, <1>3, <1>4 DEF Acts

(* An attempt that has succeeded never comes to close a failure.           *)
Done == {"committed", "succeeded", "raised", "crashed"}

LEMMA DoneStays ==
  ASSUME TypeInv, NEW a \in Attempts, Acts(a)
  PROVE  (pc[a] \in Done => pc'[a] \in Done) /\ pc[a] # "failed"
<1> USE DEF TypeInv, TypeOK, Goto, Done
<1>1. CASE Admit(a) \/ Crash(a)
  BY <1>1 DEF Admit, Crash, Running, Success, Failure
<1>2. CASE Succeed(a)
  BY <1>2 DEF Succeed, Render, RenderFails, CheckPublish, Vacate, PublishStaged, Cleanup,
     WriteJournal, LockTargets, AppendEvidence, AppendRevision, AppendCommitted, DropBackup
<1>3. CASE Fail(a)
  BY <1>3 DEF Fail, HandleFailure, Reinstate, DropDisplaced, LockCompensation,
     AppendCompensation, MarkCompensation, ResolveFailureBase, WriteTerminalJournal,
     LockTerminal, AppendTerminalEvidence, AppendTerminalCommitted
<1>4. CASE FaultStep(a)
  BY <1>4 DEF FaultStep, PublishRenameFails, AttemptFileFails, DropBackupFails,
     RestoreFails, JournalFails, AppendFails, Holding
<1> QED BY <1>1, <1>2, <1>3, <1>4 DEF Acts

LEMMA EndsStep ==
  ASSUME AppendsAreWhole, TypeInv, NEW a \in Attempts, Acts(a),
         NEW b \in Attempts, EndsOnce(b)
  PROVE  EndsOnce(b)'
<1>1. CASE b # a
  <2>1. pc'[b] = pc[b]
    BY <1>1, ActorLocal DEF Same
  <2> QED BY <1>1, <2>1, ActorMarks DEF EndsOnce
<1>2. CASE b = a
  <2>1. AppendCommitted(a) => pc'[a] = "committed"
    BY DEF AppendCommitted, Goto, TypeInv, TypeOK
  <2>2. AppendTerminalCommitted(a) => pc'[a] = "failed"
    BY DEF AppendTerminalCommitted, Goto, TypeInv, TypeOK
  <2> QED BY <1>2, <2>1, <2>2, ActorMarks, DoneStays DEF EndsOnce, Done
<1> QED BY <1>1, <1>2

(* A provisional revision is about a render.                               *)
LEMMA ProvStep ==
  ASSUME TypeInv, ChainInv, ProvHasContent, NEW a \in Attempts, Acts(a)
  PROVE  ProvHasContent'
<1>1. \A b \in Attempts \ {a} : prov'[b] = prov[b]
  BY ActorLocal DEF Same
<1>2. prov'[a] = prov[a] \/ (prov'[a] # NoRow => prov'[a].art \in Contents)
  <2> USE DEF TypeInv, TypeOK, Goto, local
  <2>1. CASE Admit(a) \/ Crash(a)
    BY <2>1 DEF Admit, Crash
  <2>2. CASE Cleanup(a)
    BY <2>2 DEF Cleanup, NextTargetRevision, ChainInv, Knows
  <2>3. CASE Succeed(a) /\ ~Cleanup(a)
    BY <2>3 DEF Succeed, Render, RenderFails, CheckPublish, Vacate, PublishStaged,
       WriteJournal, LockTargets, AppendEvidence, AppendRevision, AppendCommitted, DropBackup
  <2>4. CASE Fail(a)
    BY <2>4 DEF Fail, HandleFailure, Reinstate, DropDisplaced, LockCompensation,
       AppendCompensation, MarkCompensation, ResolveFailureBase, WriteTerminalJournal,
       LockTerminal, AppendTerminalEvidence, AppendTerminalCommitted
  <2>5. CASE FaultStep(a)
    BY <2>5 DEF FaultStep, PublishRenameFails, AttemptFileFails, DropBackupFails,
       RestoreFails, JournalFails, AppendFails
  <2> QED BY <2>1, <2>2, <2>3, <2>4, <2>5 DEF Acts
<1> QED BY <1>1, <1>2 DEF ProvHasContent

(* Every step keeps a safe copy of what it is not about to make the last   *)
(* committed render.                                                       *)
LEMMA CopyStays ==
  ASSUME OneWriter, TypeInv, ChainInv, WriterInv, NEW a \in Attempts, Acts(a),
         ~AppendCommitted(a), NEW c \in Contents, SafeCopy(c)
  PROVE  SafeCopy(c)'
<1> USE DEF TypeInv, TypeOK, Goto, journal, files, local
<1>1. BytesOf(a) /\ Knows(a) /\ c # NoContent
  BY NamesAssumption DEF WriterInv, ChainInv
<1>2. /\ \A b \in Attempts \ {a} : /\ pc'[b] = pc[b] /\ backup'[b] = backup[b]
                                   /\ displaced'[b] = displaced[b] /\ output'[b] = output[b]
                                   /\ ~Overwriting(b) /\ ~Overwriting(b)'
  BY OthersRest, ActorRecords, ActorDisplaced
     DEF WriterInv, Overwriting, Running, Success, Failure, Published
<1> DEFINE InDest == dest = c /\ ~Overwriting(a)
           InBackup == backup[a] = c /\ pc[a] # "committed"
           InDisplaced == displaced[a] = c /\ pc[a] \notin {"displaced", "reinstated"}
           Mine == InDest \/ InBackup \/ InDisplaced
<1> SUFFICES ASSUME Mine PROVE Mine'
  BY <1>2 DEF SafeCopy
<1> USE DEF Overwriting, Unpublished, Published, Restored
<1>4. CASE Admit(a)
  BY <1>4 DEF Admit
<1>5. CASE Crash(a)
  BY <1>5 DEF Crash
<1>6. CASE Succeed(a)
  <2>1. CASE Render(a) \/ RenderFails(a) \/ CheckPublish(a)
    BY <1>1, <2>1 DEF Render, RenderFails, CheckPublish, BytesOf
  <2>2. CASE Vacate(a)
    BY <1>1, <2>2 DEF Vacate, BytesOf
  <2>3. CASE PublishStaged(a)
    BY <1>1, <2>3 DEF PublishStaged, BytesOf, Replacing
  <2>4. CASE Cleanup(a) \/ WriteJournal(a) \/ LockTargets(a)
    BY <1>1, <2>4 DEF Cleanup, WriteJournal, LockTargets, BytesOf
  <2>5. CASE AppendEvidence(a) \/ AppendRevision(a) \/ DropBackup(a)
    BY <1>1, <2>5 DEF AppendEvidence, AppendRevision, DropBackup, BytesOf
  <2> QED BY <1>6, <2>1, <2>2, <2>3, <2>4, <2>5 DEF Succeed
<1>7. CASE Fail(a)
  <2>1. CASE HandleFailure(a)
    BY <1>1, <2>1 DEF HandleFailure, MustRestore, BytesOf
  <2>2. CASE Reinstate(a)
    BY <1>1, <2>2 DEF Reinstate, BytesOf
  <2>3. CASE DropDisplaced(a)
    BY <1>1, <2>3 DEF DropDisplaced, BytesOf
  <2>4. CASE LockCompensation(a) \/ AppendCompensation(a) \/ MarkCompensation(a)
    BY <2>4 DEF LockCompensation, AppendCompensation, MarkCompensation
  <2>5. CASE ResolveFailureBase(a) \/ WriteTerminalJournal(a) \/ LockTerminal(a)
    BY <2>5 DEF ResolveFailureBase, WriteTerminalJournal, LockTerminal
  <2>6. CASE AppendTerminalEvidence(a) \/ AppendTerminalCommitted(a)
    BY <2>6 DEF AppendTerminalEvidence, AppendTerminalCommitted
  <2> QED BY <1>7, <2>1, <2>2, <2>3, <2>4, <2>5, <2>6 DEF Fail
<1>8. CASE FaultStep(a)
  <2>1. CASE PublishRenameFails(a)
    BY <1>1, <2>1 DEF PublishRenameFails, Fault, BytesOf
  <2>2. CASE AttemptFileFails(a) \/ DropBackupFails(a) \/ RestoreFails(a)
    BY <1>1, <2>2 DEF AttemptFileFails, DropBackupFails, RestoreFails, BytesOf
  <2>3. CASE JournalFails(a)
    BY <1>1, <2>3 DEF JournalFails, Handler, Success, BytesOf
  <2>4. CASE AppendFails(a)
    BY <1>1, <2>4 DEF AppendFails, Handler, Holding, Success, BytesOf
  <2> QED BY <1>8, <2>1, <2>2, <2>3, <2>4 DEF FaultStep
<1> QED BY <1>4, <1>5, <1>6, <1>7, <1>8 DEF Acts

(* Which renders are public, and how the newest one comes to be.           *)
LEMMA PublicRows ==
  ASSUME AppendsAreWhole, TypeInv, ChainInv, JournalInv, NEW a \in Attempts, Acts(a),
         ~AppendCommitted(a)
  PROVE  Public' = Public
<1> USE DEF TypeInv, TypeOK
<1>1. Public \subseteq Public'
  <2> SUFFICES ASSUME NEW i \in 1..Len(targets), NEW b \in Attempts, prov[b] = targets[i],
                      <<b, "main", "COMMITTED">> \in registry
               PROVE  i \in Public'
    BY DEF Public
  <2>1. prov[b] # NoRow
    BY NoRowAssumption
  <2>2. prov'[b] = prov[b] /\ <<b, "main", "COMMITTED">> \in registry'
    BY <2>1, ActorLocal, ActorRecords DEF Same
  <2>3. targets'[i] = targets[i] /\ i \in 1..Len(targets')
    BY RowsStay
  <2> QED BY <2>2, <2>3 DEF Public
<1>2. Public' \subseteq Public
  <2> SUFFICES ASSUME NEW i \in 1..Len(targets'), NEW b \in Attempts, prov'[b] = targets'[i],
                      <<b, "main", "COMMITTED">> \in registry'
               PROVE  i \in Public
    BY DEF Public
  <2>1. <<b, "main", "COMMITTED">> \in registry
    BY ActorMarks
  <2>2. PICK j \in 1..Len(targets) : targets[j] = prov[b]
    BY <2>1 DEF JournalInv, CommittedIsInChain
  <2>3. prov'[b] = prov[b] /\ targets'[j] = targets[j] /\ j \in 1..Len(targets')
    BY <2>2, ActorLocal, ActorRecords, RowsStay, NoRowAssumption DEF Same
  <2>4. targets'[i] = targets'[j]
    BY <2>2, <2>3
  <2>5. ValidChain(targets')
    <3>1. targets' # << >>
      BY <2>3, RowsStay, TypeStep DEF Acts, Next
    <3> QED BY <3>1, ActorChain DEF ChainLinear
  <2>6. i = j
    BY <2>3, <2>4, <2>5 DEF ValidChain
  <2> QED BY <2>1, <2>2, <2>6 DEF Public
<1> QED BY <1>1, <1>2

(* A success mark makes the head the newest committed render, and its      *)
(* bytes are at the target.                                                *)
LEMMA MarkIsLast ==
  ASSUME OneWriter, TypeInv, ChainInv, WriterInv, NEW a \in Attempts, AppendCommitted(a)
  PROVE  LastIsSafe'
<1> USE DEF TypeInv, TypeOK
<1>1. /\ pc[a] = "revised" /\ pc'[a] = "committed" /\ registry' = registry \cup {<<a, "main", "COMMITTED">>}
      /\ UNCHANGED <<targets, dest, prov>>
  BY DEF AppendCommitted, Goto, files, local
<1>2. /\ TargetHead = prov[a] /\ dest = out[a] /\ prov[a].art = out[a]
      /\ targets # << >>
  BY <1>1 DEF WriterInv, HeadOf, BytesOf, Published, ChainInv, Knows, IsNext, NextTargetRevision,
     Provisional, Running, Success
<1>3. Len(targets) \in Nat /\ Len(targets) \in Public'
  BY <1>1, <1>2 DEF Public, TargetHead
<1>4. \A b \in Attempts : ~Overwriting(b)'
  <2>1. \A b \in Attempts \ {a} : pc[b] \notin Running /\ pc'[b] = pc[b]
    BY OthersRest DEF WriterInv, Acts, Succeed
  <2> QED BY <1>1, <2>1 DEF Overwriting, Running, Success, Failure, Published
<1> SUFFICES ASSUME NEW i \in Public', \A j \in Public' : j <= i
             PROVE  SafeCopy(targets[i].art)'
  BY <1>1 DEF LastIsSafe
<1>5. i \in 1..Len(targets) /\ Len(targets) <= i
  BY <1>1, <1>3 DEF Public
<1>6. i = Len(targets)
  BY <1>3, <1>5
<1> QED BY <1>1, <1>2, <1>4, <1>6 DEF SafeCopy, TargetHead

LEMMA LastStep ==
  ASSUME OneWriter, AppendsAreWhole, TypeInv, ChainInv, JournalInv, WriterInv, KeptInv,
         NEW a \in Attempts, Acts(a)
  PROVE  LastIsSafe'
<1>1. CASE AppendCommitted(a)
  BY <1>1, MarkIsLast
<1>2. CASE ~AppendCommitted(a)
  <2> SUFFICES ASSUME NEW i \in Public, \A j \in Public : j <= i
               PROVE  SafeCopy(targets[i].art)'
    BY <1>2, PublicRows DEF LastIsSafe
  <2>1. targets'[i] = targets[i] /\ targets[i].art \in Contents
    <3>1. i \in 1..Len(targets) /\ targets[i] \in Row
      BY DEF Public, TypeInv, TypeOK
    <3>2. \E b \in Attempts : prov[b] = targets[i]
      BY DEF Public
    <3>3. targets[i].art \in Contents
      BY <3>1, <3>2, NoRowAssumption DEF KeptInv, ProvHasContent
    <3> QED BY <3>1, <3>3, RowsStay
  <2>2. SafeCopy(targets[i].art)
    BY DEF KeptInv, LastIsSafe
  <2> DEFINE c == targets[i].art
  <2>3. c \in Contents /\ SafeCopy(c) /\ c' = c
    BY <2>1, <2>2
  <2> HIDE DEF c
  <2>4. SafeCopy(c)'
    BY <1>2, <2>3, CopyStays
  <2> QED BY <2>1, <2>3, <2>4 DEF c, SafeCopy
<1> QED BY <1>1, <1>2

LEMMA KeptInit == Init => KeptInv
BY DEF Init, KeptInv, ProvHasContent, LastIsSafe, Public, EndsOnce

(* Neither provisioning nor stuttering is about what is kept.              *)
LEMMA KeptStands ==
  ASSUME TypeInv, KeptInv, UNCHANGED <<registry, pc, prov, output, dest, backup, displaced>>,
         UNCHANGED targets \/ targets = << >>, \A i \in Public' : i \in Public
  PROVE  KeptInv'
<1>1. ProvHasContent' /\ \A a \in Attempts : EndsOnce(a)'
  BY DEF KeptInv, ProvHasContent, EndsOnce
<1>2. LastIsSafe'
  <2>1. targets = << >> => Public' = {}
    <3>1. targets = << >> => 1..Len(targets) = {}
      OBVIOUS
    <3> QED BY <3>1 DEF Public
  <2> SUFFICES ASSUME UNCHANGED targets PROVE LastIsSafe'
    BY <2>1 DEF LastIsSafe
  <2>2. Public' = Public
    BY DEF Public
  <2>3. \A c : SafeCopy(c) => SafeCopy(c)'
    BY DEF SafeCopy, Overwriting
  <2> QED BY <2>2, <2>3 DEF KeptInv, LastIsSafe
<1> QED BY <1>1, <1>2 DEF KeptInv

LEMMA KeptStep ==
  /\ OneWriter /\ AppendsAreWhole
  /\ TypeInv /\ ChainInv /\ JournalInv /\ WriterInv /\ KeptInv /\ [Next]_vars
  => KeptInv'
<1> SUFFICES ASSUME OneWriter, AppendsAreWhole, TypeInv, ChainInv, JournalInv, WriterInv,
                    KeptInv, [Next]_vars
             PROVE  KeptInv'
  OBVIOUS
<1>1. ASSUME NEW a \in Attempts, Acts(a) PROVE KeptInv'
  <2>1. \A b \in Attempts : EndsOnce(b)'
    BY <1>1, EndsStep DEF KeptInv
  <2>2. ProvHasContent'
    BY <1>1, ProvStep DEF KeptInv
  <2> QED BY <1>1, <2>1, <2>2, LastStep DEF KeptInv
<1>2. ASSUME NEW o \in Owners, ProvisionRead(o) \/ ProvisionAppend(o) PROVE KeptInv'
  <2>1. /\ UNCHANGED <<registry, pc, prov, output, dest, backup, displaced>>
        /\ UNCHANGED targets \/ targets = << >>
    BY <1>2 DEF ProvisionRead, ProvisionAppend, ChainInv, OwnerFirst, local, files, journal
  <2>2. \A i \in Public' : i \in Public
    <3>1. CASE UNCHANGED targets
      BY <2>1, <3>1 DEF Public
    <3>2. CASE targets = << >>
      <4>1. \A b \in Attempts : <<b, "main", "COMMITTED">> \notin registry
        <5>1. 1..Len(targets) = {}
          BY <3>2
        <5> QED BY <5>1 DEF JournalInv, CommittedIsInChain
      <4> QED BY <2>1, <4>1 DEF Public
    <3> QED BY <2>1, <3>1, <3>2
  <2> QED BY <2>1, <2>2, KeptStands
<1>3. CASE UNCHANGED vars
  <2>1. UNCHANGED <<registry, pc, prov, output, dest, backup, displaced, targets>>
    BY <1>3 DEF vars, local, files, journal
  <2>2. Public' = Public
    BY <2>1 DEF Public
  <2> QED BY <2>1, <2>2, KeptStands
<1> QED BY <1>1, <1>2, <1>3, StepCases

LEMMA JournalInvariant == ASSUME SingleOwner PROVE Spec => []JournalInv
BY TypeInvariant, LockIsExclusive, ChainInvariant, JournalInit, JournalStep, PTL DEF Spec

LEMMA KeptInvariant ==
  ASSUME SingleOwner, OneWriter, AppendsAreWhole PROVE Spec => []KeptInv
BY TypeInvariant, ChainInvariant, JournalInvariant, WriterInvariant, KeptInit, KeptStep, PTL
   DEF Spec

(* With one writer, whose failing appends write nothing, the published     *)
(* file is what the target names whenever every attempt has come back with *)
(* a receipt and at most one file operation failed on the way, and no      *)
(* attempt has both its success and its failure on record.                 *)
THEOREM OutputFollowsJournal ==
  ASSUME SingleOwner, OneWriter, AppendsAreWhole PROVE Spec => []OutputMatchesJournal
<1>1. WriterInv /\ KeptInv => OutputMatchesJournal
  BY BytesFollow DEF OutputMatchesJournal, OneTerminalJournal, KeptInv, EndsOnce
<1> QED BY <1>1, WriterInvariant, KeptInvariant, PTL

(* With one writer, whose failing appends write nothing, the newest        *)
(* committed render is on disk, whichever operations fail and wherever a   *)
(* process dies.                                                           *)
THEOREM CommittedBytesAreKept ==
  ASSUME SingleOwner, OneWriter, AppendsAreWhole PROVE Spec => []CommittedBytesKept
<1>1. KeptInv => CommittedBytesKept
  BY DEF KeptInv, LastIsSafe, CommittedBytesKept, SafeCopy, OnDisk
<1> QED BY <1>1, KeptInvariant, PTL
=============================================================================
