----------------------------- MODULE FullRender -----------------------------
(***************************************************************************)
(* FULL-render attempts against one output target of one project:          *)
(* engine/rendering/full_orchestrator.py (run_full_render), full_render.py *)
(* (atomic_publish, restore_replacement_publish, provisioning) and         *)
(* lifecycle_registry.py (the target chain, the registry lock file, the    *)
(* commit and the compensation transactions).                              *)
(*                                                                         *)
(* The files are shared: the two append-only journals, the lock file, the  *)
(* published file, and one backup and one displaced file per attempt.      *)
(* Every step below is one file operation, or a run of operations on files *)
(* that only the stepping attempt touches.  A file operation may raise     *)
(* OSError (a fault) and a process may die between any two steps (a crash).*)
(***************************************************************************)
EXTENDS Naturals, Sequences, FiniteSets

CONSTANTS
  Attempts,       \* attempt ids; an id is used once (its directory must be new)
  Owners,         \* trusted provisioning processes
  Contents,       \* content hashes of rendered outputs
  NoContent,      \* a missing file, and the null current output
  NoRow,          \* no provisional target revision yet
  Free,           \* the lock file is absent
  MaxInFlight,    \* attempts that may run at the same time
  MaxFaults,      \* bound on the file operations that raise OSError
  MaxCrashes,     \* bound on the processes that die
  FaultSites,     \* subset of {"rename", "append", "unlink"}
  FaultOutcomes   \* subset of {"lost", "landed"}: an append that raised may
                  \* still have put its row in the file (a failing fsync)

ASSUME NamesAssumption ==
  /\ NoContent \notin Contents
  /\ Free \notin Attempts

(* One process provisions a target.                                        *)
SingleOwner == \A o1, o2 \in Owners : o1 = o2

ASSUME BoundsAssumption ==
  /\ MaxInFlight \in Nat \ {0}
  /\ MaxFaults \in Nat
  /\ MaxCrashes \in Nat

VARIABLES
  targets,    \* artifacts/output-targets.jsonl, the rows of this target
  registry,   \* artifacts/registry.jsonl, as <<attempt, transaction, kind>>
  journals,   \* artifacts/transactions/*.json, as <<attempt, transaction>>
  lock,       \* artifacts/.phase4b-registry.lock: Free or who created it
  dest,       \* the published file
  backup,     \* renders/replacement-backups/<attempt>.mp4
  displaced,  \* the same with .displaced
  pc,         \* where each attempt's process is
  base,       \* base_target: the head the attempt builds on
  out,        \* output_sha256 of the staged output
  output,     \* TRUE once atomic_publish has returned
  prov,       \* provisional_target
  owner,      \* where each provisioning process is
  faults, crashes

files   == <<dest, backup, displaced>>
local   == <<base, out, output, prov>>
journal == <<targets, registry, journals>>
env     == <<owner, faults, crashes>>
vars    == <<journal, lock, files, pc, local, env>>

-----------------------------------------------------------------------------
(* The rows of output-targets.jsonl and their identity.                    *)

Output == Contents \cup {NoContent}

(* "replace" is the policy REPLACE_UNAPPROVED_V1; sealed is locked or      *)
(* approved.                                                               *)
Body == [revision : Nat, art : Output, replace : BOOLEAN, sealed : BOOLEAN]

(* A row also carries its predecessor's id and hash.  The hash covers the  *)
(* whole row, so an identity is the list of all the bodies up to the row.  *)
Row == [revision : Nat, art : Output, replace : BOOLEAN, sealed : BOOLEAN,
        prev : Seq(Body)]

ASSUME NoRowAssumption == NoRow \notin Row

RecordId(r) ==
  Append(r.prev, [revision |-> r.revision, art |-> r.art,
                  replace |-> r.replace, sealed |-> r.sealed])

InitialRow(s) == [revision |-> 1, art |-> NoContent, replace |-> FALSE,
                  sealed |-> s, prev |-> << >>]

(* _validate_target: the checks one row must pass by itself.               *)
ValidRow(r) ==
  /\ r.revision >= 1
  /\ r.art = NoContent => ~r.replace
  /\ r.revision = 1 => r.prev = << >> /\ r.art = NoContent

(* A row follows its predecessor in the chain.                             *)
Follows(p, r) ==
  /\ r.prev = RecordId(p)
  /\ r.sealed = p.sealed
  /\ r.art # NoContent => r.replace = (p.art # NoContent)

(* resolve_target_head accepts the rows only as one linear chain.          *)
ValidChain(rows) ==
  /\ rows # << >>
  /\ rows[1].prev = << >>
  /\ \A i \in 1..Len(rows) : ValidRow(rows[i]) /\ rows[i].revision = i
  /\ \A i \in 2..Len(rows) : Follows(rows[i - 1], rows[i])

TargetHead == targets[Len(targets)]

HeadIs(r) == ValidChain(targets) /\ RecordId(TargetHead) = RecordId(r)

NextTargetRevision(b, c) ==
  [revision |-> b.revision + 1, art |-> c, replace |-> b.art # NoContent,
   sealed |-> b.sealed, prev |-> RecordId(b)]

BuildCompensationRevision(b, p) ==
  [revision |-> p.revision + 1, art |-> b.art, replace |-> b.art # NoContent,
   sealed |-> b.sealed, prev |-> RecordId(p)]

-----------------------------------------------------------------------------
(* Where an attempt can be.                                                *)

Success == {"rendering", "rendered", "checked", "vacated", "published",
            "cleaned", "recorded", "locked", "evidenced", "revised",
            "committed"}
Failure == {"failing", "displaced", "reinstated", "compensating",
            "compLocked", "compAppended", "compensated", "closing",
            "closeRecorded", "closeLocked", "closeEvidenced"}
Running == Success \cup Failure
Final   == {"succeeded", "failed", "raised"}
Phases  == {"new", "crashed"} \cup Running \cup Final

(* The phases inside "with _RegistryLock".                                 *)
Holding == {"locked", "evidenced", "revised", "compLocked", "compAppended",
            "closeLocked", "closeEvidenced"}

InFlight == {a \in Attempts : pc[a] \in Running}

Kinds == {"artifacts", "receipt", "COMMITTED", "COMPENSATED"}

Goto(a, from, to) ==
  /\ pc[a] = from
  /\ pc' = [pc EXCEPT ![a] = to]

(* A FullRenderError enters the handler; an exception raised by the        *)
(* handler, or any other OSError, leaves run_full_render.                  *)
Handler(phase) == IF phase \in Success THEN "failing" ELSE "raised"

Fault(site) ==
  /\ site \in FaultSites
  /\ faults < MaxFaults
  /\ faults' = faults + 1
  /\ UNCHANGED <<owner, crashes>>

Unlock == lock' = Free

TypeOK ==
  /\ targets \in Seq(Row)
  /\ registry \subseteq Attempts \X {"main", "terminal"} \X Kinds
  /\ journals \subseteq Attempts \X {"main", "terminal"}
  /\ lock \in Attempts \cup {Free}
  /\ dest \in Output
  /\ backup \in [Attempts -> Output]
  /\ displaced \in [Attempts -> Output]
  /\ pc \in [Attempts -> Phases]
  /\ base \in [Attempts -> Row \cup {NoRow}]
  /\ out \in [Attempts -> Output]
  /\ output \in [Attempts -> BOOLEAN]
  /\ prov \in [Attempts -> Row \cup {NoRow}]
  /\ owner \in [Owners -> {"idle", "absent", "done"}]
  /\ faults \in 0..MaxFaults
  /\ crashes \in 0..MaxCrashes

Init ==
  /\ targets = << >>
  /\ registry = {}
  /\ journals = {}
  /\ lock = Free
  /\ dest = NoContent
  /\ backup = [a \in Attempts |-> NoContent]
  /\ displaced = [a \in Attempts |-> NoContent]
  /\ pc = [a \in Attempts |-> "new"]
  /\ base = [a \in Attempts |-> NoRow]
  /\ out = [a \in Attempts |-> NoContent]
  /\ output = [a \in Attempts |-> FALSE]
  /\ prov = [a \in Attempts |-> NoRow]
  /\ owner = [o \in Owners |-> "idle"]
  /\ faults = 0
  /\ crashes = 0

-----------------------------------------------------------------------------
(* Trusted provisioning: read the whole file, then append the initial row. *)

ProvisionRead(o) ==
  /\ owner[o] = "idle"
  /\ owner' = [owner EXCEPT ![o] = IF targets = << >> THEN "absent" ELSE "done"]
  /\ UNCHANGED <<journal, lock, files, pc, local, faults, crashes>>

ProvisionAppend(o) ==
  /\ owner[o] = "absent"
  /\ owner' = [owner EXCEPT ![o] = "done"]
  /\ \E s \in BOOLEAN : targets' = Append(targets, InitialRow(s))
  /\ UNCHANGED <<registry, journals, lock, files, pc, local, faults, crashes>>

-----------------------------------------------------------------------------
(* Rendering.                                                              *)

(* resolve_output_target, the preflight and the new attempt directory.  A  *)
(* refusal leaves nothing behind.                                          *)
Admit(a) ==
  /\ Cardinality(InFlight) < MaxInFlight
  /\ ValidChain(targets)
  /\ ~TargetHead.sealed
  /\ Goto(a, "new", "rendering")
  /\ base' = [base EXCEPT ![a] = TargetHead]
  /\ UNCHANGED <<journal, lock, files, out, output, prov, env>>

(* Requests, video producer, PCM, audio plan and media pipeline work on    *)
(* the attempt's own directory and end with a staged output ...            *)
Render(a) ==
  /\ Goto(a, "rendering", "rendered")
  /\ \E c \in Contents : out' = [out EXCEPT ![a] = c]
  /\ UNCHANGED <<journal, lock, files, base, output, prov, env>>

(* ... or in a FullRenderError, or in the parent's cancellation.           *)
RenderFails(a) ==
  /\ Goto(a, "rendering", "failing")
  /\ UNCHANGED <<journal, lock, files, local, env>>

-----------------------------------------------------------------------------
(* atomic_publish.                                                         *)

Replacing(a) == base[a].art # NoContent

CheckPublish(a) ==
  /\ pc[a] = "rendered"
  /\ Goto(a, "rendered",
          IF dest = base[a].art /\ (Replacing(a) => backup[a] = NoContent)
          THEN "checked" ELSE "failing")
  /\ UNCHANGED <<journal, lock, files, local, env>>

VacateDeletes(a) ==
  /\ pc[a] = "checked"
  /\ Replacing(a)
  /\ IF dest # NoContent
     THEN /\ Goto(a, "checked", "vacated")
          /\ UNCHANGED backup
          /\ dest' = NoContent
     ELSE /\ Goto(a, "checked", "failing")
          /\ UNCHANGED <<backup, dest>>
  /\ UNCHANGED <<journal, lock, displaced, local, env>>

(* os.replace(destination, backup); os.replace raises when another attempt *)
(* has meanwhile moved the destination away.                               *)
Vacate(a) ==
  /\ pc[a] = "checked"
  /\ Replacing(a)
  /\ IF dest # NoContent
     THEN /\ Goto(a, "checked", "vacated")
          /\ backup' = [backup EXCEPT ![a] = dest]
          /\ dest' = NoContent
     ELSE /\ Goto(a, "checked", "failing")
          /\ UNCHANGED <<backup, dest>>
  /\ UNCHANGED <<journal, lock, displaced, local, env>>

(* os.replace(staged_output, destination).                                 *)
PublishStaged(a) ==
  /\ pc[a] \in {"checked", "vacated"}
  /\ Replacing(a) <=> pc[a] = "vacated"
  /\ pc' = [pc EXCEPT ![a] = "published"]
  /\ dest' = out[a]
  /\ output' = [output EXCEPT ![a] = TRUE]
  /\ UNCHANGED <<journal, lock, backup, displaced, base, out, prov, env>>

(* One of the two renames raises; the old output is moved back if nobody   *)
(* else has taken its place, and a second fault there is swallowed.        *)
PublishRenameFails(a) ==
  /\ pc[a] \in {"checked", "vacated"}
  /\ pc' = [pc EXCEPT ![a] = "failing"]
  /\ "rename" \in FaultSites
  /\ \/ /\ pc[a] = "vacated" /\ Replacing(a) /\ dest = NoContent
        /\ dest' = backup[a]
        /\ backup' = [backup EXCEPT ![a] = NoContent]
        /\ Fault("rename")
     \/ /\ pc[a] = "vacated" /\ dest = NoContent
        /\ faults + 2 <= MaxFaults
        /\ faults' = faults + 2
        /\ UNCHANGED <<dest, backup, owner, crashes>>
     \/ /\ pc[a] = "checked" \/ dest # NoContent
        /\ Fault("rename")
        /\ UNCHANGED <<dest, backup>>
  /\ UNCHANGED <<journal, lock, displaced, local>>

CleanupForgetsRevision(a) ==
  /\ Goto(a, "published", "cleaned")
  /\ UNCHANGED <<journal, lock, files, local, env>>

(* snapshot_attempt, cleanup_attempt and next_target_revision.             *)
Cleanup(a) ==
  /\ Goto(a, "published", "cleaned")
  /\ prov' = [prov EXCEPT ![a] = NextTargetRevision(base[a], out[a])]
  /\ UNCHANGED <<journal, lock, files, base, out, output, env>>

(* A file operation in the attempt's own directory raises a plain OSError  *)
(* (a write while rendering, an unlink while cleaning up), which the       *)
(* handler for FullRenderError does not catch; the handler itself cleans   *)
(* up as well.  Or the directory does not hold what was put there, and the *)
(* cleanup of the published attempt refuses, which the handler catches.    *)
AttemptFileFails(a) ==
  /\ pc[a] \in {"rendering", "published", "closing"}
  /\ \E next \in {"raised"} \cup (IF pc[a] = "published" THEN {"failing"} ELSE {}) :
       pc' = [pc EXCEPT ![a] = next]
  /\ Fault("unlink")
  /\ UNCHANGED <<journal, lock, files, local>>

-----------------------------------------------------------------------------
(* commit_transaction of the successful attempt.                           *)

(* The row of the final output is made from the bytes at the target path,  *)
(* which must be the attempt's own; when they are gone the read raises a   *)
(* plain OSError.  The prepare journal is synced before the lock is taken. *)
WriteJournal(a) ==
  /\ pc[a] = "cleaned"
  /\ \/ /\ dest = out[a]
        /\ Goto(a, "cleaned", "recorded")
        /\ journals' = journals \cup {<<a, "main">>}
     \/ /\ dest \notin {out[a], NoContent}
        /\ Goto(a, "cleaned", "failing")
        /\ UNCHANGED journals
     \/ /\ dest = NoContent
        /\ Goto(a, "cleaned", "raised")
        /\ UNCHANGED journals
  /\ UNCHANGED <<targets, registry, lock, files, local, env>>

LockTargetsBusy(a) ==
  /\ Goto(a, "recorded", "locked")
  /\ lock' = a
  /\ UNCHANGED <<journal, files, local, env>>

LockTargetsWaits(a) ==
  /\ lock = Free
  /\ Goto(a, "recorded", "locked")
  /\ lock' = a
  /\ UNCHANGED <<journal, files, local, env>>

(* The lock file is created exclusively: a busy lock is an error, not a    *)
(* wait.                                                                   *)
LockTargets(a) ==
  /\ pc[a] = "recorded"
  /\ IF lock = Free
     THEN Goto(a, "recorded", "locked") /\ lock' = a
     ELSE Goto(a, "recorded", "failing") /\ UNCHANGED lock
  /\ UNCHANGED <<journal, files, local, env>>

AppendEvidenceUnchecked(a) ==
  /\ Goto(a, "locked", "evidenced")
  /\ registry' = registry \cup {<<a, "main", "artifacts">>, <<a, "main", "receipt">>}
  /\ UNCHANGED <<targets, journals, lock, files, local, env>>

(* Under the lock the head must still be the base; then come the artifact  *)
(* rows, both manifests and the receipt.                                   *)
AppendEvidence(a) ==
  /\ pc[a] = "locked"
  /\ IF HeadIs(base[a])
     THEN /\ Goto(a, "locked", "evidenced")
          /\ registry' = registry \cup {<<a, "main", "artifacts">>, <<a, "main", "receipt">>}
          /\ UNCHANGED lock
     ELSE /\ Goto(a, "locked", "failing")
          /\ UNCHANGED registry
          /\ Unlock
  /\ UNCHANGED <<targets, journals, files, local, env>>

AppendRevision(a) ==
  /\ Goto(a, "evidenced", "revised")
  /\ targets' = Append(targets, prov[a])
  /\ UNCHANGED <<registry, journals, lock, files, local, env>>

(* The last row, after which the lock file is removed.                     *)
AppendCommitted(a) ==
  /\ Goto(a, "revised", "committed")
  /\ registry' = registry \cup {<<a, "main", "COMMITTED">>}
  /\ Unlock
  /\ UNCHANGED <<targets, journals, files, local, env>>

(* replacement_backup.unlink() and the return.                             *)
DropBackup(a) ==
  /\ Goto(a, "committed", "succeeded")
  /\ backup' = [backup EXCEPT ![a] = NoContent]
  /\ UNCHANGED <<journal, lock, dest, displaced, local, env>>

(* That unlink raises a plain OSError: the render is committed, the caller *)
(* gets an exception and the backup stays.                                 *)
DropBackupFails(a) ==
  /\ Goto(a, "committed", "raised")
  /\ Replacing(a)
  /\ Fault("unlink")
  /\ UNCHANGED <<journal, lock, files, local>>

-----------------------------------------------------------------------------
(* except FullRenderError.                                                 *)

MustRestore(a) == Replacing(a) /\ backup[a] # NoContent /\ output[a]

HandleFailureUnrestored(a) ==
  /\ Goto(a, "failing", "closing")
  /\ UNCHANGED <<journal, lock, files, local, env>>

(* restore_replacement_publish: checks, then the first of two renames.     *)
HandleFailure(a) ==
  /\ pc[a] = "failing"
  /\ \/ /\ ~MustRestore(a)
        /\ Goto(a, "failing", "closing")
        /\ UNCHANGED files
     \/ /\ MustRestore(a)
        /\ dest # NoContent /\ backup[a] = base[a].art /\ displaced[a] = NoContent
        /\ Goto(a, "failing", "displaced")
        /\ displaced' = [displaced EXCEPT ![a] = dest]
        /\ dest' = NoContent
        /\ UNCHANGED backup
     \/ /\ MustRestore(a)
        /\ dest = NoContent \/ backup[a] # base[a].art \/ displaced[a] # NoContent
        /\ Goto(a, "failing", "raised")
        /\ UNCHANGED files
  /\ UNCHANGED <<journal, lock, local, env>>

(* os.replace(backup, destination).                                        *)
Reinstate(a) ==
  /\ Goto(a, "displaced", "reinstated")
  /\ dest' = backup[a]
  /\ backup' = [backup EXCEPT ![a] = NoContent]
  /\ UNCHANGED <<journal, lock, displaced, local, env>>

(* displaced.unlink(), after which the handler looks whether the head is   *)
(* the attempt's own provisional revision.                                 *)
DropDisplaced(a) ==
  /\ pc[a] = "reinstated"
  /\ displaced' = [displaced EXCEPT ![a] = NoContent]
  /\ pc' = [pc EXCEPT ![a] =
              IF prov[a] = NoRow THEN "closing"
              ELSE IF ~ValidChain(targets) THEN "raised"
              ELSE IF HeadIs(prov[a]) THEN "compensating" ELSE "closing"]
  /\ UNCHANGED <<journal, lock, dest, backup, local, env>>

(* One of the file operations of restore_replacement_publish raises.       *)
RestoreFails(a) ==
  /\ \/ /\ pc[a] = "failing" /\ MustRestore(a) /\ Fault("rename")
     \/ /\ pc[a] = "displaced" /\ Fault("rename")
     \/ /\ pc[a] = "reinstated" /\ Fault("unlink")
  /\ pc' = [pc EXCEPT ![a] = "raised"]
  /\ UNCHANGED <<journal, lock, files, local>>

(* append_recovery_compensation: the main journal must be there, the lock  *)
(* free ...                                                                *)
LockCompensation(a) ==
  /\ pc[a] = "compensating"
  /\ IF <<a, "main">> \in journals /\ lock = Free
     THEN Goto(a, "compensating", "compLocked") /\ lock' = a
     ELSE Goto(a, "compensating", "raised") /\ UNCHANGED lock
  /\ UNCHANGED <<journal, files, local, env>>

AppendCompensationSkipped(a) ==
  /\ Goto(a, "compLocked", "compAppended")
  /\ UNCHANGED <<journal, lock, files, local, env>>

AppendCompensationInPlace(a) ==
  /\ Goto(a, "compLocked", "compAppended")
  /\ targets' = SubSeq(targets, 1, Len(targets) - 1)
  /\ UNCHANGED <<registry, journals, lock, files, local, env>>

(* ... and the head, under the lock, the attempt's own revision.           *)
AppendCompensation(a) ==
  /\ pc[a] = "compLocked"
  /\ IF HeadIs(prov[a])
     THEN /\ Goto(a, "compLocked", "compAppended")
          /\ targets' = Append(targets, BuildCompensationRevision(base[a], prov[a]))
          /\ UNCHANGED lock
     ELSE /\ Goto(a, "compLocked", "raised")
          /\ UNCHANGED targets
          /\ Unlock
  /\ UNCHANGED <<registry, journals, files, local, env>>

MarkCompensation(a) ==
  /\ Goto(a, "compAppended", "compensated")
  /\ registry' = registry \cup {<<a, "main", "COMPENSATED">>}
  /\ Unlock
  /\ UNCHANGED <<targets, journals, files, local, env>>

(* After a compensation the terminal transaction builds on the new head.   *)
ResolveFailureBase(a) ==
  /\ pc[a] = "compensated"
  /\ IF ValidChain(targets)
     THEN /\ pc' = [pc EXCEPT ![a] = "closing"]
          /\ base' = [base EXCEPT ![a] = TargetHead]
     ELSE /\ pc' = [pc EXCEPT ![a] = "raised"]
          /\ UNCHANGED base
  /\ UNCHANGED <<journal, lock, files, out, output, prov, env>>

-----------------------------------------------------------------------------
(* commit_transaction of the failed or cancelled attempt: the same steps   *)
(* with no target revision.                                                *)

WriteTerminalJournal(a) ==
  /\ Goto(a, "closing", "closeRecorded")
  /\ journals' = journals \cup {<<a, "terminal">>}
  /\ UNCHANGED <<targets, registry, lock, files, local, env>>

LockTerminal(a) ==
  /\ pc[a] = "closeRecorded"
  /\ IF lock = Free
     THEN Goto(a, "closeRecorded", "closeLocked") /\ lock' = a
     ELSE Goto(a, "closeRecorded", "raised") /\ UNCHANGED lock
  /\ UNCHANGED <<journal, files, local, env>>

AppendTerminalEvidence(a) ==
  /\ pc[a] = "closeLocked"
  /\ IF HeadIs(base[a])
     THEN /\ Goto(a, "closeLocked", "closeEvidenced")
          /\ registry' = registry \cup
               {<<a, "terminal", "artifacts">>, <<a, "terminal", "receipt">>}
          /\ UNCHANGED lock
     ELSE /\ Goto(a, "closeLocked", "raised")
          /\ UNCHANGED registry
          /\ Unlock
  /\ UNCHANGED <<targets, journals, files, local, env>>

AppendTerminalCommitted(a) ==
  /\ Goto(a, "closeEvidenced", "failed")
  /\ registry' = registry \cup {<<a, "terminal", "COMMITTED">>}
  /\ Unlock
  /\ UNCHANGED <<targets, journals, files, local, env>>

-----------------------------------------------------------------------------
(* Faults of the journals, and crashes.                                    *)

JournalFails(a) ==
  /\ pc[a] \in {"cleaned", "closing"}
  /\ pc[a] = "cleaned" => dest = out[a]
  /\ pc' = [pc EXCEPT ![a] = Handler(pc[a])]
  /\ Fault("append")
  /\ UNCHANGED <<journal, lock, files, local>>

(* What an append that raises may have put in the files all the same.      *)
Landed(a) ==
  \/ "lost" \in FaultOutcomes /\ UNCHANGED <<registry, targets>>
  \/ /\ "landed" \in FaultOutcomes
     /\ \/ /\ pc[a] \in {"locked", "closeLocked"}
           /\ \E kinds \in {{"artifacts"}, {"artifacts", "receipt"}} :
                registry' = registry \cup
                  {<<a, IF pc[a] = "locked" THEN "main" ELSE "terminal", k>> : k \in kinds}
           /\ UNCHANGED targets
        \/ /\ pc[a] = "evidenced"
           /\ targets' = Append(targets, prov[a])
           /\ UNCHANGED registry
        \/ /\ pc[a] = "compLocked"
           /\ targets' = Append(targets, BuildCompensationRevision(base[a], prov[a]))
           /\ UNCHANGED registry
        \/ /\ pc[a] \in {"revised", "closeEvidenced"}
           /\ registry' = registry \cup
                {<<a, IF pc[a] = "revised" THEN "main" ELSE "terminal", "COMMITTED">>}
           /\ UNCHANGED targets
        \/ /\ pc[a] = "compAppended"
           /\ registry' = registry \cup {<<a, "main", "COMPENSATED">>}
           /\ UNCHANGED targets

(* The exception removes the lock file on its way out.  Nothing is appended *)
(* before the head has been compared.                                      *)
AppendFails(a) ==
  /\ pc[a] \in Holding
  /\ pc[a] \in {"locked", "closeLocked"} => HeadIs(base[a])
  /\ pc[a] = "compLocked" => HeadIs(prov[a])
  /\ Landed(a)
  /\ pc' = [pc EXCEPT ![a] = Handler(pc[a])]
  /\ Unlock
  /\ Fault("append")
  /\ UNCHANGED <<journals, files, local>>

(* The process dies: the files stay as they are, the lock file too.        *)
Crash(a) ==
  /\ pc[a] \in Running
  /\ crashes < MaxCrashes
  /\ crashes' = crashes + 1
  /\ pc' = [pc EXCEPT ![a] = "crashed"]
  /\ UNCHANGED <<journal, lock, files, local, owner, faults>>

-----------------------------------------------------------------------------

Succeed(a) ==
  \/ Render(a) \/ RenderFails(a) \/ CheckPublish(a) \/ Vacate(a)
  \/ PublishStaged(a) \/ Cleanup(a) \/ WriteJournal(a) \/ LockTargets(a)
  \/ AppendEvidence(a) \/ AppendRevision(a) \/ AppendCommitted(a)
  \/ DropBackup(a)

Fail(a) ==
  \/ HandleFailure(a) \/ Reinstate(a) \/ DropDisplaced(a)
  \/ LockCompensation(a) \/ AppendCompensation(a) \/ MarkCompensation(a)
  \/ ResolveFailureBase(a) \/ WriteTerminalJournal(a) \/ LockTerminal(a)
  \/ AppendTerminalEvidence(a) \/ AppendTerminalCommitted(a)

FaultStep(a) ==
  \/ PublishRenameFails(a) \/ AttemptFileFails(a) \/ DropBackupFails(a)
  \/ RestoreFails(a) \/ JournalFails(a) \/ AppendFails(a)

Next ==
  \/ \E o \in Owners : ProvisionRead(o) \/ ProvisionAppend(o)
  \/ \E a \in Attempts :
       Admit(a) \/ Succeed(a) \/ Fail(a) \/ FaultStep(a) \/ Crash(a)

Spec == Init /\ [][Next]_vars

(* Nothing makes a caller start an attempt or a disk fail, but a running   *)
(* run_full_render is straight-line code: it keeps taking steps.           *)
Fairness == \A a \in Attempts : WF_vars(Succeed(a) \/ Fail(a))

FairSpec == Spec /\ Fairness

-----------------------------------------------------------------------------
(* Properties.                                                             *)

(* The target file always resolves: whatever attempts interleave, fail or  *)
(* die, the rows form one linear chain (resolve_target_head never reports  *)
(* a corrupt chain), because only the holder of the lock file appends and  *)
(* it re-checks the head first.                                            *)
ChainLinear == targets # << >> => ValidChain(targets)

(* The registry lock excludes: whoever is inside a transaction created the *)
(* lock file, and a lock file nobody works under is that of a dead process.*)
LockExclusive ==
  /\ \A a \in Attempts : pc[a] \in Holding => lock = a
  /\ \A a \in Attempts : lock = a => pc[a] \in Holding \cup {"crashed"}

Evidence(a) == {<<a, "main", "artifacts">>, <<a, "main", "receipt">>}

(* "A revision that points at an unrecorded artifact would make the        *)
(* receipt's success claim ambiguous": each revision after the first is    *)
(* one attempt's, with the artifacts and the receipt on record before it,  *)
(* or undoes exactly the revision before it.                               *)
AccountsFor(a, i) ==
  \/ targets[i] = prov[a] /\ Evidence(a) \subseteq registry
  \/ /\ i > 2
     /\ targets[i - 1] = prov[a]
     /\ targets[i] = BuildCompensationRevision(targets[i - 2], prov[a])

RevisionsAccountedFor ==
  \A i \in 2..Len(targets) : \E a \in Attempts : AccountsFor(a, i)

(* A COMMITTED marker of a successful render is never about a revision     *)
(* that the chain does not have.                                           *)
CommittedIsInChain ==
  \A a \in Attempts :
    <<a, "main", "COMMITTED">> \in registry =>
      \E i \in 1..Len(targets) : targets[i] = prov[a]

(* "Append exactly one terminal journal": when an append that raised wrote *)
(* nothing, no attempt has both its success and its failure committed.     *)
OneTerminalJournal ==
  \A a \in Attempts :
    ~({<<a, "main", "COMMITTED">>, <<a, "terminal", "COMMITTED">>} \subseteq registry)

(* A replacement whose failure is on record is what the target names only  *)
(* when somebody else put it there: identities are made from contents, so  *)
(* another attempt's revision can be the same row.                         *)
FailedReplacementIsNotHead ==
  \A a \in Attempts :
    /\ pc[a] = "failed" /\ prov[a] # NoRow /\ prov[a].replace
    /\ targets # << >> /\ TargetHead = prov[a]
    => \E b \in Attempts \ {a} : AccountsFor(b, Len(targets))

(* What the journal says of a revision and of its attempt is true, whatever *)
(* failed or crashed on the way: nothing is in the chain without its        *)
(* evidence, nothing is called committed that the chain does not have, and  *)
(* no failed replacement is what the target names.                          *)
JournalIsTrue ==
  /\ RevisionsAccountedFor
  /\ CommittedIsInChain
  /\ FailedReplacementIsNotHead

(* Every attempt so far has come back with its receipt.                    *)
Quiet == \A a \in Attempts : pc[a] \in {"new", "succeeded", "failed"}

(* With one writer, between attempts the published file holds what the     *)
(* head names, also when one rename, append or unlink failed on the way.   *)
BytesMatchHead ==
  Quiet /\ faults <= 1 /\ targets # << >> /\ TargetHead.art # NoContent =>
    dest = TargetHead.art

(* With one writer the published file and the terminal journal agree with  *)
(* the chain: bytes of the head, and one end of each attempt.              *)
OutputMatchesJournal == BytesMatchHead /\ OneTerminalJournal

(* The newest revision whose success marker is on record.                  *)
Public == {i \in 1..Len(targets) :
             \E a \in Attempts : /\ prov[a] = targets[i]
                                 /\ <<a, "main", "COMMITTED">> \in registry}

OnDisk(c) ==
  dest = c \/ \E a \in Attempts : backup[a] = c \/ displaced[a] = c

(* "Preserve whichever bytes remain": with one writer, no sequence of      *)
(* failing renames, appends and crashes destroys the last committed render.*)
CommittedBytesKept ==
  \A i \in Public : (\A j \in Public : j <= i) => OnDisk(targets[i].art)

(* Every admitted attempt comes back to its caller, even when a dead       *)
(* process has left the lock file behind.                                  *)
AttemptsEnd ==
  \A a \in Attempts : pc[a] \in Running ~> pc[a] \in Final \cup {"crashed"}

(* The target file implements the abstract output target.                  *)
Abstract == INSTANCE OutputTarget WITH
  history <- [i \in 1..Len(targets) |-> targets[i].art],
  sealed <- (targets # << >> /\ targets[1].sealed)

ImplementsOutputTarget == Abstract!Spec

=============================================================================
