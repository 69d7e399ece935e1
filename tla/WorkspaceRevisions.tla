-------------------------- MODULE WorkspaceRevisions --------------------------
(***************************************************************************)
(* The revision store of one local workspace project: publish, load_active *)
(* and recover of engine/workspace_store.py.  A revision is written file   *)
(* by file into a staging directory, renamed into place as a whole and then*)
(* named by the active pointer, a file that is replaced atomically.        *)
(*                                                                         *)
(* Callers are processes of one machine: nothing in the store excludes one *)
(* from another, and any of them may die between two file operations.      *)
(***************************************************************************)
EXTENDS Naturals

CONSTANTS
  Callers,     \* processes that publish or recover
  Revisions,   \* revision ids, as numbers in (created_at, revision_id) order
  NoRevision,  \* no pointer file, no revision
  Broken,      \* a pointer file that does not parse or verify
  MaxDamage    \* bound on the files that rot between two calls

ASSUME WorkspaceAssumption ==
  /\ Revisions \subseteq Nat
  /\ {NoRevision, Broken} \cap Revisions = {} /\ NoRevision # Broken
  /\ MaxDamage \in Nat

VARIABLES
  dir,        \* revisions/<id>: "absent", "complete" or "incomplete"
  active,     \* active.json
  stage,      \* each publisher's .staging entry: what has been written to it
  pc,         \* where each caller is
  rev,        \* the revision it works on
  damage,     \* files that have rotted so far
  overlapped  \* TRUE once a recovery and a publication were in flight together

vars == <<dir, active, stage, pc, rev, damage, overlapped>>

(* A staging directory: its path is gone, or the parts that are in it.     *)
Parts == {"files", "manifest"}
Gone  == {"gone"}

Publishing == {"staging", "described", "staged", "pointing", "published"}
Recovering == {"quarantined", "repointing", "recovered"}
Phases     == {"idle"} \cup Publishing \cup Recovering

Busy(phases) == \E c \in Callers : pc[c] \in phases

TypeOK ==
  /\ dir \in [Revisions -> {"absent", "complete", "incomplete"}]
  /\ active \in Revisions \cup {NoRevision, Broken}
  /\ stage \in [Callers -> (SUBSET Parts) \cup {Gone}]
  /\ pc \in [Callers -> Phases]
  /\ rev \in [Callers -> Revisions \cup {NoRevision}]
  /\ damage \in 0..MaxDamage
  /\ overlapped \in BOOLEAN

Init ==
  /\ dir = [r \in Revisions |-> "absent"]
  /\ active = NoRevision
  /\ stage = [c \in Callers |-> Gone]
  /\ pc = [c \in Callers |-> "idle"]
  /\ rev = [c \in Callers |-> NoRevision]
  /\ damage = 0
  /\ overlapped = FALSE

Goto(c, from, to) ==
  /\ pc[c] = from
  /\ pc' = [pc EXCEPT ![c] = to]

Return(c) ==
  /\ pc' = [pc EXCEPT ![c] = "idle"]
  /\ rev' = [rev EXCEPT ![c] = NoRevision]
  /\ stage' = [stage EXCEPT ![c] = Gone]

(* _load_revision accepts a directory whose manifest and files all verify. *)
Verified(r) == r \in Revisions /\ dir[r] = "complete"

-----------------------------------------------------------------------------
(* publish.                                                                *)

(* A revision that is there already is verified and named again; otherwise *)
(* a staging directory is made.                                            *)
Publish(c, r) ==
  /\ pc[c] = "idle"
  /\ \/ dir[r] = "absent" /\ Goto(c, "idle", "staging") /\ stage' = [stage EXCEPT ![c] = {}]
     \/ Verified(r) /\ Goto(c, "idle", "pointing") /\ UNCHANGED stage
  /\ rev' = [rev EXCEPT ![c] = r]
  /\ overlapped' = (overlapped \/ Busy(Recovering))
  /\ UNCHANGED <<dir, active, damage>>

(* _write_durable makes missing parent directories, also a staging         *)
(* directory that has been moved away meanwhile.                           *)
Write(c, part) ==
  stage' = [stage EXCEPT ![c] = IF @ = Gone THEN {part} ELSE @ \cup {part}]

WriteFiles(c) ==
  /\ Goto(c, "staging", "described")
  /\ Write(c, "files")
  /\ UNCHANGED <<dir, active, rev, damage, overlapped>>

WriteManifest(c) ==
  /\ Goto(c, "described", "staged")
  /\ Write(c, "manifest")
  /\ UNCHANGED <<dir, active, rev, damage, overlapped>>

Contents(c) == IF stage[c] = Parts THEN "complete" ELSE "incomplete"

InstallInPlace(c) ==
  /\ pc[c] = "described"
  /\ Goto(c, "described", "pointing")
  /\ dir' = [dir EXCEPT ![rev[c]] = Contents(c)]
  /\ stage' = [stage EXCEPT ![c] = Gone]
  /\ UNCHANGED <<active, rev, damage, overlapped>>

(* os.replace(stage, target) raises when the stage is gone or when another *)
(* caller has installed the same revision.                                 *)
Install(c) ==
  /\ pc[c] = "staged"
  /\ IF stage[c] # Gone /\ dir[rev[c]] = "absent"
     THEN /\ Goto(c, "staged", "pointing")
          /\ dir' = [dir EXCEPT ![rev[c]] = Contents(c)]
          /\ stage' = [stage EXCEPT ![c] = Gone]
          /\ UNCHANGED rev
     ELSE Return(c) /\ UNCHANGED dir
  /\ UNCHANGED <<active, damage, overlapped>>

(* _publish_pointer: a temporary file, then os.replace.                    *)
Point(c) ==
  /\ Goto(c, "pointing", "published")
  /\ active' = rev[c]
  /\ UNCHANGED <<dir, stage, rev, damage, overlapped>>

-----------------------------------------------------------------------------
(* recover.                                                                *)

(* Every entry of .staging is moved away, one rename each.                 *)
Recover(c) ==
  /\ Goto(c, "idle", "quarantined")
  /\ stage' = [d \in Callers |-> Gone]
  /\ overlapped' = (overlapped \/ Busy(Publishing))
  /\ UNCHANGED <<dir, active, rev, damage>>

Newest(r) == Verified(r) /\ \A s \in Revisions : Verified(s) => s <= r

NewestInstalled(r) == dir[r] # "absent" /\ \A s \in Revisions : dir[s] # "absent" => s <= r

ChooseUnverified(c) ==
  /\ pc[c] = "quarantined"
  /\ \/ /\ Verified(active)
        /\ Goto(c, "quarantined", "recovered")
        /\ rev' = [rev EXCEPT ![c] = active]
     \/ /\ ~Verified(active)
        /\ \E r \in Revisions :
             NewestInstalled(r) /\ rev' = [rev EXCEPT ![c] = r]
        /\ Goto(c, "quarantined", "repointing")
  /\ UNCHANGED <<dir, active, stage, damage, overlapped>>

ChooseNewest(c) ==
  /\ pc[c] = "quarantined"
  /\ \E r \in Revisions : Newest(r) /\ rev' = [rev EXCEPT ![c] = r]
  /\ Goto(c, "quarantined", "repointing")
  /\ UNCHANGED <<dir, active, stage, damage, overlapped>>

(* load_active; when it fails, the newest revision that verifies.          *)
ChooseRevision(c) ==
  /\ pc[c] = "quarantined"
  /\ \/ /\ Verified(active)
        /\ Goto(c, "quarantined", "recovered")
        /\ rev' = [rev EXCEPT ![c] = active]
     \/ /\ ~Verified(active)
        /\ \E r \in Revisions : Newest(r) /\ rev' = [rev EXCEPT ![c] = r]
        /\ Goto(c, "quarantined", "repointing")
  /\ UNCHANGED <<dir, active, stage, damage, overlapped>>

(* WORKSPACE_RECOVERY_NO_VALID_REVISION.                                   *)
NothingToRecover(c) ==
  /\ pc[c] = "quarantined"
  /\ \A r \in Revisions : ~Verified(r)
  /\ Return(c)
  /\ UNCHANGED <<dir, active, damage, overlapped>>

Repoint(c) ==
  /\ Goto(c, "repointing", "recovered")
  /\ active' = rev[c]
  /\ UNCHANGED <<dir, stage, rev, damage, overlapped>>

-----------------------------------------------------------------------------

(* The caller has its revision, or it dies where it is; what it had staged *)
(* stays behind under a name nobody uses again.                            *)
Finish(c) ==
  /\ pc[c] \in {"published", "recovered"}
  /\ Return(c)
  /\ UNCHANGED <<dir, active, damage, overlapped>>

Crash(c) ==
  /\ pc[c] \notin {"idle", "published", "recovered"}
  /\ Return(c)
  /\ UNCHANGED <<dir, active, damage, overlapped>>

(* Between calls a file of a revision, or the pointer, goes bad.           *)
Rot ==
  /\ damage < MaxDamage
  /\ ~Busy(Phases \ {"idle"})
  /\ damage' = damage + 1
  /\ \/ /\ \E r \in Revisions : Verified(r) /\ dir' = [dir EXCEPT ![r] = "incomplete"]
        /\ UNCHANGED active
     \/ active # NoRevision /\ active' = Broken /\ UNCHANGED dir
  /\ UNCHANGED <<stage, pc, rev, overlapped>>

Next ==
  \/ \E c \in Callers :
       \/ \E r \in Revisions : Publish(c, r)
       \/ WriteFiles(c) \/ WriteManifest(c) \/ Install(c) \/ Point(c)
       \/ Recover(c) \/ ChooseRevision(c) \/ NothingToRecover(c) \/ Repoint(c)
       \/ Finish(c) \/ Crash(c)
  \/ Rot

Spec == Init /\ [][Next]_vars

-----------------------------------------------------------------------------
(* Properties.                                                             *)

(* "The active pointer still names the prior known-good revision": however *)
(* publications interleave and wherever they die, the pointer names nothing*)
(* or a revision that verifies, as long as no recovery ran into a          *)
(* publication and no file has rotted.                                     *)
ActiveIsVerified ==
  ~overlapped /\ damage = 0 => active = NoRevision \/ Verified(active)

(* "Repoint only to a verified revision": what recover returns verifies,   *)
(* also when it ran into publications.                                     *)
RecoveredIsVerified == \A c \in Callers : pc[c] = "recovered" => Verified(rev[c])

(* A publication that returned stays: its revision still verifies when the *)
(* caller goes on, whatever other callers do, unless a recovery took its   *)
(* staging directory away.                                                 *)
PublishedIsVerified ==
  \A c \in Callers : ~overlapped /\ pc[c] = "published" => Verified(rev[c])

(* What the pointer names, and what publish or recover has answered, can be*)
(* loaded.                                                                 *)
WhatIsNamedVerifies == ActiveIsVerified /\ PublishedIsVerified /\ RecoveredIsVerified

(* A recovery never takes a project back from an active revision that      *)
(* verifies: only a publication moves such a pointer.                      *)
RecoveryRollsNothingBack ==
  [][~overlapped' /\ Verified(active) /\ active' # active /\ damage' = damage =>
       \E c \in Callers : pc[c] = "pointing" /\ active' = rev[c]]_vars

(* Neither publishing nor recovering ever takes a verified revision away:  *)
(* recover, when it is called, finds a revision if there ever was one.     *)
VerifiedStays ==
  [][\A r \in Revisions : Verified(r) /\ damage' = damage => dir'[r] = "complete"]_vars

(* Recovery neither moves a good pointer back nor loses a good revision.   *)
NothingIsLost == RecoveryRollsNothingBack /\ VerifiedStays
=============================================================================
