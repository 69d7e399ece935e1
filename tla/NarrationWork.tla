---------------------------- MODULE NarrationWork ----------------------------
(***************************************************************************)
(* A narration over its life: its revisions are declared from one another, *)
(* and the temporal contracts of a revision are built on it.  A revision   *)
(* does not change once it is declared, so a behaviour either declares     *)
(* revisions or builds on some of them.                                    *)
(***************************************************************************)
EXTENDS TemporalArtifacts

CONSTANTS Narrations, Edited, MaxRevisions

VARIABLES inNarration, revisions, told

Narration == INSTANCE NarrationRevisions WITH reply <- told

ASSUME NarrationsAssumption == \A n \in Narrations : Narration!IsNarration(n)

lineageVars == <<revisions, told>>

NothingBuilt ==
    /\ held = {} /\ made = {} /\ drifted = {}
    /\ wire = [of |-> None, altered |-> FALSE]
    /\ reply = [verdict |-> Fine, exact |-> TRUE]

NarrationInit ==
    /\ inNarration \in BOOLEAN /\ Narration!Init
    /\ \/ ~inNarration /\ Init
       \/ inNarration /\ NothingBuilt

NarrationNext ==
    /\ UNCHANGED inNarration
    /\ \/ ~inNarration /\ Next /\ UNCHANGED lineageVars
       \/ inNarration /\ Narration!Next /\ UNCHANGED contractVars

NarrationSpec == NarrationInit /\ [][NarrationNext]_<<inNarration, lineageVars, contractVars>>

\* Whatever the manifests that were accepted: each node of a revision and of
\* its predecessor is accounted for once, and the tree of a text holds together
\* in itself and over an edit, so that a range of words is a stretch of text.
LineageHolds == Narration!EveryNodeAccountedFor /\ Narration!TreesHoldTogether
=============================================================================
