---------------------------- MODULE OutputTarget ----------------------------
(***************************************************************************)
(* What one output target promises to whoever resolves it: a history of    *)
(* heads that only ever grows, in which every entry names either a newly   *)
(* rendered output or, when an attempt is rolled back, the output that the *)
(* rolled-back head had replaced.  A sealed (locked or approved) target is *)
(* never given a second head.  FullRender implements this specification.   *)
(***************************************************************************)
EXTENDS Naturals, Sequences

CONSTANTS
  Contents,   \* content hashes of rendered outputs
  NoContent   \* the null current output of a freshly provisioned target

VARIABLES
  history,    \* the outputs the target's heads have named, oldest first
  sealed      \* TRUE once the target was provisioned locked or approved

Output == Contents \cup {NoContent}

TypeOK ==
  /\ history \in Seq(Output)
  /\ sealed \in BOOLEAN

Init ==
  /\ history = << >>
  /\ sealed = FALSE

(* The trusted owner creates the target with no current output.            *)
Provision ==
  /\ history = << >>
  /\ history' = << NoContent >>
  /\ sealed' \in BOOLEAN

(* A finished render makes its output the head.                            *)
Publish ==
  /\ history # << >>
  /\ ~sealed
  /\ \E c \in Contents : history' = Append(history, c)
  /\ UNCHANGED sealed

(* A publication that could not be completed is undone by a new head that  *)
(* names what the undone one had replaced.                                 *)
Rollback ==
  /\ Len(history) > 1
  /\ ~sealed
  /\ history' = Append(history, history[Len(history) - 1])
  /\ UNCHANGED sealed

Next == Provision \/ Publish \/ Rollback

Spec == Init /\ [][Next]_<<history, sealed>>
=============================================================================
