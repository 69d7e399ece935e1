-------------------------- MODULE ContractRegistry --------------------------
(***************************************************************************)
(* What the contract modules of src/engine/contracts share.  An artifact   *)
(* is genuine only while the object its materializer returned is in a      *)
(* registry of this process; a registry entry dies with its object.  The   *)
(* object can be altered in place after it was registered: some modules    *)
(* compare it with the registered bytes when it is used (Sound), others    *)
(* only ask who it is (Genuine) and read what it says by now (Says).       *)
(*                                                                         *)
(* An artifact is a record of what it says and of the artifacts it was     *)
(* made from, whose identifiers and hashes it carries.                     *)
(***************************************************************************)
EXTENDS Refusals

CONSTANTS
    Worlds,     \* the sets of artifacts a process may start from
    Alterations(_),   \* what an artifact may say once it was altered
    Room(_)     \* bound: how many more may be genuine at a time

VARIABLES
    held,       \* the first artifacts, of which callers keep copies
    made,       \* genuine artifacts
    drifted,    \* genuine artifacts whose object was altered in place
    wire,       \* stored bytes: the artifact they describe, altered or not
    reply       \* the last answer, and whether the declaration was exact

contractVars == <<held, made, drifted, wire, reply>>

\* What a caller can hand in: a copy of an artifact is not genuine.
OfKind(k) == {x \in made \cup held : x.kind = k}
Genuine(x) == x \in made
Sound(x) == x \in made \ drifted

\* What an object says now: an alteration may be in a part that nobody reads.
Says(x) == {x} \cup (IF x \in drifted THEN Alterations(x) ELSE {})

\* An object that is handed in: the artifact it is registered as, whose
\* identifier and hash it bears, and what it says besides.
ObjectsOf(x) == {[is |-> x, says |-> y] : y \in Says(x)}
Objects(k) == UNION {ObjectsOf(x) : x \in OfKind(k)}

RegistryInit ==
    /\ held \in Worlds
    /\ made = held
    /\ drifted = {}
    /\ wire = [of |-> None, altered |-> FALSE]
    /\ reply = [verdict |-> Fine, exact |-> TRUE]

\* A refusal is an exception: its caller handles it before the next call.
Ready == reply.verdict = Fine

Handled ==
    /\ ~Ready
    /\ reply' = [verdict |-> Fine, exact |-> TRUE]
    /\ UNCHANGED <<held, made, drifted, wire>>

\* A materializer's answer: on success a new object is registered.
Answer(x, fault, exact) ==
    /\ reply' = [verdict |-> fault, exact |-> exact]
    /\ IF fault = Fine
       THEN /\ Cardinality((made \cup {x}) \ held) <= Room(held)
            /\ made' = made \cup {x}
            /\ drifted' = drifted \ {x}
       ELSE UNCHANGED <<made, drifted>>
    /\ UNCHANGED <<held, wire>>

\* Somebody alters a registered object in place, without its identifiers.
\* Bound: one artifact at a time is altered or, of the first ones, forgotten.
Drift(x) ==
    /\ x \in made
    /\ drifted = {} /\ held \subseteq made
    /\ drifted' = {x}
    /\ UNCHANGED <<held, made, wire, reply>>

\* The last reference to an object goes away, and its registry entry with it.
Forget(x) ==
    /\ x \in made
    /\ x \in held => drifted \subseteq {x} /\ held \subseteq made
    /\ made' = made \ {x}
    /\ drifted' = drifted \ {x}
    /\ UNCHANGED <<held, wire, reply>>

\* A serializer: refused means that the bytes are not handed out.
Write(x, refused) ==
    /\ x \in made
    /\ IF refused
       THEN /\ reply' = [verdict |-> "CONTENT_DRIFT", exact |-> TRUE]
            /\ UNCHANGED wire
       ELSE /\ wire' = [of |-> x, altered |-> x \in drifted]
            /\ UNCHANGED reply
    /\ UNCHANGED <<held, made, drifted>>
=============================================================================
