----------------------------- MODULE RenderCache -----------------------------
(***************************************************************************)
(* cache_put and cache_get of engine/cache.py: an entry is two files, the  *)
(* payload and its metadata, each replaced atomically and nothing more.    *)
(* Users put and get the entries of one root side by side; writing the     *)
(* metadata may fail, and a user may die between two file operations.      *)
(***************************************************************************)
EXTENDS Refusals

CONSTANTS
    Users,
    Keys,
    Entries,       \* [payload, lifecycle], what a writer may put; a payload stands for
                   \* its hash too
    MaxCacheFaults \* bound on the writes that fail

VARIABLES
    object,       \* the payload file of each key
    metadata,     \* the metadata file of each key: [payload, lifecycle]
    user,         \* of each user: [step, op, key, entry, seen, answer]
    offered,      \* what was ever put: <<key, entry>>
    cacheFaults   \* writes that have failed

cacheVars == <<object, metadata, user, offered, cacheFaults>>

NoEntry == "none"
NoFile == [payload |-> NoEntry, lifecycle |-> NoEntry]
AtRest == [step |-> "idle", op |-> "none", key |-> NoEntry, entry |-> NoFile, seen |-> NoFile,
           answer |-> NoFile]

CacheInit ==
    /\ object = [k \in Keys |-> NoEntry]
    /\ metadata = [k \in Keys |-> NoFile]
    /\ user = [u \in Users |-> AtRest]
    /\ offered = {}
    /\ cacheFaults = 0

At(u, step) == user[u].step = step
KeyOf(u) == user[u].key
Moves(u, step) == user' = [user EXCEPT ![u].step = step]
Raises(u) == user' = [user EXCEPT ![u] = AtRest]
Answers(u, entry) == user' = [user EXCEPT ![u] = [AtRest EXCEPT !.answer = entry, !.key = KeyOf(u)]]

HasObject(k) == object[k] # NoEntry
HasMetadata(k) == metadata[k] # NoFile

\* cache_put looks for either file first, and reads the entry if there is one.
Put(u) ==
    /\ At(u, "idle")
    /\ \E k \in Keys, e \in Entries :
        /\ user' = [user EXCEPT ![u] =
                [AtRest EXCEPT !.op = "put", !.key = k, !.entry = e,
                               !.step = IF HasObject(k) \/ HasMetadata(k) THEN "look" ELSE "payload"]]
        /\ offered' = offered \cup {<<k, e>>}
    /\ UNCHANGED <<object, metadata, cacheFaults>>

\* A write that fails leaves no trace.
WriteFails(u, step) ==
    /\ cacheFaults < MaxCacheFaults /\ cacheFaults' = cacheFaults + 1
    /\ IF step = "idle" THEN Raises(u) ELSE Moves(u, step)
    /\ UNCHANGED <<object, metadata>>

\* _write_atomic replaces whatever is there by now.
WritePayload(u) ==
    /\ At(u, "payload")
    /\ \/ /\ object' = [object EXCEPT ![KeyOf(u)] = user[u].entry.payload]
          /\ Moves(u, "metadata")
          /\ UNCHANGED <<metadata, cacheFaults>>
       \/ WriteFails(u, "idle")
    /\ UNCHANGED offered

WriteMetadata(u) ==
    /\ At(u, "metadata")
    /\ \/ /\ metadata' = [metadata EXCEPT ![KeyOf(u)] = user[u].entry]
          /\ Answers(u, user[u].entry)
          /\ UNCHANGED <<object, cacheFaults>>
       \/ WriteFails(u, "unlink")
    /\ UNCHANGED offered

\* Whoever's payload it is by now.
Unlink(u) ==
    /\ At(u, "unlink")
    /\ object' = [object EXCEPT ![KeyOf(u)] = NoEntry]
    /\ Raises(u)
    /\ UNCHANGED <<metadata, offered, cacheFaults>>

Get(u) ==
    /\ At(u, "idle")
    /\ \E k \in Keys : user' = [user EXCEPT ![u] = [AtRest EXCEPT !.step = "look", !.op = "get", !.key = k]]
    /\ UNCHANGED <<object, metadata, offered, cacheFaults>>

\* Both files missing is no entry, which is a collision for a put that has
\* just seen one; one file missing is an invalid entry.
Look(u) ==
    /\ At(u, "look")
    /\ IF HasObject(KeyOf(u)) /\ HasMetadata(KeyOf(u))
       THEN Moves(u, "read") ELSE Raises(u)
    /\ UNCHANGED <<object, metadata, offered, cacheFaults>>

\* The metadata is read before the payload.
ReadMetadata(u) ==
    /\ At(u, "read")
    /\ user' = [user EXCEPT ![u].seen = metadata[KeyOf(u)], ![u].step = "compare"]
    /\ UNCHANGED <<object, metadata, offered, cacheFaults>>

\* The metadata as it is, without a look at the payload's hash.
MatchesAnyway(u) == HasObject(KeyOf(u))

\* What the metadata says about the payload that is read now.
Matches(u) == object[KeyOf(u)] = user[u].seen.payload

\* A put answers with an entry that is its own, and refuses any other one.
ReadPayload(u) ==
    LET hit == [payload |-> object[KeyOf(u)], lifecycle |-> user[u].seen.lifecycle] IN
    /\ At(u, "compare")
    /\ IF Matches(u) /\ (user[u].op = "put" => hit = user[u].entry)
       THEN Answers(u, hit) ELSE Raises(u)
    /\ UNCHANGED <<object, metadata, offered, cacheFaults>>

UserDies(u) ==
    /\ ~At(u, "idle")
    /\ Raises(u)
    /\ UNCHANGED <<object, metadata, offered, cacheFaults>>

CacheNext ==
    \E u \in Users :
        \/ Put(u) \/ WritePayload(u) \/ WriteMetadata(u) \/ Unlink(u)
        \/ Get(u) \/ Look(u) \/ ReadMetadata(u) \/ ReadPayload(u) \/ UserDies(u)

CacheSpec == CacheInit /\ [][CacheNext]_cacheVars

-----------------------------------------------------------------------------
(* Properties. *)

\* However the files of an entry were written over, lost and half replaced,
\* an answer is the payload and the metadata of one put under that key, never
\* the payload of one with the metadata of another.
HitIsOnePut ==
    \A u \in Users : user[u].answer # NoFile =>
        <<user[u].key, user[u].answer>> \in offered
=============================================================================
