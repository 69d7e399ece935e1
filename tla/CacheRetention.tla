--------------------------- MODULE CacheRetention ---------------------------
(***************************************************************************)
(* The soft quota of the payload store: plan_soft_quota of                 *)
(* engine/cache_lifecycle.py decides which payloads go, and                *)
(* engine/cache_execution.py moves them to the trash of the plan and back, *)
(* with a ledger of transactions.  Entries share payloads.  Cleaners work  *)
(* side by side, any file operation may fail, and a cleaner may die.       *)
(***************************************************************************)
EXTENDS Refusals, SequencesExt, FiniteSetsExt

CONSTANTS
    Cleaners,
    Inventories,    \* [payloads, entries] a caller may hold
    Policies,       \* [soft, hard, ttl, asOf, retained]
    MaxTransactions,\* bound on the ledger
    MaxCleanFaults  \* bound on the operations that fail and the deaths

\* A payload: [id, size, created, ready].  An entry: [id, payload, created,
\* accessed, ready, artifacts].

VARIABLES
    held,        \* the inventory and the policy all cleaners work from
    payloadFiles,\* <<place, payload id>>; a place is "object" or "trash"
    ledger,      \* cache-lifecycle-transactions.jsonl
    cleaner,     \* of each cleaner: [step, moved]
    cleanFaults,
    left         \* TRUE once a cleaner has died at work

retentionVars == <<held, payloadFiles, ledger, cleaner, cleanFaults, left>>

-----------------------------------------------------------------------------
(* storage_report and plan_soft_quota. *)

ReportRows(inv) ==
    << <<\E e \in inv.entries : ~\E p \in inv.payloads : p.id = e.payload, "CACHE_REFERENCE_INVALID">>,
       <<\E p, q \in inv.payloads : p # q /\ p.id = q.id, "CACHE_REFERENCE_INVALID">> >>

PolicyRows(policy) == << <<policy.soft > policy.hard, "CACHE_POLICY_INVALID">> >>

SizeSum(payloads) == FoldSet(LAMBDA p, sum : p.size + sum, 0, payloads)
ReadyPayloads(inv) == {p \in inv.payloads : p.ready}
Physical(inv) == SizeSum(ReadyPayloads(inv))
References(inv, p) == {e \in inv.entries : e.payload = p.id /\ e.ready}
LastUse(e) == IF e.created > e.accessed THEN e.created ELSE e.accessed

\* One expired reference is enough.
EligibleByOne(inv, policy, p) ==
    /\ p.ready
    /\ \A e \in References(inv, p) : e.artifacts \cap policy.retained = {}
    /\ References(inv, p) # {} =>
          \E e \in References(inv, p) : policy.asOf >= LastUse(e) + policy.ttl

\* A payload may go when no reference serves a retained artifact and all of
\* them are expired.
Eligible(inv, policy, p) ==
    /\ p.ready
    /\ \A e \in References(inv, p) :
          /\ e.artifacts \cap policy.retained = {}
          /\ policy.asOf >= LastUse(e) + policy.ttl

Older(p, q) == p.created < q.created \/ (p.created = q.created /\ p.id < q.id)

\* Eligible payloads, oldest first: each after those that are older.
Queue(inv, policy) ==
    LET going == {p \in inv.payloads : Eligible(inv, policy, p)} IN
    [n \in 1 .. Cardinality(going) |->
        CHOOSE p \in going : Cardinality({q \in going : Older(q, p)}) = n - 1]

Enough(inv, policy, gone) == Physical(inv) - SizeSum(Range(gone)) <= policy.soft

\* One after the other goes until the rest fits; the question is asked after
\* each of them, so that one goes even where all would fit.
Taken(inv, policy) ==
    LET queue == Queue(inv, policy)
        stops == {n \in DOMAIN queue : Enough(inv, policy, SubSeq(queue, 1, n))}
    IN SubSeq(queue, 1, IF stops = {} THEN Len(queue) ELSE Min(stops))

Planned(inv, policy) ==
    /\ FirstFault(PolicyRows(policy) \o ReportRows(inv)) = Fine
    /\ Enough(inv, policy, Taken(inv, policy))

Going == [n \in DOMAIN Taken(held.inventory, held.policy) |-> Taken(held.inventory, held.policy)[n].id]

-----------------------------------------------------------------------------
(* execute_cache_plan and restore_cache_transaction. *)

Nothing == [payloads |-> {}, entries |-> {}]
Relaxed == [step |-> "idle", moved |-> << >>]

RetentionInit ==
    /\ held = [inventory |-> Nothing, policy |-> CHOOSE policy \in Policies : TRUE]
    /\ payloadFiles = {}
    /\ ledger = << >>
    /\ cleaner = [c \in Cleaners |-> Relaxed]
    /\ cleanFaults = 0 /\ left = FALSE

\* The callers' inventory and policy, with the payloads it speaks of in place.
TakeStock ==
    /\ held.inventory = Nothing
    /\ held' \in [inventory : Inventories, policy : Policies]
    /\ payloadFiles' = {"object"} \X {p.id : p \in ReadyPayloads(held'.inventory)}
    /\ UNCHANGED <<ledger, cleaner, cleanFaults, left>>

In(c, step) == cleaner[c].step = step
Becomes(c, value) == cleaner' = [cleaner EXCEPT ![c] = value]
CleanFails == cleanFaults < MaxCleanFaults /\ cleanFaults' = cleanFaults + 1
Lies(place, id) == <<place, id>> \in payloadFiles

Carry(id, from, to) == payloadFiles' = (payloadFiles \ {<<from, id>>}) \cup {<<to, id>>}

\* A plan that does not reach its target is not executed, nor one whose
\* payloads are not all in place.
StartPlan(c) ==
    /\ In(c, "idle") /\ Len(ledger) < MaxTransactions /\ held.inventory # Nothing
    /\ Planned(held.inventory, held.policy)
    /\ \A id \in Range(Going) : Lies("object", id) /\ ~Lies("trash", id)
    /\ Becomes(c, [Relaxed EXCEPT !.step = "retire"])
    /\ UNCHANGED <<held, payloadFiles, ledger, cleanFaults, left>>

\* A retired transaction is restored from its own list.
StartRestoration(c) ==
    /\ In(c, "idle") /\ "retired" \in Range(ledger) /\ Len(ledger) < MaxTransactions
    /\ Becomes(c, [Relaxed EXCEPT !.step = "restore"])
    /\ UNCHANGED <<held, payloadFiles, ledger, cleanFaults, left>>

From(c) == IF cleaner[c].step \in {"retire", "unretire"} THEN "object" ELSE "trash"
To(c) == IF From(c) = "object" THEN "trash" ELSE "object"
UndoOf(c) == IF In(c, "retire") THEN "unretire" ELSE "unrestore"

\* The next payload; restoring looks first whether the place is free.
CarryNext(c) ==
    LET n == Len(cleaner[c].moved) + 1 IN
    /\ cleaner[c].step \in {"retire", "restore"} /\ n <= Len(Going)
    /\ LET id == Going[n]
           can == Lies(From(c), id) /\ (In(c, "restore") => ~Lies("object", id)) IN
       \/ /\ can /\ Carry(id, From(c), To(c))
          /\ Becomes(c, [cleaner[c] EXCEPT !.moved = Append(@, id)])
          /\ UNCHANGED cleanFaults
       \/ /\ Becomes(c, [cleaner[c] EXCEPT !.step = UndoOf(c)])
          /\ IF can THEN CleanFails ELSE UNCHANGED cleanFaults
          /\ UNCHANGED payloadFiles
    /\ UNCHANGED <<held, ledger, left>>

\* One batch, one row; the append may land and raise all the same.
RecordTransaction(c) ==
    LET row == IF In(c, "retire") THEN "retired" ELSE "restored" IN
    /\ cleaner[c].step \in {"retire", "restore"} /\ Len(cleaner[c].moved) = Len(Going)
    /\ \/ /\ ledger' = Append(ledger, row)
          /\ Becomes(c, Relaxed)
          /\ UNCHANGED cleanFaults
       \/ /\ ledger' \in {ledger, Append(ledger, row)}
          /\ Becomes(c, [cleaner[c] EXCEPT !.step = UndoOf(c)])
          /\ CleanFails
    /\ UNCHANGED <<held, payloadFiles, left>>

\* The last one is put back and the rest is forgotten.
UndoCarryOnce(c) ==
    LET moved == cleaner[c].moved IN
    /\ cleaner[c].step \in {"unretire", "unrestore"}
    /\ IF moved # << >> /\ Lies(To(c), Last(moved)) /\ ~Lies(From(c), Last(moved))
       THEN Carry(Last(moved), To(c), From(c)) ELSE UNCHANGED payloadFiles
    /\ Becomes(c, Relaxed)
    /\ UNCHANGED <<held, ledger, cleanFaults, left>>

\* What this call has moved goes back, last first, where nothing is in the way.
UndoCarry(c) ==
    LET moved == cleaner[c].moved IN
    /\ cleaner[c].step \in {"unretire", "unrestore"}
    /\ IF moved = << >>
       THEN Becomes(c, Relaxed) /\ UNCHANGED payloadFiles
       ELSE /\ IF Lies(To(c), Last(moved)) /\ ~Lies(From(c), Last(moved))
               THEN Carry(Last(moved), To(c), From(c)) ELSE UNCHANGED payloadFiles
            /\ Becomes(c, [cleaner[c] EXCEPT !.moved = Front(moved)])
    /\ UNCHANGED <<held, ledger, cleanFaults, left>>

CleanerDies(c) ==
    /\ ~In(c, "idle")
    /\ CleanFails
    /\ Becomes(c, Relaxed)
    /\ left' = TRUE
    /\ UNCHANGED <<held, payloadFiles, ledger>>

RetentionNext ==
    \/ TakeStock
    \/ \E c \in Cleaners :
        \/ StartPlan(c) \/ StartRestoration(c) \/ CarryNext(c) \/ RecordTransaction(c)
        \/ UndoCarry(c) \/ CleanerDies(c)

RetentionSpec == RetentionInit /\ [][RetentionNext]_retentionVars

-----------------------------------------------------------------------------
(* Properties. *)

\* Every ready payload exists once, and what has left the store while nobody
\* works on it is in a retired transaction of the ledger, so that it can be
\* restored, unless a cleaner has died over it.
PayloadsOnRecord ==
    /\ \A p \in ReadyPayloads(held.inventory) : Lies("object", p.id) # Lies("trash", p.id)
    /\ ~left /\ (\A c \in Cleaners : In(c, "idle")) =>
          ((\E p \in ReadyPayloads(held.inventory) : Lies("trash", p.id)) => "retired" \in Range(ledger))

\* No payload goes that any live entry still needs, however many entries share
\* it, and none more than the soft limit asks for.
PlansAreSparing ==
    LET inv == held.inventory
        policy == held.policy
        taken == Taken(inv, policy) IN
    FirstFault(ReportRows(inv)) = Fine =>
        /\ \A p \in Range(taken) : \A e \in inv.entries :
              e.payload = p.id /\ e.ready =>
                  e.artifacts \cap policy.retained = {} /\ policy.asOf - LastUse(e) >= policy.ttl
        /\ Physical(inv) > policy.soft /\ taken # << >> => ~Enough(inv, policy, Front(taken))
=============================================================================
