----------------------------- MODULE LocalStores -----------------------------
(***************************************************************************)
(* The stores a local project keeps on disk, side by side: the workspace   *)
(* revisions, the timing files, the artifact registry with its shelf and   *)
(* trash, the render cache, the payloads under the soft quota, the intake  *)
(* of recordings, and the catalog of assets.  They share no file, so a     *)
(* behaviour is one of one area; what the areas share is the shape of      *)
(* their hazards: files that change one by one, by processes that fail or  *)
(* die between two of them.                                                *)
(***************************************************************************)
EXTENDS WorkspaceRevisions, Integers, Sequences, FiniteSets

CONSTANTS
  Publishers, Publications, TimingFileNames,
  Keepers, Catalog, Renders, Roots, Instants, HardLimit, MaxShelfFaults, MaxRuns, MaxTrashed,
  Users, Keys, Entries, MaxCacheFaults,
  Cleaners, Inventories, Policies, MaxTransactions, MaxCleanFaults,
  Clerks, Declarations, Binding, Waves, MaxDataBytes, MaxRewrites,
  Manifest, AssetInputs, AssetPolicies, Usages, IdOrders, MaxLogged

VARIABLES
  area,       \* the store that is used
  timing, staging, publisher,
  registry, files, receipts, cached, render, keeper, shelfFaults, abandoned,
  object, metadata, user, offered, cacheFaults,
  held, payloadFiles, ledger, cleaner, cleanFaults, left,
  recording, rewrites, clerk,
  idOrder, catalog, kept, compiled

Timing    == INSTANCE TimingFiles
Artifacts == INSTANCE ArtifactShelf
Cache     == INSTANCE RenderCache
Retention == INSTANCE CacheRetention
Intake    == INSTANCE AudioIntake
Assets    == INSTANCE AssetCatalog

ASSUME FilesAssumption == TimingFileNames # {} /\ Timing!Absent.of \notin Publications

ASSUME CatalogAssumption ==
  /\ Catalog \in Seq({Catalog[r] : r \in DOMAIN Catalog})
  /\ \A x \in Renders : x.rows \subseteq DOMAIN Catalog

(* Sizes and limits are numbers of bytes, and a render keeps to its        *)
(* estimate.                                                               *)
ASSUME LimitAssumption ==
  /\ HardLimit \in Nat
  /\ \A r \in DOMAIN Catalog : Catalog[r].size \in Nat
  /\ \A x \in Renders :
        /\ x.estimate \in Nat
        /\ Artifacts!Bytes({Artifacts!Shelf} \X Artifacts!IdsOf(x.rows)) <= x.estimate

(* An inventory is finite; its sizes, ids and times are numbers.           *)
ASSUME InventoriesAssumption ==
  /\ \A inv \in Inventories :
        /\ IsFiniteSet(inv.payloads)
        /\ \A p \in inv.payloads : p.size \in Nat /\ p.created \in Int /\ p.id \in Int
        /\ \A e \in inv.entries : e.created \in Int /\ e.accessed \in Int
  /\ \A policy \in Policies : policy.soft \in Int /\ policy.ttl \in Int /\ policy.asOf \in Int

ASSUME EntriesAssumption ==
  \A e \in Entries : e = [payload |-> e.payload, lifecycle |-> e.lifecycle]

ASSUME RecordingsAssumption ==
  /\ \A d \in Declarations : d.frames \in Nat
  /\ \A w \in Waves : w.dataLength \in Nat

(* What a media type can be, and which fields are whole numbers.           *)
ASSUME AssetsAssumption ==
  /\ \A s \in DOMAIN Manifest : Manifest[s].media \in {"image", "video", "document", "audio"}
  /\ \A x \in AssetInputs : x.ranges \in Seq([start : Nat, end : Nat])
  /\ \A p \in AssetPolicies : p.cooldown \in Nat /\ p.budget \in Nat
  /\ \A uses \in Usages :
        /\ uses \in Seq({uses[i] : i \in DOMAIN uses})
        /\ \A i \in DOMAIN uses : uses[i].from \in Int /\ uses[i].until \in Int
  /\ \A order \in IdOrders : \A s \in DOMAIN Manifest : order[s] \in Nat

timingVars    == <<timing, staging, publisher>>
shelfVars     == <<registry, files, receipts, cached, render, keeper, shelfFaults, abandoned>>
cacheVars     == <<object, metadata, user, offered, cacheFaults>>
retentionVars == <<held, payloadFiles, ledger, cleaner, cleanFaults, left>>
intakeVars    == <<recording, rewrites, clerk>>
catalogVars   == <<idOrder, catalog, kept, compiled>>
storeVars     == <<area, vars, timingVars, shelfVars, cacheVars, retentionVars, intakeVars, catalogVars>>

StoresInit ==
  /\ area \in {"revisions", "timing", "artifacts", "cache", "retention", "intake", "assets"}
  /\ Init /\ Timing!TimingInit /\ Artifacts!ShelfInit /\ Cache!CacheInit
  /\ Retention!RetentionInit /\ Intake!IntakeInit /\ Assets!CatalogInit

StoresNext ==
  /\ UNCHANGED area
  /\ \/ /\ area = "revisions" /\ Next
        /\ UNCHANGED <<timingVars, shelfVars, cacheVars, retentionVars, intakeVars, catalogVars>>
     \/ /\ area = "timing" /\ Timing!TimingNext
        /\ UNCHANGED <<vars, shelfVars, cacheVars, retentionVars, intakeVars, catalogVars>>
     \/ /\ area = "artifacts" /\ Artifacts!ShelfNext
        /\ UNCHANGED <<vars, timingVars, cacheVars, retentionVars, intakeVars, catalogVars>>
     \/ /\ area = "cache" /\ Cache!CacheNext
        /\ UNCHANGED <<vars, timingVars, shelfVars, retentionVars, intakeVars, catalogVars>>
     \/ /\ area = "retention" /\ Retention!RetentionNext
        /\ UNCHANGED <<vars, timingVars, shelfVars, cacheVars, intakeVars, catalogVars>>
     \/ /\ area = "intake" /\ Intake!IntakeNext
        /\ UNCHANGED <<vars, timingVars, shelfVars, cacheVars, retentionVars, catalogVars>>
     \/ /\ area = "assets" /\ Assets!CatalogNext
        /\ UNCHANGED <<vars, timingVars, shelfVars, cacheVars, retentionVars, intakeVars>>

StoresSpec == StoresInit /\ [][StoresNext]_storeVars

-----------------------------------------------------------------------------
(* Properties.                                                             *)

(* The published timing directory is whole, and a receipt is for it.       *)
PublishedIsWhole == Timing!PublishedIsWhole

(* Nothing that was published or put away is mislaid, whoever fails or dies *)
(* in the middle: artifacts and payloads are in place or in the trash on a *)
(* record, what others need stays, the registry loads, a cache hit is what *)
(* one writer put, and a published directory is whole.                     *)
NothingIsMislaid ==
  /\ Artifacts!RegistryHolds /\ Artifacts!TrashIsOnRecord /\ Artifacts!ProtectedStays
  /\ Retention!PayloadsOnRecord /\ Cache!HitIsOnePut /\ PublishedIsWhole

(* The hard limit holds, trash included, and the soft one takes no payload *)
(* that is needed and none too many.                                       *)
LimitsHold == Artifacts!WithinLimit /\ Retention!PlansAreSparing

(* An artifact describes the bytes it was made from, and those were found  *)
(* twice in the file it came from.                                         *)
RecordingsAreSound == Intake!RecordingsAreSound

(* No two assets of a catalog are duplicates, what was blocked would be     *)
(* blocked again, every reader accepts what was compiled, and an accepted  *)
(* reuse keeps the uses of a family apart.                                 *)
CatalogHolds == Assets!CatalogHolds
=============================================================================
