--------------------------- MODULE SystemSettings ---------------------------
(***************************************************************************)
(* SystemSettingsService: a mutable setting with a version, the default    *)
(* that is used until it is first written, and the cache of one instance,  *)
(* which get fills after its read and update empties after its write.      *)
(* The value of a setting is the version that has it, 0 for the default.   *)
(***************************************************************************)
EXTENDS Requests

CONSTANTS CacheTtl, MaxSettingVersion
ASSUME SystemSettingsAssumption ==
  /\ CacheTtl \in Nat \ {0} /\ MaxSettingVersion \in Nat
  /\ None \notin [op : {"update"}, at : {"write", "invalidate"}, version : 0..MaxSettingVersion]

VARIABLES
  setting,    \* version of the row of system_settings; 0: no row
  cache,      \* entry: version and expiry; or None
  replaced,   \* versions that updates replaced, and those replaced twice
  overtaken   \* versions that an update had replaced when a get cached them

settingVars == <<setting, cache, replaced, overtaken>>

SystemSettingsInit ==
  setting = 0 /\ cache = None /\ replaced = [once |-> {}, twice |-> {}] /\ overtaken = {}

-----------------------------------------------------------------------------
\* cache.get: an expired entry is removed.  An entry that is not answers the request.
GetStart(p) ==
  /\ cache # None => cache.expires <= clock
  /\ cache' = None
  /\ Start(p, [op |-> "get", at |-> "read"])
  /\ UNCHANGED <<setting, replaced, overtaken, clock>>

GetRead(p) ==
  /\ Running(p, "get") /\ At(p, "read")
  /\ req' = [req EXCEPT ![p] = [op |-> "get", at |-> "cache", version |-> setting]]
  /\ UNCHANGED <<settingVars, clock>>

GetCache(p) ==
  /\ Running(p, "get") /\ At(p, "cache")
  /\ cache' = [version |-> req[p].version, expires |-> clock + CacheTtl]
  /\ overtaken' = IF req[p].version # setting THEN overtaken \cup {req[p].version} ELSE overtaken
  /\ Done(p)
  /\ UNCHANGED <<setting, replaced, clock>>

\* upsert, findUnique: with an expected version or without one.
UpsertRead(p, expected) ==
  /\ setting = 0 \/ expected \in {None, setting}
  /\ Start(p, [op |-> "update", at |-> "write", version |-> setting])
  /\ UNCHANGED <<settingVars, clock>>

\* Mutant: updateMany does not compare the version.
SettingVersionSameAlways(p) == TRUE

\* The condition of updateMany, and the unique key of create.
SettingVersionSame(p) == setting = req[p].version

UpsertWrite(p) ==
  /\ Running(p, "update") /\ At(p, "write")
  /\ setting < MaxSettingVersion
  /\ IF SettingVersionSame(p)
     THEN /\ setting' = setting + 1
          /\ replaced' = [once  |-> replaced.once \cup {req[p].version},
                          twice |-> replaced.twice \cup (replaced.once \cap {req[p].version})]
          /\ Goto(p, "invalidate")
     ELSE UNCHANGED <<setting, replaced>> /\ Done(p)
  /\ UNCHANGED <<cache, overtaken, clock>>

\* Mutant: the cache is not invalidated.
InvalidatedKept == cache

\* cache.delete
Invalidated == None

InvalidateCache(p) ==
  /\ Running(p, "update") /\ At(p, "invalidate")
  /\ cache' = Invalidated
  /\ Done(p)
  /\ UNCHANGED <<setting, replaced, overtaken, clock>>

SystemSettingsNext ==
  \/ Tick /\ UNCHANGED settingVars
  \/ \E p \in Procs :
       \/ GetStart(p) \/ GetRead(p) \/ GetCache(p)
       \/ \E e \in {None} \cup 1..MaxSettingVersion : UpsertRead(p, e)
       \/ UpsertWrite(p) \/ InvalidateCache(p)

-----------------------------------------------------------------------------
(* Properties.                                                             *)

\* The row and the entry of the cache have their types.
SystemSettingsTypeOK ==
  /\ setting \in 0..MaxSettingVersion
  /\ cache \in [version : 0..MaxSettingVersion, expires : 0..MaxClock + CacheTtl] \cup {None}

\* No update is lost: of the updates that saw the same version, one replaces it
\* and the others are refused (upsert).
VersionReplacedOnce == replaced.twice = {}

\* While no update is between its write and its cache.delete, the cache may hold an
\* older version only if a get had read it before the update and stored it after
\* (get and update).
StaleOnlyWhenOvertaken ==
  cache # None /\ (\A p \in Procs : ~(Running(p, "update") /\ At(p, "invalidate"))) =>
    cache.version = setting \/ cache.version \in overtaken
=============================================================================
