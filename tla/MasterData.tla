----------------------------- MODULE MasterData -----------------------------
(***************************************************************************)
(* The master data of properties: types with their categories and          *)
(* subcategories, the levels of locations, facilities, and the properties  *)
(* that refer to them.  Rows are removed softly, after a count of the live *)
(* rows that refer to them; a row that is created reads its parents first. *)
(* Each of them is a transaction that reads a snapshot and locks nothing   *)
(* it reads, so that two of them can overlap.                              *)
(***************************************************************************)
EXTENDS Requests, TLC

CONSTANTS
  LevelOf,      \* the rows that can exist, with their levels
  RowsOf,       \* the rows that a behaviour of each focus is about
  FirstRows,    \* the rows that exist at the start, each with its parents
  Facilities    \* facilities that can be attached to properties

VARIABLES
  master,     \* the rows, with their parents
  attached,   \* property_facilities: <<property, facility>>
  met,        \* pairs <<row, parent>> whose writes and removals overlapped
  revived     \* properties restored although a parent was removed, and their copies

masterVars == <<master, attached, met, revived>>

\* parentConfig
ParentLevel == [province |-> "country", city |-> "province", district |-> "city",
                subdistrict |-> "district"]
Location(n) == LevelOf[n] \in DOMAIN ParentLevel \cup {"country"}

MasterLevels ==
  {"type", "category", "subcategory", "property", "facility", "country"} \cup DOMAIN ParentLevel
StoredRows == [parents : SUBSET UNION {RowsOf[f] : f \in DOMAIN RowsOf}, isActive : BOOLEAN,
               deleted : BOOLEAN]

\* Only locations are in locations, and nothing is in a facility or in a property.
MayRefer(n, m) == LevelOf[m] \in {"type", "category", "subcategory"} \/ (Location(n) /\ Location(m))

\* The rows that exist at the start have their parents.
ASSUME MasterDataAssumption ==
  /\ \A f \in DOMAIN RowsOf : \A n \in RowsOf[f] : LevelOf[n] \in MasterLevels
  /\ \A n \in Facilities : LevelOf[n] = "facility"
  /\ \A f \in DOMAIN RowsOf : \A n \in RowsOf[f] \cap DOMAIN FirstRows : \A m \in FirstRows[n] :
       m \in RowsOf[f] \cap DOMAIN FirstRows /\ MayRefer(n, m)
  /\ None \notin StoredRows

MasterRows == IF focus \in DOMAIN RowsOf THEN RowsOf[focus] ELSE {}

MasterRow(parents) == [parents |-> parents, isActive |-> TRUE, deleted |-> FALSE]

MasterDataInit ==
  /\ master = [n \in MasterRows |-> IF n \in DOMAIN FirstRows THEN MasterRow(FirstRows[n]) ELSE None]
  /\ attached = {} /\ met = {} /\ revived = {}

LiveRow(n) == master[n] # None /\ ~master[n].deleted
ActiveRow(n) == LiveRow(n) /\ master[n].isActive

-----------------------------------------------------------------------------
(* Who may be whose parent.                                                *)

\* createLocation looks for a parent that is not removed; without one the insert
\* lacks its foreign key and fails.  A country has none.
LocationParents(n, parents) ==
  IF LevelOf[n] = "country" THEN parents = {}
  ELSE \E m \in MasterRows :
         parents = {m} /\ LevelOf[m] = ParentLevel[LevelOf[n]] /\ LiveRow(m)

\* propertyRefs: an active type, an active category of that type and, if asked for,
\* an active subcategory of that category.
PropertyRefs(parents) ==
  \E t, c \in MasterRows :
    /\ LevelOf[t] = "type" /\ ActiveRow(t) /\ LevelOf[c] = "category" /\ ActiveRow(c)
    /\ t \in master[c].parents
    /\ \/ parents = {t, c}
       \/ \E s \in MasterRows : /\ LevelOf[s] = "subcategory" /\ ActiveRow(s)
                                /\ c \in master[s].parents /\ parents = {t, c, s}

CategoryParents(parents) ==
  \E t \in MasterRows : LevelOf[t] = "type" /\ ActiveRow(t) /\ parents = {t}

\* Mutant: a subcategory may be created in a category that was removed.
SubcategoryParentsAny(parents) ==
  \E c \in MasterRows : LevelOf[c] = "category" /\ master[c] # None /\ parents = {c}

SubcategoryParents(parents) ==
  \E c \in MasterRows : LevelOf[c] = "category" /\ ActiveRow(c) /\ parents = {c}

TypeParents(parents) == parents = {}
FacilityParents(parents) == parents = {}

AcceptedParents(n, parents) ==
  CASE LevelOf[n] = "type" -> TypeParents(parents)
    [] LevelOf[n] = "facility" -> FacilityParents(parents)
    [] LevelOf[n] = "category" -> CategoryParents(parents)
    [] LevelOf[n] = "subcategory" -> SubcategoryParents(parents)
    [] LevelOf[n] = "property" -> PropertyRefs(parents)
    [] OTHER -> LocationParents(n, parents)

-----------------------------------------------------------------------------
(* What a request is about, for what overlaps: the rows it will link to    *)
(* parents, and the row it will remove.                                    *)
Links(r) ==
  IF r = None THEN {}
  ELSE IF r.op \in {"create row", "move", "attach"} THEN {<<r.row, m>> : m \in r.parents}
  ELSE IF r.op = "copy" THEN {<<r.row, m>> : m \in r.parents \cup r.facilities}
  ELSE {}
Removes(r) == IF r # None /\ r.op = "remove" THEN {r.row} ELSE {}

\* A request begins: pairs of it and of the others that run.
BeginMaster(p, r) ==
  /\ Start(p, r)
  /\ met' = met \cup {l \in Links(r) : \E q \in Procs : l[2] \in Removes(req[q])}
                \cup {l \in UNION {Links(req[q]) : q \in Procs} : l[2] \in Removes(r)}

\* An identifier is given once.
Unclaimed(n) == ~\E q \in Procs : req[q] # None /\ req[q].row = n

CreateRowRead(p) ==
  /\ \E n \in MasterRows, parents \in SUBSET MasterRows :
       /\ master[n] = None /\ Unclaimed(n)
       /\ AcceptedParents(n, parents)
       /\ BeginMaster(p, [op |-> "create row", row |-> n, parents |-> parents])
  /\ UNCHANGED <<master, attached, revived>>

CreateRowWrite(p) ==
  /\ Running(p, "create row") /\ Done(p)
  /\ master' = [master EXCEPT ![req[p].row] = MasterRow(req[p].parents)]
  /\ UNCHANGED <<attached, met, revived>>

(* The updates read the row, which must not be removed, and write by id.   *)
(* The version that the caller gives is only compared with 1.              *)
TypeFound(n)        == LevelOf[n] = "type" /\ LiveRow(n)
CategoryFound(n)    == LevelOf[n] = "category" /\ LiveRow(n)
SubcategoryFound(n) == LevelOf[n] = "subcategory" /\ LiveRow(n)
FacilityFound(n)    == LevelOf[n] = "facility" /\ LiveRow(n)

\* unwrap makes an empty record of a location that is not found, and the update is
\* by the caller's uuid.
LocationFound(n) == Location(n) /\ master[n] # None

UpdateRowRead(p) ==
  /\ \E n \in MasterRows : /\ \/ TypeFound(n) \/ CategoryFound(n) \/ SubcategoryFound(n)
                              \/ FacilityFound(n) \/ LocationFound(n)
                           /\ Start(p, [op |-> "edit", row |-> n])
  /\ UNCHANGED masterVars

UpdateRowWrite(p) ==
  /\ Running(p, "edit") /\ Done(p)
  /\ \E isActive \in BOOLEAN : master' = [master EXCEPT ![req[p].row].isActive = isActive]
  /\ UNCHANGED <<attached, met, revived>>

\* updateLocation with another parent: neither level nor row is checked further.
MoveRead(p) ==
  /\ \E n, m \in MasterRows :
       /\ Location(n) /\ master[n] # None /\ LevelOf[n] # "country"
       /\ m \notin master[n].parents /\ LocationParents(n, {m})
       /\ BeginMaster(p, [op |-> "move", row |-> n, parents |-> {m}])
  /\ UNCHANGED <<master, attached, revived>>

MoveWrite(p) ==
  /\ Running(p, "move") /\ Done(p)
  /\ master' = [master EXCEPT ![req[p].row].parents = req[p].parents]
  /\ UNCHANGED <<attached, met, revived>>

-----------------------------------------------------------------------------
\* Mutant: only subcategories keep a category from being removed.
InUseBySubcategory(n) ==
  \E m \in MasterRows : LiveRow(m) /\ n \in master[m].parents /\ LevelOf[m] = "subcategory"

\* deleteCategory counts subcategories and properties.
CategoryInUse(n) == \E m \in MasterRows : LiveRow(m) /\ n \in master[m].parents

\* deleteSubcategory counts properties.
SubcategoryInUse(n) == \E m \in MasterRows : LiveRow(m) /\ n \in master[m].parents

\* deleteLocation counts the rows of the next level; for a subdistrict the
\* properties with a subdistrictId, a column that no request sets.
LocationInUse(n) ==
  \E m \in MasterRows : LiveRow(m) /\ n \in master[m].parents /\ Location(m)

\* Mutant: a facility of a removed property is not in use.
FacilityInUseOfLive(n) == \E a \in attached : a[2] = n /\ LiveRow(a[1])

\* deleteFacility counts the assignments of removed properties too.
FacilityInUse(n) == \E a \in attached : a[2] = n

\* The removal of a property type counts nothing.
TypeInUse(n) == FALSE

InUse(n) ==
  CASE LevelOf[n] = "category" -> CategoryInUse(n)
    [] LevelOf[n] = "subcategory" -> SubcategoryInUse(n)
    [] LevelOf[n] = "facility" -> FacilityInUse(n)
    [] Location(n) -> LocationInUse(n)
    [] OTHER -> TypeInUse(n)

\* deleteLocation removes a removed location again, with no effect.
RemoveRead(p) ==
  /\ \E n \in MasterRows : /\ LevelOf[n] # "property" /\ LiveRow(n) /\ ~InUse(n)
                           /\ BeginMaster(p, [op |-> "remove", row |-> n])
  /\ UNCHANGED <<master, attached, revived>>

RemoveWrite(p) ==
  /\ Running(p, "remove") /\ Done(p)
  /\ master' = [master EXCEPT ![req[p].row].deleted = TRUE, ![req[p].row].isActive = FALSE]
  /\ UNCHANGED <<attached, met, revived>>

-----------------------------------------------------------------------------
(* Properties.                                                             *)

DeleteMasterProperty(n) ==
  /\ LevelOf[n] = "property" /\ LiveRow(n)
  /\ master' = [master EXCEPT ![n].deleted = TRUE]
  /\ UNCHANGED <<req, attached, met, revived>>

\* restoreProperty looks at nothing but the property.
RestoreMasterProperty(n) ==
  /\ LevelOf[n] = "property" /\ master[n] # None /\ master[n].deleted
  /\ master' = [master EXCEPT ![n].deleted = FALSE]
  /\ revived' = IF \A m \in master[n].parents : LiveRow(m) THEN revived ELSE revived \cup {n}
  /\ met' = met \cup {<<n, m>> : m \in master[n].parents \cap UNION {Removes(req[q]) : q \in Procs}}
  /\ UNCHANGED <<req, attached>>

\* duplicateProperty copies the references and the facilities it reads.
DuplicateRead(p) ==
  /\ \E source, n \in MasterRows :
       /\ LevelOf[source] = "property" /\ LiveRow(source)
       /\ LevelOf[n] = "property" /\ master[n] = None
       /\ Unclaimed(n)
       /\ BeginMaster(p, [op |-> "copy", row |-> n, source |-> source,
                          parents |-> master[source].parents,
                          facilities |-> {a[2] : a \in {b \in attached : b[1] = source}}])
  /\ UNCHANGED <<master, attached, revived>>

DuplicateWrite(p) ==
  LET r == req[p]
  IN  /\ Running(p, "copy") /\ Done(p)
      /\ master' = [master EXCEPT ![r.row] = MasterRow(r.parents)]
      /\ attached' = attached \cup {<<r.row, f>> : f \in r.facilities}
      /\ revived' = IF r.source \in revived THEN revived \cup {r.row} ELSE revived
      /\ met' = met \cup {<<r.row, l[2]>> : l \in {k \in met : k[1] = r.source}}

\* attachFacility: a live property, an active facility, not attached yet.
AttachRead(p) ==
  /\ \E n \in MasterRows, f \in MasterRows \cap Facilities :
       /\ LevelOf[n] = "property" /\ LiveRow(n) /\ ActiveRow(f) /\ <<n, f>> \notin attached
       /\ BeginMaster(p, [op |-> "attach", row |-> n, parents |-> {f}])
  /\ UNCHANGED <<master, attached, revived>>

\* The primary key refuses a pair that another request attached first.
AttachWrite(p) ==
  /\ Running(p, "attach") /\ Done(p)
  /\ attached' = attached \cup {<<req[p].row, f>> : f \in req[p].parents}
  /\ UNCHANGED <<master, met, revived>>

\* detachFacility finds neither a removed property nor a removed facility.
Detach ==
  /\ \E a \in attached : LiveRow(a[1]) /\ LiveRow(a[2]) /\ attached' = attached \ {a}
  /\ UNCHANGED <<req, master, met, revived>>

MasterDataNext ==
  /\ \/ \E p \in Procs : \/ CreateRowRead(p) \/ CreateRowWrite(p) \/ UpdateRowRead(p) \/ UpdateRowWrite(p)
                         \/ MoveRead(p) \/ MoveWrite(p) \/ RemoveRead(p) \/ RemoveWrite(p)
                         \/ DuplicateRead(p) \/ DuplicateWrite(p) \/ AttachRead(p) \/ AttachWrite(p)
     \/ \E n \in MasterRows : DeleteMasterProperty(n) \/ RestoreMasterProperty(n)
     \/ Detach
  /\ UNCHANGED clock

-----------------------------------------------------------------------------
MasterDataTypeOK ==
  /\ master \in [MasterRows -> StoredRows \cup {None}]
  /\ attached \subseteq MasterRows \X Facilities
  /\ met \subseteq MasterRows \X MasterRows /\ revived \subseteq MasterRows

\* A live row has no removed parent (deleteCategory, deleteSubcategory and
\* deleteLocation count before they remove, the creations look first), but for the
\* pairs whose requests overlapped, restored properties with their copies, and what
\* refers to a property type, whose removal counts nothing.
NoOrphans ==
  \A n \in MasterRows : LiveRow(n) /\ n \notin revived =>
    \A m \in master[n].parents : LevelOf[m] = "type" \/ ~master[m].deleted \/ <<n, m>> \in met

\* A facility that is attached to a property, removed or not, is not removed, unless
\* the requests overlapped.
AttachedIsKept == \A a \in attached : master[a[2]].deleted => a \in met

=============================================================================
