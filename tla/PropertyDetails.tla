-------------------------- MODULE PropertyDetails --------------------------
(***************************************************************************)
(* The rows that hang on a property of src/modules/property: its one-row   *)
(* details and extras, its media with their cover and order, its documents *)
(* with their versions.  The property exists throughout (its deletion is   *)
(* in Listings).  A transaction reads its snapshot at its first statement, *)
(* so that a read after a lock is no newer than one before it.             *)
(*                                                                         *)
(* A row of details has many columns, and the conditions on it each relate *)
(* two of them: x and y stand for one such pair.                           *)
(***************************************************************************)
EXTENDS Requests, Sequences

CONSTANTS
  Items,         \* media or rooms of the property
  MaxVersions    \* bound: versions of the document

Types == {"IMAGE", "VIDEO"}
MediaRow == [type : Types, cover : BOOLEAN, deleted : BOOLEAN]

ASSUME PropertyDetailsAssumption ==
  MaxVersions \in Nat \ {0} /\ IsFiniteSet(Items) /\ None \notin MediaRow

VARIABLES
  detail,      \* kind, and the row (x, y) or None
  media,       \* property_media: type, cover (isCover), deleted; or None
  order,       \* sortOrder of the items, and the orders that were committed
  document     \* status, currentVersion, versions (in the order they were created)

detailVars == <<detail, media, order, document>>

-----------------------------------------------------------------------------
(* Rows that a patch is merged into.                                       *)

WholeKinds == {"utilities", "legal", "certificate"}
PatchedKinds == {"specifications", "coordinates", "regions", "building"}

Values == {None, 1, 2}
DetailRows == [x : Values, y : Values]
Patches == UNION {[S -> Values] : S \in SUBSET {"x", "y"}}

\* The conditions between two columns: a backup power's type and capacity,
\* latitude and longitude, a pool and its size go together; verified ownership
\* needs a verified document; a certificate expires after its issue and a
\* renovation follows the building; a city lies in its province (region n of
\* a level lies in region n above it).
ExtrasValid(kind, row) ==
  CASE kind = "utilities" -> (row.x = None) <=> (row.y = None)
    [] kind = "legal"     -> row.x # None => row.y # None
    [] OTHER -> row.x # None /\ row.y # None => row.x <= row.y

DetailsValid(kind, row) ==
  CASE kind \in {"coordinates", "building"} -> (row.x = None) <=> (row.y = None)
    [] kind = "regions" -> row.y # None => row.y = row.x
    [] OTHER -> row.x # None /\ row.y # None => row.x <= row.y

Valid(kind, row) == IF kind \in WholeKinds THEN ExtrasValid(kind, row) ELSE DetailsValid(kind, row)

Merged(patch, row) == [f \in {"x", "y"} |-> IF f \in DOMAIN patch THEN patch[f] ELSE row[f]]

Empty == [x |-> None, y |-> None]

\* The extras' service validates the patch by itself, a missing column as empty
\* (a capacity without a type passes, the type may be stored).
ExtrasRequest(p, patch) ==
  /\ detail.kind \in WholeKinds
  /\ detail.kind = "utilities" /\ "x" \in DOMAIN patch => Valid("utilities", Merged(patch, Empty))
  /\ detail.kind # "utilities" => Valid(detail.kind, Merged(patch, Empty))
  /\ Start(p, [op |-> "upsert", at |-> "read", patch |-> patch, row |-> Empty, found |-> FALSE])
  /\ UNCHANGED <<detail, clock>>

DetailsRequest(p, patch) ==
  /\ detail.kind \in PatchedKinds
  /\ Start(p, [op |-> "upsert", at |-> "read", patch |-> patch, row |-> Empty, found |-> FALSE])
  /\ UNCHANGED <<detail, clock>>

\* The transaction reads the row and validates what the patch makes of it.
PatchRead(p) ==
  LET current == IF detail.row = None THEN Empty ELSE detail.row
  IN  /\ Running(p, "upsert") /\ At(p, "read")
      /\ IF Valid(detail.kind, Merged(req[p].patch, current))
         THEN req' = [req EXCEPT ![p].at = "write", ![p].row = current,
                                 ![p].found = detail.row # None]
         ELSE Done(p)
      /\ UNCHANGED <<detail, clock>>

\* Mutant: the extras too write only the columns of the patch.
WholeRowPatched(p, row) == Merged(req[p].patch, row)

\* The extras write every column of the merged row, as they were read.
WholeRow(p, row) == Merged(req[p].patch, req[p].row)

\* The details write only the columns of the patch; a new row is the merged one.
PatchedRow(p, row) == Merged(req[p].patch, row)

\* A second creation of the row fails on the unique property.
Upsert(p, kind, New(_, _)) ==
  /\ detail.kind = kind
  /\ Running(p, "upsert") /\ At(p, "write")
  /\ detail' = CASE req[p].found /\ detail.row # None -> [detail EXCEPT !.row = New(p, @)]
                 [] ~req[p].found /\ detail.row = None ->
                      [detail EXCEPT !.row = Merged(req[p].patch, Empty)]
                 [] OTHER -> detail
  /\ Done(p)
  /\ UNCHANGED clock

UpsertUtilities(p) == Upsert(p, "utilities", WholeRow)
UpsertLegal(p) == Upsert(p, "legal", WholeRow)
UpdateCertificate(p) == Upsert(p, "certificate", WholeRow)
UpsertSpecifications(p) == Upsert(p, "specifications", PatchedRow)
UpdateCoordinates(p) == Upsert(p, "coordinates", PatchedRow)
UpdateRegions(p) == Upsert(p, "regions", PatchedRow)
UpdateBuilding(p) == Upsert(p, "building", PatchedRow)

\* A deleted certificate keeps its row; nothing reads it again.
DeleteCertificate ==
  /\ detail.kind = "certificate" /\ detail.row # None
  /\ detail' = [detail EXCEPT !.row = None]
  /\ UNCHANGED <<req, clock>>

DetailNext ==
  /\ \/ \E p \in Procs, patch \in Patches : ExtrasRequest(p, patch) \/ DetailsRequest(p, patch)
     \/ \E p \in Procs :
          \/ PatchRead(p)
          \/ UpsertUtilities(p) \/ UpsertLegal(p) \/ UpdateCertificate(p)
          \/ UpsertSpecifications(p) \/ UpdateCoordinates(p) \/ UpdateRegions(p) \/ UpdateBuilding(p)
     \/ DeleteCertificate
  /\ UNCHANGED <<media, order, document>>

-----------------------------------------------------------------------------
(* Media and their cover.                                                  *)

MediaLive(m) == media[m] # None /\ ~media[m].deleted
Covers == {m \in Items : MediaLive(m) /\ media[m].cover}

\* Mutant: the property's row is not locked before the covers are cleared.
LockFreeAlways(p) == TRUE

\* SELECT ... FOR UPDATE on the property: no other request is past it.
LockFree(p) == \A q \in Procs \ {p} : Running(q, "media") => req[q].at # "locked"

\* The rows that another transaction has cleared and not committed.
RowFree(p, m) ==
  \A q \in Procs \ {p} : Running(q, "media") /\ req[q].at = "locked" => m \notin req[q].cleared

MediaRequest(p, m, row, at) ==
  Start(p, [op |-> "media", at |-> at, m |-> m, row |-> row, isNew |-> media[m] = None,
            cleared |-> {}])

\* addMedia: only a cover takes the lock.
AddMedia(p, m, type, cover) ==
  /\ media[m] = None
  /\ \A q \in Procs : Running(q, "media") => req[q].m # m
  /\ cover => type = "IMAGE"
  /\ MediaRequest(p, m, [type |-> type, cover |-> cover, deleted |-> FALSE],
                  IF cover THEN "lock" ELSE "write")
  /\ UNCHANGED <<media, clock>>

\* updateMedia reads the row, merges the patch and validates the whole; a patch
\* that makes a cover has to name the type as well.
UpdateMediaRead(p, m, type, cover) ==
  LET row == [type |-> IF type = None THEN media[m].type ELSE type,
              cover |-> IF cover = None THEN media[m].cover ELSE cover, deleted |-> FALSE]
  IN  /\ MediaLive(m)
      /\ cover = TRUE => type = "IMAGE"
      /\ row.cover => row.type = "IMAGE"
      /\ MediaRequest(p, m, row, IF row.cover THEN "lock" ELSE "write")
      /\ UNCHANGED <<media, clock>>

\* setCover: the row is looked up after the lock, in the snapshot from before it.
SetCoverRead(p, m) ==
  /\ MediaLive(m) /\ media[m].type = "IMAGE"
  /\ MediaRequest(p, m, [type |-> None, cover |-> TRUE, deleted |-> FALSE], "lock")
  /\ UNCHANGED <<media, clock>>

\* The lock, and the covers that updateMany clears (it sees the latest commit).
ClearCovers(p) ==
  /\ Running(p, "media") /\ At(p, "lock") /\ LockFree(p)
  /\ req' = [req EXCEPT ![p].at = "locked", ![p].cleared = Covers \ {req[p].m}]
  /\ UNCHANGED <<media, clock>>

\* The write and the commit: deletedAt stays as it is, setCover leaves the type.
WriteMedia(p) ==
  /\ Running(p, "media") /\ req[p].at \in {"locked", "write"} /\ RowFree(p, req[p].m)
  /\ LET r == req[p]
         written == IF r.isNew THEN r.row
                    ELSE [media[r.m] EXCEPT !.cover = r.row.cover,
                                            !.type = IF r.row.type = None THEN @ ELSE r.row.type]
     IN  media' = [m \in Items |->
                     IF m = r.m THEN written
                     ELSE IF m \in r.cleared THEN [media[m] EXCEPT !.cover = FALSE] ELSE media[m]]
  /\ Done(p)
  /\ UNCHANGED clock

DeleteMedia(p, m) ==
  /\ MediaLive(m) /\ RowFree(p, m)
  /\ media' = [media EXCEPT ![m].deleted = TRUE, ![m].cover = FALSE]
  /\ UNCHANGED <<req, clock>>

MediaNext ==
  /\ \E p \in Procs :
       \/ \E m \in Items, type \in Types, cover \in BOOLEAN : AddMedia(p, m, type, cover)
       \/ \E m \in Items, type \in Types \cup {None}, cover \in {None, TRUE, FALSE} :
            UpdateMediaRead(p, m, type, cover)
       \/ \E m \in Items : SetCoverRead(p, m) \/ DeleteMedia(p, m)
       \/ ClearCovers(p) \/ WriteMedia(p)
  /\ UNCHANGED <<detail, order, document>>

-----------------------------------------------------------------------------
(* The order of media and of rooms.  One transaction updates the items one  *)
(* by one and keeps their rows locked.                                     *)

Orders == {f \in [Items -> 0..(Cardinality(Items) - 1)] : \A i, j \in Items : f[i] = f[j] => i = j}

\* A request to reorder, and how many items it has updated.
Reorders == [op : {"reorder"}, asked : Orders, next : 0..Cardinality(Items)]

ASSUME ReordersAssumption == None \notin Reorders

\* The items in the order asked for, from the first.
ReorderRequest(p, f) ==
  /\ Start(p, [op |-> "reorder", asked |-> f, next |-> 0])
  /\ UNCHANGED <<order, clock>>

NextItem(p) == CHOOSE i \in Items : req[p].asked[i] = req[p].next

\* Mutant: the updates run outside a transaction, each on its own.
OrderRowFreeAlways(p, i) == TRUE

\* The rows that another request has updated and not committed.
OrderRowFree(p, i) ==
  \A q \in Procs \ {p} : Running(q, "reorder") => req[q].asked[i] >= req[q].next

UpdateOrder(p) ==
  /\ Running(p, "reorder") /\ req[p].next < Cardinality(Items)
  /\ OrderRowFree(p, NextItem(p))
  /\ order' = [order EXCEPT !.row[NextItem(p)] = req[p].next]
  /\ req' = [req EXCEPT ![p].next = @ + 1]
  /\ UNCHANGED clock

CommitOrder(p) ==
  /\ Running(p, "reorder") /\ req[p].next = Cardinality(Items)
  /\ order' = [order EXCEPT !.committed = req[p].asked]
  /\ Done(p)
  /\ UNCHANGED clock

\* A victim of a deadlock: what it wrote is undone.
AbortOrder(p) ==
  /\ Running(p, "reorder")
  /\ order' = [order EXCEPT !.row = [i \in Items |-> IF req[p].asked[i] < req[p].next
                                                     THEN order.committed[i] ELSE order.row[i]]]
  /\ Done(p)
  /\ UNCHANGED clock

OrderNext ==
  /\ \E p \in Procs :
       \/ \E f \in Orders : ReorderRequest(p, f)
       \/ UpdateOrder(p) \/ CommitOrder(p) \/ AbortOrder(p)
  /\ UNCHANGED <<detail, media, document>>

-----------------------------------------------------------------------------
(* A document and its versions.                                            *)

DocumentStatuses == {"ACTIVE", "ARCHIVED", "DELETED"}

DocumentUnchanged == UNCHANGED <<document, clock>>

CreateVersionRead(p) ==
  /\ document.status # "DELETED" /\ document.currentVersion < MaxVersions
  /\ Start(p, [op |-> "createVersion", version |-> document.currentVersion + 1])
  /\ DocumentUnchanged

\* Mutant: no unique key on the document and the version.
VersionFreeAlways(v) == TRUE

VersionFree(v) == \A i \in DOMAIN document.versions : document.versions[i] # v

CreateVersionWrite(p) ==
  /\ Running(p, "createVersion")
  /\ IF VersionFree(req[p].version)
     THEN document' = [document EXCEPT !.versions = Append(@, req[p].version),
                                       !.currentVersion = req[p].version]
     ELSE UNCHANGED document
  /\ Done(p)
  /\ UNCHANGED clock

UpdateDocumentRead(p, status) ==
  /\ document.status # "DELETED"
  /\ Start(p, [op |-> "updateDocument", status |-> status])
  /\ DocumentUnchanged

UpdateDocumentWrite(p) ==
  /\ Running(p, "updateDocument")
  /\ document' = [document EXCEPT !.status = req[p].status]
  /\ Done(p)
  /\ UNCHANGED clock

DeleteDocument ==
  /\ document.status # "DELETED"
  /\ document' = [document EXCEPT !.status = "DELETED"]
  /\ UNCHANGED <<req, clock>>

DocumentNext ==
  /\ \/ \E p \in Procs :
          \/ CreateVersionRead(p) \/ CreateVersionWrite(p) \/ UpdateDocumentWrite(p)
          \/ \E s \in DocumentStatuses : UpdateDocumentRead(p, s)
     \/ DeleteDocument
  /\ UNCHANGED <<detail, media, order>>

-----------------------------------------------------------------------------
PropertyDetailsInit ==
  /\ detail \in [kind : IF focus = "property row" THEN WholeKinds \cup PatchedKinds ELSE {None},
                 row : {None}]
  /\ media = [m \in Items |-> None]
  /\ order = LET f == [i \in Items |-> 0] IN [row |-> f, committed |-> f]
  /\ document = [status |-> "ACTIVE", currentVersion |-> 1, versions |-> <<1>>]

PropertyDetailsNext ==
  \/ focus = "property row" /\ DetailNext
  \/ focus = "property media" /\ MediaNext
  \/ focus = "property order" /\ OrderNext
  \/ focus = "property document" /\ DocumentNext

-----------------------------------------------------------------------------
(* Properties.                                                             *)

\* The rows have the types of the schema.
PropertyDetailsTypeOK ==
  /\ detail.row \in DetailRows \cup {None}
  /\ media \in [Items -> MediaRow \cup {None}]
  /\ document.currentVersion \in 1..MaxVersions

\* Whatever requests overlap, a row of extras satisfies the conditions that
\* validateUtilityInvariants, validateLegalInvariants and
\* validateCertificateDates put on two of its columns: each write stores a row
\* that was validated as a whole (prisma-property-extras.repository.ts).
ExtrasStayValid ==
  detail.kind \in WholeKinds /\ detail.row # None => Valid(detail.kind, detail.row)

\* At most one medium of a property that is not deleted is its cover, although
\* the row that a request writes may be long out of date (addMedia, updateMedia,
\* setCover).
OneCover == \A m, n \in Covers : m = n

\* When no reorder is in progress the items stand in the order that the last
\* committed one asked for: two overlapping reorders never leave a mixture
\* (reorderMedia, reorderRooms).
OrderIsAsked == (\A p \in Procs : ~Running(p, "reorder")) => order.row = order.committed

\* The versions of a document are 1 to currentVersion, each created once: two
\* overlapping uploads never share a number nor leave the pointer behind
\* (createDocumentVersion).
VersionsContiguous ==
  /\ document.currentVersion = Len(document.versions)
  /\ \A i \in DOMAIN document.versions : document.versions[i] = i
=============================================================================
