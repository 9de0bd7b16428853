-------------------------- MODULE ContentResources --------------------------
(***************************************************************************)
(* The content that is not an article: a menu, as the resource with the    *)
(* most to it, the likes of an article and its comments.  The row of a     *)
(* menu and its items are written in two transactions; the likes and the   *)
(* comments are counted after they are stored.  A request may stop         *)
(* anywhere.                                                               *)
(***************************************************************************)
EXTENDS Requests, Sequences

CONSTANTS
  Readers,    \* users that like and comment
  Comments,   \* comments that can be made
  MaxSaves    \* bound: saves of the menu

MenuRow == [version : 1 .. MaxSaves, deleted : BOOLEAN, save : 1 .. MaxSaves]
CommentRow ==
  [user : Readers, createdAt : 0 .. MaxClock, deleted : BOOLEAN, excused : BOOLEAN,
   status : {"PENDING", "APPROVED", "REJECTED", "SPAM", "DELETED"}]

\* What a save of a menu and a request to comment carry.
SaveItems == [op : {"items"}, save : 1 .. MaxSaves]
CommentRequest == [op : {"comment"}, at : {"create", "count"}, user : Readers, crossed : BOOLEAN]

ASSUME ContentResourcesAssumption ==
  MaxSaves \in Nat \ {0} /\ None \notin MenuRow \cup CommentRow \cup SaveItems \cup CommentRequest

VARIABLES
  menu,          \* content_menus: version, deleted; save: the last that brought items
  menuItems,     \* content_menu_items in the order of their ids, with the save of each
  loose,         \* history: the orders of the items were sent by the client, or repeated
  mixed,         \* history: saves overlapped, or one stopped or was refused half-way
  likes,         \* content_article_likes: who likes the article
  likeCount,     \* content_article_statistics
  likesSettled,  \* the last toggle crossed no other and has stored its count
  comment,       \* content_comments; excused: asked for beside another, or once deleted
  commentCount   \* count in the statistics, and comments whose request stopped

menuVars == <<menu, menuItems, loose, mixed>>
likeVars == <<likes, likeCount, likesSettled>>
commentVars == <<comment, commentCount>>
resourceVars == <<menuVars, likeVars, commentVars>>

ContentResourcesInit ==
  /\ menu = None /\ menuItems = <<>> /\ loose = FALSE /\ mixed = FALSE
  /\ likes = {} /\ likeCount = 0 /\ likesSettled = TRUE
  /\ comment = [c \in Comments |-> None] /\ commentCount = [counted |-> 0, lost |-> 0]

-----------------------------------------------------------------------------
(* Menus.                                                                  *)
Saving == {p \in Procs : Running(p, "items")}

NewMenu(save) == [version |-> 1, deleted |-> FALSE, save |-> save]

\* create: the row, in the statement of its own.
CreateMenu(p) ==
  /\ menu = None
  /\ menu' = NewMenu(1)
  /\ Start(p, [op |-> "items", save |-> 1])
  /\ UNCHANGED <<menuItems, loose, mixed, likeVars, commentVars>>

\* update: the row, by its uuid alone, even if it is deleted.
UpdateMenu(p) ==
  /\ menu # None /\ menu.version < MaxSaves
  /\ menu' = [menu EXCEPT !.version = @ + 1, !.save = menu.version + 1]
  /\ Start(p, [op |-> "items", save |-> menu.version + 1])
  /\ mixed' = (mixed \/ Saving # {})
  /\ UNCHANGED <<menuItems, loose, likeVars, commentVars>>

RenameMenu ==
  /\ menu # None /\ menu.version < MaxSaves
  /\ menu' = [menu EXCEPT !.version = @ + 1]
  /\ UNCHANGED <<req, menuItems, loose, mixed, likeVars, commentVars>>

\* Mutant: the items of before are kept.
ItemsAdded(save, orders) == menuItems \o [i \in DOMAIN orders |-> [save |-> save, order |-> orders[i]]]

ItemsOf(save, orders) == [i \in DOMAIN orders |-> [save |-> save, order |-> orders[i]]]

\* replaceMenuItems: one transaction.  An item stands where it was sent, unless it
\* brings an order of its own; one that is not valid undoes all.
ReplaceMenuItems(p) ==
  /\ Running(p, "items") /\ Done(p)
  /\ \/ /\ \E n \in 0 .. 2 :
             \/ menuItems' = ItemsOf(req[p].save, [i \in 1 .. n |-> i - 1]) /\ loose' = FALSE
             \/ menuItems' = ItemsOf(req[p].save, [i \in 1 .. n |-> 1]) /\ loose' = TRUE
        /\ UNCHANGED mixed
     \/ mixed' = TRUE /\ UNCHANGED <<menuItems, loose>>
  /\ UNCHANGED <<menu, likeVars, commentVars>>

\* softDelete, where the row is not deleted; restore, by uuid.
DeleteMenu ==
  /\ menu # None /\ ~menu.deleted /\ menu.version < MaxSaves
  /\ menu' = [menu EXCEPT !.deleted = TRUE, !.version = @ + 1]
  /\ UNCHANGED <<req, menuItems, loose, mixed, likeVars, commentVars>>

RestoreMenu ==
  /\ menu # None /\ menu.version < MaxSaves
  /\ menu' = [menu EXCEPT !.deleted = FALSE, !.version = @ + 1]
  /\ UNCHANGED <<req, menuItems, loose, mixed, likeVars, commentVars>>

\* Mutant: the list may leave items out.
ReorderAcceptedShort(list) == Len(list) <= Len(menuItems)

\* reorderMenu: as many uuids as items, all of them known; they may repeat.
ReorderAccepted(list) == Len(list) = Len(menuItems)

ReorderMenu ==
  /\ menu # None
  /\ \E n \in 0 .. 2 : \E list \in [1 .. n -> DOMAIN menuItems] :
       LET lastOf(i) == {k \in DOMAIN list : list[k] = i /\ \A l \in DOMAIN list : list[l] = i => l <= k}
       IN  /\ ReorderAccepted(list)
           /\ menuItems' = [i \in DOMAIN menuItems |->
                IF lastOf(i) = {} THEN menuItems[i]
                ELSE [menuItems[i] EXCEPT !.order = (CHOOSE k \in lastOf(i) : TRUE) - 1]]
           /\ loose' = \E k, l \in DOMAIN list : k # l /\ list[k] = list[l]
  /\ UNCHANGED <<req, menu, mixed, likeVars, commentVars>>

-----------------------------------------------------------------------------
(* Likes; bookmarks are toggled in the same way.                           *)
Toggling(q) == Running(q, "toggle")

\* toggle looks for the like of the user.  Its count is followed if no other toggle
\* crosses it (alone).
ToggleRead(p) ==
  /\ req[p] = None
  /\ \E u \in Readers :
       LET run == [op |-> "toggle", at |-> "write", user |-> u, existing |-> u \in likes,
                   count |-> 0, alone |-> ~\E q \in Procs : Toggling(q)]
       IN  req' = [q \in Procs |-> IF q = p THEN run
                                  ELSE IF Toggling(q) THEN [req[q] EXCEPT !.alone = FALSE] ELSE req[q]]
  /\ UNCHANGED <<menuVars, likeVars, commentVars>>

\* A like that is there already (the unique key), or is gone, fails the request.
ToggleWrite(p) ==
  LET r == req[p]
  IN  /\ Toggling(p) /\ At(p, "write")
      /\ IF r.existing = (r.user \in likes)
         THEN /\ likes' = IF r.existing THEN likes \ {r.user} ELSE likes \cup {r.user}
              /\ likesSettled' = FALSE /\ Goto(p, "count")
         ELSE Done(p) /\ UNCHANGED <<likes, likesSettled>>
      /\ UNCHANGED <<menuVars, likeCount, commentVars>>

CountLikes(p) ==
  /\ Toggling(p) /\ At(p, "count")
  /\ req' = [req EXCEPT ![p].at = "store", ![p].count = Cardinality(likes)]
  /\ UNCHANGED <<menuVars, likeVars, commentVars>>

\* Mutant: the count changes by one, from what the statistics say.
CountStoredByOne(r) == IF r.existing THEN likeCount - 1 ELSE likeCount + 1

CountStored(r) == r.count

StoreLikeCount(p) ==
  /\ Toggling(p) /\ At(p, "store")
  /\ likeCount' = CountStored(req[p])
  /\ likesSettled' = req[p].alone
  /\ Done(p)
  /\ UNCHANGED <<menuVars, likes, commentVars>>

-----------------------------------------------------------------------------
(* Comments.                                                               *)

\* Mutant: the time of the last comment is not looked at.
CommentAllowedAlways(u) == TRUE

\* One comment of a user in a minute, of those that are not deleted.
CommentAllowed(u) ==
  ~\E c \in Comments : /\ comment[c] # None /\ ~comment[c].deleted
                       /\ comment[c].user = u /\ comment[c].createdAt = clock

Commenting(q) == Running(q, "comment")

\* comment looks for the last one of the user; crossed: other requests to comment are
\* going on at the same time.
CommentRead(p) ==
  /\ req[p] = None
  /\ \E u \in Readers :
       LET run == [op |-> "comment", at |-> "create", user |-> u,
                   crossed |-> \E q \in Procs : Commenting(q)]
       IN  /\ CommentAllowed(u)
           /\ req' = [q \in Procs |-> IF q = p THEN run
                     ELSE IF Commenting(q) THEN [req[q] EXCEPT !.crossed = TRUE] ELSE req[q]]
  /\ UNCHANGED resourceVars

CreateComment(p) ==
  /\ Commenting(p) /\ At(p, "create")
  /\ \E c \in Comments :
       /\ comment[c] = None
       /\ comment' = [comment EXCEPT ![c] =
            [user |-> req[p].user, createdAt |-> clock, status |-> "PENDING", deleted |-> FALSE,
             excused |-> req[p].crossed]]
  /\ Goto(p, "count")
  /\ UNCHANGED <<menuVars, likeVars, commentCount>>

CountComment(p) ==
  /\ Commenting(p) /\ At(p, "count")
  /\ commentCount' = [commentCount EXCEPT !.counted = @ + 1]
  /\ Done(p)
  /\ UNCHANGED <<menuVars, likeVars, comment>>

\* moderate: any status to any; the row is deleted in the status DELETED alone.
Moderate ==
  /\ \E c \in Comments, status \in {"APPROVED", "REJECTED", "SPAM", "DELETED"} :
       /\ comment[c] # None
       /\ comment' = [comment EXCEPT ![c].status = status, ![c].deleted = (status = "DELETED"),
                                    ![c].excused = @ \/ status = "DELETED"]
  /\ UNCHANGED <<req, menuVars, likeVars, commentCount>>

RequestStops(p) ==
  /\ req[p] # None /\ Done(p)
  /\ mixed' = (mixed \/ p \in Saving)
  /\ commentCount' = IF Commenting(p) /\ req[p].at = "count"
                     THEN [commentCount EXCEPT !.lost = @ + 1] ELSE commentCount
  /\ UNCHANGED <<menu, menuItems, loose, likeVars, comment>>

ContentResourcesNext ==
  \/ /\ focus = "content menus"
     /\ \/ RenameMenu \/ DeleteMenu \/ RestoreMenu \/ ReorderMenu
        \/ \E p \in Procs : CreateMenu(p) \/ UpdateMenu(p) \/ ReplaceMenuItems(p) \/ RequestStops(p)
     /\ UNCHANGED clock
  \/ /\ focus = "content likes"
     /\ \E p \in Procs : \/ ToggleRead(p) \/ ToggleWrite(p) \/ CountLikes(p) \/ StoreLikeCount(p)
                         \/ RequestStops(p)
     /\ UNCHANGED clock
  \/ /\ focus = "content comments"
     /\ \/ Tick /\ UNCHANGED resourceVars
        \/ /\ \/ Moderate
              \/ \E p \in Procs : CommentRead(p) \/ CreateComment(p) \/ CountComment(p) \/ RequestStops(p)
           /\ UNCHANGED clock

-----------------------------------------------------------------------------
ContentResourcesTypeOK ==
  /\ menu \in MenuRow \cup {None} /\ (menu # None => menu.save <= menu.version)
  /\ likes \subseteq Readers /\ likeCount \in 0 .. Cardinality(Readers)
  /\ comment \in [Comments -> CommentRow \cup {None}]

\* The items of a menu are those of its last save (replaceMenuItems), as long as no
\* two saves overlap and none stops or is refused after its row is written.
ItemsOfLastSave ==
  ~mixed /\ Saving = {} => \A i \in DOMAIN menuItems : menuItems[i].save = menu.save

\* The items stand at the places 0, 1, ... (replaceMenuItems, reorderMenu), unless the
\* client sends orders of its own or a list that repeats an item.
ItemsInPlaces ==
  ~loose => {menuItems[i].order : i \in DOMAIN menuItems} = {i - 1 : i \in DOMAIN menuItems}

\* A toggle that no other crosses leaves the count of the likes there are, whatever
\* the count was before (toggle).
LikesCounted == likesSettled => likeCount = Cardinality(likes)

\* Every comment whose request did not stop is counted (comment).
CommentsCounted ==
  commentCount.counted + commentCount.lost
    + Cardinality({p \in Procs : Commenting(p) /\ req[p].at = "count"})
  = Cardinality({c \in Comments : comment[c] # None})

\* Two comments of a user in one minute were asked for at the same time, or one of
\* them has been deleted in between (comment, moderate).
CommentsSpaced ==
  \A c, d \in Comments :
    /\ c # d /\ comment[c] # None /\ comment[d] # None
    /\ comment[c].user = comment[d].user /\ comment[c].createdAt = comment[d].createdAt
    => comment[c].excused \/ comment[d].excused
=============================================================================
