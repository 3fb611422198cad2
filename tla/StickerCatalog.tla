---------------------------- MODULE StickerCatalog ----------------------------
(* The stickers that are offered: a panel reads them from Firestore once,   *)
(* shows the first few of the first group in a strip, and hands all groups  *)
(* to the catalog, where a menu says which group is listed.                 *)
(*                                                                          *)
(* Both are collection views: a cell that leaves the screen goes back to    *)
(* the view's pool with its image view as it is and shows another row       *)
(* later, while Kingfisher may still be loading a picture for it.  Only the *)
(* identifier that setImage leaves on the image view tells a late picture   *)
(* from the one the cell waits for.                                         *)
EXTENDS OneShotRead, Integers

CONSTANTS
    Cells,          \* the cells of either collection view
    StripLength,    \* stickers in the strip before the row that opens the catalog
    MaxItems,       \* bound: stickers of one group
    MaxDocuments,   \* bound: documents of the collection
    MaxDownloads,   \* bound: pictures asked for in a behaviour
    NoImage,        \* imageView.image = nil
    MoreIcon        \* the picture of the row that opens the catalog

\* A panel makes one read in its life.
ASSUME OneReadAssumption == \A g, h \in Gets : g = h

ASSUME CatalogAssumption ==
    /\ StripLength \in Nat \ {0}
    /\ {MaxItems, MaxDocuments, MaxDownloads} \subseteq Nat
    /\ NoImage # MoreIcon

VARIABLES
    groups,         \* the panel's sticker: group name and number of items, in order
    listing,        \* the group the catalog lists, 0 when it is not presented
    cells,          \* of each view: the row, the image and the task of its cells
    downloads,      \* pictures on their way
    started,        \* identifiers issued so far
    passed          \* the last picture handed to the screen, and what was tapped

vars == <<readVars, groups, listing, cells, downloads, started, passed>>

Views == {"strip", "catalog"}

\* The titles of the catalog's menu, by the group each stands for.
StickerMenu == <<"Emoji", "Ecommerce", "Label", "Holidays", "Nature">>
GroupNames == {StickerMenu[m] : m \in DOMAIN StickerMenu}

Sticker(group, row) == [group |-> group, row |-> row]
Stickers == [group : GroupNames, row : 1 .. MaxItems]
ASSUME StickersAssumption == Stickers \cap {NoImage, MoreIcon} = {}
Images == Stickers \cup {NoImage, MoreIcon}

\* A cell in the pool: row 0. A task of 0 is no identifier.
Pooled == [row |-> 0, image |-> NoImage, task |-> 0]
IntoPool(cs) == [c \in Cells |-> [cs[c] EXCEPT !.row = 0]]

-----------------------------------------------------------------------------
(* What a view has to show.                                                 *)

\* The strip shows the first group; the row that opens the catalog is there
\* only when the group does not fit.
StripRows ==
    IF groups = <<>> THEN 0
    ELSE IF groups[1].items > StripLength THEN StripLength + 1
    ELSE groups[1].items

NumberOfItems(v) ==
    IF v = "strip" THEN StripRows
    ELSE IF listing = 0 THEN 0
    ELSE groups[listing].items

IsMoreRow(v, row) == v = "strip" /\ row = StripLength + 1

StickerAt(v, row) ==
    Sticker(groups[IF v = "strip" THEN 1 ELSE listing].name, row)

-----------------------------------------------------------------------------
(* The read.                                                                *)

\* Faulty variant of Appended: nature is forgotten.
AppendedFour == <<"Emoji", "Ecommerce", "Label", "Holidays">>

\* Faulty variant of Appended: nature is appended before the holidays.
AppendedSwapped == <<"Emoji", "Ecommerce", "Label", "Nature", "Holidays">>

\* The groups of one document in the order in which they are appended.
Appended == <<"Emoji", "Ecommerce", "Label", "Holidays", "Nature">>

\* The groups of all documents.  All but the first group of a document are
\* given as many items as each other.
GroupsOf(documents, general, others) ==
    LET n == Len(Appended)
    IN  [i \in 1 .. n * documents |->
            [name |-> Appended[((i - 1) % n) + 1],
             items |-> IF (i - 1) % n = 0 THEN general ELSE others]]

\* The panel is made and asks for the stickers.
ShowTools ==
    /\ \E g \in Gets : Ask(g)
    /\ UNCHANGED <<groups, listing, cells, downloads, started, passed>>

StickersArrive(documents, general, others) ==
    /\ \E g \in Gets : Answer(g, "documents")
    /\ groups' = GroupsOf(documents, general, others)
    /\ cells' = [cells EXCEPT !["strip"] = IntoPool(@)]
    /\ UNCHANGED <<listing, downloads, started, passed>>

\* An error is printed and the strip stays empty.
StickersFail ==
    /\ \E g \in Gets : Answer(g, "error")
    /\ UNCHANGED <<groups, listing, cells, downloads, started, passed>>

-----------------------------------------------------------------------------
(* The cells.                                                               *)

IsShown(v, row) == \E c \in Cells : cells[v][c].row = row

\* kf.setImage: the old picture goes, the download gets an identifier.
SetImage(v, c, row) ==
    /\ started < MaxDownloads
    /\ started' = started + 1
    /\ cells' = [cells EXCEPT ![v][c] =
                    [row |-> row, image |-> NoImage, task |-> started']]
    /\ downloads' = downloads \cup
        {[view |-> v, cell |-> c, id |-> started', sticker |-> StickerAt(v, row)]}

\* The icon is assigned and the identifier stays as it was.
SetMoreIcon(v, c, row) ==
    /\ cells' = [cells EXCEPT ![v][c].row = row, ![v][c].image = MoreIcon]
    /\ UNCHANGED <<downloads, started>>

\* cellForItemAt: a cell is taken from the pool for a row that comes into sight.
CellForItem(v, c, row) ==
    /\ cells[v][c].row = 0
    /\ row \in 1 .. NumberOfItems(v)
    /\ ~IsShown(v, row)
    /\ IF IsMoreRow(v, row) THEN SetMoreIcon(v, c, row) ELSE SetImage(v, c, row)
    /\ UNCHANGED <<readVars, groups, listing, passed>>

\* The row is scrolled out of sight.
EndDisplaying(v, c) ==
    /\ cells[v][c].row # 0
    /\ cells' = [cells EXCEPT ![v][c].row = 0]
    /\ UNCHANGED <<readVars, groups, listing, downloads, started, passed>>

\* Faulty variant of IsCurrent: the identifier is not compared.
IsAnyTask(d) == TRUE

IsCurrent(d) == cells[d.view][d.cell].task = d.id

\* A picture is there, or could not be had: that clears nothing and shows nothing.
\* A URL that is no URL counts as a picture that could not be had.
DownloadEnds(d, succeeded) ==
    /\ d \in downloads
    /\ downloads' = downloads \ {d}
    /\ IF IsCurrent(d)
       THEN cells' = [cells EXCEPT
                ![d.view][d.cell].task = 0,
                ![d.view][d.cell].image = IF succeeded THEN d.sticker ELSE @]
       ELSE UNCHANGED cells
    /\ UNCHANGED <<readVars, groups, listing, started, passed>>

-----------------------------------------------------------------------------
(* Taps.  The catalog covers the strip.                                     *)

\* The catalog takes the groups and lists the first.
SelectMoreSticker ==
    /\ listing = 0
    /\ IsShown("strip", StripLength + 1)
    /\ listing' = 1
    /\ UNCHANGED <<readVars, groups, cells, downloads, started, passed>>

\* Dismissing the catalog: its cells go with it, and a picture that is still on
\* its way to one of them is shown nowhere.
CloseCatalog ==
    /\ listing' = 0
    /\ cells' = [cells EXCEPT !["catalog"] = [c \in Cells |-> Pooled]]
    /\ downloads' = {d \in downloads : d.view = "strip"}

Passed(v, c) ==
    [image |-> cells[v][c].image,
     menu |-> IF v = "strip" THEN 1 ELSE listing,
     row |-> cells[v][c].row]

SelectMenuRow(m) ==
    /\ listing # 0
    /\ m \in DOMAIN StickerMenu
    /\ listing' = m
    /\ cells' = [cells EXCEPT !["catalog"] = IntoPool(@)]
    /\ UNCHANGED <<readVars, groups, downloads, started, passed>>

\* A sticker of the strip goes to the frame.
SelectGeneralSticker(c) ==
    /\ listing = 0
    /\ cells["strip"][c].row \in 1 .. StripLength
    /\ passed' = Passed("strip", c)
    /\ UNCHANGED <<readVars, groups, listing, cells, downloads, started>>

\* A sticker of the catalog goes to the screen, and the catalog goes.
SelectSticker(c) ==
    /\ listing # 0
    /\ cells["catalog"][c].row # 0
    /\ passed' = Passed("catalog", c)
    /\ CloseCatalog
    /\ UNCHANGED <<readVars, groups, started>>

\* A tap beside the catalog, or dragging it down.
DismissCatalog ==
    /\ listing # 0
    /\ CloseCatalog
    /\ UNCHANGED <<readVars, groups, started, passed>>

-----------------------------------------------------------------------------
Init ==
    /\ ReadInit
    /\ groups = <<>>
    /\ listing = 0
    /\ cells = [v \in Views |-> [c \in Cells |-> Pooled]]
    /\ downloads = {}
    /\ started = 0
    /\ passed = [image |-> NoImage, menu |-> 1, row |-> 0]

Next ==
    \/ ShowTools
    \/ \E documents \in 0 .. MaxDocuments, general, others \in 0 .. MaxItems :
            StickersArrive(documents, general, others)
    \/ StickersFail
    \/ \E v \in Views, c \in Cells, row \in 1 .. MaxItems : CellForItem(v, c, row)
    \/ \E v \in Views, c \in Cells : EndDisplaying(v, c)
    \/ \E d \in downloads, succeeded \in BOOLEAN : DownloadEnds(d, succeeded)
    \/ SelectMoreSticker
    \/ \E m \in DOMAIN StickerMenu : SelectMenuRow(m)
    \/ \E c \in Cells : SelectGeneralSticker(c) \/ SelectSticker(c)
    \/ DismissCatalog

Spec == Init /\ [][Next]_vars

-----------------------------------------------------------------------------
(* Properties.                                                              *)

Downloads == [view : Views, cell : Cells, id : 1 .. MaxDownloads, sticker : Stickers]
CellStates == [row : 0 .. MaxItems, image : Images, task : 0 .. MaxDownloads]

\* Every variable keeps its type; a catalog that is presented has a group for
\* each row of its menu, so that neither sticker.first nor the menu's index
\* can miss.
TypeOK ==
    /\ groups \in Seq([name : GroupNames, items : 0 .. MaxItems])
    /\ listing \in {0} \cup DOMAIN StickerMenu
    /\ listing # 0 => Len(StickerMenu) <= Len(groups)
    /\ cells \in [Views -> [Cells -> CellStates]]
    /\ downloads \subseteq Downloads
    /\ started \in 0 .. MaxDownloads
    /\ passed \in [image : Images, menu : DOMAIN StickerMenu, row : 0 .. MaxItems]

\* However fast the user scrolls and however late pictures arrive, a cell in
\* sight shows the sticker of the row it stands for, or nothing yet.  The row
\* that opens the catalog is not promised that: its icon leaves the identifier
\* of the row before in place.
CellShowsItsRow ==
    \A v \in Views, c \in Cells :
        LET row == cells[v][c].row
        IN  row # 0 /\ ~IsMoreRow(v, row) =>
                cells[v][c].image \in {NoImage, StickerAt(v, row)}

\* What a tap puts on the canvas is the sticker of the row that was tapped, of
\* the group that the menu's title names, or a picture that is not there yet.
PassesWhatWasTapped ==
    passed.image \in {NoImage, Sticker(StickerMenu[passed.menu], passed.row)}

=============================================================================
