-------------------------- MODULE StickerCatalogProofs --------------------------
(* Proofs about StickerCatalog for any cells, groups and downloads: types,  *)
(* what a cell in sight shows, and what a tap hands to the canvas.          *)
EXTENDS StickerCatalog, TLAPS

ReadTypes ==
    /\ asked \in SUBSET Gets
    /\ answers \in [Gets -> Seq(Results)]

\* Groups are there only after the panel's one read was answered, and then for
\* every row of the menu: no later answer can exchange them beneath a catalog.
GroupsAreWhole ==
    groups # <<>> =>
        /\ Len(StickerMenu) <= Len(groups)
        /\ \A m \in DOMAIN StickerMenu : groups[m].name = StickerMenu[m]
        /\ \E g \in Gets : answers[g] # <<>>

\* A catalog that is not presented has no cell in sight.
ClosedCatalogIsEmpty ==
    listing = 0 => \A c \in Cells : cells["catalog"][c].row = 0

RowsAreOffered ==
    \A v \in Views, c \in Cells : cells[v][c].row \in 0 .. NumberOfItems(v)

\* Identifiers grow, so a new one differs from that of any picture on its way;
\* a picture that a cell in sight waits for is the one of its row.
IdsAreIssued ==
    /\ \A v \in Views, c \in Cells : cells[v][c].task <= started
    /\ \A d \in downloads : d.id <= started
AwaitsItsRow(d) ==
    LET row == cells[d.view][d.cell].row
    IN  row # 0 /\ ~IsMoreRow(d.view, row) /\ IsCurrent(d) =>
            d.sticker = StickerAt(d.view, row)

CatalogInv ==
    /\ TypeOK
    /\ ReadTypes
    /\ GroupsAreWhole
    /\ ClosedCatalogIsEmpty
    /\ RowsAreOffered
    /\ IdsAreIssued
    /\ \A d \in downloads : AwaitsItsRow(d)
    /\ CellShowsItsRow
    /\ PassesWhatWasTapped

\* The menu has five rows and all of them are names of groups.
LEMMA MenuFacts ==
    /\ DOMAIN StickerMenu = 1 .. 5
    /\ Len(StickerMenu) = 5
    /\ \A m \in 1 .. 5 : StickerMenu[m] \in GroupNames
BY DEF StickerMenu, GroupNames

LEMMA InitCatalogInv == Init => CatalogInv
<1> SUFFICES ASSUME Init PROVE CatalogInv
  OBVIOUS
<1>1. TypeOK /\ ReadTypes
  BY MenuFacts, CatalogAssumption
     DEF Init, ReadInit, TypeOK, ReadTypes, CellStates, Pooled, Images, Downloads
<1>2. \A v \in Views, c \in Cells : cells[v][c] = Pooled
  BY DEF Init
<1>3. \A v \in Views : NumberOfItems(v) = 0
  BY DEF Init, NumberOfItems, StripRows
<1> QED
  BY <1>1, <1>2, <1>3
     DEF Init, CatalogInv, GroupsAreWhole, ClosedCatalogIsEmpty, RowsAreOffered, IdsAreIssued,
         CellShowsItsRow, PassesWhatWasTapped, Pooled, Views

\* A view has no more rows than its group has stickers, and the sticker of each
\* row is a sticker.
LEMMA RowFacts ==
    ASSUME CatalogInv, NEW v \in Views
    PROVE  /\ NumberOfItems(v) \in 0 .. MaxItems
           /\ NumberOfItems(v) # 0 => groups # <<>>
           /\ \A row \in 1 .. NumberOfItems(v) : StickerAt(v, row) \in Stickers
<1>1. groups # <<>> => 1 \in DOMAIN groups
  BY DEF CatalogInv, TypeOK
<1>2. listing # 0 => listing \in DOMAIN groups
  BY MenuFacts DEF CatalogInv, TypeOK
<1>3. \A i \in DOMAIN groups : groups[i] \in [name : GroupNames, items : 0 .. MaxItems]
  <2> DEFINE G == [name : GroupNames, items : 0 .. MaxItems]
  <2>1. groups \in Seq(G)
    BY DEF CatalogInv, TypeOK
  <2> HIDE DEF G
  <2>2. \A i \in DOMAIN groups : groups[i] \in G
    BY <2>1
  <2> QED
    BY <2>2 DEF G
<1>4. NumberOfItems(v) \in 0 .. MaxItems /\ (NumberOfItems(v) # 0 => groups # <<>>)
  BY <1>1, <1>2, <1>3, CatalogAssumption DEF NumberOfItems, StripRows, CatalogInv, TypeOK
<1>5. ASSUME NEW row \in 1 .. NumberOfItems(v)
      PROVE  StickerAt(v, row) \in Stickers
  BY <1>1, <1>2, <1>3, <1>4, <1>5, CatalogAssumption
     DEF StickerAt, Sticker, Stickers, NumberOfItems, StripRows
<1> QED
  BY <1>4, <1>5

-----------------------------------------------------------------------------
(* The read.                                                                *)

LEMMA ShowToolsKeeps == CatalogInv /\ ShowTools => CatalogInv'
BY DEF ShowTools, Ask, CatalogInv, TypeOK, ReadTypes, GroupsAreWhole, ClosedCatalogIsEmpty,
       RowsAreOffered, NumberOfItems, StripRows, IdsAreIssued, AwaitsItsRow, IsMoreRow, IsCurrent,
       StickerAt, CellShowsItsRow, PassesWhatWasTapped

LEMMA StickersFailKeeps == CatalogInv /\ StickersFail => CatalogInv'
<1> SUFFICES ASSUME CatalogInv, StickersFail PROVE CatalogInv'
  OBVIOUS
<1>1. PICK g \in Gets : Answer(g, "error")
  BY DEF StickersFail
<1>2. answers' \in [Gets -> Seq(Results)] /\ asked' \in SUBSET Gets
  BY <1>1 DEF Answer, CatalogInv, ReadTypes, Results
<1>3. \A h \in Gets : answers[h] # <<>> => answers'[h] # <<>>
  BY <1>1 DEF Answer, CatalogInv, ReadTypes
<1> QED
  BY <1>2, <1>3
     DEF StickersFail, CatalogInv, TypeOK, ReadTypes, GroupsAreWhole, ClosedCatalogIsEmpty,
         RowsAreOffered, NumberOfItems, StripRows, IdsAreIssued, AwaitsItsRow, IsMoreRow,
         IsCurrent, StickerAt, CellShowsItsRow, PassesWhatWasTapped

\* Whatever documents there are, the first groups are those of the menu.
LEMMA GroupsOfFacts ==
    ASSUME NEW documents \in Nat, NEW general \in 0 .. MaxItems, NEW others \in 0 .. MaxItems
    PROVE  /\ GroupsOf(documents, general, others)
                \in Seq([name : GroupNames, items : 0 .. MaxItems])
           /\ GroupsOf(documents, general, others) # <<>> =>
                /\ 5 <= Len(GroupsOf(documents, general, others))
                /\ \A m \in 1 .. 5 :
                        GroupsOf(documents, general, others)[m].name = StickerMenu[m]
<1> DEFINE G == GroupsOf(documents, general, others)
<1>1. G = [i \in 1 .. 5 * documents |->
              [name |-> Appended[((i - 1) % 5) + 1],
               items |-> IF (i - 1) % 5 = 0 THEN general ELSE others]]
  BY DEF GroupsOf, Appended
<1>2. \A i \in 1 .. 5 * documents : ((i - 1) % 5) + 1 \in 1 .. 5
  OBVIOUS
<1>3. \A k \in 1 .. 5 : Appended[k] = StickerMenu[k] /\ Appended[k] \in GroupNames
  BY MenuFacts DEF Appended, StickerMenu
<1>4. \A i \in 1 .. 5 * documents : G[i] \in [name : GroupNames, items : 0 .. MaxItems]
  BY <1>1, <1>2, <1>3
<1>5. 5 * documents \in Nat /\ DOMAIN G = 1 .. 5 * documents
  BY <1>1
<1>6. G \in Seq([name : GroupNames, items : 0 .. MaxItems]) /\ Len(G) = 5 * documents
  <2> DEFINE S == [name : GroupNames, items : 0 .. MaxItems]
  <2>1. G \in [1 .. 5 * documents -> S]
    BY <1>1, <1>4, <1>5
  <2> HIDE DEF G, S
  <2>2. G \in Seq(S) /\ Len(G) = 5 * documents
    BY <2>1, <1>5
  <2> QED
    BY <2>2 DEF S
<1>7. ASSUME G # <<>>
      PROVE  5 <= Len(G) /\ \A m \in 1 .. 5 : G[m].name = StickerMenu[m]
  <2>1. documents # 0
    BY <1>6, <1>7, <1>5
  <2>2. 5 <= 5 * documents
    BY <2>1
  <2>3. \A m \in 1 .. 5 : ((m - 1) % 5) + 1 = m
    OBVIOUS
  <2> QED
    BY <1>1, <1>3, <1>6, <2>2, <2>3
<1> QED
  BY <1>6, <1>7

\* The strip is reloaded; a catalog cannot be open, as it takes an answered read.
LEMMA StickersArriveKeeps ==
    ASSUME CatalogInv, NEW documents \in 0 .. MaxDocuments, NEW general \in 0 .. MaxItems,
           NEW others \in 0 .. MaxItems, StickersArrive(documents, general, others)
    PROVE  CatalogInv'
<1>1. PICK g \in Gets : Answer(g, "documents")
  BY DEF StickersArrive
<1>2. groups = <<>>
  BY <1>1, OneReadAssumption DEF CatalogInv, GroupsAreWhole, Answer
<1>3. listing = 0
  BY <1>2, MenuFacts DEF CatalogInv, TypeOK
<1>4. \A v \in Views, c \in Cells : cells'[v][c] = [cells[v][c] EXCEPT !.row = 0]
  <2>1. cells \in [Views -> [Cells -> CellStates]]
    BY DEF CatalogInv, TypeOK
  <2>2. \A c \in Cells : cells["catalog"][c].row = 0
    BY <1>3 DEF CatalogInv, ClosedCatalogIsEmpty
  <2>3. \A c \in Cells : cells["catalog"][c] = [cells["catalog"][c] EXCEPT !.row = 0]
    BY <2>1, <2>2 DEF CellStates, Views
  <2> QED
    BY <2>1, <2>3 DEF StickersArrive, IntoPool, Views
<1>5. cells' \in [Views -> [Cells -> CellStates]]
  <2>1. cells \in [Views -> [Cells -> CellStates]]
    BY DEF CatalogInv, TypeOK
  <2>2. \A c \in Cells : [cells["strip"][c] EXCEPT !.row = 0] \in CellStates
    BY <2>1, CatalogAssumption DEF CellStates, Views
  <2> QED
    BY <2>1, <2>2 DEF StickersArrive, IntoPool
<1>6. \A v \in Views, c \in Cells : cells'[v][c].row = 0 /\ cells'[v][c].task = cells[v][c].task
  <2>1. \A v \in Views, c \in Cells : cells[v][c] \in CellStates
    BY DEF CatalogInv, TypeOK
  <2>2. \A x \in CellStates : [x EXCEPT !.row = 0].row = 0 /\ [x EXCEPT !.row = 0].task = x.task
    BY DEF CellStates
  <2>3. ASSUME NEW v \in Views, NEW c \in Cells
        PROVE  cells'[v][c].row = 0 /\ cells'[v][c].task = cells[v][c].task
    <3> DEFINE x == cells[v][c]
    <3>1. x \in CellStates
      BY <2>1
    <3>2. cells'[v][c] = [x EXCEPT !.row = 0]
      BY <1>4
    <3> HIDE DEF x
    <3>3. cells'[v][c].row = 0 /\ cells'[v][c].task = x.task
      BY <3>1, <3>2, <2>2
    <3> QED
      BY <3>3 DEF x
  <2> QED
    BY <2>3
<1>7. documents \in Nat
  BY CatalogAssumption
<1>8. groups' = GroupsOf(documents, general, others)
  BY DEF StickersArrive
<1>9. answers' \in [Gets -> Seq(Results)] /\ asked' \in SUBSET Gets /\ answers'[g] # <<>>
  BY <1>1 DEF Answer, CatalogInv, ReadTypes, Results
<1>10. UNCHANGED <<listing, downloads, started, passed>>
  BY DEF StickersArrive
<1>11. TypeOK' /\ ReadTypes' /\ GroupsAreWhole'
  <2>1. groups' \in Seq([name : GroupNames, items : 0 .. MaxItems])
    BY <1>7, <1>8, GroupsOfFacts
  <2>2. GroupsAreWhole'
    BY <1>7, <1>8, <1>9, GroupsOfFacts, MenuFacts DEF GroupsAreWhole
  <2>3. TypeOK'
    BY <2>1, <1>3, <1>5, <1>10 DEF CatalogInv, TypeOK
  <2> QED
    BY <2>2, <2>3, <1>9 DEF ReadTypes
<1>12. \A v \in Views : NumberOfItems(v)' \in Nat
  <2>1. groups' # <<>> => groups'[1] \in [name : GroupNames, items : 0 .. MaxItems]
    <3> DEFINE S == [name : GroupNames, items : 0 .. MaxItems]
    <3>1. groups' \in Seq(S)
      BY <1>7, <1>8, GroupsOfFacts
    <3> HIDE DEF S
    <3>2. groups' # <<>> => groups'[1] \in S
      BY <3>1
    <3> QED
      BY <3>2 DEF S
  <2> QED
    BY <2>1, <1>3, <1>10, CatalogAssumption DEF NumberOfItems, StripRows
<1>13. RowsAreOffered' /\ IdsAreIssued'
  BY <1>6, <1>10, <1>12 DEF CatalogInv, RowsAreOffered, IdsAreIssued
<1>14. ClosedCatalogIsEmpty' /\ CellShowsItsRow' /\ \A d \in downloads' : AwaitsItsRow(d)'
  BY <1>6, <1>10
     DEF CatalogInv, TypeOK, Downloads, ClosedCatalogIsEmpty, CellShowsItsRow, AwaitsItsRow, Views
<1>15. PassesWhatWasTapped'
  BY <1>10 DEF CatalogInv, PassesWhatWasTapped
<1> QED
  BY <1>11, <1>13, <1>14, <1>15 DEF CatalogInv


-----------------------------------------------------------------------------
(* The cells.                                                               *)

\* The facts that a change of cells alone leaves in place.
LEMMA SameRead ==
    ASSUME CatalogInv, UNCHANGED <<readVars, groups, listing>>
    PROVE  /\ ReadTypes' /\ GroupsAreWhole'
           /\ \A v \in Views : NumberOfItems(v)' = NumberOfItems(v)
           /\ \A v \in Views, row \in 0 .. MaxItems : StickerAt(v, row)' = StickerAt(v, row)
BY DEF CatalogInv, readVars, ReadTypes, GroupsAreWhole, NumberOfItems, StripRows, StickerAt

\* A cell taken for a row: either it waits for that row's picture under a new
\* identifier, or it is the more row, which promises nothing.
LEMMA CellForItemKeeps ==
    ASSUME CatalogInv, NEW v \in Views, NEW c \in Cells, NEW row \in 1 .. MaxItems,
           CellForItem(v, c, row)
    PROVE  CatalogInv'
<1>1. /\ UNCHANGED <<readVars, groups, listing, passed>>
      /\ row \in 1 .. NumberOfItems(v)
  BY DEF CellForItem
<1>2. cells \in [Views -> [Cells -> CellStates]]
  BY DEF CatalogInv, TypeOK
<1>3. StickerAt(v, row) \in Stickers /\ NumberOfItems(v) \in 0 .. MaxItems
  BY <1>1, RowFacts
<1>4. /\ cells' \in [Views -> [Cells -> CellStates]]
      /\ downloads' \subseteq Downloads
      /\ started' \in 0 .. MaxDownloads
  <2>1. CASE IsMoreRow(v, row)
    <3>1. cells' = [cells EXCEPT ![v][c].row = row, ![v][c].image = MoreIcon]
      BY <2>1 DEF CellForItem, SetMoreIcon
    <3>2. cells' \in [Views -> [Cells -> CellStates]]
      BY <3>1, <1>2 DEF CellStates, Images
    <3> QED
      BY <2>1, <3>2 DEF CellForItem, SetMoreIcon, CatalogInv, TypeOK
  <2>2. CASE ~IsMoreRow(v, row)
    <3>1. /\ started' = started + 1
          /\ started < MaxDownloads
          /\ cells' = [cells EXCEPT ![v][c] =
                          [row |-> row, image |-> NoImage, task |-> started']]
          /\ downloads' = downloads \cup {[view |-> v, cell |-> c, id |-> started',
                                           sticker |-> StickerAt(v, row)]}
      BY <2>2 DEF CellForItem, SetImage
    <3>2. started' \in 1 .. MaxDownloads
      BY <3>1, CatalogAssumption DEF CatalogInv, TypeOK
    <3>3. cells' \in [Views -> [Cells -> CellStates]]
      BY <3>1, <3>2, <1>2 DEF CellStates, Images
    <3> QED
      BY <3>1, <3>2, <3>3, <1>3 DEF CatalogInv, TypeOK, Downloads
  <2> QED
    BY <2>1, <2>2
<1>5. /\ cells'[v][c].row = row
      /\ \A w \in Views, b \in Cells : <<w, b>> # <<v, c>> => cells'[w][b] = cells[w][b]
  BY <1>2 DEF CellForItem, SetImage, SetMoreIcon, CellStates
<1>6. TypeOK'
  BY <1>1, <1>4 DEF CatalogInv, TypeOK
<1>7. v = "catalog" => listing # 0
  BY <1>1 DEF NumberOfItems
<1>8. ClosedCatalogIsEmpty'
  BY <1>1, <1>5, <1>7 DEF CatalogInv, ClosedCatalogIsEmpty, Views
<1>9. RowsAreOffered'
  BY <1>1, <1>3, <1>5, SameRead DEF CatalogInv, RowsAreOffered
<1>10. IdsAreIssued'
  <2>1. started' \in Nat /\ started \in Nat /\ started <= started'
    BY CatalogAssumption DEF CellForItem, SetImage, SetMoreIcon, CatalogInv, TypeOK
  <2>2. cells'[v][c].task <= started'
    BY <1>2, <2>1 DEF CellForItem, SetImage, SetMoreIcon, CellStates, CatalogInv, IdsAreIssued
  <2>3. \A w \in Views, b \in Cells : cells[w][b].task \in Nat
    BY <1>2, CatalogAssumption DEF CellStates
  <2>4. \A d \in downloads' : d.id <= started'
    <3>1. \A d \in downloads : d.id <= started /\ d.id \in Nat
      BY CatalogAssumption DEF CatalogInv, IdsAreIssued, TypeOK, Downloads
    <3> QED
      BY <3>1, <2>1 DEF CellForItem, SetImage, SetMoreIcon
  <2> QED
    BY <1>5, <2>1, <2>2, <2>3, <2>4 DEF CatalogInv, IdsAreIssued
<1>11. (\A d \in downloads' : AwaitsItsRow(d)') /\ CellShowsItsRow'
  <2>1. \A w \in Views, b \in Cells : cells[w][b].row \in 0 .. MaxItems
    BY <1>2 DEF CellStates
  <2>2. \A w \in Views, r \in 0 .. MaxItems :
            /\ StickerAt(w, r)' = StickerAt(w, r)
            /\ IsMoreRow(w, r)' = IsMoreRow(w, r)
    BY <1>1, SameRead DEF IsMoreRow
  <2>3. CASE IsMoreRow(v, row)
    <3>1. downloads' = downloads
      BY <2>3 DEF CellForItem, SetMoreIcon
    <3>2. CellShowsItsRow'
      BY <1>5, <2>1, <2>2, <2>3 DEF CatalogInv, CellShowsItsRow
    <3>3. \A d \in downloads : d.view \in Views /\ d.cell \in Cells
      BY DEF CatalogInv, TypeOK, Downloads
    <3>4. ASSUME NEW d \in downloads
          PROVE  AwaitsItsRow(d)'
      <4>1. CASE <<d.view, d.cell>> = <<v, c>>
        BY <4>1, <1>5, <2>2, <2>3 DEF AwaitsItsRow
      <4>2. CASE <<d.view, d.cell>> # <<v, c>>
        BY <4>2, <1>5, <2>1, <2>2, <3>3 DEF CatalogInv, AwaitsItsRow, IsCurrent
      <4> QED
        BY <4>1, <4>2
    <3> QED
      BY <3>1, <3>2, <3>4
  <2>4. CASE ~IsMoreRow(v, row)
    <3>1. /\ started' = started + 1
          /\ cells'[v][c] = [row |-> row, image |-> NoImage, task |-> started']
          /\ downloads' = downloads \cup {[view |-> v, cell |-> c, id |-> started',
                                           sticker |-> StickerAt(v, row)]}
      BY <2>4, <1>2 DEF CellForItem, SetImage
    <3>2. \A d \in downloads : d \in Downloads /\ d.id # started'
      BY <3>1, CatalogAssumption DEF CatalogInv, IdsAreIssued, TypeOK, Downloads
    <3>3. CellShowsItsRow'
      BY <1>5, <2>1, <2>2, <3>1 DEF CatalogInv, CellShowsItsRow
    <3>4. \A d \in downloads : AwaitsItsRow(d)'
      BY <1>5, <2>1, <2>2, <3>1, <3>2 DEF CatalogInv, Downloads, AwaitsItsRow, IsCurrent
    <3>5. \A d \in downloads' \ downloads : AwaitsItsRow(d)'
      BY <1>5, <2>2, <3>1 DEF AwaitsItsRow
    <3> QED
      BY <3>3, <3>4, <3>5
  <2> QED
    BY <2>3, <2>4
<1> QED
  BY <1>1, <1>6, <1>8, <1>9, <1>10, <1>11, SameRead DEF CatalogInv, PassesWhatWasTapped


\* Cells that only lose their row, and downloads that only end, disturb nothing.
LEMMA RowsGoAway ==
    ASSUME CatalogInv,
           UNCHANGED <<readVars, groups, started>>,
           listing' \in {0} \cup DOMAIN StickerMenu,
           listing' # 0 => listing # 0,
           cells' \in [Views -> [Cells -> CellStates]],
           \A v \in Views, c \in Cells :
                \/ cells'[v][c] = cells[v][c] /\ (v = "strip" \/ listing' = listing)
                \/ cells'[v][c].row = 0 /\ cells'[v][c].task \in {cells[v][c].task, 0},
           listing' = 0 => \A c \in Cells : cells'["catalog"][c].row = 0,
           downloads' \subseteq downloads,
           PassesWhatWasTapped',
           passed' \in [image : Images, menu : DOMAIN StickerMenu, row : 0 .. MaxItems]
    PROVE  CatalogInv'
<1>1. TypeOK' /\ ReadTypes' /\ GroupsAreWhole' /\ ClosedCatalogIsEmpty'
  BY DEF CatalogInv, TypeOK, readVars, ReadTypes, GroupsAreWhole, ClosedCatalogIsEmpty
<1>2. cells \in [Views -> [Cells -> CellStates]]
  BY DEF CatalogInv, TypeOK
<1>3. \A v \in Views : v = "strip" \/ listing' = listing =>
          /\ NumberOfItems(v)' = NumberOfItems(v)
          /\ \A row \in 0 .. MaxItems : StickerAt(v, row)' = StickerAt(v, row)
  BY DEF NumberOfItems, StripRows, StickerAt, Views
<1>4. \A v \in Views : NumberOfItems(v)' \in Nat
  <2> DEFINE S == [name : GroupNames, items : 0 .. MaxItems]
  <2>1. groups' \in Seq(S)
    BY <1>1 DEF TypeOK
  <2>2. (listing' # 0 => listing' \in DOMAIN groups') /\ (groups' # <<>> => 1 \in DOMAIN groups')
    BY <1>1, <2>1, MenuFacts DEF TypeOK
  <2> HIDE DEF S
  <2>3. \A k \in DOMAIN groups' : groups'[k] \in S
    BY <2>1
  <2> QED
    BY <2>2, <2>3, CatalogAssumption DEF S, NumberOfItems, StripRows
<1>5. RowsAreOffered'
  BY <1>3, <1>4 DEF CatalogInv, RowsAreOffered
<1>6. IdsAreIssued'
  <2>1. started \in Nat /\ \A v \in Views, c \in Cells : cells[v][c].task \in Nat
    BY <1>2, CatalogAssumption DEF CatalogInv, TypeOK, CellStates
  <2> QED
    BY <2>1 DEF CatalogInv, IdsAreIssued
<1>7. \A v \in Views, c \in Cells : cells[v][c].row \in 0 .. MaxItems
  BY <1>2 DEF CellStates
<1>8. CellShowsItsRow'
  BY <1>3, <1>7 DEF CatalogInv, CellShowsItsRow, IsMoreRow
<1>9. \A d \in downloads : d.view \in Views /\ d.cell \in Cells
  BY DEF CatalogInv, TypeOK, Downloads
<1>10. \A d \in downloads' : AwaitsItsRow(d)'
  BY <1>3, <1>7, <1>9 DEF CatalogInv, AwaitsItsRow, IsMoreRow, IsCurrent
<1> QED
  BY <1>1, <1>5, <1>6, <1>8, <1>10 DEF CatalogInv

LEMMA EndDisplayingKeeps ==
    ASSUME CatalogInv, NEW v \in Views, NEW c \in Cells, EndDisplaying(v, c)
    PROVE  CatalogInv'
<1>1. cells \in [Views -> [Cells -> CellStates]]
  BY DEF CatalogInv, TypeOK
<1>2. cells' = [cells EXCEPT ![v][c].row = 0]
  BY DEF EndDisplaying
<1>3. cells' \in [Views -> [Cells -> CellStates]]
  BY <1>1, <1>2, CatalogAssumption, SMTT(30) DEF CellStates
<1>4. \A w \in Views, b \in Cells :
          \/ cells'[w][b] = cells[w][b]
          \/ cells'[w][b].row = 0 /\ cells'[w][b].task = cells[w][b].task
  BY <1>1, <1>2 DEF CellStates
<1>5. listing' = 0 => \A b \in Cells : cells'["catalog"][b].row = 0
  BY <1>1, <1>4 DEF CatalogInv, ClosedCatalogIsEmpty, EndDisplaying, Views
<1> QED
  BY <1>3, <1>4, <1>5, RowsGoAway
     DEF EndDisplaying, CatalogInv, TypeOK, PassesWhatWasTapped

\* A picture reaches the cell only under the identifier the cell waits for, and
\* then it is the picture of the row in sight.
LEMMA DownloadEndsKeeps ==
    ASSUME CatalogInv, NEW d \in downloads, NEW succeeded \in BOOLEAN, DownloadEnds(d, succeeded)
    PROVE  CatalogInv'
<1>1. cells \in [Views -> [Cells -> CellStates]] /\ d \in Downloads
  BY DEF CatalogInv, TypeOK
<1>2. UNCHANGED <<readVars, groups, listing, started, passed>> /\ downloads' = downloads \ {d}
  BY DEF DownloadEnds
<1>3. CASE ~IsCurrent(d)
  <2>1. cells' = cells
    BY <1>3 DEF DownloadEnds
  <2> QED
    BY <1>1, <1>2, <2>1, RowsGoAway
       DEF CatalogInv, TypeOK, PassesWhatWasTapped, ClosedCatalogIsEmpty
<1>4. CASE IsCurrent(d)
  <2> DEFINE old == cells[d.view][d.cell]
             new == cells'[d.view][d.cell]
  <2>1. cells' = [cells EXCEPT ![d.view][d.cell].task = 0,
                               ![d.view][d.cell].image = IF succeeded THEN d.sticker ELSE @]
    BY <1>4 DEF DownloadEnds
  <2>2. d.view \in Views /\ d.cell \in Cells /\ d.sticker \in Stickers
    BY <1>1 DEF Downloads
  <2>3. cells' \in [Views -> [Cells -> CellStates]]
    <3> DEFINE img == IF succeeded THEN d.sticker ELSE old.image
    <3>1. old \in CellStates
      BY <1>1, <2>2
    <3>2. img \in Images
      BY <3>1, <2>2 DEF CellStates, Images
    <3>3. \A x \in CellStates, y \in Images :
              [x EXCEPT !.task = 0, !.image = y] \in CellStates
      <4>1. \A x \in CellStates : [x EXCEPT !.task = 0] \in CellStates
        BY CatalogAssumption, SMTT(30) DEF CellStates, CatalogInv, TypeOK
      <4>2. \A x \in CellStates, y \in Images : [x EXCEPT !.image = y] \in CellStates
        BY DEF CellStates
      <4> QED
        BY <4>1, <4>2
    <3>4. cells' = [cells EXCEPT ![d.view] =
                       [@ EXCEPT ![d.cell] = [old EXCEPT !.task = 0, !.image = img]]]
      BY <1>1, <2>1, <2>2
    <3> HIDE DEF old, img
    <3> QED
      BY <3>1, <3>2, <3>3, <3>4, <1>1, <2>2
  <2>4. /\ new.row = old.row
        /\ new.task = 0
        /\ new.image \in {old.image, d.sticker}
        /\ \A w \in Views, b \in Cells :
                <<w, b>> # <<d.view, d.cell>> => cells'[w][b] = cells[w][b]
    <3> DEFINE x == [old EXCEPT !.task = 0, !.image = IF succeeded THEN d.sticker ELSE old.image]
    <3>1. old \in CellStates
      BY <1>1, <2>2
    <3>2. x.row = old.row /\ x.task = 0 /\ x.image \in {old.image, d.sticker}
      BY <3>1 DEF CellStates
    <3>3. cells' = [cells EXCEPT ![d.view] = [@ EXCEPT ![d.cell] = x]]
      BY <1>1, <2>1, <2>2
    <3> HIDE DEF x
    <3>4. cells'[d.view][d.cell] = x
      BY <1>1, <2>2, <3>3
    <3>5. \A w \in Views, b \in Cells :
              <<w, b>> # <<d.view, d.cell>> => cells'[w][b] = cells[w][b]
      BY <1>1, <2>2, <3>3
    <3> QED
      BY <3>2, <3>4, <3>5
  <2>5. \A w \in Views, b \in Cells :
            /\ cells'[w][b].row = cells[w][b].row
            /\ cells'[w][b].task \in {cells[w][b].task, 0}
    BY <2>4
  <2> HIDE DEF old, new
  <2>6. TypeOK' /\ ReadTypes' /\ GroupsAreWhole' /\ ClosedCatalogIsEmpty'
    BY <1>2, <2>3, <2>5, SameRead DEF CatalogInv, TypeOK, ClosedCatalogIsEmpty, Views
  <2>7. RowsAreOffered' /\ IdsAreIssued'
    <3>1. started \in Nat
      BY CatalogAssumption DEF CatalogInv, TypeOK
    <3> QED
      BY <1>2, <2>5, <3>1, SameRead DEF CatalogInv, RowsAreOffered, IdsAreIssued
  <2>8. \A w \in Views, row \in 0 .. MaxItems : StickerAt(w, row)' = StickerAt(w, row)
    BY <1>2, SameRead
  <2>9. CellShowsItsRow'
    <3>1. ASSUME NEW w \in Views, NEW b \in Cells, NEW row \in 0 .. MaxItems,
                 row = cells[w][b].row, row # 0, ~IsMoreRow(w, row)
          PROVE  cells'[w][b].image \in {NoImage, StickerAt(w, row)}
      <4>1. cells[w][b].image \in {NoImage, StickerAt(w, row)}
        BY <3>1 DEF CatalogInv, CellShowsItsRow
      <4>2. CASE <<w, b>> = <<d.view, d.cell>>
        <5>1. d.sticker = StickerAt(w, row)
          BY <3>1, <4>2, <1>4 DEF CatalogInv, AwaitsItsRow
        <5>2. cells'[w][b].image \in {cells[w][b].image, d.sticker}
          BY <2>4, <4>2 DEF old, new
        <5> QED
          BY <4>1, <5>1, <5>2
      <4>3. CASE <<w, b>> # <<d.view, d.cell>>
        BY <4>1, <4>3, <2>4
      <4> QED
        BY <4>2, <4>3
    <3>2. \A w \in Views, b \in Cells :
              /\ cells[w][b].row \in 0 .. MaxItems
              /\ cells'[w][b].row = cells[w][b].row
      BY <1>1, <2>5 DEF CellStates
    <3> QED
      BY <3>1, <3>2, <2>8 DEF CellShowsItsRow, IsMoreRow
  <2>10. \A e \in downloads' : AwaitsItsRow(e)'
    <3>1. \A e \in downloads : e.view \in Views /\ e.cell \in Cells /\ e.id # 0
      BY CatalogAssumption DEF CatalogInv, TypeOK, Downloads
    <3> QED
      BY <3>1, <1>2, <2>5 DEF CatalogInv, AwaitsItsRow, IsCurrent, IsMoreRow, StickerAt
  <2> QED
    BY <1>2, <2>6, <2>7, <2>9, <2>10 DEF CatalogInv, PassesWhatWasTapped
<1> QED
  BY <1>3, <1>4


-----------------------------------------------------------------------------
(* Taps.                                                                    *)

\* The catalog opens on groups that are whole.
LEMMA SelectMoreStickerKeeps == CatalogInv /\ SelectMoreSticker => CatalogInv'
<1> SUFFICES ASSUME CatalogInv, SelectMoreSticker PROVE CatalogInv'
  OBVIOUS
<1>1. listing = 0 /\ listing' = 1 /\ UNCHANGED <<readVars, groups, cells, downloads, started, passed>>
  BY DEF SelectMoreSticker
<1>2. \A c \in Cells : cells["catalog"][c].row = 0
  BY <1>1 DEF CatalogInv, ClosedCatalogIsEmpty
<1>3. groups # <<>>
  <2>1. PICK c \in Cells : cells["strip"][c].row = StripLength + 1
    BY DEF SelectMoreSticker, IsShown
  <2>2. NumberOfItems("strip") # 0
    BY <2>1, CatalogAssumption DEF CatalogInv, RowsAreOffered, Views
  <2> QED
    BY <2>2, RowFacts DEF Views
<1>4. TypeOK' /\ ReadTypes' /\ GroupsAreWhole' /\ ClosedCatalogIsEmpty'
  BY <1>1, <1>3, MenuFacts, SMTT(30)
     DEF CatalogInv, TypeOK, readVars, ReadTypes, GroupsAreWhole, ClosedCatalogIsEmpty
<1>5. NumberOfItems("catalog")' \in Nat
  <2> DEFINE S == [name : GroupNames, items : 0 .. MaxItems]
  <2>1. groups \in Seq(S)
    BY DEF CatalogInv, TypeOK
  <2> HIDE DEF S
  <2>2. groups[1] \in S
    BY <1>3, <2>1
  <2> QED
    BY <1>1, <2>2, CatalogAssumption DEF S, NumberOfItems
<1>6. RowsAreOffered' /\ IdsAreIssued' /\ CellShowsItsRow'
  BY <1>1, <1>2, <1>5
     DEF CatalogInv, RowsAreOffered, NumberOfItems, StripRows, IdsAreIssued, CellShowsItsRow,
         IsMoreRow, StickerAt, Views
<1>7. (\A d \in downloads' : AwaitsItsRow(d)') /\ PassesWhatWasTapped'
  BY <1>1, <1>2
     DEF CatalogInv, TypeOK, Downloads, AwaitsItsRow, IsMoreRow, IsCurrent, StickerAt, Views,
         PassesWhatWasTapped
<1> QED
  BY <1>4, <1>6, <1>7 DEF CatalogInv

LEMMA SelectMenuRowKeeps ==
    ASSUME CatalogInv, NEW m \in DOMAIN StickerMenu, SelectMenuRow(m)
    PROVE  CatalogInv'
<1>1. cells \in [Views -> [Cells -> CellStates]]
  BY DEF CatalogInv, TypeOK
<1>2. \A x \in CellStates :
          /\ [x EXCEPT !.row = 0] \in CellStates
          /\ [x EXCEPT !.row = 0].row = 0
          /\ [x EXCEPT !.row = 0].task = x.task
  BY CatalogAssumption DEF CellStates
<1>3. cells' = [cells EXCEPT !["catalog"] = [c \in Cells |-> [cells["catalog"][c] EXCEPT !.row = 0]]]
  BY DEF SelectMenuRow, IntoPool
<1>4. \A c \in Cells :
          /\ cells'["strip"][c] = cells["strip"][c]
          /\ cells'["catalog"][c] = [cells["catalog"][c] EXCEPT !.row = 0]
  BY <1>1, <1>3 DEF Views
<1>5. cells' \in [Views -> [Cells -> CellStates]]
  BY <1>1, <1>2, <1>3 DEF Views
<1>6. \A v \in Views, c \in Cells :
          \/ cells'[v][c] = cells[v][c] /\ v = "strip"
          \/ cells'[v][c].row = 0 /\ cells'[v][c].task = cells[v][c].task
  <2>1. \A c \in Cells : cells["catalog"][c] \in CellStates
    BY <1>1 DEF Views
  <2>2. ASSUME NEW c \in Cells
        PROVE  cells'["catalog"][c].row = 0 /\ cells'["catalog"][c].task = cells["catalog"][c].task
    <3> DEFINE x == cells["catalog"][c]
    <3>1. x \in CellStates /\ cells'["catalog"][c] = [x EXCEPT !.row = 0]
      BY <2>1, <1>4
    <3> HIDE DEF x
    <3>2. cells'["catalog"][c].row = 0 /\ cells'["catalog"][c].task = x.task
      BY <3>1, <1>2
    <3> QED
      BY <3>2 DEF x
  <2> QED
    BY <1>4, <2>2 DEF Views
<1>7. m # 0 /\ m \in DOMAIN StickerMenu
  BY MenuFacts
<1> QED
  BY <1>5, <1>6, <1>7, RowsGoAway
     DEF SelectMenuRow, CatalogInv, TypeOK, PassesWhatWasTapped

LEMMA CloseCatalogKeeps ==
    ASSUME CatalogInv, CloseCatalog, UNCHANGED <<readVars, groups, started>>,
           PassesWhatWasTapped',
           passed' \in [image : Images, menu : DOMAIN StickerMenu, row : 0 .. MaxItems]
    PROVE  CatalogInv'
<1>1. cells \in [Views -> [Cells -> CellStates]]
  BY DEF CatalogInv, TypeOK
<1>2. Pooled \in CellStates
  BY CatalogAssumption DEF Pooled, CellStates, Images, CatalogInv, TypeOK
<1>3. cells' \in [Views -> [Cells -> CellStates]]
  BY <1>1, <1>2 DEF CloseCatalog, Views
<1>4. \A c \in Cells : cells'["strip"][c] = cells["strip"][c] /\ cells'["catalog"][c] = Pooled
  BY <1>1 DEF CloseCatalog, Views
<1> QED
  BY <1>3, <1>4, RowsGoAway DEF CloseCatalog, Pooled, Views

\* What a cell in sight shows is what the tap hands over, and the menu's titles
\* are those of the groups.
LEMMA PassedFacts ==
    ASSUME CatalogInv, NEW v \in Views, NEW c \in Cells,
           cells[v][c].row # 0, ~IsMoreRow(v, cells[v][c].row), v = "catalog" => listing # 0
    PROVE  /\ Passed(v, c) \in [image : Images, menu : DOMAIN StickerMenu, row : 0 .. MaxItems]
           /\ Passed(v, c).image \in
                {NoImage, Sticker(StickerMenu[Passed(v, c).menu], Passed(v, c).row)}
<1>1. cells[v][c] \in CellStates
  BY DEF CatalogInv, TypeOK
<1>2. groups # <<>>
  BY RowFacts DEF CatalogInv, RowsAreOffered
<1>3. \A m \in 1 .. 5 : groups[m].name = StickerMenu[m]
  BY <1>2, MenuFacts DEF CatalogInv, GroupsAreWhole
<1>4. cells[v][c].image \in {NoImage, StickerAt(v, cells[v][c].row)}
  BY DEF CatalogInv, CellShowsItsRow
<1>5. listing \in 0 .. 5
  BY MenuFacts DEF CatalogInv, TypeOK
<1> QED
  BY <1>1, <1>3, <1>4, <1>5, MenuFacts DEF Passed, StickerAt, Views, CellStates

LEMMA TapKeeps ==
    ASSUME CatalogInv, NEW c \in Cells, SelectGeneralSticker(c) \/ SelectSticker(c)
    PROVE  CatalogInv'
<1>1. CASE SelectGeneralSticker(c)
  <2>1. ~IsMoreRow("strip", cells["strip"][c].row) /\ cells["strip"][c].row # 0
    BY <1>1, CatalogAssumption DEF SelectGeneralSticker, IsMoreRow
  <2>2. /\ passed' \in [image : Images, menu : DOMAIN StickerMenu, row : 0 .. MaxItems]
        /\ PassesWhatWasTapped'
    BY <1>1, <2>1, PassedFacts DEF SelectGeneralSticker, PassesWhatWasTapped, Views
  <2>3. UNCHANGED <<readVars, groups, listing, cells, downloads, started>>
    BY <1>1 DEF SelectGeneralSticker
  <2> QED
    BY <2>2, <2>3, RowsGoAway DEF CatalogInv, TypeOK, ClosedCatalogIsEmpty
<1>2. CASE SelectSticker(c)
  <2>1. /\ passed' \in [image : Images, menu : DOMAIN StickerMenu, row : 0 .. MaxItems]
        /\ PassesWhatWasTapped'
    BY <1>2, PassedFacts DEF SelectSticker, PassesWhatWasTapped, IsMoreRow, Views
  <2> QED
    BY <1>2, <2>1, CloseCatalogKeeps DEF SelectSticker
<1> QED
  BY <1>1, <1>2

LEMMA DismissCatalogKeeps == CatalogInv /\ DismissCatalog => CatalogInv'
BY CloseCatalogKeeps DEF DismissCatalog, CatalogInv, TypeOK, PassesWhatWasTapped

-----------------------------------------------------------------------------
LEMMA NextCatalogInv == CatalogInv /\ [Next]_vars => CatalogInv'
<1> SUFFICES ASSUME CatalogInv, [Next]_vars PROVE CatalogInv'
  OBVIOUS
<1>1. CASE ShowTools \/ StickersFail \/ SelectMoreSticker \/ DismissCatalog
  BY <1>1, ShowToolsKeeps, StickersFailKeeps, SelectMoreStickerKeeps, DismissCatalogKeeps
<1>2. ASSUME NEW documents \in 0 .. MaxDocuments, NEW general \in 0 .. MaxItems,
             NEW others \in 0 .. MaxItems, StickersArrive(documents, general, others)
      PROVE  CatalogInv'
  BY <1>2, StickersArriveKeeps
<1>3. ASSUME NEW v \in Views, NEW c \in Cells, NEW row \in 1 .. MaxItems, CellForItem(v, c, row)
      PROVE  CatalogInv'
  BY <1>3, CellForItemKeeps
<1>4. ASSUME NEW v \in Views, NEW c \in Cells, EndDisplaying(v, c)
      PROVE  CatalogInv'
  BY <1>4, EndDisplayingKeeps
<1>5. ASSUME NEW d \in downloads, NEW succeeded \in BOOLEAN, DownloadEnds(d, succeeded)
      PROVE  CatalogInv'
  BY <1>5, DownloadEndsKeeps
<1>6. ASSUME NEW m \in DOMAIN StickerMenu, SelectMenuRow(m)
      PROVE  CatalogInv'
  BY <1>6, SelectMenuRowKeeps
<1>7. ASSUME NEW c \in Cells, SelectGeneralSticker(c) \/ SelectSticker(c)
      PROVE  CatalogInv'
  BY <1>7, TapKeeps
<1>8. CASE UNCHANGED vars
  <2>1. UNCHANGED <<readVars, groups, listing, cells, downloads, started, passed>>
    BY <1>8 DEF vars
  <2> QED
    BY <2>1, RowsGoAway DEF CatalogInv, TypeOK, ClosedCatalogIsEmpty, PassesWhatWasTapped
<1> QED
  BY <1>1, <1>2, <1>3, <1>4, <1>5, <1>6, <1>7, <1>8 DEF Next

LEMMA CatalogInvariant == Spec => []CatalogInv
BY InitCatalogInv, NextCatalogInv, PTL DEF Spec

\* Every variable keeps its type, and a presented catalog has a group for each
\* row of its menu.
THEOREM TypeCorrect == Spec => []TypeOK
<1>1. CatalogInv => TypeOK
  BY DEF CatalogInv
<1> QED
  BY <1>1, CatalogInvariant, PTL

\* A cell in sight shows the sticker of its row or nothing, whatever pictures
\* were asked for while it stood for other rows.
THEOREM CellsShowTheirRows == Spec => []CellShowsItsRow
<1>1. CatalogInv => CellShowsItsRow
  BY DEF CatalogInv
<1> QED
  BY <1>1, CatalogInvariant, PTL

\* A tap hands the sticker of the row and of the menu's group to the canvas, or
\* a picture that is not there yet.
THEOREM TapsPassWhatTheyShow == Spec => []PassesWhatWasTapped
<1>1. CatalogInv => PassesWhatWasTapped
  BY DEF CatalogInv
<1> QED
  BY <1>1, CatalogInvariant, PTL

=============================================================================
