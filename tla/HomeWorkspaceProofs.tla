-------------------------- MODULE HomeWorkspaceProofs --------------------------
(***************************************************************************)
(* Proofs about HomeWorkspace for any photos and any bounds: types, the    *)
(* agreement of the open tool with the work place, and what the work place *)
(* may show after a delete or an empty pick.                               *)
(***************************************************************************)
EXTENDS HomeWorkspace, SequenceTheorems, TLAPS

\* An image that went through the crop or the basic editor.
WasRendered(img) == \E e \in img.edits : e[1] \in RenderedTools
Late == {img \in Image : WasRendered(img)}

\* The inductive invariant. A pick under way keeps the tools away, so that only
\* a render can change the image beneath a tool; every render on its way is the
\* work of a rendered tool; and a tool that was opened with no render under way
\* stays without one until it is closed.
PickKeepsToolsAway == picking => presented \notin Tools
RendersAreLate ==
    /\ rendering \in Seq(RenderedTools \X Late)
    /\ landing \in Seq(RenderedTools \X Late)
ToolHasImage ==
    presented \in Tools =>
        /\ source \in Image
        /\ imageHidden => WasRendered(source)
        /\ ~awaited => source = image /\ rendering = <<>> /\ landing = <<>>
HiddenIsLate == imageHidden /\ image # NoImage => WasRendered(image)

HomeInv ==
    /\ TypeOK
    /\ PickKeepsToolsAway
    /\ RendersAreLate
    /\ ToolHasImage
    /\ HiddenIsLate
    /\ BlankOnlyFromEmptyPick

-----------------------------------------------------------------------------

\* An edit keeps what the image went through, and a rendered tool adds to it.
LEMMA EditedImage ==
    ASSUME NEW img \in Image, NEW tool \in Tools, edits \in Nat, edits < MaxEdits
    PROVE  /\ Edited(img, tool) \in Image
           /\ WasRendered(img) => WasRendered(Edited(img, tool))
           /\ tool \in RenderedTools => WasRendered(Edited(img, tool))
<1> DEFINE result == Edited(img, tool)
<1>1. result = [photo |-> img.photo, edits |-> img.edits \cup {<<tool, edits + 1>>}]
  BY DEF Edited
<1>2. <<tool, edits + 1>> \in Edit
  BY BoundsAssumption DEF Edit
<1>3. result \in Image
  BY <1>1, <1>2 DEF Image
<1>4. img.edits \subseteq result.edits /\ <<tool, edits + 1>> \in result.edits
  BY <1>1
<1> QED
  BY <1>3, <1>4 DEF WasRendered

LEMMA FreshImage == \A p \in Photos : Fresh(p) \in Image
BY DEF Fresh, Image

LEMMA NothingPending ==
    HomeInv /\ rendering \o landing = <<>> => rendering = <<>> /\ landing = <<>>
<1> SUFFICES ASSUME HomeInv, rendering \o landing = <<>>
             PROVE  rendering = <<>> /\ landing = <<>>
  OBVIOUS
<1>1. rendering \in Seq(RenderedTools \X Image) /\ landing \in Seq(RenderedTools \X Image)
  BY DEF HomeInv, TypeOK
<1>2. Len(rendering \o landing) = Len(rendering) + Len(landing)
  BY <1>1
<1> QED
  BY <1>1, <1>2

LEMMA InitHomeInv == Init => HomeInv
<1> SUFFICES ASSUME Init PROVE HomeInv
  OBVIOUS
<1>1. TypeOK
  <2>1. <<>> \in Seq(RenderedTools \X Image)
    OBVIOUS
  <2>2. 0 \in 0 .. MaxEdits /\ 0 \in 0 .. MaxSaves
    BY BoundsAssumption
  <2> QED
    BY <2>1, <2>2 DEF Init, TypeOK, Writers
<1>2. RendersAreLate
  BY DEF Init, RendersAreLate
<1>3. PickKeepsToolsAway /\ ToolHasImage
  BY DEF Init, PickKeepsToolsAway, ToolHasImage, Tools, RenderedTools, DirectTools
<1>4. HiddenIsLate /\ BlankOnlyFromEmptyPick
  BY DEF Init, HiddenIsLate, BlankOnlyFromEmptyPick
<1> QED
  BY <1>1, <1>2, <1>3, <1>4 DEF HomeInv

\* The buttons and the screens that end without a result leave the image, the
\* flags and the renders as they are; what is presented afterwards is no tool.
LEMMA QuietStep ==
    ASSUME HomeInv, KeepImage, KeepViews, KeepRenders, KeepHistory,
           presented' \in (Screens \ Tools) \cup {"none"} \/ presented' = presented,
           picking' \in BOOLEAN, saves' \in 0 .. MaxSaves,
           picking' => picking \/ presented' \notin Tools
    PROVE  HomeInv'
<1>1. TypeOK'
  BY DEF HomeInv, TypeOK, KeepImage, KeepViews, KeepRenders, KeepHistory
<1>2. RendersAreLate'
  BY DEF HomeInv, RendersAreLate, KeepRenders
<1>3. PickKeepsToolsAway'
  BY DEF HomeInv, PickKeepsToolsAway, Tools, RenderedTools, DirectTools
<1>4. ToolHasImage'
  BY DEF HomeInv, ToolHasImage, KeepImage, KeepViews, KeepRenders, KeepHistory, Tools,
         RenderedTools, DirectTools
<1>5. HiddenIsLate' /\ BlankOnlyFromEmptyPick'
  BY DEF HomeInv, HiddenIsLate, BlankOnlyFromEmptyPick, KeepImage, KeepViews
<1> QED
  BY <1>1, <1>2, <1>3, <1>4, <1>5 DEF HomeInv

\* A handler that assigns the image, shows the image view and leaves no tool on
\* screen; only the picker may assign no image.
LEMMA ShowStep ==
    ASSUME HomeInv, NEW img \in Image \cup {NoImage}, NEW by \in Writers,
           img = NoImage => by = "picker",
           SetImage(img, by), ShowImageView, KeepRenders, KeepHistory,
           presented' = "none", picking' = FALSE, saves' = saves
    PROVE  HomeInv'
<1>1. TypeOK'
  BY DEF HomeInv, TypeOK, SetImage, ShowImageView, KeepRenders, KeepHistory
<1>2. RendersAreLate'
  BY DEF HomeInv, RendersAreLate, KeepRenders
<1>3. PickKeepsToolsAway' /\ ToolHasImage'
  BY DEF PickKeepsToolsAway, ToolHasImage, Tools, RenderedTools, DirectTools
<1>4. HiddenIsLate' /\ BlankOnlyFromEmptyPick'
  BY DEF HiddenIsLate, BlankOnlyFromEmptyPick, SetImage, ShowImageView
<1> QED
  BY <1>1, <1>2, <1>3, <1>4 DEF HomeInv

LEMMA OpenToolStep ==
    ASSUME HomeInv, NEW tool \in Tools, OpenTool(tool)
    PROVE  HomeInv'
<1> USE DEF OpenTool, KeepImage, KeepViews, KeepRenders, Present
<1>1. CASE image = NoImage
  <2>1. presented' = "alert" /\ UNCHANGED <<source, awaited, edits>>
    BY <1>1
  <2>2. presented' \in Screens \ Tools
    BY <2>1 DEF Screens, Tools, RenderedTools, DirectTools
  <2> QED
    BY <2>1, <2>2, QuietStep DEF KeepHistory, OnHome, HomeInv, TypeOK
<1>2. CASE image # NoImage
  <2>1. /\ presented' = tool
        /\ source' = image
        /\ awaited' = (rendering \o landing # <<>>)
        /\ UNCHANGED <<picking, saves, edits, image, writer, imageHidden, emptyHidden,
                       rendering, landing>>
        /\ ~picking
    BY <1>2 DEF OnHome
  <2>2. TypeOK'
    BY <2>1 DEF HomeInv, TypeOK, Screens
  <2>3. RendersAreLate'
    BY <2>1 DEF HomeInv, RendersAreLate
  <2>4. PickKeepsToolsAway'
    BY <2>1 DEF PickKeepsToolsAway
  <2>5. ToolHasImage'
    <3>1. source' \in Image /\ source' = image'
      BY <1>2, <2>1 DEF HomeInv, TypeOK
    <3>2. imageHidden' => WasRendered(source')
      BY <1>2, <2>1 DEF HomeInv, HiddenIsLate, WasRendered
    <3>3. ~awaited' => rendering' = <<>> /\ landing' = <<>>
      BY <2>1, NothingPending
    <3> QED
      BY <3>1, <3>2, <3>3 DEF ToolHasImage, WasRendered
  <2>6. HiddenIsLate' /\ BlankOnlyFromEmptyPick'
    BY <2>1 DEF HomeInv, HiddenIsLate, BlankOnlyFromEmptyPick, WasRendered
  <2> QED
    BY <2>2, <2>3, <2>4, <2>5, <2>6 DEF HomeInv
<1> QED
  BY <1>1, <1>2

LEMMA DeleteStep ==
    ASSUME HomeInv, DeleteConfirmed
    PROVE  HomeInv'
<1> USE DEF DeleteConfirmed, On, Dismissed, SetImage, KeepRenders, KeepHistory
<1>1. TypeOK'
  BY DEF HomeInv, TypeOK, Writers
<1>2. RendersAreLate'
  BY DEF HomeInv, RendersAreLate
<1>3. PickKeepsToolsAway' /\ ToolHasImage'
  BY DEF PickKeepsToolsAway, ToolHasImage, Tools, RenderedTools, DirectTools
<1>4. HiddenIsLate' /\ BlankOnlyFromEmptyPick'
  BY DEF HiddenIsLate, BlankOnlyFromEmptyPick
<1> QED
  BY <1>1, <1>2, <1>3, <1>4 DEF HomeInv

LEMMA DirectToolStep ==
    ASSUME HomeInv, NEW tool \in Tools, DirectToolDidFinish(tool)
    PROVE  HomeInv'
<1> DEFINE result == Edited(source, tool)
<1>1. /\ presented = tool /\ ~picking /\ edits < MaxEdits /\ edits \in Nat /\ tool \in Tools
      /\ image' = result /\ writer' = tool /\ edits' = edits + 1 /\ presented' = "none"
      /\ UNCHANGED <<picking, saves, source, awaited, imageHidden, emptyHidden, rendering,
                     landing>>
  BY DEF DirectToolDidFinish, On, SetImage, Dismissed, KeepViews, KeepRenders, HomeInv, TypeOK,
         Tools
<1>2. source \in Image /\ (imageHidden => WasRendered(source))
  BY <1>1 DEF HomeInv, ToolHasImage
<1>3. result \in Image /\ (imageHidden => WasRendered(result))
  BY <1>1, <1>2, EditedImage
<1> HIDE DEF result
<1>4. TypeOK'
  BY <1>1, <1>3, BoundsAssumption DEF HomeInv, TypeOK, Writers
<1>5. RendersAreLate'
  BY <1>1 DEF HomeInv, RendersAreLate
<1>6. PickKeepsToolsAway' /\ ToolHasImage'
  BY <1>1 DEF PickKeepsToolsAway, ToolHasImage, Tools, RenderedTools, DirectTools
<1>7. HiddenIsLate'
  BY <1>1, <1>3 DEF HiddenIsLate
<1>8. BlankOnlyFromEmptyPick'
  BY <1>1, <1>3, NoImageAssumption DEF BlankOnlyFromEmptyPick
<1> QED
  BY <1>4, <1>5, <1>6, <1>7, <1>8 DEF HomeInv

LEMMA RenderedToolStep ==
    ASSUME HomeInv, NEW tool \in Tools, RenderedToolDidFinish(tool)
    PROVE  HomeInv'
<1> DEFINE result == Edited(source, tool)
<1>1. /\ tool \in RenderedTools /\ presented = tool /\ ~picking
      /\ edits < MaxEdits /\ edits \in Nat
      /\ rendering' = Append(rendering, <<tool, result>>)
      /\ edits' = edits + 1 /\ presented' = "none"
      /\ UNCHANGED <<landing, picking, saves, source, awaited, image, writer, imageHidden,
                     emptyHidden>>
  BY DEF RenderedToolDidFinish, On, Dismissed, KeepImage, KeepViews, HomeInv, TypeOK
<1>2. source \in Image
  BY <1>1 DEF HomeInv, ToolHasImage
<1>3. result \in Image /\ WasRendered(result)
  BY <1>1, <1>2, EditedImage
<1> HIDE DEF result
<1>4. TypeOK'
  BY <1>1, <1>3, BoundsAssumption DEF HomeInv, TypeOK
<1>5. RendersAreLate'
  BY <1>1, <1>3 DEF HomeInv, RendersAreLate, Late, WasRendered
<1>6. PickKeepsToolsAway' /\ ToolHasImage'
  BY <1>1 DEF PickKeepsToolsAway, ToolHasImage, Tools, RenderedTools, DirectTools
<1>7. HiddenIsLate' /\ BlankOnlyFromEmptyPick'
  BY <1>1 DEF HomeInv, HiddenIsLate, BlankOnlyFromEmptyPick, WasRendered
<1> QED
  BY <1>4, <1>5, <1>6, <1>7 DEF HomeInv

\* A tool on screen that was opened with no render under way sees neither of the
\* next two steps.
LEMMA RenderNextStep ==
    ASSUME HomeInv, RenderNext
    PROVE  HomeInv'
<1>1. /\ rendering # <<>> /\ rendering' = Tail(rendering)
      /\ landing' = Append(landing, Head(rendering)) \/ landing' = landing
      /\ UNCHANGED <<presented, picking, saves, image, writer, imageHidden, emptyHidden,
                     source, edits, awaited>>
  BY DEF RenderNext, KeepImage, KeepViews, KeepHistory
<1>2. ASSUME NEW S, rendering \in Seq(S), landing \in Seq(S)
      PROVE  rendering' \in Seq(S) /\ landing' \in Seq(S)
  <2>1. rendering' \in Seq(S) /\ Head(rendering) \in S
    BY <1>1, <1>2, HeadTailProperties
  <2>2. Append(landing, Head(rendering)) \in Seq(S)
    BY <1>2, <2>1, AppendProperties
  <2> QED
    BY <1>1, <1>2, <2>1, <2>2
<1>3. TypeOK'
  BY <1>1, <1>2 DEF HomeInv, TypeOK
<1>4. RendersAreLate'
  BY <1>2 DEF HomeInv, RendersAreLate, Late, WasRendered
<1>5. PickKeepsToolsAway' /\ HiddenIsLate' /\ BlankOnlyFromEmptyPick'
  BY <1>1 DEF HomeInv, PickKeepsToolsAway, HiddenIsLate, BlankOnlyFromEmptyPick, WasRendered
<1>6. ToolHasImage'
  BY <1>1 DEF HomeInv, ToolHasImage, WasRendered
<1> QED
  BY <1>3, <1>4, <1>5, <1>6 DEF HomeInv

LEMMA RenderLandsStep ==
    ASSUME HomeInv, RenderLands
    PROVE  HomeInv'
<1> DEFINE tool == Head(landing)[1]
           img == Head(landing)[2]
<1>1. /\ landing # <<>> /\ landing' = Tail(landing)
      /\ image' = img /\ writer' = tool
      /\ UNCHANGED <<rendering, presented, picking, saves, imageHidden, emptyHidden,
                     source, edits, awaited>>
  BY DEF RenderLands, SetImage, KeepViews, KeepHistory
<1>2. tool \in RenderedTools /\ img \in Image /\ WasRendered(img)
  BY <1>1 DEF HomeInv, RendersAreLate, Late
<1> HIDE DEF tool, img
<1>3. TypeOK'
  BY <1>1, <1>2 DEF HomeInv, TypeOK, Writers, Tools
<1>4. RendersAreLate'
  BY <1>1 DEF HomeInv, RendersAreLate, Late, WasRendered
<1>5. PickKeepsToolsAway' /\ HiddenIsLate'
  BY <1>1, <1>2 DEF HomeInv, PickKeepsToolsAway, HiddenIsLate
<1>6. BlankOnlyFromEmptyPick'
  BY <1>1, <1>2, NoImageAssumption DEF BlankOnlyFromEmptyPick
<1>7. ToolHasImage'
  BY <1>1 DEF HomeInv, ToolHasImage, WasRendered
<1> QED
  BY <1>3, <1>4, <1>5, <1>6, <1>7 DEF HomeInv

-----------------------------------------------------------------------------

LEMMA NextHomeInv == HomeInv /\ [Next]_vars => HomeInv'
<1> SUFFICES ASSUME HomeInv, [Next]_vars PROVE HomeInv'
  OBVIOUS
<1> USE DEF Present, Dismissed, On, OnHome
<1>1. CASE PhotoButtonWasPressed \/ CameraButtonWasPressed
  BY <1>1, QuietStep DEF PhotoButtonWasPressed, CameraButtonWasPressed, HomeInv, TypeOK,
     Screens, Tools, RenderedTools, DirectTools
<1>2. CASE DeleteButtonWasPressed \/ ShareButtonWasPressed
  BY <1>2, QuietStep DEF DeleteButtonWasPressed, ShareButtonWasPressed, HomeInv, TypeOK,
     Screens, Tools, RenderedTools, DirectTools
<1>3. CASE SaveButtonWasPressed
  <2>1. saves' \in 0 .. MaxSaves
    BY <1>3, BoundsAssumption DEF SaveButtonWasPressed, HomeInv, TypeOK
  <2> QED
    BY <1>3, <2>1, QuietStep DEF SaveButtonWasPressed, HomeInv, TypeOK,
       Screens, Tools, RenderedTools, DirectTools
<1>4. ASSUME NEW tool \in Tools, OpenTool(tool) PROVE HomeInv'
  BY <1>4, OpenToolStep
<1>5. ASSUME NEW screen, OpenCreator(screen) PROVE HomeInv'
  BY <1>5, QuietStep DEF OpenCreator, HomeInv, TypeOK, Screens, Tools, RenderedTools,
     DirectTools
<1>6. CASE CancelScreen
  BY <1>6, QuietStep DEF CancelScreen, HomeInv, TypeOK
<1>7. CASE DeleteConfirmed
  BY <1>7, DeleteStep
<1>8. ASSUME NEW p \in Photos, CameraDidFinish(p) PROVE HomeInv'
  <2>1. Fresh(p) \in Image \cup {NoImage} /\ Fresh(p) # NoImage
    BY FreshImage, NoImageAssumption
  <2>2. picking' = FALSE
    BY <1>8 DEF CameraDidFinish, HomeInv, TypeOK
  <2> QED
    BY <1>8, <2>1, <2>2, ShowStep DEF CameraDidFinish, Writers
<1>9. ASSUME NEW tool \in DirectTools, DirectToolDidFinish(tool) PROVE HomeInv'
  BY <1>9, DirectToolStep DEF Tools
<1>10. ASSUME NEW screen, NEW p \in Photos, CreatorDidFinish(screen, p) PROVE HomeInv'
  <2>1. screen \in Writers
    BY <1>10 DEF CreatorDidFinish, Writers
  <2>2. Fresh(p) \in Image \cup {NoImage} /\ Fresh(p) # NoImage
    BY FreshImage, NoImageAssumption
  <2>3. picking' = FALSE
    BY <1>10 DEF CreatorDidFinish, HomeInv, TypeOK
  <2> QED
    BY <1>10, <2>1, <2>2, <2>3, ShowStep DEF CreatorDidFinish
<1>11. ASSUME NEW tool \in RenderedTools, RenderedToolDidFinish(tool) PROVE HomeInv'
  BY <1>11, RenderedToolStep DEF Tools
<1>12. CASE PickerDone
  BY <1>12, QuietStep DEF PickerDone, HomeInv, TypeOK, Tools, RenderedTools, DirectTools
<1>13. CASE CancelBehindOverlay
  BY <1>13, QuietStep DEF CancelBehindOverlay, HomeInv, TypeOK
<1>14. CASE RenderNext
  BY <1>14, RenderNextStep
<1>15. CASE RenderLands
  BY <1>15, RenderLandsStep
<1>16. ASSUME NEW photos \in {<<>>} \cup {<<p>> : p \in Photos}, PickerDidFinish(photos)
       PROVE  HomeInv'
  <2> DEFINE img == IF photos = <<>> THEN NoImage ELSE Fresh(Head(photos))
  <2>1. img \in Image \cup {NoImage}
    BY FreshImage
  <2> HIDE DEF img
  <2>2. SetImage(img, "picker")
    BY <1>16 DEF PickerDidFinish, img
  <2> QED
    BY <1>16, <2>1, <2>2, ShowStep DEF PickerDidFinish, Writers
<1>17. CASE DidFinishSaving
  <2>1. saves' \in 0 .. MaxSaves
    BY <1>17, BoundsAssumption DEF DidFinishSaving, HomeInv, TypeOK
  <2> QED
    BY <1>17, <2>1, QuietStep DEF DidFinishSaving, HomeInv, TypeOK, PickKeepsToolsAway,
       Screens, Tools, RenderedTools, DirectTools
<1>18. CASE UNCHANGED vars
  BY <1>18, QuietStep DEF vars, KeepImage, KeepViews, KeepRenders, KeepHistory, HomeInv, TypeOK
<1> QED
  BY <1>1, <1>2, <1>3, <1>4, <1>5, <1>6, <1>7, <1>8, <1>9, <1>10, <1>11, <1>12, <1>13, <1>14,
     <1>15, <1>16, <1>17, <1>18 DEF Next, User, Background

\* The invariant holds in every state of the home screen.
THEOREM HomeInvariant == Spec => []HomeInv
BY InitHomeInv, NextHomeInv, PTL DEF Spec

\* Every variable of the home screen keeps its type.
THEOREM TypeCorrect == Spec => []TypeOK
<1>1. HomeInv => TypeOK
  BY DEF HomeInv
<1> QED
  BY <1>1, HomeInvariant, PTL

\* A tool that was opened with no render under way works on the very image that
\* its result will replace.
THEOREM ToolWorksOnCurrentImage == Spec => []ToolSeesCurrentImage
<1>1. HomeInv => ToolSeesCurrentImage
  BY DEF HomeInv, ToolHasImage, ToolSeesCurrentImage
<1> QED
  BY <1>1, HomeInvariant, PTL

\* An image that nobody sees came back from the crop or the basic editor.
THEOREM HiddenImageCameLate == Spec => []HiddenImageIsLateRender
<1>1. HomeInv => HiddenImageIsLateRender
  BY DEF HomeInv, HiddenIsLate, HiddenImageIsLateRender, WasRendered
<1> QED
  BY <1>1, HomeInvariant, PTL

\* An image view without an image is what an empty pick leaves.
THEOREM BlankCameFromEmptyPick == Spec => []BlankOnlyFromEmptyPick
<1>1. HomeInv => BlankOnlyFromEmptyPick
  BY DEF HomeInv
<1> QED
  BY <1>1, HomeInvariant, PTL

-----------------------------------------------------------------------------
(* The order of renders. The invariant is about the serial numbers in the  *)
(* images: nothing on the screen or on its way carries a number that was   *)
(* not issued yet, so that the next edit is later than all of them.        *)

UpTo(img, n) == \A m \in SerialNumbers(img) : m <= n
EndsWith(img, n) == n \in SerialNumbers(img) /\ UpTo(img, n)

OrderInv ==
    /\ image # NoImage => UpTo(image, edits)
    /\ source # NoImage => UpTo(source, edits)
    /\ \A i \in 1 .. Len(Pending) :
          /\ UpTo(Pending[i][2], edits)
          /\ \E n \in 1 .. MaxEdits : EndsWith(Pending[i][2], n)
    /\ RendersLandInOrder

LEMMA SerialsAreNumbers ==
    ASSUME NEW img \in Image
    PROVE  SerialNumbers(img) \subseteq 1 .. MaxEdits
BY DEF SerialNumbers, Image, Edit

\* The greatest serial number is the one that LastEdit chooses.
LEMMA LastEditIs ==
    ASSUME NEW img \in Image, NEW n \in 1 .. MaxEdits, EndsWith(img, n)
    PROVE  LastEdit(img) = n
<1> DEFINE P(k) == \A m \in SerialNumbers(img) : m <= k
<1>1. n \in SerialNumbers(img) /\ P(n)
  BY DEF EndsWith, UpTo
<1>2. LastEdit(img) \in SerialNumbers(img) /\ P(LastEdit(img))
  BY <1>1 DEF LastEdit
<1>3. n <= LastEdit(img) /\ LastEdit(img) <= n
  BY <1>1, <1>2
<1>4. n \in Int /\ LastEdit(img) \in Int
  BY <1>2, SerialsAreNumbers, BoundsAssumption
<1> QED
  BY <1>3, <1>4

\* A new edit is later than all that its image carries.
LEMMA EditedEndsWith ==
    ASSUME NEW img \in Image, NEW tool \in Tools, edits \in Nat, edits < MaxEdits,
           UpTo(img, edits)
    PROVE  EndsWith(Edited(img, tool), edits + 1)
<1>1. Edited(img, tool).edits = img.edits \cup {<<tool, edits + 1>>}
  BY DEF Edited
<1>2. SerialNumbers(Edited(img, tool)) = SerialNumbers(img) \cup {edits + 1}
  <2> DEFINE new == <<tool, edits + 1>>
  <2>1. new[2] = edits + 1
    OBVIOUS
  <2> HIDE DEF new
  <2>2. SerialNumbers(Edited(img, tool)) = {e[2] : e \in img.edits \cup {new}}
    BY <1>1 DEF SerialNumbers, new
  <2>3. {e[2] : e \in img.edits \cup {new}} = {e[2] : e \in img.edits} \cup {new[2]}
    OBVIOUS
  <2> QED
    BY <2>1, <2>2, <2>3 DEF SerialNumbers
<1>3. \A m \in SerialNumbers(img) : m \in Int /\ m <= edits
  BY SerialsAreNumbers, BoundsAssumption DEF UpTo
<1> QED
  BY <1>2, <1>3 DEF EndsWith, UpTo

LEMMA PendingType == HomeInv => Pending \in Seq(RenderedTools \X Image)
BY ConcatProperties DEF HomeInv, TypeOK, Pending

\* Taking renders out of the queues leaves the order of the others.
LEMMA ThinnedOrder ==
    ASSUME HomeInv, OrderInv, edits' = edits,
           NEW f, Len(Pending') \in Nat,
           \A i \in 1 .. Len(Pending') :
              f[i] \in 1 .. Len(Pending) /\ Pending'[i] = Pending[f[i]],
           \A i, j \in 1 .. Len(Pending') : i < j => f[i] < f[j],
           image' # NoImage => UpTo(image', edits),
           source' = source
    PROVE  OrderInv'
<1> USE DEF OrderInv
<1>1. \A i \in 1 .. Len(Pending') :
          /\ UpTo(Pending'[i][2], edits')
          /\ \E n \in 1 .. MaxEdits : EndsWith(Pending'[i][2], n)
  OBVIOUS
<1>2. RendersLandInOrder'
  BY DEF RendersLandInOrder
<1>3. source' # NoImage => UpTo(source', edits')
  OBVIOUS
<1>4. image' # NoImage => UpTo(image', edits')
  OBVIOUS
<1> QED
  BY <1>1, <1>2, <1>3, <1>4 DEF UpTo, EndsWith, SerialNumbers

\* Handlers that leave the queues alone.
LEMMA QueuesRest ==
    ASSUME HomeInv, OrderInv, KeepRenders,
           edits' = edits \/ edits' = edits + 1,
           image' # NoImage => UpTo(image', edits'),
           source' # NoImage => UpTo(source', edits')
    PROVE  OrderInv'
<1>1. Pending' = Pending
  BY DEF KeepRenders, Pending
<1>2. ASSUME NEW i \in 1 .. Len(Pending) PROVE UpTo(Pending[i][2], edits')
  <2>1. Pending[i][2] \in Image /\ UpTo(Pending[i][2], edits)
    BY PendingType DEF OrderInv
  <2>2. \A m \in SerialNumbers(Pending[i][2]) : m \in Int
    BY <2>1, SerialsAreNumbers, BoundsAssumption
  <2>3. edits \in Int
    BY DEF HomeInv, TypeOK
  <2> QED
    BY <2>1, <2>2, <2>3 DEF UpTo
<1>3. RendersLandInOrder'
  BY <1>1 DEF OrderInv, RendersLandInOrder
<1> QED
  BY <1>1, <1>2, <1>3 DEF OrderInv, UpTo, EndsWith, SerialNumbers

LEMMA FreshIsUpTo == \A p, n : UpTo(Fresh(p), n)
BY DEF UpTo, SerialNumbers, Fresh

LEMMA RenderedToolOrder ==
    ASSUME HomeInv, OrderInv, NEW tool \in RenderedTools, RenderedToolDidFinish(tool)
    PROVE  OrderInv'
<1> DEFINE result == Edited(source, tool)
           last == Len(Pending) + 1
<1>1. /\ presented = tool /\ edits < MaxEdits /\ edits \in Nat
      /\ rendering' = Append(rendering, <<tool, result>>)
      /\ edits' = edits + 1
      /\ UNCHANGED <<landing, source, image>>
  BY DEF RenderedToolDidFinish, On, KeepImage, HomeInv, TypeOK
<1>2. source \in Image /\ tool \in Tools
  BY <1>1 DEF HomeInv, ToolHasImage, Tools
<1>3. result \in Image
  BY <1>1, <1>2, EditedImage
<1>4. EndsWith(result, edits + 1)
  BY <1>1, <1>2, NoImageAssumption, EditedEndsWith DEF OrderInv
<1> HIDE DEF result
<1>5. edits + 1 \in 1 .. MaxEdits
  BY <1>1, BoundsAssumption
<1>6. /\ Pending \in Seq(RenderedTools \X Image)
      /\ Pending' = Append(Pending, <<tool, result>>)
  <2>1. rendering \in Seq(RenderedTools \X Image) /\ landing \in Seq(RenderedTools \X Image)
    BY DEF HomeInv, TypeOK
  <2> QED
    BY <1>1, <2>1, PendingType DEF Pending
<1>7. /\ Len(Pending) \in Nat /\ Len(Pending') = last
      /\ Pending'[last] = <<tool, result>>
      /\ \A i \in 1 .. Len(Pending) : Pending'[i] = Pending[i]
  BY <1>3, <1>6
<1>8. ASSUME NEW img \in Image, UpTo(img, edits) PROVE UpTo(img, edits')
  <2>1. \A m \in SerialNumbers(img) : m \in Int
    BY SerialsAreNumbers, BoundsAssumption
  <2> QED
    BY <1>1, <1>8, <2>1 DEF UpTo
<1>9. ASSUME NEW i \in 1 .. Len(Pending')
      PROVE  UpTo(Pending'[i][2], edits') /\ \E n \in 1 .. MaxEdits : EndsWith(Pending'[i][2], n)
  <2>1. CASE i = last
    BY <1>1, <1>4, <1>5, <1>7, <2>1 DEF EndsWith
  <2>2. CASE i # last
    <3>1. i \in 1 .. Len(Pending) /\ Pending'[i] = Pending[i] /\ Pending[i][2] \in Image
      BY <1>6, <1>7, <2>2
    <3> QED
      BY <1>8, <3>1 DEF OrderInv
  <2> QED
    BY <2>1, <2>2
<1>10. ASSUME NEW i \in 1 .. Len(Pending'), NEW j \in 1 .. Len(Pending'), i < j
       PROVE  LastEdit(Pending'[i][2]) < LastEdit(Pending'[j][2])
  <2>1. i \in 1 .. Len(Pending) /\ Pending'[i] = Pending[i] /\ Pending[i][2] \in Image
    BY <1>6, <1>7, <1>10
  <2>2. CASE j = last
    <3>1. LastEdit(Pending'[j][2]) = edits + 1
      BY <1>3, <1>4, <1>5, <1>7, <2>2, LastEditIs
    <3>2. PICK n \in 1 .. MaxEdits : EndsWith(Pending[i][2], n)
      BY <2>1 DEF OrderInv
    <3>3. LastEdit(Pending[i][2]) = n /\ n <= edits
      BY <2>1, <3>2, LastEditIs DEF OrderInv, UpTo, EndsWith
    <3> QED
      BY <1>1, <2>1, <3>1, <3>3
  <2>3. CASE j # last
    <3>1. j \in 1 .. Len(Pending) /\ Pending'[j] = Pending[j]
      BY <1>7, <2>3
    <3> QED
      BY <1>10, <2>1, <3>1 DEF OrderInv, RendersLandInOrder
  <2> QED
    BY <2>2, <2>3
<1>11. /\ image' # NoImage => UpTo(image', edits')
       /\ source' # NoImage => UpTo(source', edits')
  BY <1>1, <1>8 DEF OrderInv, HomeInv, TypeOK
<1>12. RendersLandInOrder'
  BY <1>10 DEF RendersLandInOrder
<1> QED
  BY <1>9, <1>11, <1>12 DEF OrderInv, UpTo, EndsWith, SerialNumbers

\* A render goes from one queue to the next or, when it fails, out of both.
LEMMA RenderNextOrder ==
    ASSUME HomeInv, OrderInv, RenderNext
    PROVE  OrderInv'
<1> DEFINE T == RenderedTools \X Image
           moved == Len(landing) + 1
<1>1. /\ rendering # <<>> /\ rendering' = Tail(rendering)
      /\ landing' = Append(landing, Head(rendering)) \/ landing' = landing
      /\ UNCHANGED <<image, source, edits>>
  BY DEF RenderNext, KeepImage, KeepHistory
<1>2. rendering \in Seq(T) /\ landing \in Seq(T)
  BY DEF HomeInv, TypeOK
<1> HIDE DEF T
<1>3. CASE landing' = Append(landing, Head(rendering))
  <2>1. Pending' = Pending
    BY <1>1, <1>2, <1>3 DEF Pending
  <2> QED
    BY <1>1, <2>1 DEF OrderInv, RendersLandInOrder, UpTo, EndsWith, SerialNumbers
<1>4. CASE landing' = landing
  <2> DEFINE f == [i \in 1 .. Len(Pending') |-> IF i < moved THEN i ELSE i + 1]
  <2>1. /\ Len(Pending) = Len(landing) + Len(rendering)
        /\ Len(Pending') = Len(Pending) - 1
        /\ Len(Pending') \in Nat /\ moved \in 1 .. Len(Pending)
    BY <1>1, <1>2, <1>4 DEF Pending
  <2>2. ASSUME NEW i \in 1 .. Len(Pending')
        PROVE  f[i] \in 1 .. Len(Pending) /\ Pending'[i] = Pending[f[i]]
    BY <1>1, <1>2, <1>4, <2>1 DEF Pending
  <2>3. \A i, j \in 1 .. Len(Pending') : i < j => f[i] < f[j]
    BY <1>2, <2>1
  <2> HIDE DEF f
  <2> QED
    BY <1>1, <2>1, <2>2, <2>3, ThinnedOrder DEF OrderInv
<1> QED
  BY <1>1, <1>3, <1>4

LEMMA RenderLandsOrder ==
    ASSUME HomeInv, OrderInv, RenderLands
    PROVE  OrderInv'
<1> DEFINE T == RenderedTools \X Image
           f == [i \in 1 .. Len(Pending') |-> i + 1]
<1>1. /\ landing # <<>> /\ landing' = Tail(landing)
      /\ image' = Head(landing)[2]
      /\ UNCHANGED <<rendering, source, edits>>
  BY DEF RenderLands, SetImage, KeepHistory
<1>2. rendering \in Seq(T) /\ landing \in Seq(T)
  BY DEF HomeInv, TypeOK
<1> HIDE DEF T
<1>3. /\ Len(Pending) = Len(landing) + Len(rendering) /\ Len(landing) > 0
      /\ Len(Pending') = Len(Pending) - 1 /\ Len(Pending') \in Nat
      /\ Pending[1] = Head(landing)
  BY <1>1, <1>2 DEF Pending
<1>4. ASSUME NEW i \in 1 .. Len(Pending')
      PROVE  f[i] \in 1 .. Len(Pending) /\ Pending'[i] = Pending[f[i]]
  BY <1>1, <1>2, <1>3 DEF Pending
<1>5. \A i, j \in 1 .. Len(Pending') : i < j => f[i] < f[j]
  BY <1>3
<1>6. UpTo(image', edits)
  BY <1>1, <1>2, <1>3 DEF OrderInv
<1> HIDE DEF f
<1> QED
  BY <1>1, <1>3, <1>4, <1>5, <1>6, ThinnedOrder

LEMMA InitOrderInv == Init => OrderInv
<1> SUFFICES ASSUME Init PROVE OrderInv
  OBVIOUS
<1>1. Pending = <<>>
  BY DEF Init, Pending
<1> QED
  BY <1>1 DEF Init, OrderInv, RendersLandInOrder

LEMMA NextOrderInv == HomeInv /\ OrderInv /\ [Next]_vars => OrderInv'
<1> SUFFICES ASSUME HomeInv, OrderInv, [Next]_vars PROVE OrderInv'
  OBVIOUS
<1>1. CASE \/ PhotoButtonWasPressed \/ CameraButtonWasPressed \/ DeleteButtonWasPressed
           \/ ShareButtonWasPressed \/ SaveButtonWasPressed \/ CancelScreen \/ PickerDone
           \/ CancelBehindOverlay \/ DidFinishSaving \/ UNCHANGED vars
           \/ \E screen \in {"creator", "frames"} : OpenCreator(screen)
  <2>1. KeepRenders /\ UNCHANGED <<image, source, edits>>
    BY <1>1 DEF PhotoButtonWasPressed, CameraButtonWasPressed, DeleteButtonWasPressed,
                ShareButtonWasPressed, SaveButtonWasPressed, CancelScreen, PickerDone,
                CancelBehindOverlay, DidFinishSaving, OpenCreator, KeepImage, KeepHistory,
                KeepRenders, vars
  <2> QED
    BY <2>1, QueuesRest DEF OrderInv
<1>2. ASSUME NEW tool \in Tools, OpenTool(tool) PROVE OrderInv'
  <2>1. KeepRenders /\ UNCHANGED <<image, edits>> /\ source' \in {source, image}
    BY <1>2 DEF OpenTool, KeepImage
  <2> QED
    BY <2>1, QueuesRest DEF OrderInv
<1>3. CASE DeleteConfirmed
  <2>1. KeepRenders /\ image' = NoImage /\ UNCHANGED <<source, edits>>
    BY <1>3 DEF DeleteConfirmed, SetImage, KeepHistory
  <2> QED
    BY <2>1, QueuesRest DEF OrderInv
<1>4. ASSUME NEW p \in Photos,
             CameraDidFinish(p) \/ \E screen \in {"creator", "frames"} : CreatorDidFinish(screen, p)
      PROVE  OrderInv'
  <2>1. KeepRenders /\ image' = Fresh(p) /\ UNCHANGED <<source, edits>>
    BY <1>4 DEF CameraDidFinish, CreatorDidFinish, SetImage, KeepHistory
  <2> QED
    BY <2>1, FreshIsUpTo, QueuesRest DEF OrderInv
<1>5. ASSUME NEW photos \in {<<>>} \cup {<<p>> : p \in Photos}, PickerDidFinish(photos)
      PROVE  OrderInv'
  <2>1. /\ KeepRenders /\ UNCHANGED <<source, edits>>
        /\ image' = NoImage \/ image' = Fresh(Head(photos))
    BY <1>5 DEF PickerDidFinish, SetImage, KeepHistory
  <2> QED
    BY <2>1, FreshIsUpTo, QueuesRest DEF OrderInv
<1>6. ASSUME NEW tool \in DirectTools, DirectToolDidFinish(tool) PROVE OrderInv'
  <2>1. /\ presented = tool /\ edits < MaxEdits /\ edits \in Nat /\ tool \in Tools
        /\ KeepRenders
        /\ image' = Edited(source, tool) /\ edits' = edits + 1 /\ source' = source
    BY <1>6 DEF DirectToolDidFinish, On, SetImage, HomeInv, TypeOK, Tools
  <2>2. source \in Image /\ source # NoImage
    BY <2>1, NoImageAssumption DEF HomeInv, ToolHasImage
  <2>3. UpTo(image', edits')
    BY <2>1, <2>2, EditedEndsWith DEF OrderInv, EndsWith
  <2>4. UpTo(source', edits')
    <3>1. \A m \in SerialNumbers(source) : m \in Int /\ m <= edits
      BY <2>2, SerialsAreNumbers, BoundsAssumption DEF OrderInv, UpTo
    <3> QED
      BY <2>1, <3>1 DEF UpTo
  <2> QED
    BY <2>1, <2>3, <2>4, QueuesRest
<1>7. ASSUME NEW tool \in RenderedTools, RenderedToolDidFinish(tool) PROVE OrderInv'
  BY <1>7, RenderedToolOrder
<1>8. CASE RenderNext
  BY <1>8, RenderNextOrder
<1>9. CASE RenderLands
  BY <1>9, RenderLandsOrder
<1> QED
  BY <1>1, <1>2, <1>3, <1>4, <1>5, <1>6, <1>7, <1>8, <1>9 DEF Next, User, Background

\* Renders land in the order in which their edits were finished.
THEOREM RendersKeepOrder == Spec => []RendersLandInOrder
<1>1. HomeInv /\ OrderInv /\ [Next]_vars => OrderInv'
  BY NextOrderInv
<1>2. OrderInv => RendersLandInOrder
  BY DEF OrderInv
<1> QED
  BY <1>1, <1>2, InitOrderInv, HomeInvariant, PTL DEF Spec
===============================================================================
