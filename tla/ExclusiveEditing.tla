--------------------------- MODULE ExclusiveEditing ---------------------------
(***************************************************************************)
(* What a canvas of movable items promises, whatever the items are: the    *)
(* user edits at most one of them at a time, only an item that is on the   *)
(* canvas can be edited, and an item that was taken off never comes back.  *)
(* The sticker canvas and the text canvas implement this specification.    *)
(***************************************************************************)
CONSTANT Items

VARIABLES
    placed,     \* items on the canvas
    edited,     \* items that show their editing handles
    used        \* items that are or were on the canvas

exclusiveVars == <<placed, edited, used>>

AtMostOne(S) == \A x, y \in S : x = y

Init ==
    /\ placed \in SUBSET Items
    /\ used = placed
    /\ edited \in SUBSET placed
    /\ AtMostOne(edited)

\* A new item lands on the canvas and takes over the editing.
Place(x) ==
    /\ x \notin used
    /\ placed' = placed \cup {x}
    /\ used' = used \cup {x}
    /\ edited' = {x}

\* The user turns to an item of the canvas, or back to the same one.
Focus(x) ==
    /\ x \in placed
    /\ edited' = {x}
    /\ UNCHANGED <<placed, used>>

Rest ==
    /\ edited' = {}
    /\ UNCHANGED <<placed, used>>

\* An item is taken off; the others stay as they are.
Remove(x) ==
    /\ x \in placed
    /\ placed' = placed \ {x}
    /\ edited' = edited \ {x}
    /\ UNCHANGED used

\* The canvas is finished: some items are dropped and no handles are left.
Finish ==
    /\ placed' \in SUBSET placed
    /\ edited' = {}
    /\ UNCHANGED used

Next ==
    \/ \E x \in Items : Place(x) \/ Focus(x) \/ Remove(x)
    \/ Rest
    \/ Finish

Spec == Init /\ [][Next]_exclusiveVars
===============================================================================
