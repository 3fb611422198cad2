------------------------- MODULE MCNonMaxSuppression -------------------------
(***************************************************************************)
(* A small instance of NonMaxSuppression. The first and second rectangle   *)
(* overlap by 1/3, as the second and third do; the first and third overlap *)
(* by 1/7, the threshold itself, which is not too much. The fourth has no  *)
(* area.                                                                   *)
(***************************************************************************)
EXTENDS NonMaxSuppression

MCRects ==
    {[x |-> 0, y |-> 0, width |-> 2, height |-> 2],
     [x |-> 0, y |-> 1, width |-> 2, height |-> 2],
     [x |-> 1, y |-> 1, width |-> 2, height |-> 2],
     [x |-> 0, y |-> 0, width |-> 0, height |-> 2]}
===============================================================================
