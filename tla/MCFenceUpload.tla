--------------------------- MODULE MCFenceUpload ----------------------------
(***************************************************************************)
(* FenceUpload with few items: a circle, a return point, a vertex of a      *)
(* triangle, and an item of another kind.                                  *)
(***************************************************************************)
EXTENDS FenceUpload

Item(type, n, loc) == [type |-> type, n |-> n, loc |-> loc, valid |-> TRUE]

MCItems ==
    {Item("circle", 0, 1), Item("return", 0, 1), Item("inclusion", 3, 1), Item("other", 0, 1)}
=============================================================================
