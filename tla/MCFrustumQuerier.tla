-------------------------- MODULE MCFrustumQuerier --------------------------
(***************************************************************************)
(* Instances of FrustumQuerier: a tree of six cells on 3 levels and one of *)
(* a single cell, seen from two cameras.  From "near" all of it is large   *)
(* and the child b1 is out of view; from "far" all of it is small until    *)
(* the correction is lowered, and the child a1 is out of view.  The cell   *)
(* cache may have dropped a parent and still hold its children.            *)
(***************************************************************************)
EXTENDS FrustumQuerier

MCCells == {"s", "r", "a", "b", "a1", "b1", "b2"}
MCViews == {"near", "far"}
MCRoots == <<"r", "s">>
MCKids == [c \in MCCells |-> CASE c = "r" -> <<"a", "b">>
                               [] c = "a" -> <<"a1">>
                               [] c = "b" -> <<"b2", "b1">>
                               [] OTHER   -> << >>]
MCInFrustum ==
  [v \in MCViews |->
     [c \in MCCells |->
        IF v = "near"
        THEN CASE c \in {"r", "b"} -> 0 [] c = "b1" -> -1 [] OTHER -> 1
        ELSE CASE c \in {"r", "a"} -> 0 [] c = "a1" -> -1 [] OTHER -> 1]]
MCDetail ==
  [v \in MCViews |->
     [c \in MCCells |->
        IF v = "near" THEN (CASE c = "r" -> 3 [] c \in {"a", "b"} -> 1 [] OTHER -> 0)
        ELSE 0]]
MCMinLevel == -1
=============================================================================
