----------------------------- MODULE MCLRUCache -----------------------------
(***************************************************************************)
(* Instances of LRUCache for TLC.                                          *)
(***************************************************************************)
EXTENDS LRUCache

\* Addresses of list nodes are interchangeable.
Interchangeable == Permutations(Nodes)
=============================================================================
