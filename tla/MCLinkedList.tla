---------------------------- MODULE MCLinkedList ----------------------------
(***************************************************************************)
(* Instances of LinkedList for TLC.                                        *)
(***************************************************************************)
EXTENDS LinkedList

\* Addresses of nodes are interchangeable, and so are the lists.
Interchangeable == Permutations(Nodes) \cup Permutations(Lists)
=============================================================================
