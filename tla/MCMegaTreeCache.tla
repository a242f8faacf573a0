-------------------------- MODULE MCMegaTreeCache --------------------------
(***************************************************************************)
(* Instances of MegaTreeCache for TLC.                                     *)
(***************************************************************************)
EXTENDS MegaTreeCache

CONSTANTS r, a, b

\* The file tree of an instance: every file is a child of the root file.
StarParent == [i \in Ids |-> Root]

\* NodeFile addresses and storage threads are interchangeable.
Interchangeable == Permutations(Files) \cup Permutations(Threads)
                   \cup Permutations(Handles)
=============================================================================
