------------------------------ MODULE MCViewer ------------------------------
(* Constants of module Viewer for TLC. *)
EXTENDS Viewer

CONSTANTS a, p, q

MCJobTrees == <<p, q>>
=============================================================================
