-------------------------- MODULE MCRangeQueryLoop --------------------------
(***************************************************************************)
(* An instance of RangeQueryLoop: eleven nodes in five files.  The cell of *)
(* "in" lies in the range, "out" outside of it; "mid" lies across its      *)
(* border with children of each kind, one of which has a child in yet      *)
(* another file.                                                           *)
(***************************************************************************)
EXTENDS RangeQueryLoop

MCNodes == {"root", "in", "mid", "out", "in1", "in2", "mid1", "mid2", "mid3", "mid4", "deep"}
MCKids == [n \in MCNodes |-> CASE n = "root" -> <<"out", "in", "mid">>
                               [] n = "in"   -> <<"in1", "in2">>
                               [] n = "mid"  -> <<"mid1", "mid2", "mid3", "mid4">>
                               [] n = "mid3" -> <<"deep">>
                               [] OTHER      -> << >>]
MCFiles == {"f0", "f1", "f2", "f3", "f4"}
MCFileOf == [n \in MCNodes |-> CASE n = "root" -> "f0"
                                 [] n \in {"in", "mid", "out"} -> "f1"
                                 [] n \in {"in1", "in2"} -> "f2"
                                 [] n = "deep" -> "f4"
                                 [] OTHER -> "f3"]
MCSide == [n \in MCNodes |->
             CASE n \in {"out", "mid4"} -> "outside"
               [] n \in {"in", "in1", "in2", "mid3", "deep"} -> "inside"
               [] OTHER -> "across"]
MCStop == {"out", "in1", "in2", "mid1", "mid2", "mid4", "deep"}
MCPointIn == {"in1", "mid1"}
=============================================================================
