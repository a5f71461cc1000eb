------------------------------ MODULE MCRelease ------------------------------
(***************************************************************************)
(* Instances of Release for TLC.                                           *)
(***************************************************************************)
EXTENDS Release

(* The 5m window is as it is; the others are cut short, in their order. *)
CutWindows ==
  [w \in {"5m", "30m", "1h", "2h", "6h", "1d", "3d"} |->
     CASE w = "5m" -> 10 [] w = "30m" -> 11 [] w \in {"1h", "2h", "6h"} -> 12
       [] OTHER -> 13]
=============================================================================
