---------------------------- MODULE MCArrayRelease ----------------------------
(***************************************************************************)
(* A tree with what the builders of the package have: a struct of several  *)
(* children (global bounds), and lists of lists down to the builder that   *)
(* may refuse (points).                                                    *)
(***************************************************************************)
EXTENDS ArrayRelease

Tree ==
  [n \in {"root", "left", "right", "points"} |->
     CASE n = "root" -> <<"left", "right">>
       [] n = "right" -> <<"points">>
       [] OTHER -> << >>]
==============================================================================
