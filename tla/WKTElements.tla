------------------------------- MODULE WKTElements -------------------------------
(***************************************************************************)
(* The elements of a WKT array: an ordinate is written, and read back, in  *)
(* front of the validity bits that finish_element() writes, one for each   *)
(* feature.                                                                *)
(***************************************************************************)
EXTENDS BitmapBuilder, NumberText

elementVars == <<bitmapVars, numberVars>>

(* Ordinates of finite numbers of either sign, infinities and a NaN.       *)
AllNumbers == {f \in Floats : f.exponent = MaxExponent => f.mantissa \in {0, 1}}

(* Short texts with any exponent, and long ones about halfway between two  *)
(* numbers, about the largest and about the smallest.                      *)
AllNumerals ==
  {<<n, e>> : n \in 0 .. 130, e \in -10 .. 5}
    \cup {<<n, 0>> : n \in (34200 .. 34400) \cup (64900 .. 65100)}
    \cup {<<n, -1>> : n \in 1100 .. 1300}
    \cup {<<n, -9>> : n \in {476, 477, 4768, 4769, 47683, 47684, 61035, 61036}}

ElementInit == BitmapInit /\ NumberInit

(* The ordinates of the first element stand for those of all.              *)
OrdinateStep == length = 0 /\ ~released /\ NumberNext /\ UNCHANGED bitmapVars

(* feat_end(), null_feat() and the calls of the buffers.                   *)
BitsStep ==
  /\ text = None \/ value # None
  /\ BitmapNext
  /\ number' = None
  /\ text' = None
  /\ power' = 0
  /\ value' = None
  /\ UNCHANGED precision

ElementNext == OrdinateStep \/ BitsStep

ElementSpec == ElementInit /\ [][ElementNext]_elementVars
==============================================================================
