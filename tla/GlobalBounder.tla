----------------------------- MODULE GlobalBounder -----------------------------
(***************************************************************************)
(* geoarrow_compute(op = "global_bounds"): GlobalBounder folds every       *)
(* coordinate a reader passes to it into two GenericBounders, one for XYM  *)
(* (whose third slot holds M) and one for all other dimensions, which      *)
(* release() combines into one row of xmin .. mmax.                        *)
(***************************************************************************)
EXTENDS FeatureReader, OrdinateOrder

CONSTANT NullIsEmptyOptions (* the values the "null_is_empty" option takes  *)

Slots == 0 .. 3

VARIABLES
  nullIsEmpty, (* null_is_empty_                                            *)
  xyzm,     (* bounder_xyzm_: [min, max], by slot                           *)
  xym,      (* bounder_xym_                                                 *)
  active,   (* bounder_: which of the two takes coordinates                 *)
  released, (* whether release() was called; the row is then in xyzm        *)
  seen,     (* history: the ordinates read, by kind "X" .. "M"              *)
  sawNull   (* history: whether a null feature was read                     *)

vars == <<readerVars, nullIsEmpty, xyzm, xym, active, released, seen, sawNull>>

NewBounder == [min |-> [j \in Slots |-> Infinity], max |-> [j \in Slots |-> -Infinity]]
NullBounder == [min |-> [j \in Slots |-> NaN], max |-> [j \in Slots |-> NaN]]

(* xyzm_map_: the slot of ordinate j of (x, y, z, m).                      *)
XyzmMap == [j \in Slots |-> j]
XymMap == [j \in Slots |-> CASE j = 2 -> 3 [] j = 3 -> 2 [] OTHER -> j]

AddCoord(bounder, coord) ==
  [min |-> [j \in Slots |-> IF j < Len(coord) THEN StdMin(bounder.min[j], coord[j + 1])
                                              ELSE bounder.min[j]],
   max |-> [j \in Slots |-> IF j < Len(coord) THEN StdMax(bounder.max[j], coord[j + 1])
                                              ELSE bounder.max[j]]]

(* add_bounder() on the XYZM bounder, with the XYM one.                    *)
AddBounder(bounder, other) ==
  [min |-> [j \in Slots |-> StdMin(bounder.min[XyzmMap[j]], other.min[XymMap[j]])],
   max |-> [j \in Slots |-> StdMax(bounder.max[XyzmMap[j]], other.max[XymMap[j]])]]

(* The kinds of the ordinates of a coordinate, and how many there are.     *)
Kinds(d) ==
  CASE d = "XY" -> <<"X", "Y">>
    [] d = "XYZ" -> <<"X", "Y", "Z">>
    [] d = "XYM" -> <<"X", "Y", "M">>
    [] d = "XYZM" -> <<"X", "Y", "Z", "M">>
    [] OTHER -> << >>

NewDimensionsXYMOnly(d) ==  \* (mutant) never goes back to the XYZM bounder
  active' = IF d = "XYM" THEN "xym" ELSE active

NewDimensions(d) == active' = IF d = "XYM" THEN "xym" ELSE "xyzm"

NewGlobalBounder(option) ==
  /\ nullIsEmpty = option
  /\ xyzm = NewBounder
  /\ xym = NewBounder
  /\ active = "xyzm"
  /\ released = FALSE
  /\ seen = [k \in {"X", "Y", "Z", "M"} |-> {}]
  /\ sawNull = FALSE

Init == ReaderInit /\ \E option \in NullIsEmptyOptions : NewGlobalBounder(option)

CallReadMeta ==
  \E t \in GeometryTypes \cup {Unknown}, d \in Dims \cup {Unknown} :
    /\ ReadMeta(t, d)
    /\ NewDimensions(d)
    /\ UNCHANGED <<nullIsEmpty, xyzm, xym, released, seen, sawNull>>

(* (mutant) Only the bounder in use becomes null.                          *)
CallNullFeatActiveOnly ==
  /\ NullFeat(IF nullIsEmpty THEN "CONTINUE" ELSE "ABORT")
  /\ xyzm' = IF ~nullIsEmpty /\ active = "xyzm" THEN NullBounder ELSE xyzm
  /\ xym' = IF ~nullIsEmpty /\ active = "xym" THEN NullBounder ELSE xym
  /\ sawNull' = TRUE
  /\ UNCHANGED <<nullIsEmpty, active, released, seen>>

CallNullFeat ==
  /\ NullFeat(IF nullIsEmpty THEN "CONTINUE" ELSE "ABORT")
  /\ IF nullIsEmpty THEN UNCHANGED <<xyzm, xym>>
     ELSE xyzm' = NullBounder /\ xym' = NullBounder
  /\ sawNull' = TRUE
  /\ UNCHANGED <<nullIsEmpty, active, released, seen>>

CallGeomStart ==
  \E t \in GeometryTypes \cup {Unrecognized}, sz \in -1 .. MaxParts, d \in Dims :
    /\ GeomStart(t, sz, d, "CONTINUE")
    /\ IF d = dim THEN UNCHANGED active ELSE NewDimensions(d)
    /\ UNCHANGED <<nullIsEmpty, xyzm, xym, released, seen, sawNull>>

(* coords(): one coordinate of the reader's current dimensions.            *)
CallCoords ==
  \E coord \in [1 .. Len(Kinds(dim)) -> Ordinates \cup {NaN}] :
    /\ Coords(1)
    /\ IF active = "xym" THEN xym' = AddCoord(xym, coord) /\ UNCHANGED xyzm
       ELSE xyzm' = AddCoord(xyzm, coord) /\ UNCHANGED xym
    /\ seen' = [k \in DOMAIN seen |->
                  seen[k] \cup {coord[i] : i \in {j \in DOMAIN coord : Kinds(dim)[j] = k}}]
    /\ UNCHANGED <<nullIsEmpty, active, released, sawNull>>

(* The calls whose methods GlobalBounder does not override.                *)
CallOther ==
  /\ \/ FeatStart
     \/ \E sz \in -1 .. MaxParts : RingStart(sz)
     \/ RingEnd
     \/ GeomEnd
     \/ FeatEnd
     \/ ReadDone
  /\ UNCHANGED <<nullIsEmpty, xyzm, xym, active, released, seen, sawNull>>

Release ==
  /\ phase = "read"
  /\ ~released
  /\ released' = TRUE
  /\ xyzm' = AddBounder(xyzm, xym)
  /\ UNCHANGED <<readerVars, nullIsEmpty, xym, active, seen, sawNull>>

Next ==
  \/ CallReadMeta
  \/ CallNullFeat
  \/ CallGeomStart
  \/ CallCoords
  \/ CallOther
  \/ Release

Spec == Init /\ [][Next]_vars

(***************************************************************************)
(* Properties                                                              *)
(***************************************************************************)

(* The row a release produces is the bounding box of all coordinates read, *)
(* by kind of ordinate: an M is never taken for a Z however the dimensions *)
(* alternate between features, an ordinate that never occurs is            *)
(* (Infinity, -Infinity), and a NaN ordinate does not count.               *)
KindOf == <<"X", "Y", "Z", "M">>

IsBoundOf(min, max, values) ==
  IF values = {} THEN min = Infinity /\ max = -Infinity
  ELSE /\ {min, max} \subseteq values
       /\ \A v \in values : min <= v /\ v <= max

ReleasedIsBox ==
  released /\ (sawNull => nullIsEmpty) =>
    \A j \in Slots : IsBoundOf(xyzm.min[j], xyzm.max[j], seen[KindOf[j + 1]] \ {NaN})

(* The row is NaN throughout exactly if a null feature was read and nulls  *)
(* do not count as empty, whatever dimensions came before the null.        *)
RowNullIffNull == released => (xyzm = NullBounder <=> sawNull /\ ~nullIsEmpty)
==============================================================================
