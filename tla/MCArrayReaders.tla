--------------------------- MODULE MCArrayReaders ---------------------------
(***************************************************************************)
(* Small values for the constants of ArrayReaders.                         *)
(***************************************************************************)
EXTENDS ArrayReaders

MCPlainTypes == {"POINT", "LINESTRING", "MULTIPOINT", "MULTIPOLYGON"}

(* Offsets that start at and after 0, with elements of 0 to 2 parts.       *)
MCListOffsets == {<<0, 2, 3>>, <<1, 1, 3>>, <<0, 0, 2, 3>>}

(* ISO and EWKB dimensions, together and apart, in both byte orders.       *)
Flags(z, m, iso, srid, swap) == [z |-> z, m |-> m, iso |-> iso, srid |-> srid, swap |-> swap]
MCHeaderFlags ==
  {Flags(FALSE, FALSE, 0, FALSE, FALSE), Flags(FALSE, FALSE, 0, TRUE, TRUE),
   Flags(FALSE, FALSE, 1, FALSE, FALSE), Flags(TRUE, FALSE, 2, FALSE, TRUE),
   Flags(FALSE, TRUE, 0, FALSE, FALSE)}

(* Whole arrays, and for each kind of filter one with every case.          *)
MCFilters ==
  {All,
   [kind |-> "logical", values |-> <<1, NA>>],
   [kind |-> "logical", values |-> <<0, 1>>],
   [kind |-> "integer", values |-> <<2, 0>>],
   [kind |-> "integer", values |-> <<3, 1>>],
   [kind |-> "real", values |-> <<3, 5>>],
   [kind |-> "real", values |-> <<1, 4>>]}

(* The schemas of the format, composed level by level from points up.      *)
AroundAny(exts, schemas) == {Around(e, s) : e \in exts, s \in schemas}
Points ==
  {<<Level("+w", DimLength[x], "", e), Level("g", 0, x, "")>> :
     e \in Prefixed.Point, x \in DOMAIN DimLength}
Lines == AroundAny(Prefixed.Linestring, Points)
Rings == AroundAny({"", "other", "geoarrow.wkb", "geoarrow.wkt"}, Points) \cup Lines
Polygons == AroundAny(Prefixed.Polygon, Rings)
Collections ==
  AroundAny(UNION {Prefixed[e] : e \in Collecting}, Points \cup Lines \cup Polygons)
Serialized ==
  {<<Level(f, w, "", "geoarrow.wkb")>> : f \in {"z", "Z", "w"}, w \in 2 .. 5}
    \cup {<<Level(f, 0, "", "geoarrow.wkt")>> : f \in {"z", "Z", "u", "U"}}
Grammar == Points \cup Lines \cup Polygons \cup Collections \cup Serialized

(* The schemas of the format, and those that differ from one of them in a  *)
(* level: replaced by another, or with children missing or added.          *)
OtherLevels ==
  {Level(f, w, "", e) : f \in {"+w", "+l", "+L", "w", "z", "g"}, w \in {0, 2, 3},
                        e \in {"", "geoarrow.linestring", "geoarrow.point", "geoarrow.wkb",
                              "geoarrow.multipoint"}}

Cut(s) == LET ends == {i \in 1 .. Len(s) : s[i].kids = 0 \/ i = Len(s)}
              end == CHOOSE i \in ends : \A j \in ends : i <= j
          IN [i \in 1 .. end |-> IF i = end THEN [s[i] EXCEPT !.kids = 0] ELSE s[i]]

Base ==
  {Written(t, d, FALSE) : t \in {"POINT", "LINESTRING", "POLYGON", "MULTIPOINT",
     "MULTILINESTRING", "MULTIPOLYGON", "WKB", "WKT"}, d \in {"XY", "XYZ"}}

MCFrom ==
  Grammar
    \cup {Cut([s EXCEPT ![i] = l]) : <<s, i, l>> \in
             {x \in Base \X (1 .. 4) \X OtherLevels : x[2] <= Len(x[1])}}
    \cup {[s EXCEPT ![1].kids = 2] : s \in {b \in Base : Len(b) > 1}}

MCTo == Grammar
==============================================================================
