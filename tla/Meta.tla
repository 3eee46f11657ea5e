-------------------------------- MODULE Meta --------------------------------
(***************************************************************************)
(* What a schema means: Meta (meta.hpp) reads the Arrow format and the     *)
(* extension name of every level, create_view (factory.hpp) picks the      *)
(* reader, create_builder (compute-factory.hpp) the builder, and the       *)
(* builders write schemas of their own or, when strict, compare with the   *)
(* requested one and return a copy of that.                                *)
(*                                                                         *)
(* No schema of the library branches, so a schema is a sequence of levels, *)
(* outermost first: [format, width, name, ext, kids], with kids the number *)
(* of children it claims; level i + 1 is the first child of level i.       *)
(***************************************************************************)
EXTENDS Integers, Sequences, TLC

(* A name or an extension that is not there.                               *)
Unnamed == ""

(* Formats that have children; a schema has the children it claims.        *)
Nested == {"+w", "+l", "+L", "+s"}
IsSchema(s) ==
  /\ s # << >> /\ s \in Seq({s[i] : i \in DOMAIN s})
  /\ \A i \in 1 .. Len(s) : s[i].kids \in Nat /\ (s[i].kids > 0 <=> i < Len(s))

Level(format, width, name, ext) ==
  [format |-> format, name |-> name, ext |-> ext,
   width |-> IF format \in {"+w", "w"} THEN width ELSE 0,
   kids |-> IF format \in Nested THEN 1 ELSE 0]

(* Extension names are compared by prefix; all that begins like            *)
(* geoarrow.geometry, 14 characters of which are compared, is a collection.*)
Prefixed ==
  [Point |-> {"geoarrow.point", "geoarrow.point2"},
   Linestring |-> {"geoarrow.linestring"},
   Polygon |-> {"geoarrow.polygon"},
   MultiPoint |-> {"geoarrow.multipoint"},
   MultiLinestring |-> {"geoarrow.multilinestring"},
   MultiPolygon |-> {"geoarrow.multipolygon"},
   GeometryCollection |-> {"geoarrow.geometrycollection", "geoarrow.geometry"},
   WKB |-> {"geoarrow.wkb"},
   WKT |-> {"geoarrow.wkt"}]

(* Meta::walk_metadata().                                                  *)
Extension(n) ==
  IF n.ext = Unnamed THEN "None"
  ELSE LET known == {e \in DOMAIN Prefixed : n.ext \in Prefixed[e]}
       IN IF known = {} THEN "Other" ELSE CHOOSE e \in known : TRUE

(* strncpy(dim_, name, 4) and dimensions_from_dim().                       *)
DimNames == [xy |-> "XY", xyz |-> "XYZ", xym |-> "XYM", xyzm |-> "XYZM", xyzmt |-> "XYZM"]
DimLength == [xy |-> 2, xyz |-> 3, xym |-> 3, xyzm |-> 4, xyzmt |-> 4, ab |-> 2, item |-> 4]
NameLength(name) == IF name \in DOMAIN DimLength THEN DimLength[name] ELSE 0
DimOf(name) == IF name \in DOMAIN DimNames THEN DimNames[name] ELSE "UNKNOWN"

Invalid == [ext |-> "Invalid", type |-> "UNKNOWN", dim |-> "UNKNOWN"]
Valid(ext, type, dim) == [ext |-> ext, type |-> type, dim |-> dim]
MultiOf == [Point |-> "MULTIPOINT", Linestring |-> "MULTILINESTRING", Polygon |-> "MULTIPOLYGON"]

(* (mutant) Binaries may have no width.                                    *)
ContainerValidAnyWidth(n) ==
  /\ n.format \in {"+w", "+l", "+L"} => n.kids = 1
  /\ n.format = "+w" => n.width > 0

ContainerValid(n) ==
  /\ n.format \in {"+w", "+l", "+L"} => n.kids = 1
  /\ n.format \in {"+w", "w"} => n.width > 0

(* Extensions that say nothing of the levels below, and those of which the *)
(* child says the type.                                                    *)
Plain == {"None", "Other", "WKB", "WKT"}
Collecting == {"MultiPoint", "MultiLinestring", "MultiPolygon", "GeometryCollection"}

(* Meta::set_schema() and Meta::schema_valid() of level i, given m of the  *)
(* levels below. A wrong storage type of WKB and WKT is an error message,  *)
(* but still valid.                                                        *)
LevelMeta(s, m, i) ==
  LET n == s[i]
      ext == Extension(n)
      child == IF n.kids = 0 THEN Invalid ELSE m[i + 1]
      list == n.format = "+l" /\ child # Invalid
      point == /\ n.format = "+w" /\ n.width = NameLength(s[i + 1].name)
               /\ child # Invalid /\ s[i + 1].format = "g"
      ring == list /\ s[i + 1].format = "+l"
  IN IF ~ContainerValid(n) THEN Invalid
     ELSE IF ext \in Plain THEN Valid(ext, "UNKNOWN", "UNKNOWN")
     ELSE IF ext = "Point" /\ point THEN Valid(ext, "POINT", DimOf(s[i + 1].name))
     ELSE IF ext = "Linestring" /\ list /\ child.ext = "Point"
          THEN Valid(ext, "LINESTRING", child.dim)
     ELSE IF ext = "Polygon" /\ ring /\ m[i + 2].ext = "Point"
          THEN Valid(ext, "POLYGON", m[i + 2].dim)
     ELSE IF ext \in Collecting /\ list /\ child.ext \in DOMAIN MultiOf
          THEN Valid(ext, MultiOf[child.ext], child.dim)
     ELSE Invalid

Metas(s) == LET m[i \in 1 .. Len(s)] == LevelMeta(s, m, i) IN m
MetaOf(s) == Metas(s)[1]

(* create_view(): which reader, or "none" where it throws.                 *)
ReaderOf(s) ==
  LET m == MetaOf(s) IN
  IF m.ext = "WKB" /\ s[1].format \in {"z", "Z", "w"} THEN "wkb"
  ELSE IF m.ext = "WKT" /\ s[1].format \in {"z", "u", "Z", "U"} THEN "wkt"
  ELSE IF m.ext \in {"Invalid", "None", "Other", "WKB", "WKT"} THEN "none"
  ELSE "native"

(* create_builder("cast"): the type cast to, or "none" where it throws.    *)
CastTarget(s) ==
  LET m == MetaOf(s)
      types == [Point |-> "POINT", Linestring |-> "LINESTRING", Polygon |-> "POLYGON",
                MultiPoint |-> "MULTIPOINT", MultiLinestring |-> "MULTILINESTRING",
                MultiPolygon |-> "MULTIPOLYGON", WKB |-> "WKB", WKT |-> "WKT"]
  IN IF m.ext \in DOMAIN types THEN types[m.ext] ELSE "none"

(* The schemas the builders' release() methods write.                      *)
WrittenPoint(d) ==
  LET name == CHOOSE x \in {"xy", "xyz", "xym", "xyzm"} : DimOf(x) = d
  IN <<Level("+w", DimLength[name], Unnamed, "geoarrow.point"), Level("g", 0, name, Unnamed)>>

Around(ext, s) == <<Level("+l", 0, Unnamed, ext)>> \o s
WrittenLine(d) == Around("geoarrow.linestring", WrittenPoint(d))
WrittenPolygon(d) == Around("geoarrow.polygon", Around(Unnamed, WrittenPoint(d)))

Written(t, d, large) ==
  CASE t = "POINT" -> WrittenPoint(d)
    [] t = "LINESTRING" -> WrittenLine(d)
    [] t = "POLYGON" -> WrittenPolygon(d)
    [] t = "MULTIPOINT" -> Around("geoarrow.multipoint", WrittenPoint(d))
    [] t = "MULTILINESTRING" -> Around("geoarrow.multilinestring", WrittenLine(d))
    [] t = "MULTIPOLYGON" -> Around("geoarrow.multipolygon", WrittenPolygon(d))
    [] t = "WKB" -> <<Level(IF large THEN "Z" ELSE "z", 0, Unnamed, "geoarrow.wkb")>>
    [] t = "WKT" -> <<Level(IF large THEN "U" ELSE "u", 0, Unnamed, "geoarrow.wkt")>>

(* (mutant) The width is not compared.                                     *)
FormatIdenticalAnyWidth(s, t) ==
  /\ Len(s) = Len(t)
  /\ \A i \in 1 .. Len(s) :
       /\ s[i].format = t[i].format /\ s[i].ext = t[i].ext
       /\ s[i].kids = t[i].kids

(* schema_format_identical(): formats (the width is part of it), extension *)
(* names and numbers of children, but not the names.                       *)
FormatIdentical(s, t) ==
  /\ Len(s) = Len(t)
  /\ \A i \in 1 .. Len(s) :
       /\ s[i].format = t[i].format /\ s[i].width = t[i].width
       /\ s[i].ext = t[i].ext
       /\ s[i].kids = t[i].kids
==============================================================================
